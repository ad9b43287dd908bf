------------------------- MODULE MetaCacheFs_proofs -------------------------
(***************************************************************************)
(* Proofs of the safety properties of module MetaCacheFs for any number of *)
(* users and refreshing threads, any set of keys, times to live, trees and *)
(* changes.                                                                *)
(*                                                                         *)
(* The first invariant says of every entry that it is what the inner file  *)
(* system answers, but for the sizes of directories changed since, or that *)
(* an invalidation which covers it is still to be made, or that it is      *)
(* excused (Seen); and the same of every result on its way into the cache  *)
(* (InFlight).  What makes it inductive is that the invalidations a change *)
(* makes cover every key whose answer the change affects in more than the  *)
(* size of the directory it works in, except behind a link                 *)
(* (InvalidationsSuffice): a fact about the operations on trees.           *)
(*                                                                         *)
(* The second, RefreshInv, says that a mark of refreshing belongs to a     *)
(* thread at work on the key; set_cached with caching off is the one step  *)
(* that leaves a mark behind, so it needs that with caching off nothing    *)
(* was ever stored (Off).                                                  *)
(***************************************************************************)
EXTENDS MetaCacheFs, FileTree_proofs

(* Answers that agree but for the sizes in P, and in Q. *)
LEMMA AgreeTrans ==
  ASSUME NEW a, NEW b, NEW c, NEW P, NEW Q, Agree(a, b, P), Agree(b, c, Q)
  PROVE  Agree(a, c, P \cup Q)
<1>1. a.error = c.error /\ a.nodes = c.nodes
  BY DEF Agree
<1>2. ASSUME NEW z, z[1] \notin P \cup Q PROVE z \in a.sizes <=> z \in c.sizes
  BY <1>2 DEF Agree
<1> QED BY <1>1, <1>2 DEF Agree

(* The metadata of paths whose nodes are the same, and whose entries are but in P. *)
LEMMA ShowsAgree ==
  ASSUME NEW t, NEW s, NEW S, NEW P, \A q \in S : Node(s, q) = Node(t, q),
         \A q \in S : q \in P \/ Children(s, q) = Children(t, q)
  PROVE  Agree(Shows(s, S), Shows(t, S), P)
<1> DEFINE N(v) == {<<q, Node(v, q)>> : q \in S}
           Z(v) == {<<q, Size(v, q)>> : q \in {r \in S : is_dir(v, r)}}
<1>1. N(s) = N(t)
  OBVIOUS
<1>2. ASSUME NEW z, z[1] \notin P PROVE z \in Z(s) <=> z \in Z(t)
  <2>1. ASSUME NEW q \in S, q \notin P PROVE Size(s, q) = Size(t, q) /\ (is_dir(s, q) <=> is_dir(t, q))
    BY <2>1 DEF Size, is_dir
  <2>2. ASSUME NEW q PROVE <<q, Size(s, q)>>[1] = q /\ <<q, Size(t, q)>>[1] = q
    OBVIOUS
  <2> QED BY <1>2, <2>1, <2>2
<1>3. {z \in Z(s) : z[1] \notin P} = {z \in Z(t) : z[1] \notin P}
  <2> HIDE DEF Z
  <2> QED BY <1>2
<1>4. \A v : Shows(v, S).error = FALSE /\ Shows(v, S).nodes = N(v) /\ Shows(v, S).sizes = Z(v)
  BY DEF Shows
<1> HIDE DEF N, Z
<1> QED BY <1>1, <1>3, <1>4 DEF Agree

(* An answer depends on the node at the path, on the path's children for a listing, on  *)
(* the target of a link, and on the number of entries of the directories it shows: on   *)
(* none of the nodes in T, but for the sizes of the directories in P.                   *)
LEMMA Unaffected ==
  ASSUME NEW t, NEW s, IsTyped(t), IsTyped(s), NEW k \in Keys, NEW T, NEW P,
         \A q \in Paths \cup {<<>>} : q \notin T => Node(s, q) = Node(t, q),
         \A q \in Paths : q \in T => parent_path(q) \in T \cup P,
         k.path \notin T,
         k.kind = "read_dir" => \A q \in Paths : parent_path(q) = k.path => q \notin T,
         k.kind = "lstat" \/ Followed(t, k.path) = k.path \/ Followed(s, k.path) = k.path
  PROVE  Agree(Answer(s, k), Answer(t, k), P)
<1>1. k.path \in Paths \cup {<<>>} /\ k.kind \in {"stat", "lstat", "read_dir"}
  BY KeysAreTyped
<1>2. Node(s, k.path) = Node(t, k.path)
  BY <1>1
<1>3. k.kind # "lstat" => Followed(t, k.path) = k.path /\ Followed(s, k.path) = k.path
  BY <1>2 DEF Followed
<1>4. ASSUME NEW q, \A r \in Paths : parent_path(r) = q => r \notin T
      PROVE  Children(s, q) = Children(t, q)
  <2>1. ASSUME NEW r \in Paths, parent_path(r) = q PROVE r \in DOMAIN s <=> r \in DOMAIN t
    <3>1. Node(s, r) = Node(t, r) /\ r # <<>>
      BY <1>4, <2>1, PathsAreNames
    <3> QED BY <3>1, DataIsNotDir DEF Node, IsTyped, Dir, Absent
  <2> QED BY <2>1 DEF Children, IsTyped
<1>5. ASSUME NEW q, q \notin T PROVE q \in P \/ Children(s, q) = Children(t, q)
  BY <1>4, <1>5
<1>6. Agree(Error, Error, P)
  BY DEF Agree
<1>7. CASE k.kind \in {"stat", "lstat"}
  <2>1. Agree(Shows(s, {k.path}), Shows(t, {k.path}), P)
    BY <1>2, <1>5, ShowsAgree
  <2>2. \A v \in {s, t} : Answer(v, k) = IF exists(v, k.path) /\ (k.kind = "stat" => Node(v, k.path) # Link)
                                         THEN Shows(v, {k.path}) ELSE Error
    BY <1>3, <1>7 DEF Answer
  <2>3. exists(s, k.path) <=> exists(t, k.path)
    BY <1>2 DEF exists
  <2> QED BY <1>2, <1>6, <2>1, <2>2, <2>3
<1>8. CASE k.kind = "read_dir"
  <2> DEFINE S == Children(t, k.path)
  <2>1. Children(s, k.path) = S
    BY <1>4, <1>8
  <2>2. \A q \in S : q \in Paths /\ q \notin T
    BY <1>8 DEF Children, IsTyped
  <2> HIDE DEF S
  <2>3. Agree(Shows(s, S), Shows(t, S), P)
    BY <1>5, <2>2, ShowsAgree
  <2>4. \A v \in {s, t} : Answer(v, k) = IF is_dir(v, k.path) THEN Shows(v, S) ELSE Error
    BY <1>3, <1>8, <2>1 DEF Answer, S
  <2>5. is_dir(s, k.path) <=> is_dir(t, k.path)
    BY <1>2 DEF is_dir
  <2> QED BY <1>6, <2>3, <2>4, <2>5
<1> QED BY <1>1, <1>7, <1>8

(* The parent of a path is a path or the root. *)
LEMMA ParentIn ==
  ASSUME NEW q \in Paths
  PROVE  parent_path(q) \in Paths \cup {<<>>}
<1>1. q \in Seq(Nat) /\ q # <<>>
  BY PathsAreNames
<1>2. CASE Len(q) # 1
  BY <1>2, PathsAreClosed DEF parent_path
<1>3. CASE Len(q) = 1
  BY <1>1, <1>3 DEF parent_path, Front
<1> QED BY <1>2, <1>3

(* One of the invalidations covers the key. *)
CoveredBy(todo, k) == \E i \in DOMAIN todo : Covers(todo[i], k)

(* A change leaves a tree. *)
LEMMA ResultTyped ==
  ASSUME IsTyped(inner), NEW m \in Mutations, Possible(m)
  PROVE  IsTyped(Result(m))
<1>1. m.path \in Paths /\ m.path \in Seq(Nat)
  BY MutationsAreTyped, PathsAreNames
<1>2. CASE m.op \in {"create", "symlink", "mkdir"}
  <2>1. m.node \in Data \cup {Dir}
    BY <1>2, MutationsAreTyped, LinkIsALeaf
  <2> QED BY <1>1, <1>2, <2>1, PutTyped DEF Result
<1>6. CASE m.op = "link"
  <2>1. m.path2 \in DOMAIN inner
    BY <1>6, MutationsAreTyped, PathsAreNames DEF Possible, is_leaf, exists, Node
  <2> QED BY <1>1, <1>6, <2>1, PutTyped DEF Result, IsTyped
<1>3. CASE m.op \in {"chmod", "write"}
  BY <1>3, MutationsAreTyped DEF Result, Altered, IsTyped
<1>4. CASE m.op = "remove"
  BY <1>4, RemoveTyped DEF Result
<1>5. CASE m.op = "rename"
  <2>1. m.path2 \in Seq(Nat)
    BY <1>5, MutationsAreTyped, PathsAreNames
  <2>2. Moved(inner, m.path, m.path2) \subseteq Paths
    BY <1>5 DEF Possible, CanRename
  <2> QED BY <1>1, <1>5, <2>1, <2>2, RenameTyped DEF Result
<1> QED BY <1>2, <1>3, <1>4, <1>5, <1>6, MutationsAreTyped

(* The invalidations of a change cover every key whose answer it affects in more than *)
(* the size of a directory it works in, unless the key shows another name.            *)
LEMMA InvalidationsSuffice ==
  ASSUME IsTyped(inner), NEW m \in Mutations, Possible(m), inner' = Result(m), NEW k \in Keys
  PROVE  CoveredBy(Invalidations(m), k) \/ BehindLink(m, k) \/ Agree(Answer(inner', k), Answer(inner, k), Parents(m))
<1> SUFFICES ASSUME ~CoveredBy(Invalidations(m), k), ~BehindLink(m, k), Answer(inner', k) # Answer(inner, k)
             PROVE  Agree(Answer(inner', k), Answer(inner, k), Parents(m))
  BY DEF Agree
<1> DEFINE s == Result(m)
<1>0. IsTyped(s) /\ inner' = s
  BY ResultTyped
<1> HIDE DEF s
<1>1. m.path \in Paths /\ m.path \in Seq(Nat) /\ k.path \in Paths \cup {<<>>} /\ k.path \in Seq(Nat)
  BY MutationsAreTyped, KeysAreTyped, PathsAreNames, EmptySeq
<1>2. k.path # m.path => k.kind = "lstat" \/ Followed(inner, k.path) = k.path \/ Followed(s, k.path) = k.path
  BY <1>0 DEF BehindLink
<1>3. ASSUME NEW T, k.path # m.path,
             \A q \in Paths \cup {<<>>} : q \notin T => Node(s, q) = Node(inner, q),
             \A q \in Paths : q \in T => parent_path(q) \in T \cup Parents(m),
             k.path \notin T,
             k.kind = "read_dir" => \A q \in Paths : parent_path(q) = k.path => q \notin T
      PROVE  Agree(Answer(inner', k), Answer(inner, k), Parents(m))
  BY <1>0, <1>2, <1>3, Unaffected
<1>4. ASSUME m.op \in {"create", "symlink", "mkdir", "link", "chmod", "write"}
      PROVE  k.path # m.path /\ ~(k.path = parent_path(m.path) /\ k.kind = "read_dir")
  <2>1. Invalidations(m) = <<exact(m.path), listing(m.path)>>
    BY <1>4 DEF Invalidations
  <2>2. ~Covers(exact(m.path), k) /\ ~Covers(listing(m.path), k)
    BY <2>1 DEF CoveredBy
  <2> QED BY <2>2 DEF Covers, exact, listing
<1>7. CASE m.op \in {"create", "symlink", "mkdir", "link"}
  <2>1. PICK node : s = Put(inner, m.path, node)
    BY <1>7 DEF Result, s
  <2>2. parent_path(m.path) \in Parents(m)
    BY <1>7 DEF Parents
  <2> DEFINE T == {m.path}
  <2>3. \A q \in Paths \cup {<<>>} : q \notin T => Node(s, q) = Node(inner, q)
    BY <2>1, PutIs
  <2>4. \A q \in Paths : q \in T => parent_path(q) \in T \cup Parents(m)
    BY <2>2
  <2>5. k.path \notin T /\ (k.kind = "read_dir" => \A q \in Paths : parent_path(q) = k.path => q \notin T)
    BY <1>4, <1>7
  <2> HIDE DEF T
  <2> QED BY <1>3, <1>4, <1>7, <2>3, <2>4, <2>5
<1>8. CASE m.op \in {"chmod", "write"}
  <2> DEFINE old == Node(inner, Followed(inner, m.path))
  <2>1. m.node # Link /\ old # Link /\ m.node \in Data
    BY <1>8, MutationsAreTyped DEF Possible
  <2>2. \A q \in Paths \cup {<<>>} : Node(s, q) = Node(inner, q) \/ (Node(s, q) = m.node /\ Node(inner, q) = old)
    BY <1>8 DEF Result, s, Altered, Node
  <2> HIDE DEF old
  <2>3. k.kind = "lstat" \/ (Followed(inner, k.path) = k.path /\ Followed(s, k.path) = k.path)
    BY <1>1, <1>2, <1>4, <1>8, <2>1, <2>2 DEF Followed
  <2>4. ASSUME NEW v \in {inner, s} PROVE At(Answer(v, k), m.path) = {}
    <3>1. PICK S : m.path \notin S /\ Answer(v, k) \in {Error, Shows(v, S)}
      <4>1. CASE k.kind \in {"stat", "lstat"}
        <5>1. m.path \notin {k.path}
          BY <1>4, <1>8
        <5> QED BY <2>3, <4>1, <5>1 DEF Answer
      <4>2. CASE k.kind = "read_dir"
        <5>1. m.path \notin Children(v, k.path)
          BY <1>4, <1>8, <4>2 DEF Children
        <5> QED BY <2>3, <4>2, <5>1 DEF Answer
      <4> QED BY <4>1, <4>2, KeysAreTyped
    <3>2. At(Error, m.path) = {}
      BY DEF At, Error
    <3>3. At(Shows(v, S), m.path) = {}
      BY <3>1 DEF At, Shows
    <3> QED BY <3>1, <3>2, <3>3
  <2>5. At(Answer(inner', k), m.path) = At(Answer(inner, k), m.path)
    BY <1>0, <2>4
  <2> QED BY <1>4, <1>8, <2>5 DEF BehindLink
<1>5. CASE m.op = "remove"
  <2>1. Invalidations(m) = <<below(m.path), listing(m.path)>>
    BY <1>5 DEF Invalidations
  <2>2. ~Covers(below(m.path), k) /\ ~Covers(listing(m.path), k)
    BY <2>1 DEF CoveredBy
  <2>3. ~path_contains(m.path, k.path) /\ ~(k.path = parent_path(m.path) /\ k.kind = "read_dir")
    BY <2>2 DEF Covers, below, listing
  <2>4. s = remove_all(inner, m.path)
    BY <1>5 DEF Result, s
  <2> DEFINE T == {q \in Paths \cup {<<>>} : path_contains(m.path, q)}
  <2>5. \A q \in Paths \cup {<<>>} : q \notin T => Node(s, q) = Node(inner, q)
    BY <2>4, RemoveIs
  <2>6. ASSUME k.kind = "read_dir", NEW q \in Paths, parent_path(q) = k.path, q \in T PROVE FALSE
    <3>1. q \in Seq(Nat) /\ q # <<>> /\ path_contains(m.path, q) /\ ~path_contains(m.path, parent_path(q))
      BY <2>3, <2>6, PathsAreNames
    <3>2. q = m.path
      BY <1>1, <3>1, BelowItsParent
    <3> QED BY <2>3, <2>6, <3>2
  <2>7. k.path \notin T /\ k.path # m.path
    <3>1. path_contains(m.path, m.path)
      BY <1>1, PrefixIs
    <3> QED BY <2>3, <3>1
  <2>8. ASSUME NEW q \in Paths, q \in T PROVE parent_path(q) \in T \cup Parents(m)
    <3>1. q \in Seq(Nat) /\ q # <<>> /\ path_contains(m.path, q)
      BY <2>8, PathsAreNames
    <3>2. CASE ~path_contains(m.path, parent_path(q))
      BY <1>1, <1>5, <3>1, <3>2, BelowItsParent DEF Parents
    <3>3. CASE path_contains(m.path, parent_path(q))
      BY <3>3, ParentIn
    <3> QED BY <3>2, <3>3
  <2> HIDE DEF T
  <2> QED BY <1>3, <2>5, <2>6, <2>7, <2>8
<1>6. CASE m.op = "rename"
  <2>1. Invalidations(m) = <<below(m.path), below(m.path2), listing(m.path), listing(m.path2)>>
    BY <1>6 DEF Invalidations
  <2>2. /\ ~Covers(below(m.path), k) /\ ~Covers(listing(m.path), k)
        /\ ~Covers(below(m.path2), k) /\ ~Covers(listing(m.path2), k)
    BY <2>1 DEF CoveredBy
  <2>3. /\ ~path_contains(m.path, k.path) /\ ~(k.path = parent_path(m.path) /\ k.kind = "read_dir")
        /\ ~path_contains(m.path2, k.path) /\ ~(k.path = parent_path(m.path2) /\ k.kind = "read_dir")
    BY <2>2 DEF Covers, below, listing
  <2>4. s = rename(inner, m.path, m.path2) /\ m.path2 \in Seq(Nat)
    BY <1>6, MutationsAreTyped, PathsAreNames DEF Result, s
  <2> DEFINE T == {q \in Paths \cup {<<>>} : path_contains(m.path, q) \/ path_contains(m.path2, q)}
  <2>5. \A q \in Paths \cup {<<>>} : q \notin T => Node(s, q) = Node(inner, q)
    <3>1. DOMAIN inner \subseteq Seq(Nat)
      BY PathsAreNames DEF IsTyped
    <3> QED BY <1>1, <2>4, <3>1, RenameIs, ZenonT(40)
  <2>6. ASSUME k.kind = "read_dir", NEW q \in Paths, parent_path(q) = k.path, q \in T PROVE FALSE
    <3>1. q \in Seq(Nat) /\ q # <<>> /\ ~path_contains(m.path, parent_path(q)) /\ ~path_contains(m.path2, parent_path(q))
      BY <2>3, <2>6, PathsAreNames
    <3>2. q = m.path \/ q = m.path2
      BY <1>1, <2>4, <2>6, <3>1, BelowItsParent
    <3> QED BY <2>3, <2>6, <3>2
  <2>7. k.path \notin T /\ k.path # m.path
    <3>1. path_contains(m.path, m.path)
      BY <1>1, PrefixIs
    <3> QED BY <2>3, <3>1
  <2>8. ASSUME NEW q \in Paths, q \in T PROVE parent_path(q) \in T \cup Parents(m)
    <3>1. q \in Seq(Nat) /\ q # <<>> /\ (path_contains(m.path, q) \/ path_contains(m.path2, q))
      BY <2>8, PathsAreNames
    <3>2. CASE ~path_contains(m.path, parent_path(q)) /\ ~path_contains(m.path2, parent_path(q))
      BY <1>1, <1>6, <2>4, <3>1, <3>2, BelowItsParent DEF Parents
    <3>3. CASE path_contains(m.path, parent_path(q)) \/ path_contains(m.path2, parent_path(q))
      BY <3>3, ParentIn
    <3> QED BY <3>2, <3>3
  <2> HIDE DEF T
  <2> QED BY <1>3, <2>5, <2>6, <2>7, <2>8
<1> QED BY <1>5, <1>6, <1>7, <1>8, MutationsAreTyped

-----------------------------------------------------------------------------

(* Types of invalidations, threads and entries. *)
Scopes == [scope : {"path", "dir", "listing"}, path : Seq(Nat)]
Locals == {"pc", "key", "result", "ttl", "todo", "excused"}
ThreadOK(w) ==
  /\ DOMAIN w = Locals /\ w.excused \in BOOLEAN /\ w.todo \in Seq(Scopes)
  /\ w.pc \in {"idle", "read", "ttl", "insert", "invalidate"}
  /\ w.pc # "invalidate" <=> w.todo = <<>>
  /\ w.pc \in {"read", "ttl", "insert"} => w.key \in Keys
EntryOK(e) ==
  /\ DOMAIN e = {"payload", "renews", "renew_at", "expires_at", "refreshing", "extended", "excused", "resized"}
  /\ e.excused \in BOOLEAN /\ e.refreshing \in BOOLEAN

(* Types of the state. *)
Typed ==
  /\ IsTyped(inner)
  /\ DOMAIN cache \subseteq Keys /\ \A k \in DOMAIN cache : EntryOK(cache[k])
  /\ DOMAIN thread = Threads /\ \A t \in Threads : ThreadOK(thread[t])

(* Every entry is the inner file system's answer but for sizes, is about to be *)
(* invalidated, or is excused.                                                 *)
Seen ==
  \A k \in DOMAIN cache :
    cache[k].excused = TRUE \/ Outstanding(k) \/ Agree(cache[k].payload, Answer(inner, k), cache[k].resized)
(* So is every result read and not stored yet. *)
InFlight ==
  \A t \in Threads :
    thread[t].pc \in {"ttl", "insert"} => thread[t].excused = TRUE \/ thread[t].result = Answer(inner, thread[t].key)

(* A thread with nothing to do. *)
LEMMA NoWorkOK == ThreadOK(NoWork)
<1>1. <<>> \in Seq(Scopes)
  OBVIOUS
<1>2. DOMAIN NoWork = Locals /\ NoWork.excused = FALSE /\ NoWork.todo = <<>> /\ NoWork.pc = "idle"
  BY DEF NoWork, Locals
<1> QED BY <1>1, <1>2 DEF ThreadOK

(* Every change makes invalidations. *)
LEMMA InvalidationsTyped ==
  ASSUME NEW m \in Mutations
  PROVE  Invalidations(m) \in Seq(Scopes) /\ Invalidations(m) # <<>>
<1>1. ASSUME NEW p \in Paths PROVE exact(p) \in Scopes /\ below(p) \in Scopes /\ listing(p) \in Scopes
  <2>1. p \in Seq(Nat) /\ p # <<>>
    BY PathsAreNames
  <2>2. parent_path(p) \in Seq(Nat)
    <3>1. \A i \in 1..Len(p) - 1 : p[i] \in Nat
      BY <2>1, ElementOfSeq
    <3>2. Len(p) - 1 \in Int
      BY <2>1
    <3> QED BY <3>1, <3>2, SubSeqProperties DEF parent_path, Front
  <2> QED BY <2>1, <2>2 DEF exact, below, listing, Scopes
<1>2. m.path \in Paths /\ (m.op = "rename" => m.path2 \in Paths)
  BY MutationsAreTyped
<1> DEFINE a == exact(m.path)
           b == below(m.path)
           c == listing(m.path)
           d == below(m.path2)
           e == listing(m.path2)
<1>3. a \in Scopes /\ b \in Scopes /\ c \in Scopes /\ (m.op = "rename" => d \in Scopes /\ e \in Scopes)
  BY <1>1, <1>2
<1>4. Invalidations(m) = CASE m.op = "remove" -> <<b, c>>
                           [] m.op = "rename" -> <<b, d, c, e>>
                           [] m.op \notin {"remove", "rename"} -> <<a, c>>
  BY DEF Invalidations
<1> HIDE DEF a, b, c, d, e
<1>5. CASE m.op = "remove"
  BY <1>3, <1>4, <1>5
<1>6. CASE m.op = "rename"
  BY <1>3, <1>4, <1>6
<1>7. CASE m.op \notin {"remove", "rename"}
  BY <1>3, <1>4, <1>7
<1> QED BY <1>5, <1>6, <1>7

(* The entry was there, with the same answer and history. *)
Same(k) ==
  /\ k \in DOMAIN cache /\ cache'[k].payload = cache[k].payload
  /\ cache'[k].excused = cache[k].excused /\ cache'[k].resized = cache[k].resized

(* Entries that stay as they are, or go. *)
LEMMA SeenKeeps ==
  ASSUME Seen, UNCHANGED inner, \A u \in Users : thread'[u].todo = thread[u].todo,
         \A k \in DOMAIN cache' : Same(k)
  PROVE  Seen'
BY DEF Seen, Outstanding, Same

(* Results that stay as they are. *)
LEMMA InFlightKeeps ==
  ASSUME InFlight, UNCHANGED inner,
         \A t \in Threads : thread'[t].pc \in {"ttl", "insert"} =>
           /\ thread[t].pc \in {"ttl", "insert"} /\ thread'[t].excused = thread[t].excused
           /\ thread'[t].result = thread[t].result /\ thread'[t].key = thread[t].key
  PROVE  InFlight'
BY DEF InFlight

(* Types, when one thread goes on. *)
LEMMA TypedKeeps ==
  ASSUME Typed, IsTyped(inner'), NEW t \in Threads, NEW w, ThreadOK(w), thread' = [thread EXCEPT ![t] = w],
         DOMAIN cache' \subseteq Keys, \A k \in DOMAIN cache' : EntryOK(cache'[k])
  PROVE  Typed'
BY DEF Typed

(* The inductive invariant. *)
Inv == Typed /\ Seen /\ InFlight

(* A lookup that misses, or that starts a refresh. *)
LEMMA LookupStep ==
  ASSUME Inv, NEW u \in Users, NEW k \in Keys,
         lookup_miss(u, k) \/ \E r \in Refreshers : lookup_refresh(u, r, k)
  PROVE  Inv'
<1>1. ASSUME NEW t \in Threads, thread[t].pc = "idle", thread' = [thread EXCEPT ![t].pc = "read", ![t].key = k], UNCHANGED inner,
             \A j \in DOMAIN cache' : Same(j) /\ EntryOK(cache'[j])
      PROVE  Inv'
  <2> DEFINE w == [thread[t] EXCEPT !.pc = "read", !.key = k]
  <2>1. ThreadOK(thread[t]) /\ DOMAIN thread = Threads
    BY DEF Inv, Typed
  <2>2. ThreadOK(w) /\ w.pc = "read" /\ w.todo = thread[t].todo
    BY <1>1, <2>1 DEF ThreadOK, Locals
  <2>3. thread' = [thread EXCEPT ![t] = w]
    BY <1>1
  <2> HIDE DEF w
  <2>4. Typed'
    BY <1>1, <2>2, <2>3, TypedKeeps DEF Inv, Typed, Same
  <2>5. \A v \in Threads : thread'[v] = IF v = t THEN w ELSE thread[v]
    BY <2>1, <2>3
  <2>6. Seen'
    BY <1>1, <2>2, <2>5, SeenKeeps DEF Inv, Threads
  <2>7. InFlight'
    BY <1>1, <2>2, <2>5, InFlightKeeps DEF Inv
  <2> QED BY <2>4, <2>6, <2>7 DEF Inv
<1>2. CASE lookup_miss(u, k)
  <2>1. u \in Threads
    BY DEF Threads
  <2>2. \A j \in DOMAIN cache' : j \in DOMAIN cache /\ cache'[j] = cache[j]
    BY <1>2 DEF lookup_miss, Forget
  <2> QED BY <1>1, <1>2, <2>1, <2>2 DEF lookup_miss, Inv, Typed, Same
<1>3. ASSUME NEW r \in Refreshers, lookup_refresh(u, r, k) PROVE Inv'
  <2>1. r \in Threads
    BY DEF Threads
  <2>2. ASSUME NEW j \in DOMAIN cache' PROVE Same(j) /\ EntryOK(cache'[j])
    <3>1. cache' = [cache EXCEPT ![k].refreshing = TRUE] /\ j \in DOMAIN cache
      BY <1>3 DEF lookup_refresh
    <3>2. EntryOK(cache[j])
      BY <3>1 DEF Inv, Typed
    <3>3. cache'[j] = cache[j] \/ cache'[j] = [cache[j] EXCEPT !.refreshing = TRUE]
      BY <3>1
    <3> QED BY <3>1, <3>2, <3>3 DEF EntryOK, Same
  <2> QED BY <1>1, <1>3, <2>1, <2>2 DEF lookup_refresh
<1> QED BY <1>2, <1>3

(* The inner file system answers or fails. *)
LEMMA ReadStep ==
  ASSUME Inv, NEW t \in Threads, read_inner(t) \/ read_fails(t)
  PROVE  Inv'
<1>1. PICK res, exc : /\ thread' = [thread EXCEPT ![t].pc = "ttl", ![t].result = res, ![t].excused = exc]
                      /\ exc \in BOOLEAN /\ (exc = TRUE \/ res = Answer(inner, thread[t].key))
                      /\ thread[t].pc = "read" /\ UNCHANGED <<inner, cache>>
  BY DEF read_inner, read_fails
<1> DEFINE w == [thread[t] EXCEPT !.pc = "ttl", !.result = res, !.excused = exc]
<1>2. ThreadOK(thread[t]) /\ DOMAIN thread = Threads
  BY DEF Inv, Typed
<1>3. ThreadOK(w) /\ w.todo = thread[t].todo /\ w.excused = exc /\ w.result = res /\ w.key = thread[t].key
  BY <1>1, <1>2 DEF ThreadOK, Locals
<1>4. thread' = [thread EXCEPT ![t] = w]
  BY <1>1
<1> HIDE DEF w
<1>5. Typed'
  BY <1>1, <1>3, <1>4, TypedKeeps DEF Inv, Typed
<1>6. \A v \in Threads : thread'[v] = IF v = t THEN w ELSE thread[v]
  BY <1>2, <1>4
<1>7. Seen'
  BY <1>1, <1>3, <1>6, SeenKeeps DEF Inv, Threads, Same
<1>8. InFlight'
  BY <1>1, <1>3, <1>6 DEF Inv, InFlight
<1> QED BY <1>5, <1>7, <1>8 DEF Inv

(* cache_ttl, with the lock released since the read. *)
LEMMA TtlStep ==
  ASSUME Inv, NEW t \in Threads, cache_ttl(t)
  PROVE  Inv'
<1> DEFINE w == IF ttl = 0 THEN NoWork ELSE [thread[t] EXCEPT !.pc = "insert", !.ttl = ttl]
<1>1. thread' = [thread EXCEPT ![t] = w] /\ thread[t].pc = "ttl" /\ UNCHANGED <<inner, cache>>
  BY DEF cache_ttl, Return
<1>2. ThreadOK(thread[t]) /\ DOMAIN thread = Threads
  BY DEF Inv, Typed
<1>3. ThreadOK(w) /\ w.todo = thread[t].todo
  BY <1>1, <1>2, NoWorkOK DEF ThreadOK, Locals, NoWork
<1>4. w.pc = "insert" => w.excused = thread[t].excused /\ w.result = thread[t].result /\ w.key = thread[t].key
  BY <1>2 DEF ThreadOK, Locals, NoWork
<1>5. w.pc # "ttl"
  BY <1>2 DEF ThreadOK, Locals, NoWork
<1> HIDE DEF w
<1>6. Typed'
  BY <1>1, <1>3, TypedKeeps DEF Inv, Typed
<1>7. \A v \in Threads : thread'[v] = IF v = t THEN w ELSE thread[v]
  BY <1>1, <1>2
<1>8. Seen'
  BY <1>1, <1>3, <1>7, SeenKeeps DEF Inv, Threads, Same
<1>9. InFlight'
  BY <1>1, <1>4, <1>5, <1>7, InFlightKeeps DEF Inv
<1> QED BY <1>6, <1>8, <1>9 DEF Inv

(* A thread that is done. *)
LEMMA ReturnKeeps ==
  ASSUME Inv, NEW t \in Threads, Return(t), UNCHANGED inner, thread[t].pc # "invalidate"
  PROVE  /\ \A v \in Threads : thread'[v] = IF v = t THEN NoWork ELSE thread[v]
         /\ \A u \in Users : thread'[u].todo = thread[u].todo
         /\ InFlight'
<1>1. ThreadOK(thread[t]) /\ DOMAIN thread = Threads
  BY DEF Inv, Typed
<1>2. \A v \in Threads : thread'[v] = IF v = t THEN NoWork ELSE thread[v]
  BY <1>1 DEF Return
<1>3. NoWork.todo = thread[t].todo /\ NoWork.pc = "idle"
  BY <1>1 DEF ThreadOK, NoWork
<1>4. \A u \in Users : thread'[u].todo = thread[u].todo
  BY <1>2, <1>3 DEF Threads
<1>5. InFlight'
  BY <1>2, <1>3, InFlightKeeps DEF Inv
<1> QED BY <1>2, <1>4, <1>5

(* set_cached stores what was read. *)
LEMMA StoreStep ==
  ASSUME Inv, NEW t \in Threads, set_cached(t)
  PROVE  Inv'
<1> DEFINE k == thread[t].key
           e == Entry(t)
<1>1. /\ thread[t].pc = "insert" /\ Return(t) /\ UNCHANGED inner
      /\ cache' = [j \in DOMAIN cache \cup {k} |-> IF j = k THEN e ELSE cache[j]]
  BY DEF set_cached
<1>2. ThreadOK(thread[t]) /\ k \in Keys
  BY <1>1 DEF Inv, Typed, ThreadOK
<1>3. EntryOK(e) /\ e.excused = thread[t].excused /\ e.payload = thread[t].result /\ e.resized = {}
  BY <1>2 DEF Entry, EntryOK, ThreadOK
<1>4. e.excused = TRUE \/ Agree(e.payload, Answer(inner, k), e.resized)
  BY <1>1, <1>3 DEF Inv, InFlight, Agree
<1> HIDE DEF k, e
<1>5. /\ \A v \in Threads : thread'[v] = IF v = t THEN NoWork ELSE thread[v]
      /\ \A u \in Users : thread'[u].todo = thread[u].todo
      /\ InFlight'
  BY <1>1, ReturnKeeps
<1>6. Typed'
  BY <1>1, <1>2, <1>3, NoWorkOK, TypedKeeps DEF Inv, Typed, Return
<1>7. Seen'
  <2>1. \A j : Outstanding(j) => Outstanding(j)'
    BY <1>5 DEF Outstanding
  <2> QED BY <1>1, <1>4, <2>1 DEF Inv, Seen
<1> QED BY <1>5, <1>6, <1>7 DEF Inv

(* extend_expiry keeps what is stored. *)
LEMMA ExtendStep ==
  ASSUME Inv, NEW r \in Refreshers, extend_expiry(r)
  PROVE  Inv'
<1> DEFINE k == thread[r].key
<1>1. /\ thread[r].pc = "ttl" /\ Return(r) /\ UNCHANGED inner /\ r \in Threads
      /\ cache' = IF ttl = 0 THEN Forget(k) ELSE [j \in DOMAIN cache |-> IF j = k THEN Extended(cache[j]) ELSE cache[j]]
  BY DEF extend_expiry, Threads
<1> HIDE DEF k
<1>2. ASSUME NEW e, EntryOK(e) PROVE EntryOK(Extended(e)) /\ Extended(e).payload = e.payload /\ Extended(e).excused = e.excused /\ Extended(e).resized = e.resized
  BY <1>2 DEF EntryOK, Extended
<1>3. ASSUME NEW j \in DOMAIN cache'
      PROVE  Same(j) /\ EntryOK(cache'[j])
  <2>1. j \in DOMAIN cache
    BY <1>1 DEF Forget
  <2>2. EntryOK(cache[j])
    BY <2>1 DEF Inv, Typed
  <2>3. cache'[j] = cache[j] \/ cache'[j] = Extended(cache[j])
    BY <1>1, <2>1 DEF Forget
  <2> QED BY <1>2, <2>1, <2>2, <2>3 DEF Same
<1>5. /\ \A u \in Users : thread'[u].todo = thread[u].todo
      /\ InFlight'
  BY <1>1, ReturnKeeps
<1>6. Typed'
  BY <1>1, <1>3, NoWorkOK, TypedKeeps DEF Inv, Typed, Return, Same
<1>7. Seen'
  BY <1>1, <1>3, <1>5, SeenKeeps DEF Inv
<1> QED BY <1>5, <1>6, <1>7 DEF Inv

(* A change marks the results it outdates while they are in flight, and nothing else. *)
LEMMA OutdatedIs ==
  ASSUME NEW w, ThreadOK(w)
  PROVE  /\ ThreadOK(Outdated(w)) /\ Outdated(w).pc = w.pc /\ Outdated(w).key = w.key /\ Outdated(w).todo = w.todo
         /\ Outdated(w).result = w.result
         /\ w.excused = TRUE => Outdated(w).excused = TRUE
         /\ w.pc \in {"ttl", "insert"} /\ Answer(inner', w.key) # Answer(inner, w.key) => Outdated(w).excused = TRUE
<1>1. CASE w.pc \in {"ttl", "insert"} /\ Answer(inner', w.key) # Answer(inner, w.key)
  <2> DEFINE v == [w EXCEPT !.excused = TRUE]
  <2>1. Outdated(w) = v
    BY <1>1 DEF Outdated
  <2>2. DOMAIN v = DOMAIN w /\ v.pc = w.pc /\ v.key = w.key /\ v.todo = w.todo /\ v.result = w.result /\ v.excused = TRUE
    BY DEF ThreadOK, Locals
  <2> HIDE DEF v
  <2>3. ThreadOK(v)
    BY <2>2 DEF ThreadOK
  <2> QED BY <2>1, <2>2, <2>3
<1>2. CASE ~(w.pc \in {"ttl", "insert"} /\ Answer(inner', w.key) # Answer(inner, w.key))
  <2>1. Outdated(w) = w
    BY <1>2 DEF Outdated
  <2> QED BY <1>2, <2>1
<1> QED BY <1>1, <1>2

(* So a result in flight is excused or still the answer. *)
LEMMA FlightOutdated ==
  ASSUME Inv, NEW t \in Threads, thread'[t] = Outdated(thread[t]), thread'[t].pc \in {"ttl", "insert"}
  PROVE  thread'[t].excused = TRUE \/ thread'[t].result = Answer(inner', thread'[t].key)
<1>1. ThreadOK(thread[t])
  BY DEF Inv, Typed
<1> DEFINE w == thread[t]
           v == Outdated(w)
<1>2. /\ v.pc = w.pc /\ v.key = w.key /\ v.result = w.result
      /\ w.excused = TRUE => v.excused = TRUE
      /\ w.pc \in {"ttl", "insert"} /\ Answer(inner', w.key) # Answer(inner, w.key) => v.excused = TRUE
  BY <1>1, OutdatedIs
<1>3. w.pc \in {"ttl", "insert"}
  BY <1>2
<1>4. w.excused = TRUE \/ w.result = Answer(inner, w.key)
  BY <1>3 DEF Inv, InFlight
<1> HIDE DEF w, v
<1>5. thread'[t] = v
  BY DEF v, w
<1> QED BY <1>2, <1>3, <1>4, <1>5

(* A change by a user: what it affects is covered by its invalidations, or excused. *)
LEMMA MutateStep ==
  ASSUME Inv, NEW u \in Users, NEW m \in Mutations, mutate(u, m)
  PROVE  Inv'
<1> DEFINE w == [NoWork EXCEPT !.pc = "invalidate", !.todo = Invalidations(m)]
<1>1. /\ thread[u].pc = "idle" /\ Possible(m) /\ inner' = Result(m) /\ u \in Threads
      /\ cache' = [k \in DOMAIN cache |-> IF BehindLink(m, k) THEN Excuse(k) ELSE Resize(k, m)]
      /\ thread' = [t \in Threads |-> IF t = u THEN w ELSE Outdated(thread[t])]
  BY DEF mutate, Threads
<1>2. DOMAIN w = Locals /\ w.pc = "invalidate" /\ w.todo = Invalidations(m) /\ w.excused = FALSE
  BY DEF NoWork, Locals
<1>3. ThreadOK(w)
  <2> HIDE DEF w
  <2> QED BY <1>2, InvalidationsTyped DEF ThreadOK
<1> HIDE DEF w
<1>4. IsTyped(inner')
  BY <1>1, ResultTyped DEF Inv, Typed
<1>5. /\ DOMAIN thread' = Threads
      /\ \A t \in Threads : thread'[t] = IF t = u THEN w ELSE Outdated(thread[t])
      /\ DOMAIN cache' = DOMAIN cache
  BY <1>1
<1>6. ASSUME NEW t \in Threads PROVE ThreadOK(thread[t]) /\ ThreadOK(thread'[t]) /\ (t # u => thread'[t].todo = thread[t].todo)
  <2>1. ThreadOK(thread[t])
    BY DEF Inv, Typed
  <2> QED BY <1>3, <1>5, <2>1, OutdatedIs
<1>7. ASSUME NEW k \in DOMAIN cache
      PROVE  /\ EntryOK(cache'[k]) /\ cache'[k].payload = cache[k].payload
             /\ BehindLink(m, k) => cache'[k].excused = TRUE
             /\ ~BehindLink(m, k) => cache'[k].excused = cache[k].excused /\ cache'[k].resized = cache[k].resized \cup Parents(m)
  <2>1. EntryOK(cache[k])
    BY DEF Inv, Typed
  <2>2. cache'[k] = IF BehindLink(m, k) THEN [cache[k] EXCEPT !.excused = TRUE] ELSE [cache[k] EXCEPT !.resized = @ \cup Parents(m)]
    BY <1>1 DEF Excuse, Resize
  <2> QED BY <2>1, <2>2 DEF EntryOK
<1>8. Typed'
  BY <1>4, <1>5, <1>6, <1>7 DEF Inv, Typed
<1>9. InFlight'
  BY <1>2, <1>5, FlightOutdated DEF InFlight
<1>10. ASSUME NEW k \in DOMAIN cache'
       PROVE  cache'[k].excused = TRUE \/ Outstanding(k)' \/ Agree(cache'[k].payload, Answer(inner', k), cache'[k].resized)
  <2>1. k \in DOMAIN cache /\ k \in Keys
    BY <1>5 DEF Inv, Typed
  <2>2. ASSUME Outstanding(k) PROVE Outstanding(k)'
    <3>1. PICK v \in Users : \E i \in DOMAIN thread[v].todo : Covers(thread[v].todo[i], k)
      BY <2>2 DEF Outstanding
    <3>2. v # u
      <4>1. ThreadOK(thread[u])
        BY <1>1, <1>6
      <4>2. thread[u].todo = <<>>
        BY <1>1, <4>1 DEF ThreadOK
      <4> QED BY <3>1, <4>2
    <3>3. thread'[v].todo = thread[v].todo
      BY <1>6, <3>2 DEF Threads
    <3> QED BY <3>1, <3>3 DEF Outstanding
  <2>3. ASSUME CoveredBy(Invalidations(m), k) PROVE Outstanding(k)'
    <3>1. thread'[u].todo = Invalidations(m)
      BY <1>1, <1>2, <1>5
    <3> QED BY <2>3, <3>1 DEF Outstanding, CoveredBy
  <2>4. CASE BehindLink(m, k)
    BY <1>7, <2>1, <2>4
  <2>5. CASE ~BehindLink(m, k) /\ Agree(Answer(inner', k), Answer(inner, k), Parents(m))
    <3>1. cache[k].excused = TRUE \/ Outstanding(k) \/ Agree(cache[k].payload, Answer(inner, k), cache[k].resized)
      BY <2>1 DEF Inv, Seen
    <3>2. Agree(Answer(inner, k), Answer(inner', k), Parents(m))
      BY <2>5 DEF Agree
    <3>3. CASE Agree(cache[k].payload, Answer(inner, k), cache[k].resized)
      <4>1. Agree(cache[k].payload, Answer(inner', k), cache[k].resized \cup Parents(m))
        BY <3>2, <3>3, AgreeTrans
      <4> QED BY <1>7, <2>1, <2>5, <4>1
    <3> QED BY <1>7, <2>1, <2>2, <2>5, <3>1, <3>3
  <2> QED BY <1>1, <2>1, <2>3, <2>4, <2>5, InvalidationsSuffice DEF Inv, Typed
<1>11. Seen'
  BY <1>10 DEF Seen
<1> QED BY <1>8, <1>9, <1>11 DEF Inv

(* A change by others excuses what it affects. *)
LEMMA ForeignStep ==
  ASSUME Inv, NEW m \in ForeignChanges, foreign_change(m)
  PROVE  Inv'
<1>1. /\ Possible(m) /\ inner' = Result(m)
      /\ cache' = [k \in DOMAIN cache |-> IF Answer(inner', k) # Answer(inner, k) THEN Excuse(k) ELSE cache[k]]
      /\ thread' = [t \in Threads |-> Outdated(thread[t])]
  BY DEF foreign_change
<1>2. IsTyped(inner')
  BY <1>1, ResultTyped, ForeignChangesAreChanges DEF Inv, Typed
<1>3. /\ DOMAIN thread' = Threads /\ DOMAIN cache' = DOMAIN cache
      /\ \A t \in Threads : thread'[t] = Outdated(thread[t])
  BY <1>1
<1>4. ASSUME NEW t \in Threads PROVE ThreadOK(thread'[t]) /\ thread'[t].todo = thread[t].todo
  <2>1. ThreadOK(thread[t])
    BY DEF Inv, Typed
  <2> QED BY <1>3, <2>1, OutdatedIs
<1>5. ASSUME NEW k \in DOMAIN cache
      PROVE  /\ EntryOK(cache'[k]) /\ cache'[k].payload = cache[k].payload /\ cache'[k].resized = cache[k].resized
             /\ cache'[k].excused = IF Answer(inner', k) # Answer(inner, k) THEN TRUE ELSE cache[k].excused
  <2>1. EntryOK(cache[k])
    BY DEF Inv, Typed
  <2>2. cache'[k] = IF Answer(inner', k) # Answer(inner, k) THEN [cache[k] EXCEPT !.excused = TRUE] ELSE cache[k]
    BY <1>1 DEF Excuse
  <2> QED BY <2>1, <2>2 DEF EntryOK
<1>6. Typed'
  BY <1>2, <1>3, <1>4, <1>5 DEF Inv, Typed
<1>7. InFlight'
  BY <1>3, FlightOutdated DEF InFlight
<1>8. \A k : Outstanding(k) => Outstanding(k)'
  BY <1>4 DEF Outstanding, Threads
<1>9. ASSUME NEW k \in DOMAIN cache'
      PROVE  cache'[k].excused = TRUE \/ Outstanding(k)' \/ Agree(cache'[k].payload, Answer(inner', k), cache'[k].resized)
  <2>1. cache[k].excused = TRUE \/ Outstanding(k) \/ Agree(cache[k].payload, Answer(inner, k), cache[k].resized)
    BY <1>3 DEF Inv, Seen
  <2> QED BY <1>3, <1>5, <1>8, <2>1
<1>10. Seen'
  BY <1>9 DEF Seen
<1> QED BY <1>6, <1>7, <1>10 DEF Inv

(* An invalidation removes the entries it covers before it is struck off the list. *)
LEMMA InvalidateStep ==
  ASSUME Inv, NEW u \in Users, invalidate(u)
  PROVE  Inv'
<1> DEFINE todo == thread[u].todo
           w == IF Len(todo) = 1 THEN NoWork ELSE [thread[u] EXCEPT !.todo = Tail(@)]
<1>1. /\ thread[u].pc = "invalidate" /\ UNCHANGED inner /\ u \in Threads
      /\ cache' = [k \in {j \in DOMAIN cache : ~Covers(Head(todo), j)} |-> cache[k]]
      /\ thread' = [thread EXCEPT ![u] = w]
  BY DEF invalidate, Return, Threads
<1>2. ThreadOK(thread[u]) /\ DOMAIN thread = Threads
  BY <1>1 DEF Inv, Typed
<1>3. todo \in Seq(Scopes) /\ todo # <<>>
  BY <1>1, <1>2 DEF ThreadOK
<1>4. ThreadOK(w) /\ w.todo = Tail(todo) /\ w.pc \notin {"ttl", "insert"}
  <2>1. CASE Len(todo) = 1
    <3> HIDE DEF todo
    <3>1. Tail(todo) = <<>>
      <4>1. Tail(todo) \in Seq(Scopes) /\ Len(Tail(todo)) = 0
        BY <1>3, <2>1, HeadTailProperties
      <4> QED BY <4>1, EmptySeq
    <3> QED BY <2>1, <3>1, NoWorkOK DEF NoWork
  <2>2. CASE Len(todo) # 1
    <3> DEFINE v == [thread[u] EXCEPT !.todo = Tail(@)]
    <3>1. DOMAIN v = Locals /\ v.todo = Tail(todo) /\ v.pc = "invalidate" /\ v.excused = thread[u].excused
      BY <1>1, <1>2 DEF ThreadOK, Locals
    <3> HIDE DEF v, todo
    <3>2. Tail(todo) \in Seq(Scopes) /\ Tail(todo) # <<>>
      <4>1. Len(todo) \in Nat /\ Len(todo) # 0
        BY <1>3, EmptySeq
      <4>2. Tail(todo) \in Seq(Scopes) /\ Len(Tail(todo)) = Len(todo) - 1
        BY <1>3, HeadTailProperties
      <4> QED BY <2>2, <4>1, <4>2
    <3>3. ThreadOK(v)
      BY <1>2, <3>1, <3>2 DEF ThreadOK
    <3> QED BY <2>2, <3>1, <3>3 DEF v
  <2> QED BY <2>1, <2>2
<1> HIDE DEF w
<1>5. \A v \in Threads : thread'[v] = IF v = u THEN w ELSE thread[v]
  BY <1>1, <1>2
<1>6. \A k \in DOMAIN cache' : k \in DOMAIN cache /\ cache'[k] = cache[k] /\ ~Covers(Head(todo), k)
  BY <1>1
<1>7. Typed'
  BY <1>1, <1>4, <1>6, TypedKeeps DEF Inv, Typed
<1>8. InFlight'
  BY <1>1, <1>4, <1>5, InFlightKeeps DEF Inv
<1>9. ASSUME NEW k \in DOMAIN cache', Outstanding(k) PROVE Outstanding(k)'
  <2>1. PICK v \in Users : \E i \in DOMAIN thread[v].todo : Covers(thread[v].todo[i], k)
    BY <1>9 DEF Outstanding
  <2>2. CASE v # u
    BY <1>5, <2>1, <2>2 DEF Outstanding, Threads
  <2>3. CASE v = u
    <3>1. PICK i \in DOMAIN todo : Covers(todo[i], k)
      BY <2>1, <2>3
    <3>2. i \in 1..Len(todo) /\ i # 1
      <4>1. i \in 1..Len(todo) /\ Head(todo) = todo[1]
        BY <1>3
      <4> QED BY <1>6, <3>1, <4>1
    <3>3. i - 1 \in DOMAIN Tail(todo) /\ Tail(todo)[i - 1] = todo[i]
      BY <1>3, <3>2
    <3>4. thread'[u].todo = Tail(todo)
      BY <1>1, <1>4, <1>5
    <3> HIDE DEF todo
    <3> QED BY <3>1, <3>3, <3>4 DEF Outstanding
  <2> QED BY <2>2, <2>3
<1>10. Seen'
  BY <1>1, <1>6, <1>9 DEF Inv, Seen
<1> QED BY <1>7, <1>8, <1>10 DEF Inv

(* clear, the clock and the settings. *)
LEMMA OtherStep ==
  ASSUME Inv, UNCHANGED <<inner, thread>>, UNCHANGED cache \/ cache' = [k \in {} |-> NoWork]
  PROVE  Inv'
<1>1. \A k \in DOMAIN cache' : k \in DOMAIN cache /\ cache'[k] = cache[k]
  OBVIOUS
<1>2. Typed'
  BY <1>1 DEF Inv, Typed
<1>3. Seen'
  BY <1>1, SeenKeeps DEF Inv, Same
<1>4. InFlight'
  BY InFlightKeeps DEF Inv
<1> QED BY <1>2, <1>3, <1>4 DEF Inv

(* The invariant holds throughout. *)
THEOREM Invariance == Spec => []Inv
<1>1. Init => Inv
  <2> SUFFICES ASSUME Init PROVE Inv
    OBVIOUS
  <2>1. IsTyped(inner)
    <3>1. inner \in Trees
      BY InitTreesAreTrees DEF Init
    <3> QED BY <3>1 DEF Trees, IsTyped
  <2>2. /\ DOMAIN cache = {} /\ DOMAIN thread = Threads
        /\ \A t \in Threads : thread[t] = NoWork
    BY DEF Init
  <2>3. Typed
    BY <2>1, <2>2, NoWorkOK DEF Typed
  <2>4. InFlight
    BY <2>2 DEF InFlight, NoWork
  <2> QED BY <2>2, <2>3, <2>4 DEF Inv, Seen
<1>2. Inv /\ [Next]_vars => Inv'
  <2> SUFFICES ASSUME Inv, [Next]_vars PROVE Inv'
    OBVIOUS
  <2>1. CASE UNCHANGED vars
    BY <2>1, OtherStep DEF vars
  <2>2. ASSUME NEW n \in Ttls, set_ttl(n) PROVE Inv'
    BY <2>2, OtherStep DEF set_ttl
  <2>3. CASE invalidate_all
    BY <2>3, OtherStep DEF invalidate_all
  <2>4. CASE tick
    BY <2>4, OtherStep DEF tick
  <2> QED BY <2>1, <2>2, <2>3, <2>4, LookupStep, ReadStep, TtlStep, StoreStep, ExtendStep, MutateStep, ForeignStep,
             InvalidateStep DEF Next
<1> QED BY <1>1, <1>2, PTL DEF Spec

(* Changes made through the cache are seen once they have made their invalidations    *)
(* (invalidate, invalidate_dir, invalidate_parent_listing), whatever runs at the same *)
(* time, but for the size of the directory a name was made or removed in, results in  *)
(* flight, changes by others, and other names of the file.                            *)
THEOREM CacheShowsChanges == Spec => []ChangesAreSeen
<1>1. Inv => ChangesAreSeen
  <2> SUFFICES ASSUME Inv, NEW k \in DOMAIN cache, ~cache[k].excused, ~Outstanding(k) 
               PROVE  Agree(cache[k].payload, Answer(inner, k), cache[k].resized)
    BY DEF ChangesAreSeen, UpToDate
  <2>1. cache[k].excused \in BOOLEAN
    BY DEF Inv, Typed, EntryOK
  <2> QED BY <2>1 DEF Inv, Seen
<1> QED BY <1>1, Invariance, PTL

-----------------------------------------------------------------------------

(* A thread is refreshing the key; a mark says that one is; nothing is stored while *)
(* caching was always off.                                                          *)
Refreshed(k) == \E r \in Refreshers : thread[r].pc # "idle" /\ thread[r].key = k
Marks == \A k \in DOMAIN cache : cache[k].refreshing = TRUE => zeroed = TRUE \/ Refreshed(k)
Off == zeroed = TRUE \/ ttl # 0 \/ (DOMAIN cache = {} /\ \A t \in Threads : thread[t].pc # "insert")
(* The inductive invariant of the marks. *)
RefreshInv == Marks /\ Off /\ zeroed \in BOOLEAN

(* No new mark and no thread that stops. *)
LEMMA MarksKeep ==
  ASSUME Marks, UNCHANGED zeroed,
         \A k \in DOMAIN cache' : cache'[k].refreshing = TRUE => k \in DOMAIN cache /\ cache[k].refreshing = TRUE,
         \A r \in Refreshers : thread[r].pc # "idle" => thread'[r].pc # "idle" /\ thread'[r].key = thread[r].key
  PROVE  Marks'
BY DEF Marks, Refreshed

(* No new entry, and no thread about to store with caching off. *)
LEMMA OffKeeps ==
  ASSUME Off, UNCHANGED <<ttl, zeroed>>, DOMAIN cache' \subseteq DOMAIN cache,
         \A t \in Threads : thread'[t].pc = "insert" => thread[t].pc = "insert" \/ ttl # 0
  PROVE  Off'
BY DEF Off

(* Both together. *)
LEMMA KeepsRefreshing ==
  ASSUME RefreshInv, UNCHANGED <<ttl, zeroed>>, DOMAIN cache' \subseteq DOMAIN cache,
         \A k \in DOMAIN cache' : cache'[k].refreshing = TRUE => cache[k].refreshing = TRUE,
         \A t \in Threads : thread'[t].pc = "insert" => thread[t].pc = "insert" \/ ttl # 0,
         \A r \in Refreshers : thread[r].pc # "idle" => thread'[r].pc # "idle" /\ thread'[r].key = thread[r].key
  PROVE  RefreshInv'
BY MarksKeep, OffKeeps DEF RefreshInv

(* Every step keeps the invariant: the thread of a mark stores, extends or removes its *)
(* entry before it stops.                                                              *)
LEMMA RefreshStep ==
  ASSUME Inv, RefreshInv, Next
  PROVE  RefreshInv'
<1>0. /\ DOMAIN thread = Threads /\ \A t \in Threads : ThreadOK(thread[t]) /\ DOMAIN thread[t] = Locals
      /\ \A k \in DOMAIN cache : EntryOK(cache[k])
      /\ Users \subseteq Threads /\ Refreshers \subseteq Threads /\ \A u \in Users : u \notin Refreshers
  BY UsersAreNotRefreshers DEF Inv, Typed, Threads, ThreadOK
<1>1. ASSUME NEW u \in Users, NEW k \in Keys, lookup_miss(u, k) PROVE RefreshInv'
  <2>1. UNCHANGED <<ttl, zeroed>> /\ DOMAIN cache' \subseteq DOMAIN cache /\ \A j \in DOMAIN cache' : cache'[j] = cache[j]
    BY <1>1 DEF lookup_miss, Forget
  <2>2. thread' = [thread EXCEPT ![u].pc = "read", ![u].key = k]
    BY <1>1 DEF lookup_miss
  <2>3. thread'[u].pc = "read" /\ \A t \in Threads : t # u => thread'[t] = thread[t]
    BY <1>0, <2>2 DEF Locals
  <2> QED BY <1>0, <2>1, <2>3, KeepsRefreshing
<1>2. ASSUME NEW u \in Users, NEW r \in Refreshers, NEW k \in Keys, lookup_refresh(u, r, k) PROVE RefreshInv'
  <2>1. /\ UNCHANGED <<ttl, zeroed>> /\ thread[r].pc = "idle" /\ k \in DOMAIN cache
        /\ cache' = [cache EXCEPT ![k].refreshing = TRUE] /\ thread' = [thread EXCEPT ![r].pc = "read", ![r].key = k]
    BY <1>2 DEF lookup_refresh, Live
  <2>2. /\ thread'[r].pc = "read" /\ thread'[r].key = k /\ \A t \in Threads : t # r => thread'[t] = thread[t]
        /\ DOMAIN cache' = DOMAIN cache /\ \A j \in DOMAIN cache : j # k => cache'[j] = cache[j]
    BY <1>0, <2>1 DEF Locals
  <2>3. \A j : Refreshed(j) => Refreshed(j)'
    BY <1>0, <2>1, <2>2 DEF Refreshed
  <2>4. Refreshed(k)'
    BY <2>2 DEF Refreshed
  <2>5. Marks'
    BY <2>1, <2>2, <2>3, <2>4 DEF RefreshInv, Marks
  <2>6. Off'
    BY <2>1, <2>2, OffKeeps DEF RefreshInv
  <2> QED BY <2>1, <2>5, <2>6 DEF RefreshInv
<1>3. ASSUME NEW t \in Threads, read_inner(t) \/ read_fails(t) PROVE RefreshInv'
  <2>1. PICK res, exc : thread' = [thread EXCEPT ![t].pc = "ttl", ![t].result = res, ![t].excused = exc]
    BY <1>3 DEF read_inner, read_fails
  <2>2. UNCHANGED <<ttl, zeroed, cache>>
    BY <1>3 DEF read_inner, read_fails
  <2>3. thread'[t].pc = "ttl" /\ thread'[t].key = thread[t].key /\ \A v \in Threads : v # t => thread'[v] = thread[v]
    BY <1>0, <2>1 DEF Locals
  <2> QED BY <1>0, <2>2, <2>3, KeepsRefreshing
<1>4. ASSUME NEW t \in Threads, cache_ttl(t) PROVE RefreshInv'
  <2>1. UNCHANGED <<ttl, zeroed, cache>>
    BY <1>4 DEF cache_ttl
  <2>2. CASE ttl = 0
    <3>1. thread' = [thread EXCEPT ![t] = NoWork]
      BY <1>4, <2>2 DEF cache_ttl, Return
    <3>2. \A v \in Threads : thread'[v].pc = "insert" => thread[v].pc = "insert"
      BY <1>0, <3>1 DEF NoWork
    <3>3. zeroed = TRUE \/ DOMAIN cache = {}
      BY <2>2 DEF RefreshInv, Off
    <3> QED BY <2>1, <3>2, <3>3, OffKeeps DEF RefreshInv, Marks
  <2>3. CASE ttl # 0
    <3>1. thread' = [thread EXCEPT ![t].pc = "insert", ![t].ttl = ttl]
      BY <1>4, <2>3 DEF cache_ttl
    <3>2. thread'[t].pc = "insert" /\ thread'[t].key = thread[t].key /\ \A v \in Threads : v # t => thread'[v] = thread[v]
      BY <1>0, <3>1 DEF Locals
    <3> QED BY <1>0, <2>1, <2>3, <3>2, KeepsRefreshing
  <2> QED BY <2>2, <2>3
<1>5. ASSUME NEW t \in Threads, NEW k, k = thread[t].key, Return(t), UNCHANGED <<ttl, zeroed>>,
             \A j \in DOMAIN cache' : cache'[j].refreshing = TRUE => j # k /\ j \in DOMAIN cache /\ cache[j].refreshing = TRUE
      PROVE  Marks' /\ \A v \in Threads : thread'[v].pc = "insert" => thread[v].pc = "insert"
  <2>1. \A v \in Threads : thread'[v] = IF v = t THEN NoWork ELSE thread[v]
    BY <1>0, <1>5 DEF Return
  <2>2. \A j : j # k /\ Refreshed(j) => Refreshed(j)'
    BY <1>0, <1>5, <2>1 DEF Refreshed
  <2>3. Marks'
    BY <1>5, <2>2 DEF RefreshInv, Marks
  <2> QED BY <2>1, <2>3 DEF NoWork
<1>6. ASSUME NEW t \in Threads, set_cached(t) PROVE RefreshInv'
  <2> DEFINE k == thread[t].key
             e == Entry(t)
  <2>1. /\ thread[t].pc = "insert" /\ Return(t) /\ UNCHANGED <<ttl, zeroed>>
        /\ cache' = [j \in DOMAIN cache \cup {k} |-> IF j = k THEN e ELSE cache[j]]
    BY <1>6 DEF set_cached
  <2>2. e.refreshing = FALSE
    BY DEF Entry
  <2> HIDE DEF k, e
  <2>3. \A j \in DOMAIN cache' : cache'[j].refreshing = TRUE => j # k /\ j \in DOMAIN cache /\ cache[j].refreshing = TRUE
    BY <2>1, <2>2
  <2>4. Marks'
    BY <1>5, <2>1, <2>3 DEF k
  <2>5. Off'
    BY <2>1 DEF RefreshInv, Off
  <2> QED BY <2>1, <2>4, <2>5 DEF RefreshInv
<1>7. ASSUME NEW r \in Refreshers, extend_expiry(r) PROVE RefreshInv'
  <2> DEFINE k == thread[r].key
  <2>1. /\ Return(r) /\ UNCHANGED <<ttl, zeroed>> /\ r \in Threads
        /\ cache' = IF ttl = 0 THEN Forget(k) ELSE [j \in DOMAIN cache |-> IF j = k THEN Extended(cache[j]) ELSE cache[j]]
    BY <1>0, <1>7 DEF extend_expiry
  <2> HIDE DEF k
  <2>2. ASSUME NEW e, EntryOK(e) PROVE Extended(e).refreshing = FALSE
    BY <2>2 DEF EntryOK, Extended
  <2>3. /\ DOMAIN cache' \subseteq DOMAIN cache
        /\ \A j \in DOMAIN cache' : cache'[j].refreshing = TRUE => j # k /\ j \in DOMAIN cache /\ cache[j].refreshing = TRUE
    <3>1. CASE ttl = 0
      BY <2>1, <3>1 DEF Forget
    <3>2. CASE ttl # 0
      BY <1>0, <2>1, <2>2, <3>2
    <3> QED BY <3>1, <3>2
  <2>4. Marks' /\ \A v \in Threads : thread'[v].pc = "insert" => thread[v].pc = "insert"
    BY <1>5, <2>1, <2>3 DEF k
  <2>5. Off'
    BY <2>1, <2>3, <2>4, OffKeeps DEF RefreshInv
  <2> QED BY <2>1, <2>4, <2>5 DEF RefreshInv
<1>8. ASSUME NEW t \in Threads PROVE Outdated(thread[t]).pc = thread[t].pc /\ Outdated(thread[t]).key = thread[t].key
  BY <1>0, OutdatedIs
<1>9. ASSUME NEW k \in DOMAIN cache
      PROVE  Excuse(k).refreshing = cache[k].refreshing /\ \A m : Resize(k, m).refreshing = cache[k].refreshing
  BY <1>0 DEF Excuse, Resize, EntryOK
<1>10. ASSUME NEW u \in Users, NEW m \in Mutations, mutate(u, m) PROVE RefreshInv'
  <2>1. /\ UNCHANGED <<ttl, zeroed>> /\ DOMAIN cache' = DOMAIN cache
        /\ \A k \in DOMAIN cache : cache'[k] = Resize(k, m) \/ cache'[k] = Excuse(k)
        /\ \A t \in Threads : t # u => thread'[t] = Outdated(thread[t])
        /\ thread'[u] = [NoWork EXCEPT !.pc = "invalidate", !.todo = Invalidations(m)]
    BY <1>0, <1>10 DEF mutate
  <2>2. thread'[u].pc = "invalidate"
    BY <2>1 DEF NoWork
  <2>3. \A k \in DOMAIN cache' : cache'[k].refreshing = cache[k].refreshing
    BY <1>9, <2>1
  <2> QED BY <1>0, <1>8, <2>1, <2>2, <2>3, KeepsRefreshing
<1>11. ASSUME NEW m \in ForeignChanges, foreign_change(m) PROVE RefreshInv'
  <2>1. /\ UNCHANGED <<ttl, zeroed>> /\ DOMAIN cache' = DOMAIN cache
        /\ \A k \in DOMAIN cache : cache'[k] = cache[k] \/ cache'[k] = Excuse(k)
        /\ \A t \in Threads : thread'[t] = Outdated(thread[t])
    BY <1>11 DEF foreign_change
  <2> QED BY <1>0, <1>8, <1>9, <2>1, KeepsRefreshing
<1>12. ASSUME NEW u \in Users, invalidate(u) PROVE RefreshInv'
  <2>1. /\ UNCHANGED <<ttl, zeroed>> /\ thread[u].pc = "invalidate"
        /\ DOMAIN cache' \subseteq DOMAIN cache /\ \A k \in DOMAIN cache' : cache'[k] = cache[k]
    BY <1>12 DEF invalidate
  <2>2. thread' = [thread EXCEPT ![u] = NoWork] \/ thread' = [thread EXCEPT ![u].todo = Tail(@)]
    BY <1>12 DEF invalidate, Return
  <2>3. thread'[u].pc # "insert" /\ \A t \in Threads : t # u => thread'[t] = thread[t]
    BY <1>0, <2>1, <2>2 DEF NoWork, Locals
  <2> QED BY <1>0, <2>1, <2>3, KeepsRefreshing
<1>13. CASE invalidate_all
  BY <1>13, KeepsRefreshing DEF invalidate_all
<1>14. CASE tick
  BY <1>14, KeepsRefreshing DEF tick
<1>15. ASSUME NEW n \in Ttls, set_ttl(n) PROVE RefreshInv'
  <2>1. UNCHANGED <<cache, thread>> /\ ttl' = n /\ zeroed' = (zeroed \/ n = 0)
    BY <1>15 DEF set_ttl
  <2>2. zeroed' \in BOOLEAN /\ (zeroed = TRUE => zeroed' = TRUE) /\ (n = 0 => zeroed' = TRUE)
    BY <2>1 DEF RefreshInv
  <2>3. Marks'
    BY <2>1, <2>2 DEF RefreshInv, Marks, Refreshed
  <2> QED BY <2>1, <2>2, <2>3 DEF RefreshInv, Off
<1> QED BY <1>1, <1>2, <1>3, <1>4, <1>6, <1>7, <1>10, <1>11, <1>12, <1>13, <1>14, <1>15 DEF Next

(* An entry marked as being refreshed has a thread refreshing it (lookup, extend_expiry, *)
(* set_cached), unless caching was switched off.                                         *)
THEOREM MarksAreRefreshed == Spec => []RefreshIsRunning
<1>1. Init => RefreshInv
  <2> SUFFICES ASSUME Init PROVE RefreshInv
    OBVIOUS
  <2>1. DOMAIN cache = {} /\ zeroed \in BOOLEAN /\ \A t \in Threads : thread[t] = NoWork
    BY DEF Init
  <2>2. NoWork.pc # "insert"
    BY DEF NoWork
  <2> QED BY <2>1, <2>2 DEF RefreshInv, Marks, Off
<1>2. Inv /\ RefreshInv /\ [Next]_vars => RefreshInv'
  <2> SUFFICES ASSUME Inv, RefreshInv, [Next]_vars PROVE RefreshInv'
    OBVIOUS
  <2>1. CASE UNCHANGED vars
    BY <2>1 DEF vars, RefreshInv, Marks, Off, Refreshed
  <2> QED BY <2>1, RefreshStep
<1>3. Inv /\ RefreshInv => RefreshIsRunning
  <2> SUFFICES ASSUME Inv, RefreshInv, NEW k \in DOMAIN cache, cache[k].refreshing
               PROVE  zeroed \/ \E r \in Refreshers : thread[r].pc # "idle" /\ thread[r].key = k
    BY DEF RefreshIsRunning
  <2>1. cache[k].refreshing = TRUE
    BY DEF Inv, Typed, EntryOK
  <2>2. zeroed = TRUE \/ Refreshed(k)
    BY <2>1 DEF RefreshInv, Marks
  <2> QED BY <2>2 DEF Refreshed
<1> QED BY <1>1, <1>2, <1>3, Invariance, PTL DEF Spec
=============================================================================
