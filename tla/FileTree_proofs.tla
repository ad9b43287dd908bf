--------------------------- MODULE FileTree_proofs ---------------------------
(***************************************************************************)
(* Lemmas about paths and trees (module FileTree), shared by the proofs    *)
(* about the file systems that are built on them: which nodes an operation *)
(* on a tree changes, and that it maps file system trees to file system    *)
(* trees.                                                                  *)
(*                                                                         *)
(* A path is a sequence of names, and the library has no induction over    *)
(* sequences the provers can use.  What needs one (every prefix of a path  *)
(* in a set closed under parents is in the set: PrefixesIn) follows from   *)
(* the least number principle on the lengths of the prefixes.              *)
(***************************************************************************)
EXTENDS FileTree, TLAPS, SequenceTheorems, WellFoundedInduction

(* path_contains is agreement on the names of the shorter path. *)
LEMMA PrefixIs ==
  ASSUME NEW p \in Seq(Nat), NEW q \in Seq(Nat)
  PROVE  path_contains(p, q) <=> Len(p) <= Len(q) /\ \A i \in 1..Len(p) : p[i] = q[i]
<1>1. SUFFICES ASSUME Len(p) <= Len(q)
               PROVE  SubSeq(p, 1, Len(p)) = SubSeq(q, 1, Len(p)) <=> \A i \in 1..Len(p) : p[i] = q[i]
  BY DEF path_contains, IsPrefix
<1> DEFINE n == Len(p)
<1>2. n \in Nat /\ Len(q) \in Nat
  OBVIOUS
<1>3. \A i \in 1..n : p[i] \in Nat /\ q[i] \in Nat
  BY <1>1, <1>2, ElementOfSeq
<1> HIDE DEF n
<1>4. \A i \in 1..n : i \in 1..n - 1 + 1 /\ 1 + i - 1 = i
  BY <1>2
<1> DEFINE a == SubSeq(p, 1, n)
           b == SubSeq(q, 1, n)
<1>5. a \in Seq(Nat) /\ Len(a) = n /\ \A i \in 1..n : a[i] = p[i]
  <2>1. /\ a \in Seq(Nat) /\ Len(a) = IF 1 <= n THEN n - 1 + 1 ELSE 0
        /\ \A i \in 1..n - 1 + 1 : a[i] = p[1 + i - 1]
    BY <1>2, <1>3, SubSeqProperties
  <2> HIDE DEF a
  <2> QED BY <1>2, <1>4, <2>1
<1>6. b \in Seq(Nat) /\ Len(b) = n /\ \A i \in 1..n : b[i] = q[i]
  <2>1. /\ b \in Seq(Nat) /\ Len(b) = IF 1 <= n THEN n - 1 + 1 ELSE 0
        /\ \A i \in 1..n - 1 + 1 : b[i] = q[1 + i - 1]
    BY <1>2, <1>3, SubSeqProperties
  <2> HIDE DEF b
  <2> QED BY <1>2, <1>4, <2>1
<1> HIDE DEF a, b
<1>7. a = b <=> \A i \in 1..n : p[i] = q[i]
  <2>1. ASSUME \A i \in 1..n : p[i] = q[i] PROVE a = b
    <3>1. \A i \in 1..Len(a) : a[i] = b[i]
      BY <1>5, <1>6, <2>1
    <3> QED BY <1>5, <1>6, <3>1, SeqEqual
  <2> QED BY <1>5, <1>6, <2>1
<1> QED BY <1>7 DEF a, b, n

(* Rebasing a path below old onto new gives one below new, and rebasing back undoes it: *)
(* rename moves a subtree without merging two of its paths.                             *)
LEMMA RebaseBack ==
  ASSUME NEW p \in Seq(Nat), NEW old \in Seq(Nat), NEW new \in Seq(Nat), path_contains(old, p)
  PROVE  /\ Rebase(p, old, new) \in Seq(Nat) /\ path_contains(new, Rebase(p, old, new))
         /\ Rebase(Rebase(p, old, new), new, old) = p
<1> DEFINE rest == SubSeq(p, Len(old) + 1, Len(p))
           q == new \o rest
           back == SubSeq(q, Len(new) + 1, Len(q))
<1>1. Len(old) <= Len(p) /\ \A i \in 1..Len(old) : old[i] = p[i]
  BY PrefixIs
<1>2. /\ rest \in Seq(Nat) /\ Len(rest) = Len(p) - Len(old)
      /\ \A i \in 1..Len(rest) : rest[i] = p[Len(old) + i]
  <2>1. \A i \in Len(old) + 1..Len(p) : p[i] \in Nat
    BY ElementOfSeq
  <2>2. /\ rest \in Seq(Nat) /\ Len(rest) = IF Len(old) + 1 <= Len(p) THEN Len(p) - (Len(old) + 1) + 1 ELSE 0
        /\ \A i \in 1..Len(p) - (Len(old) + 1) + 1 : rest[i] = p[Len(old) + 1 + i - 1]
    BY <2>1, SubSeqProperties
  <2>3. Len(old) \in Nat /\ Len(p) \in Nat
    OBVIOUS
  <2> HIDE DEF rest
  <2>4. Len(rest) = Len(p) - Len(old)
    BY <1>1, <2>2, <2>3
  <2>5. ASSUME NEW i \in 1..Len(rest) PROVE rest[i] = p[Len(old) + i]
    <3>1. i \in 1..Len(p) - (Len(old) + 1) + 1 /\ Len(old) + 1 + i - 1 = Len(old) + i
      BY <2>3, <2>4
    <3> QED BY <2>2, <3>1
  <2> QED BY <2>2, <2>4, <2>5
<1> HIDE DEF rest
<1>3. /\ q \in Seq(Nat) /\ Len(q) = Len(new) + Len(rest)
      /\ \A i \in 1..Len(new) + Len(rest) : q[i] = IF i <= Len(new) THEN new[i] ELSE rest[i - Len(new)]
  BY <1>2, ConcatProperties
<1> HIDE DEF q
<1>4. path_contains(new, q)
  <2>0. Len(new) \in Nat /\ Len(rest) \in Nat /\ Len(new) <= Len(q)
    BY <1>2, <1>3
  <2>1. ASSUME NEW i \in 1..Len(new) PROVE new[i] = q[i]
    <3>1. i \in 1..Len(new) + Len(rest) /\ i <= Len(new)
      BY <2>0
    <3> QED BY <1>3, <3>1
  <2> QED BY <1>3, <2>0, <2>1, PrefixIs
<1>5. /\ back \in Seq(Nat) /\ Len(back) = Len(rest)
      /\ \A i \in 1..Len(rest) : back[i] = rest[i]
  <2>1. \A i \in Len(new) + 1..Len(q) : q[i] \in Nat
    BY <1>3, ElementOfSeq
  <2>2. /\ back \in Seq(Nat) /\ Len(back) = IF Len(new) + 1 <= Len(q) THEN Len(q) - (Len(new) + 1) + 1 ELSE 0
        /\ \A i \in 1..Len(q) - (Len(new) + 1) + 1 : back[i] = q[Len(new) + 1 + i - 1]
    BY <1>3, <2>1, SubSeqProperties
  <2>3. Len(new) \in Nat /\ Len(rest) \in Nat
    BY <1>2
  <2> HIDE DEF back
  <2>4. Len(back) = Len(rest)
    BY <1>3, <2>2, <2>3
  <2>5. ASSUME NEW i \in 1..Len(rest) PROVE back[i] = rest[i]
    <3>1. i \in 1..Len(q) - (Len(new) + 1) + 1 /\ Len(new) + 1 + i - 1 = Len(new) + i
      BY <1>3, <2>3
    <3>2. back[i] = q[Len(new) + i]
      BY <2>2, <3>1
    <3>3. Len(new) + i \in 1..Len(new) + Len(rest) /\ ~(Len(new) + i <= Len(new)) /\ Len(new) + i - Len(new) = i
      BY <2>3
    <3> QED BY <1>3, <3>2, <3>3
  <2> QED BY <2>2, <2>4, <2>5
<1> HIDE DEF back
<1>6. back = rest
  BY <1>2, <1>5, SeqEqual
<1>7. /\ old \o rest \in Seq(Nat) /\ Len(old \o rest) = Len(old) + Len(rest)
      /\ \A i \in 1..Len(old) + Len(rest) : (old \o rest)[i] = IF i <= Len(old) THEN old[i] ELSE rest[i - Len(old)]
  BY <1>2, ConcatProperties
<1>8. old \o rest = p
  <2>1. Len(old \o rest) = Len(p)
    BY <1>1, <1>2, <1>7
  <2> DEFINE v == old \o rest
  <2> HIDE DEF v
  <2>2. ASSUME NEW i \in 1..Len(v) PROVE v[i] = p[i]
    <3>1. CASE i <= Len(old)
      BY <1>1, <1>2, <1>7, <3>1 DEF v
    <3>2. CASE i > Len(old)
      <4>1. i - Len(old) \in 1..Len(rest) /\ Len(old) + (i - Len(old)) = i /\ i \in 1..Len(old) + Len(rest)
        BY <1>2, <1>7, <3>2 DEF v
      <4>2. v[i] = rest[i - Len(old)]
        BY <1>7, <3>2, <4>1 DEF v
      <4> QED BY <1>2, <4>1, <4>2
    <3> QED BY <1>2, <1>7, <3>1, <3>2 DEF v
  <2> QED BY <1>7, <2>1, <2>2, SeqEqual DEF v
<1>9. Rebase(p, old, new) = q /\ Rebase(q, new, old) = old \o back
  BY DEF Rebase, q, rest, back
<1> QED BY <1>3, <1>4, <1>6, <1>8, <1>9

(* Whatever contains a path and not its parent is the path. *)
LEMMA BelowItsParent ==
  ASSUME NEW a \in Seq(Nat), NEW q \in Seq(Nat), q # <<>>, path_contains(a, q), ~path_contains(a, parent_path(q))
  PROVE  q = a
<1> DEFINE n == Len(q)
           f == SubSeq(q, 1, n - 1)
<1>1. n \in Nat /\ Len(a) \in Nat /\ n >= 1
  BY EmptySeq
<1>2. Len(a) <= n /\ \A i \in 1..Len(a) : a[i] = q[i]
  BY PrefixIs
<1>3. f \in Seq(Nat) /\ Len(f) = n - 1 /\ \A i \in 1..n - 1 : f[i] = q[i]
  <2>1. \A i \in 1..n - 1 : q[i] \in Nat
    BY <1>1, ElementOfSeq
  <2> HIDE DEF n
  <2>2. /\ f \in Seq(Nat) /\ Len(f) = IF 1 <= n - 1 THEN n - 1 - 1 + 1 ELSE 0
        /\ \A i \in 1..n - 1 - 1 + 1 : f[i] = q[1 + i - 1]
    BY <1>1, <2>1, SubSeqProperties
  <2>3. \A i \in 1..n - 1 : i \in 1..n - 1 - 1 + 1 /\ 1 + i - 1 = i
    BY <1>1
  <2> HIDE DEF f
  <2> QED BY <1>1, <2>2, <2>3
<1>4. parent_path(q) = f
  BY DEF parent_path, Front
<1> HIDE DEF n, f
<1>5. ~(Len(a) <= n - 1)
  <2> SUFFICES ASSUME Len(a) <= n - 1 PROVE FALSE
    OBVIOUS
  <2>1. \A i \in 1..Len(a) : a[i] = f[i]
    BY <1>1, <1>2, <1>3
  <2> QED BY <1>3, <1>4, <2>1, PrefixIs
<1>6. Len(a) = Len(q)
  BY <1>1, <1>2, <1>5 DEF n
<1> QED BY <1>2, <1>6, SeqEqual

(* Put changes one node. *)
LEMMA PutIs ==
  ASSUME NEW t, NEW p, NEW node, NEW q, q # p
  PROVE  Node(Put(t, p, node), q) = Node(t, q)
BY DEF Node, Put

(* remove_all leaves alone what is outside the subtree. *)
LEMMA RemoveIs ==
  ASSUME NEW t, NEW p, NEW q, ~path_contains(p, q)
  PROVE  Node(remove_all(t, p), q) = Node(t, q)
BY DEF Node, remove_all

(* rename leaves alone what is outside both subtrees. *)
LEMMA RenameIs ==
  ASSUME NEW t, DOMAIN t \subseteq Seq(Nat), NEW old \in Seq(Nat), NEW new \in Seq(Nat),
         NEW q, ~path_contains(old, q), ~path_contains(new, q)
  PROVE  Node(rename(t, old, new), q) = Node(t, q)
<1> DEFINE rest == remove_all(remove_all(t, old), new)
           moved == Moved(t, old, new)
           r == rename(t, old, new)
<1>1. Node(rest, q) = Node(t, q)
  BY RemoveIs
<1>2. q \notin moved
  BY RebaseBack DEF Moved
<1>3. r = [p \in DOMAIN rest \cup moved |-> IF path_contains(new, p) THEN t[Rebase(p, new, old)] ELSE rest[p]]
  BY DEF rename
<1> HIDE DEF rest, moved, r
<1>4. Node(r, q) = Node(rest, q)
  BY <1>2, <1>3 DEF Node
<1> QED BY <1>1, <1>4 DEF r

(* The nodes of a tree are at paths of the model and are data or directories. *)
IsTyped(t) == DOMAIN t \subseteq Paths /\ \A p \in DOMAIN t : t[p] \in Data \cup {Dir}

(* Put keeps the types. *)
LEMMA PutTyped ==
  ASSUME NEW t, IsTyped(t), NEW p \in Paths, NEW node \in Data \cup {Dir}
  PROVE  IsTyped(Put(t, p, node))
BY DEF IsTyped, Put

(* remove_all keeps the types. *)
LEMMA RemoveTyped ==
  ASSUME NEW t, IsTyped(t), NEW p
  PROVE  IsTyped(remove_all(t, p))
BY DEF IsTyped, remove_all

(* rename keeps the types when the paths it moves to are paths of the model. *)
LEMMA RenameTyped ==
  ASSUME NEW t, IsTyped(t), NEW old \in Seq(Nat), NEW new \in Seq(Nat), Moved(t, old, new) \subseteq Paths
  PROVE  IsTyped(rename(t, old, new))
<1> DEFINE rest == remove_all(remove_all(t, old), new)
           moved == Moved(t, old, new)
           r == rename(t, old, new)
<1>1. IsTyped(rest) /\ \A q \in DOMAIN rest : ~path_contains(new, q)
  <2>1. IsTyped(rest)
    BY RemoveTyped
  <2> QED BY <2>1 DEF remove_all
<1>2. r = [q \in DOMAIN rest \cup moved |-> IF path_contains(new, q) THEN t[Rebase(q, new, old)] ELSE rest[q]]
  BY DEF rename
<1>3. ASSUME NEW q \in moved
      PROVE  path_contains(new, q) /\ Rebase(q, new, old) \in DOMAIN t
  <2>1. PICK p \in DOMAIN t : path_contains(old, p) /\ q = Rebase(p, old, new)
    BY DEF Moved
  <2>2. p \in Seq(Nat)
    BY PathsAreNames DEF IsTyped
  <2> QED BY <2>1, <2>2, RebaseBack
<1>4. moved \subseteq Paths
  OBVIOUS
<1> HIDE DEF rest, moved, r
<1>5. DOMAIN r \subseteq Paths
  BY <1>1, <1>2, <1>4 DEF IsTyped
<1>6. ASSUME NEW q \in DOMAIN r PROVE r[q] \in Data \cup {Dir}
  <2>1. CASE q \in moved
    BY <1>2, <1>3, <2>1 DEF IsTyped
  <2>2. CASE q \in DOMAIN rest
    BY <1>1, <1>2, <2>2 DEF IsTyped
  <2> QED BY <1>2, <2>1, <2>2
<1> QED BY <1>5, <1>6 DEF IsTyped, r

(* A set of numbers that is not empty has a least one. *)
LEMMA LeastNumber ==
  ASSUME NEW S \in SUBSET Nat, S # {}
  PROVE  \E s \in S : \A x \in S : s <= x
<1> DEFINE Less == {p \in Nat \X Nat : p[1] < p[2]}
<1>1. IsWellFoundedOn(Less, Nat)
  BY NatLessThanWellFounded DEF OpToRel
<1> HIDE DEF Less
<1>2. PICK s \in S : \A x \in S : ~(<<x, s>> \in Less)
  BY <1>1, WFMin
<1>3. ASSUME NEW x \in S PROVE s <= x
  <2>1. s \in Nat /\ x \in Nat
    OBVIOUS
  <2>2. ~(x < s)
    <3> SUFFICES ASSUME x < s PROVE <<x, s>> \in Less
      BY <1>2
    <3> QED BY <2>1 DEF Less
  <2> QED BY <2>1, <2>2
<1> QED BY <1>3

(* The first n names of a path. *)
Cut(q, n) == SubSeq(q, 1, n)

(* What a cut is, and that it contains the path. *)
LEMMA CutIs ==
  ASSUME NEW q \in Seq(Nat), NEW n \in 0..Len(q)
  PROVE  /\ Cut(q, n) \in Seq(Nat) /\ Len(Cut(q, n)) = n /\ \A i \in 1..n : Cut(q, n)[i] = q[i]
         /\ path_contains(Cut(q, n), q)
<1> DEFINE f == SubSeq(q, 1, n)
<1>1. Len(q) \in Nat /\ n \in Nat /\ n <= Len(q)
  OBVIOUS
<1>2. \A i \in 1..n : q[i] \in Nat
  BY <1>1, ElementOfSeq
<1>3. /\ f \in Seq(Nat) /\ Len(f) = IF 1 <= n THEN n - 1 + 1 ELSE 0
      /\ \A i \in 1..n - 1 + 1 : f[i] = q[1 + i - 1]
  BY <1>1, <1>2, SubSeqProperties
<1>4. \A i \in 1..n : i \in 1..n - 1 + 1 /\ 1 + i - 1 = i
  BY <1>1
<1> HIDE DEF f
<1>5. f \in Seq(Nat) /\ Len(f) = n /\ \A i \in 1..n : f[i] = q[i]
  BY <1>1, <1>3, <1>4
<1>6. path_contains(f, q)
  BY <1>1, <1>5, PrefixIs
<1> QED BY <1>5, <1>6 DEF f, Cut

(* Every prefix is a cut. *)
LEMMA PrefixIsCut ==
  ASSUME NEW p \in Seq(Nat), NEW q \in Seq(Nat), path_contains(p, q)
  PROVE  Len(p) \in 0..Len(q) /\ p = Cut(q, Len(p))
<1>1. Len(p) \in Nat /\ Len(q) \in Nat /\ Len(p) <= Len(q) /\ \A i \in 1..Len(p) : p[i] = q[i]
  BY PrefixIs
<1>2. Len(p) \in 0..Len(q)
  BY <1>1
<1>3. /\ Cut(q, Len(p)) \in Seq(Nat) /\ Len(Cut(q, Len(p))) = Len(p)
      /\ \A i \in 1..Len(p) : Cut(q, Len(p))[i] = q[i]
  BY <1>2, CutIs
<1>4. \A i \in 1..Len(p) : p[i] = Cut(q, Len(p))[i]
  BY <1>1, <1>3
<1> QED BY <1>2, <1>3, <1>4, SeqEqual

(* The parent of a path is its cut by one name. *)
LEMMA ParentIs ==
  ASSUME NEW q \in Seq(Nat), q # <<>>
  PROVE  /\ Len(q) \in Nat \ {0} /\ parent_path(q) = Cut(q, Len(q) - 1)
         /\ parent_path(q) \in Seq(Nat) /\ Len(parent_path(q)) = Len(q) - 1
         /\ path_contains(parent_path(q), q)
<1>1. Len(q) \in Nat \ {0}
  BY EmptySeq
<1>2. Len(q) - 1 \in 0..Len(q)
  BY <1>1
<1>3. parent_path(q) = Cut(q, Len(q) - 1)
  BY DEF parent_path, Front, Cut
<1> QED BY <1>1, <1>2, <1>3, CutIs

(* The parent of a cut is the next shorter one. *)
LEMMA ParentOfCut ==
  ASSUME NEW q \in Seq(Nat), NEW n \in 1..Len(q)
  PROVE  Cut(q, n) # <<>> /\ parent_path(Cut(q, n)) = Cut(q, n - 1)
<1>1. Len(q) \in Nat /\ n \in 0..Len(q) /\ n - 1 \in 0..Len(q) /\ n \in Nat /\ n >= 1 /\ n - 1 \in 0..n
  OBVIOUS
<1> DEFINE c == Cut(q, n)
           d == Cut(q, n - 1)
<1>2. c \in Seq(Nat) /\ Len(c) = n /\ \A i \in 1..n : c[i] = q[i]
  BY <1>1, CutIs
<1>3. d \in Seq(Nat) /\ Len(d) = n - 1 /\ \A i \in 1..n - 1 : d[i] = q[i]
  BY <1>1, CutIs
<1> HIDE DEF c, d
<1>4. c # <<>>
  BY <1>1, <1>2, EmptySeq
<1>5. parent_path(c) = Cut(c, n - 1)
  BY <1>2, <1>4, ParentIs
<1>6. Cut(c, n - 1) \in Seq(Nat) /\ Len(Cut(c, n - 1)) = n - 1 /\ \A i \in 1..n - 1 : Cut(c, n - 1)[i] = c[i]
  BY <1>1, <1>2, CutIs
<1>7. \A i \in 1..n - 1 : i \in 1..n
  BY <1>1
<1>8. Cut(c, n - 1) = d
  BY <1>2, <1>3, <1>6, <1>7, SeqEqual
<1> QED BY <1>4, <1>5, <1>8 DEF c, d

(* A set of paths closed under parents holds every prefix of its paths: the cuts in it *)
(* have a least length, which cannot be above that of the prefix.                      *)
LEMMA PrefixesIn ==
  ASSUME NEW G, \A r \in Seq(Nat) : r \in G /\ r # <<>> => parent_path(r) \in G,
         NEW p \in Seq(Nat), NEW q \in Seq(Nat), q \in G, path_contains(p, q)
  PROVE  p \in G
<1> DEFINE N == Len(q)
           T == {k \in Nat : k <= N /\ Cut(q, N - k) \notin G}
<1>1. N \in Nat /\ Len(p) \in 0..N /\ p = Cut(q, Len(p))
  BY PrefixIsCut
<1>2. Cut(q, N) = q
  <2>1. path_contains(q, q)
    BY PrefixIs
  <2> QED BY <2>1, PrefixIsCut
<1> HIDE DEF N
<1>3. T = {}
  <2> SUFFICES ASSUME T # {} PROVE FALSE
    OBVIOUS
  <2>1. PICK k \in T : \A x \in T : k <= x
    BY LeastNumber
  <2>2. k \in Nat /\ k <= N /\ Cut(q, N - k) \notin G
    BY <2>1
  <2>3. k # 0
    BY <1>1, <1>2, <2>2
  <2>4. k - 1 \in Nat /\ k - 1 <= N /\ ~(k <= k - 1) /\ N - (k - 1) \in 1..N /\ N - (k - 1) - 1 = N - k
    BY <1>1, <2>2, <2>3
  <2>5. Cut(q, N - (k - 1)) \in G
    BY <2>1, <2>4
  <2>6. /\ Cut(q, N - (k - 1)) # <<>>
        /\ parent_path(Cut(q, N - (k - 1))) = Cut(q, N - k)
    BY <2>4, ParentOfCut DEF N
  <2>7. Cut(q, N - (k - 1)) \in Seq(Nat)
    BY <1>1, <2>4, CutIs DEF N
  <2> QED BY <2>2, <2>5, <2>6, <2>7
<1>4. N - Len(p) \in Nat /\ N - Len(p) <= N /\ N - (N - Len(p)) = Len(p)
  BY <1>1
<1> QED BY <1>1, <1>3, <1>4

(* Paths of the model are not the root, and their parents are paths of the model or the *)
(* root.                                                                                *)
LEMMA PathIs ==
  ASSUME NEW p \in Paths
  PROVE  p \in Seq(Nat) /\ p # <<>> /\ parent_path(p) \in Paths \cup {<<>>}
<1>1. p \in Seq(Nat) /\ p # <<>>
  BY PathsAreNames
<1>2. /\ Len(p) \in Nat \ {0} /\ parent_path(p) \in Seq(Nat) /\ Len(parent_path(p)) = Len(p) - 1
  BY <1>1, ParentIs
<1>3. CASE Len(p) = 1
  <2>1. Len(parent_path(p)) = 0
    BY <1>2, <1>3
  <2> QED BY <1>1, <1>2, <2>1, EmptySeq
<1>4. CASE Len(p) # 1
  BY <1>1, <1>4, PathsAreClosed DEF parent_path
<1> QED BY <1>3, <1>4

(* path_contains is reflexive. *)
LEMMA ContainsItself ==
  ASSUME NEW p \in Seq(Nat)
  PROVE  path_contains(p, p)
BY PrefixIs

(* path_contains is transitive. *)
LEMMA ContainsTransitively ==
  ASSUME NEW p \in Seq(Nat), NEW q \in Seq(Nat), NEW r \in Seq(Nat), path_contains(p, q), path_contains(q, r)
  PROVE  path_contains(p, r)
<1>1. Len(p) \in Nat /\ Len(q) \in Nat /\ Len(r) \in Nat
  OBVIOUS
<1>2. Len(p) <= Len(q) /\ \A i \in 1..Len(p) : p[i] = q[i]
  BY PrefixIs
<1>3. Len(q) <= Len(r) /\ \A i \in 1..Len(q) : q[i] = r[i]
  BY PrefixIs
<1>4. Len(p) <= Len(r) /\ \A i \in 1..Len(p) : p[i] = r[i]
  BY <1>1, <1>2, <1>3
<1> QED BY <1>4, PrefixIs

(* path_contains is antisymmetric. *)
LEMMA ContainsBothWays ==
  ASSUME NEW p \in Seq(Nat), NEW q \in Seq(Nat), path_contains(p, q), path_contains(q, p)
  PROVE  p = q
<1>1. Len(p) = Len(q) /\ \A i \in 1..Len(p) : p[i] = q[i]
  BY PrefixIs
<1> QED BY <1>1, SeqEqual

(* Only the root contains the root. *)
LEMMA ContainsRoot ==
  ASSUME NEW p \in Seq(Nat), path_contains(p, <<>>)
  PROVE  p = <<>>
<1> DEFINE e == <<>>
<1>1. e \in Seq(Nat) /\ Len(e) = 0 /\ path_contains(p, e)
  BY EmptySeq
<1> HIDE DEF e
<1>2. Len(p) <= Len(e)
  BY <1>1, PrefixIs
<1>3. Len(p) \in Nat /\ ~(Len(p) \in Nat \ {0})
  BY <1>1, <1>2
<1> QED BY <1>3, EmptySeq

(* A parent contains its child and not the other way round. *)
LEMMA ParentContains ==
  ASSUME NEW q \in Paths
  PROVE  /\ path_contains(parent_path(q), q) /\ parent_path(q) \in Seq(Nat) /\ parent_path(q) # q
         /\ ~path_contains(q, parent_path(q))
<1>1. /\ Len(q) \in Nat \ {0} /\ parent_path(q) \in Seq(Nat) /\ Len(parent_path(q)) = Len(q) - 1
      /\ path_contains(parent_path(q), q) /\ q \in Seq(Nat)
  BY PathIs, ParentIs
<1>2. parent_path(q) # q
  BY <1>1
<1> QED BY <1>1, <1>2, ContainsBothWays

(* The paths of the model are closed under prefixes. *)
LEMMA PrefixOfPath ==
  ASSUME NEW p \in Seq(Nat), p # <<>>, NEW q \in Paths, path_contains(p, q)
  PROVE  p \in Paths
<1> DEFINE G == Paths \cup {<<>>}
<1>1. \A r \in Seq(Nat) : r \in G /\ r # <<>> => parent_path(r) \in G
  BY PathIs
<1>2. q \in G /\ q \in Seq(Nat)
  BY PathIs
<1> HIDE DEF G
<1>3. p \in G
  BY <1>1, <1>2, PrefixesIn
<1> QED BY <1>3 DEF G

(* Upto, the paths mkdir_all visits, are the prefixes of the path. *)
LEMMA UptoIs ==
  ASSUME NEW p \in Paths \cup {<<>>}
  PROVE  Upto(p) = {q \in Paths : path_contains(q, p)}
<1>0. p \in Seq(Nat) /\ Len(p) \in Nat
  BY PathIs, EmptySeq
<1>1. ASSUME NEW q \in Upto(p)
      PROVE  q \in Paths /\ path_contains(q, p)
  <2>1. PICK n \in 1..Len(p) : q = Cut(p, n)
    BY DEF Upto, Cut
  <2>2. n \in 0..Len(p) /\ n \in Nat /\ n >= 1
    BY <1>0
  <2>3. q \in Seq(Nat) /\ Len(q) = n /\ path_contains(q, p)
    BY <1>0, <2>1, <2>2, CutIs
  <2>4. q # <<>>
    BY <2>2, <2>3, EmptySeq
  <2>5. p # <<>>
    BY <2>3, <2>4, ContainsRoot
  <2> QED BY <2>3, <2>4, <2>5, PrefixOfPath
<1>2. ASSUME NEW q \in Paths, path_contains(q, p)
      PROVE  q \in Upto(p)
  <2>1. q \in Seq(Nat) /\ Len(q) \in Nat \ {0}
    BY PathIs, EmptySeq
  <2>2. Len(q) \in 0..Len(p) /\ q = Cut(p, Len(q))
    BY <1>0, <1>2, <2>1, PrefixIsCut
  <2>3. Len(q) \in 1..Len(p)
    BY <1>0, <2>1, <2>2
  <2> QED BY <2>2, <2>3 DEF Upto, Cut
<1> QED BY <1>1, <1>2

(* A tree that is a file system: typed, every parent a directory, and a function. *)
IsFs(t) == IsTyped(t) /\ IsTree(t) /\ t = [q \in DOMAIN t |-> t[q]]

(* These are the members of Trees. *)
LEMMA FsIsTree ==
  ASSUME NEW t
  PROVE  IsFs(t) <=> t \in Trees
<1>1. ASSUME IsFs(t) PROVE t \in Trees
  <2>1. DOMAIN t \in SUBSET Paths /\ t \in [DOMAIN t -> Data \cup {Dir}]
    BY <1>1 DEF IsFs, IsTyped
  <2> QED BY <1>1, <2>1 DEF IsFs, Trees
<1>2. ASSUME t \in Trees PROVE IsFs(t)
  <2>1. PICK S \in SUBSET Paths : t \in [S -> Data \cup {Dir}]
    BY <1>2 DEF Trees
  <2>2. IsTree(t)
    BY <1>2 DEF Trees
  <2> QED BY <2>1, <2>2 DEF IsFs, IsTyped
<1> QED BY <1>1, <1>2

(* Whatever properly contains a node of a file system is a directory. *)
LEMMA AncestorIsDir ==
  ASSUME NEW t, IsFs(t), NEW q \in DOMAIN t, NEW p \in Seq(Nat), path_contains(p, q), p # q
  PROVE  is_dir(t, p)
<1> DEFINE G == {r \in Seq(Nat) : r = q \/ is_dir(t, r)}
<1>0. q \in Paths /\ q \in Seq(Nat)
  BY PathIs DEF IsFs, IsTyped
<1>1. ASSUME NEW r \in Seq(Nat), r \in G, r # <<>> PROVE parent_path(r) \in G
  <2>1. r \in DOMAIN t
    BY <1>1 DEF is_dir, Node, Absent, Dir
  <2>2. is_dir(t, parent_path(r))
    BY <2>1 DEF IsFs, IsTree
  <2>3. parent_path(r) \in Seq(Nat)
    BY <1>1, ParentIs
  <2> QED BY <2>2, <2>3
<1>2. q \in G
  BY <1>0
<1> HIDE DEF G
<1>3. p \in G
  BY <1>0, <1>1, <1>2, PrefixesIn
<1> QED BY <1>3 DEF G

(* Putting a node below a directory gives a file system, unless data replace a directory. *)
LEMMA PutFs ==
  ASSUME NEW t, IsFs(t), NEW p \in Paths, NEW node \in Data \cup {Dir},
         is_dir(t, parent_path(p)), node = Dir \/ ~is_dir(t, p)
  PROVE  IsFs(Put(t, p, node))
<1> DEFINE u == Put(t, p, node)
<1>1. IsTyped(u)
  BY PutTyped DEF IsFs
<1>2. DOMAIN u = DOMAIN t \cup {p} /\ u = [q \in DOMAIN u |-> u[q]]
  BY DEF Put
<1>3. ASSUME NEW q \in DOMAIN u PROVE is_dir(u, parent_path(q))
  <2>1. is_dir(t, parent_path(q))
    BY <1>2 DEF IsFs, IsTree
  <2>2. CASE parent_path(q) = p
    BY <2>1, <2>2 DEF is_dir, Node, Put
  <2>3. CASE parent_path(q) # p
    BY <2>1, <2>3, PutIs DEF is_dir
  <2> QED BY <2>2, <2>3
<1> QED BY <1>1, <1>2, <1>3 DEF IsFs, IsTree

(* Removing a subtree gives a file system. *)
LEMMA RemoveFs ==
  ASSUME NEW t, IsFs(t), NEW p \in Paths
  PROVE  IsFs(remove_all(t, p))
<1> DEFINE u == remove_all(t, p)
<1>1. IsTyped(u)
  BY RemoveTyped DEF IsFs
<1>2. DOMAIN u = {r \in DOMAIN t : ~path_contains(p, r)} /\ u = [q \in DOMAIN u |-> u[q]]
  BY DEF remove_all
<1>3. ASSUME NEW q \in DOMAIN u PROVE is_dir(u, parent_path(q))
  <2>1. q \in DOMAIN t /\ ~path_contains(p, q)
    BY <1>2
  <2>2. q \in Paths /\ q \in Seq(Nat) /\ p \in Seq(Nat)
    BY <2>1, PathIs DEF IsFs, IsTyped
  <2>3. ~path_contains(p, parent_path(q))
    BY <2>1, <2>2, ParentContains, ContainsTransitively
  <2>4. is_dir(t, parent_path(q))
    BY <2>1 DEF IsFs, IsTree
  <2> QED BY <2>3, <2>4, RemoveIs DEF is_dir
<1> QED BY <1>1, <1>2, <1>3 DEF IsFs, IsTree

(* mkdir_all adds the missing directories and changes nothing else. *)
LEMMA MkdirIs ==
  ASSUME NEW t, NEW p \in Paths \cup {<<>>}, NEW q
  PROVE  Node(mkdir_all(t, p), q) = IF q \in Paths /\ path_contains(q, p) /\ q \notin DOMAIN t THEN Dir ELSE Node(t, q)
<1>1. DOMAIN mkdir_all(t, p) = DOMAIN t \cup {r \in Paths : path_contains(r, p)}
  BY UptoIs DEF mkdir_all
<1>2. \A r \in DOMAIN mkdir_all(t, p) : mkdir_all(t, p)[r] = IF r \in DOMAIN t THEN t[r] ELSE Dir
  BY DEF mkdir_all
<1>3. \A r \in Paths : r # <<>>
  BY PathIs
<1> QED BY <1>1, <1>2, <1>3 DEF Node

(* mkdir_all gives a file system with the directory in it when no file is in the way. *)
LEMMA MkdirFs ==
  ASSUME NEW t, IsFs(t), NEW p \in Paths \cup {<<>>}, CanMkdirAll(t, p)
  PROVE  IsFs(mkdir_all(t, p)) /\ is_dir(mkdir_all(t, p), p)
<1> DEFINE u == mkdir_all(t, p)
           up == {r \in Paths : path_contains(r, p)}
<1>1. DOMAIN u = DOMAIN t \cup up /\ u = [q \in DOMAIN u |-> u[q]]
  BY UptoIs DEF mkdir_all
<1>2. \A q \in DOMAIN u : u[q] = IF q \in DOMAIN t THEN t[q] ELSE Dir
  BY DEF mkdir_all
<1>3. IsTyped(u)
  BY <1>1, <1>2 DEF IsFs, IsTyped
<1>4. \A q \in up : is_dir(u, q)
  <2> SUFFICES ASSUME NEW q \in up PROVE is_dir(u, q)
    OBVIOUS
  <2>1. ~is_leaf(t, q)
    BY UptoIs DEF CanMkdirAll
  <2>2. q \in DOMAIN u
    BY <1>1
  <2>3. CASE q \in DOMAIN t
    <3>1. t[q] \in Data \cup {Dir}
      BY <2>3 DEF IsFs, IsTyped
    <3>2. q # <<>>
      BY PathIs
    <3>3. t[q] = Dir
      BY <2>1, <2>3, <3>1, <3>2, DataIsNotDir DEF is_leaf, exists, is_dir, Node, Absent, Dir
    <3> QED BY <1>2, <2>2, <2>3, <3>3 DEF is_dir, Node
  <2>4. CASE q \notin DOMAIN t
    BY <1>2, <2>2, <2>4 DEF is_dir, Node
  <2> QED BY <2>3, <2>4
<1>5. ASSUME NEW q \in DOMAIN u PROVE is_dir(u, parent_path(q))
  <2>1. CASE q \in DOMAIN t
    <3>1. is_dir(t, parent_path(q))
      BY <2>1 DEF IsFs, IsTree
    <3> QED BY <3>1, MkdirIs DEF is_dir
  <2>2. CASE q \in up
    <3>1. p \in Seq(Nat)
      BY PathIs, EmptySeq
    <3>2. /\ path_contains(parent_path(q), q) /\ parent_path(q) \in Seq(Nat)
          /\ parent_path(q) \in Paths \cup {<<>>} /\ q \in Seq(Nat)
      BY <2>2, PathIs, ParentContains
    <3>3. path_contains(parent_path(q), p)
      BY <2>2, <3>1, <3>2, ContainsTransitively
    <3>4. CASE parent_path(q) = <<>>
      BY <3>4 DEF is_dir, Node
    <3>5. CASE parent_path(q) \in Paths
      BY <1>4, <3>3, <3>5
    <3> QED BY <3>2, <3>4, <3>5
  <2> QED BY <1>1, <2>1, <2>2
<1>6. is_dir(u, p)
  <2>1. CASE p = <<>>
    BY <2>1 DEF is_dir, Node
  <2>2. CASE p \in Paths
    <3>1. p \in up
      BY <2>2, PathIs, ContainsItself
    <3> QED BY <1>4, <3>1
  <2> QED BY <2>1, <2>2
<1> QED BY <1>1, <1>3, <1>5, <1>6 DEF IsFs, IsTree

(* q is p with the prefix old replaced by new, name by name. *)
Spliced(q, p, old, new) ==
  /\ q \in Seq(Nat) /\ Len(q) = Len(new) + (Len(p) - Len(old))
  /\ \A i \in 1..Len(q) : q[i] = IF i <= Len(new) THEN new[i] ELSE p[i - Len(new) + Len(old)]

(* That is what Rebase computes. *)
LEMMA RebaseIs ==
  ASSUME NEW p \in Seq(Nat), NEW old \in Seq(Nat), NEW new \in Seq(Nat), path_contains(old, p)
  PROVE  Spliced(Rebase(p, old, new), p, old, new)
<1> DEFINE rest == SubSeq(p, Len(old) + 1, Len(p))
           q == Rebase(p, old, new)
<1>1. Len(p) \in Nat /\ Len(old) \in Nat /\ Len(new) \in Nat /\ Len(old) <= Len(p)
  BY PrefixIs
<1>2. rest \in Seq(Nat) /\ Len(rest) = Len(p) - Len(old) /\ \A i \in 1..Len(rest) : rest[i] = p[Len(old) + i]
  <2>1. \A i \in Len(old) + 1..Len(p) : p[i] \in Nat
    BY <1>1, ElementOfSeq
  <2>2. /\ rest \in Seq(Nat)
        /\ Len(rest) = IF Len(old) + 1 <= Len(p) THEN Len(p) - (Len(old) + 1) + 1 ELSE 0
        /\ \A i \in 1..Len(p) - (Len(old) + 1) + 1 : rest[i] = p[Len(old) + 1 + i - 1]
    BY <1>1, <2>1, SubSeqProperties
  <2> HIDE DEF rest
  <2>3. Len(rest) = Len(p) - Len(old)
    BY <1>1, <2>2
  <2>4. \A i \in 1..Len(rest) : i \in 1..Len(p) - (Len(old) + 1) + 1 /\ Len(old) + 1 + i - 1 = Len(old) + i
    BY <1>1, <2>3
  <2> QED BY <2>2, <2>3, <2>4
<1>a. q = new \o rest
  BY DEF Rebase
<1> HIDE DEF rest, q
<1>3. /\ q \in Seq(Nat) /\ Len(q) = Len(new) + Len(rest)
      /\ \A i \in 1..Len(new) + Len(rest) : q[i] = IF i <= Len(new) THEN new[i] ELSE rest[i - Len(new)]
  BY <1>2, <1>a, ConcatProperties
<1>4. ASSUME NEW i \in 1..Len(q), ~(i <= Len(new))
      PROVE  q[i] = p[i - Len(new) + Len(old)]
  <2>1. i - Len(new) \in 1..Len(rest) /\ Len(old) + (i - Len(new)) = i - Len(new) + Len(old)
    BY <1>1, <1>2, <1>3, <1>4
  <2>2. q[i] = rest[i - Len(new)]
    BY <1>3, <1>4
  <2> QED BY <1>2, <2>1, <2>2
<1>5. \A i \in 1..Len(q) : i <= Len(new) => q[i] = new[i]
  BY <1>3
<1>6. Len(q) = Len(new) + (Len(p) - Len(old))
  BY <1>2, <1>3
<1>7. Spliced(q, p, old, new)
  BY <1>3, <1>4, <1>5, <1>6 DEF Spliced
<1> QED BY <1>7 DEF q

(* Rebasing commutes with taking the parent, below the path that moves. *)
LEMMA RebaseParent ==
  ASSUME NEW p \in Seq(Nat), NEW old \in Seq(Nat), NEW new \in Seq(Nat), path_contains(old, p), p # old
  PROVE  /\ p # <<>> /\ path_contains(old, parent_path(p))
         /\ Rebase(p, old, new) # <<>>
         /\ parent_path(Rebase(p, old, new)) = Rebase(parent_path(p), old, new)
<1> DEFINE q == Rebase(p, old, new)
           r == parent_path(p)
           s == Rebase(r, old, new)
           n == Len(q)
<1>0. Len(p) \in Nat /\ Len(old) \in Nat /\ Len(new) \in Nat /\ Len(old) <= Len(p)
  BY PrefixIs
<1>1. p # <<>>
  BY ContainsRoot
<1>2. path_contains(old, r)
  BY <1>1, BelowItsParent
<1>3. Len(p) >= 1 /\ r \in Seq(Nat) /\ Len(r) = Len(p) - 1 /\ r = Cut(p, Len(p) - 1)
  BY <1>0, <1>1, ParentIs
<1>4. \A i \in 1..Len(p) - 1 : r[i] = p[i]
  <2>1. Len(p) - 1 \in 0..Len(p)
    BY <1>0, <1>3
  <2> QED BY <1>3, <2>1, CutIs
<1>5. Len(old) <= Len(r)
  BY <1>2, <1>3, PrefixIs
<1> HIDE DEF r
<1>a. Spliced(q, p, old, new) /\ Spliced(s, r, old, new)
  BY <1>2, <1>3, RebaseIs
<1> HIDE DEF q, s
<1>6. /\ q \in Seq(Nat) /\ Len(q) = Len(new) + (Len(p) - Len(old))
      /\ \A i \in 1..Len(q) : q[i] = IF i <= Len(new) THEN new[i] ELSE p[i - Len(new) + Len(old)]
  BY <1>a DEF Spliced
<1>7. /\ s \in Seq(Nat) /\ Len(s) = Len(new) + (Len(r) - Len(old))
      /\ \A i \in 1..Len(s) : s[i] = IF i <= Len(new) THEN new[i] ELSE r[i - Len(new) + Len(old)]
  BY <1>a DEF Spliced
<1>8. n \in Nat /\ n >= 1 /\ Len(s) = n - 1 /\ n - 1 \in 0..n
  <2>1. n = Len(new) + (Len(p) - Len(old)) /\ Len(s) = Len(new) + (Len(r) - Len(old)) /\ Len(r) = Len(p) - 1
    BY <1>3, <1>6, <1>7
  <2>2. Len(r) \in Nat /\ Len(s) \in Nat /\ n \in Nat
    BY <1>3, <1>6, <1>7
  <2> HIDE DEF n
  <2>3. Len(s) = n - 1
    BY <1>0, <2>1, <2>2
  <2> QED BY <2>2, <2>3
<1>9. q # <<>>
  BY <1>6, <1>8, EmptySeq
<1>10. parent_path(q) = Cut(q, n - 1)
  BY <1>6, <1>9, ParentIs
<1> DEFINE c == Cut(q, n - 1)
<1>11. c \in Seq(Nat) /\ Len(c) = n - 1 /\ \A i \in 1..n - 1 : c[i] = q[i]
  BY <1>6, <1>8, CutIs
<1> HIDE DEF c
<1>12. ASSUME NEW i \in 1..Len(c) PROVE c[i] = s[i]
  <2>1. i \in 1..n - 1 /\ i \in 1..Len(q) /\ i \in 1..Len(s)
    BY <1>8, <1>11
  <2>2. CASE i <= Len(new)
    BY <1>6, <1>7, <1>11, <2>1, <2>2
  <2>3. CASE ~(i <= Len(new))
    <3>1. i - Len(new) + Len(old) \in 1..Len(p) - 1
      BY <1>0, <1>3, <1>5, <1>6, <1>8, <2>1, <2>3
    <3> QED BY <1>4, <1>6, <1>7, <1>11, <2>1, <2>3, <3>1
  <2> QED BY <2>2, <2>3
<1>13. Len(c) = Len(s)
  BY <1>8, <1>11
<1>14. c = s
  BY <1>7, <1>11, <1>12, <1>13, SeqEqual
<1> QED BY <1>1, <1>2, <1>9, <1>10, <1>14 DEF q, r, s, c

(* rename gives a file system. *)
LEMMA RenameFs ==
  ASSUME NEW t, IsFs(t), NEW old \in Paths, NEW new \in Paths, CanRename(t, old, new)
  PROVE  IsFs(rename(t, old, new))
<1> DEFINE rest == remove_all(remove_all(t, old), new)
           moved == Moved(t, old, new)
           u == rename(t, old, new)
<1>0. old \in Seq(Nat) /\ new \in Seq(Nat) /\ old # <<>> /\ new # <<>>
  BY PathIs
<1>1. IsTyped(u)
  BY <1>0, RenameTyped DEF IsFs, CanRename
<1>2. IsFs(rest)
  BY RemoveFs
<1>3. DOMAIN rest = {q \in DOMAIN t : ~path_contains(old, q) /\ ~path_contains(new, q)}
  BY DEF remove_all
<1>4. /\ DOMAIN u = DOMAIN rest \cup moved /\ u = [q \in DOMAIN u |-> u[q]]
      /\ \A q \in DOMAIN u : u[q] = IF path_contains(new, q) THEN t[Rebase(q, new, old)] ELSE rest[q]
  BY DEF rename
<1>5. \A q : ~path_contains(old, q) /\ ~path_contains(new, q) => Node(u, q) = Node(t, q)
  <2>1. DOMAIN t \subseteq Seq(Nat)
    BY PathIs DEF IsFs, IsTyped
  <2> QED BY <1>0, <2>1, RenameIs
<1> HIDE DEF u, rest, moved
<1>6. ASSUME NEW q \in DOMAIN rest PROVE is_dir(u, parent_path(q))
  <2>1. q \in DOMAIN t /\ ~path_contains(old, q) /\ ~path_contains(new, q) /\ q \in Paths /\ q \in Seq(Nat)
    BY <1>3, PathIs DEF IsFs, IsTyped
  <2>2. ~path_contains(old, parent_path(q)) /\ ~path_contains(new, parent_path(q))
    BY <1>0, <2>1, ParentContains, ContainsTransitively
  <2>3. is_dir(t, parent_path(q))
    BY <2>1 DEF IsFs, IsTree
  <2> QED BY <1>5, <2>2, <2>3 DEF is_dir
<1>7. ASSUME NEW q \in moved PROVE is_dir(u, parent_path(q))
  <2>1. PICK p \in DOMAIN t : path_contains(old, p) /\ q = Rebase(p, old, new)
    BY DEF moved, Moved
  <2>2. p \in Paths /\ p \in Seq(Nat)
    BY PathIs DEF IsFs, IsTyped
  <2>3. CASE p = old
    <3>1. q = new
      <4>1. /\ q \in Seq(Nat) /\ Len(q) = Len(new) + (Len(p) - Len(old))
            /\ \A i \in 1..Len(q) : q[i] = IF i <= Len(new) THEN new[i] ELSE p[i - Len(new) + Len(old)]
        <5>1. Spliced(q, p, old, new)
          BY <1>0, <2>1, <2>2, RebaseIs
        <5> QED BY <5>1 DEF Spliced
      <4>2. Len(q) = Len(new) /\ Len(new) \in Nat
        BY <1>0, <2>3, <4>1
      <4>3. \A i \in 1..Len(q) : q[i] = new[i]
        BY <4>1, <4>2
      <4> QED BY <1>0, <4>1, <4>2, <4>3, SeqEqual
    <3>2. ~path_contains(old, parent_path(new)) /\ ~path_contains(new, parent_path(new))
      BY <1>0, ParentContains, ContainsTransitively DEF CanRename
    <3>3. is_dir(t, parent_path(new))
      BY DEF CanRename
    <3> QED BY <1>5, <3>1, <3>2, <3>3 DEF is_dir
  <2>4. CASE p # old
    <3>1. /\ p # <<>> /\ path_contains(old, parent_path(p))
          /\ parent_path(q) = Rebase(parent_path(p), old, new)
      BY <1>0, <2>1, <2>2, <2>4, RebaseParent
    <3> DEFINE r == parent_path(p)
    <3>2. r \in Seq(Nat) /\ r # <<>>
      BY <1>0, <2>2, <3>1, ParentContains, ContainsRoot
    <3>3. is_dir(t, r)
      BY <2>1 DEF IsFs, IsTree
    <3>4. r \in DOMAIN t /\ t[r] = Dir
      BY <3>2, <3>3 DEF is_dir, Node, Dir, Absent
    <3> HIDE DEF r
    <3>5. parent_path(q) \in moved
      BY <3>1, <3>4 DEF moved, Moved, r
    <3>6. path_contains(new, parent_path(q)) /\ Rebase(parent_path(q), new, old) = r
      BY <1>0, <3>1, <3>2, RebaseBack DEF r
    <3>7. parent_path(q) \in DOMAIN u /\ u[parent_path(q)] = Dir
      BY <1>4, <3>4, <3>5, <3>6
    <3> QED BY <3>7 DEF is_dir, Node
  <2> QED BY <2>3, <2>4
<1> QED BY <1>1, <1>4, <1>6, <1>7 DEF IsFs, IsTree, u
=============================================================================
