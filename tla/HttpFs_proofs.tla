--------------------------- MODULE HttpFs_proofs ---------------------------
(***************************************************************************)
(* Proofs of the safety properties of module HttpFs for any number of      *)
(* threads, any set of paths, bodies, lookups and changes, any initial     *)
(* tree and any bounds.                                                    *)
(*                                                                         *)
(* The invariant says of every cached entry that it is what the server     *)
(* would answer, or that a thread which made a change is still to          *)
(* invalidate it, or that it is excused (CacheOK); and the like of         *)
(* everything on its way into the cache: the stale entry a request         *)
(* carries, the metadata of a GET whose body is not read yet, the entry    *)
(* about to be stored (InFlight).  Two facts carry it.  Every entry whose  *)
(* answer a change affects lies in what the change invalidates, as long as *)
(* no node has lost the directory above it (InvalidationsSuffice):         *)
(* listings show the directories implied by deeper paths, so the proof is  *)
(* about prefixes of paths.  And a response that is taken for "not         *)
(* modified" renews an entry which already carried the version the         *)
(* validators name (ResponseIs).                                           *)
(***************************************************************************)
EXTENDS HttpFs, TLAPS, SequenceTheorems

(* IsPrefix, element by element. *)
LEMMA PrefixIs ==
  ASSUME NEW p \in Seq(Nat), NEW q \in Seq(Nat)
  PROVE  IsPrefix(p, q) <=> Len(p) <= Len(q) /\ \A i \in 1..Len(p) : p[i] = q[i]
<1>1. SUFFICES ASSUME Len(p) <= Len(q)
               PROVE  SubSeq(p, 1, Len(p)) = SubSeq(q, 1, Len(p)) <=> \A i \in 1..Len(p) : p[i] = q[i]
  BY DEF IsPrefix
<1> DEFINE n == Len(p)
<1>2. n \in Nat /\ Len(q) \in Nat
  OBVIOUS
<1>3. \A i \in 1..n : p[i] \in Nat /\ q[i] \in Nat
  BY <1>1, <1>2, ElementOfSeq
<1> HIDE DEF n
<1>4. \A i \in 1..n : i \in 1..n - 1 + 1 /\ 1 + i - 1 = i
  BY <1>2
<1> DEFINE a == SubSeq(p, 1, n)
           b == SubSeq(q, 1, n)
<1>5. a \in Seq(Nat) /\ Len(a) = n /\ \A i \in 1..n : a[i] = p[i]
  <2>1. /\ a \in Seq(Nat) /\ Len(a) = IF 1 <= n THEN n - 1 + 1 ELSE 0
        /\ \A i \in 1..n - 1 + 1 : a[i] = p[1 + i - 1]
    BY <1>2, <1>3, SubSeqProperties
  <2> HIDE DEF a
  <2> QED BY <1>2, <1>4, <2>1
<1>6. b \in Seq(Nat) /\ Len(b) = n /\ \A i \in 1..n : b[i] = q[i]
  <2>1. /\ b \in Seq(Nat) /\ Len(b) = IF 1 <= n THEN n - 1 + 1 ELSE 0
        /\ \A i \in 1..n - 1 + 1 : b[i] = q[1 + i - 1]
    BY <1>2, <1>3, SubSeqProperties
  <2> HIDE DEF b
  <2> QED BY <1>2, <1>4, <2>1
<1> HIDE DEF a, b
<1>7. a = b <=> \A i \in 1..n : p[i] = q[i]
  <2>1. ASSUME \A i \in 1..n : p[i] = q[i] PROVE a = b
    <3>1. \A i \in 1..Len(a) : a[i] = b[i]
      BY <1>5, <1>6, <2>1
    <3> QED BY <1>5, <1>6, <3>1, SeqEqual
  <2> QED BY <1>5, <1>6, <2>1
<1> QED BY <1>7 DEF a, b, n

(* IsStrictPrefix, element by element. *)
LEMMA StrictPrefixIs ==
  ASSUME NEW p \in Seq(Nat), NEW q \in Seq(Nat)
  PROVE  IsStrictPrefix(p, q) <=> Len(p) < Len(q) /\ \A i \in 1..Len(p) : p[i] = q[i]
<1>1. ASSUME IsPrefix(p, q), p # q PROVE Len(p) < Len(q)
  <2>1. Len(p) <= Len(q) /\ \A i \in 1..Len(p) : p[i] = q[i]
    BY <1>1, PrefixIs
  <2>2. Len(p) = Len(q) => p = q
    BY <2>1, SeqEqual
  <2> QED BY <1>1, <2>1, <2>2
<1>2. Len(p) < Len(q) => p # q
  OBVIOUS
<1> QED BY <1>1, <1>2, PrefixIs DEF IsStrictPrefix

(* The parent of a path is the path without its last name. *)
LEMMA ParentIs ==
  ASSUME NEW q \in Seq(Nat), q # <<>>
  PROVE  /\ Len(q) \in Nat \ {0} /\ parent_path(q) \in Seq(Nat) /\ Len(parent_path(q)) = Len(q) - 1
         /\ \A i \in 1..Len(q) - 1 : parent_path(q)[i] = q[i]
<1>1. Len(q) \in Nat \ {0}
  BY EmptySeq
<1> DEFINE n == Len(q) - 1
           a == SubSeq(q, 1, n)
<1>2. parent_path(q) = a
  BY DEF parent_path, Front
<1>3. n \in Nat /\ \A i \in 1..n : q[i] \in Nat
  BY <1>1, ElementOfSeq
<1> HIDE DEF n
<1>4. /\ a \in Seq(Nat) /\ Len(a) = IF 1 <= n THEN n - 1 + 1 ELSE 0
      /\ \A i \in 1..n - 1 + 1 : a[i] = q[1 + i - 1]
  BY <1>3, SubSeqProperties
<1>5. \A i \in 1..n : i \in 1..n - 1 + 1 /\ 1 + i - 1 = i
  BY <1>3
<1> HIDE DEF a
<1>6. Len(a) = n /\ \A i \in 1..n : a[i] = q[i]
  BY <1>3, <1>4, <1>5
<1> QED BY <1>1, <1>2, <1>4, <1>6 DEF n

(* What lies above a path is its parent, or lies above its parent and shows the same *)
(* name.                                                                             *)
LEMMA AboveIs ==
  ASSUME NEW g \in Seq(Nat), NEW q \in Seq(Nat), IsStrictPrefix(g, q)
  PROVE  /\ q # <<>>
         /\ g = parent_path(q)
              \/ (IsStrictPrefix(g, parent_path(q)) /\ parent_path(q) # <<>> /\ parent_path(q)[Len(g) + 1] = q[Len(g) + 1])
<1>1. Len(g) < Len(q) /\ \A i \in 1..Len(g) : g[i] = q[i]
  BY StrictPrefixIs
<1>2. q # <<>> /\ Len(g) \in Nat /\ Len(q) \in Nat
  BY <1>1
<1> DEFINE u == parent_path(q)
<1>3. u \in Seq(Nat) /\ Len(u) = Len(q) - 1 /\ \A i \in 1..Len(q) - 1 : u[i] = q[i]
  BY <1>2, ParentIs
<1> HIDE DEF u
<1>4. \A i \in 1..Len(g) : g[i] = u[i]
  BY <1>1, <1>2, <1>3
<1>5. CASE Len(g) = Len(q) - 1
  BY <1>2, <1>3, <1>4, <1>5, SeqEqual DEF u
<1>6. CASE Len(g) < Len(q) - 1
  <2>1. IsStrictPrefix(g, u)
    BY <1>3, <1>4, <1>6, StrictPrefixIs
  <2>2. Len(g) + 1 \in 1..Len(q) - 1 /\ u # <<>>
    BY <1>2, <1>3, <1>6
  <2> QED BY <1>2, <1>3, <2>1, <2>2 DEF u
<1> QED BY <1>1, <1>2, <1>5, <1>6

(* A child lies below its parent. *)
LEMMA ChildIs ==
  ASSUME NEW g \in Seq(Nat), NEW n \in Nat
  PROVE  Append(g, n) \in Seq(Nat) /\ IsStrictPrefix(g, Append(g, n)) /\ parent_path(Append(g, n)) = g
<1> DEFINE q == Append(g, n)
<1>1. q \in Seq(Nat) /\ Len(q) = Len(g) + 1 /\ \A i \in 1..Len(g) : q[i] = g[i]
  BY AppendProperties
<1>2. Len(g) \in Nat /\ q # <<>>
  BY <1>1
<1> HIDE DEF q
<1>3. IsStrictPrefix(g, q)
  BY <1>1, <1>2, StrictPrefixIs
<1>4. /\ parent_path(q) \in Seq(Nat) /\ Len(parent_path(q)) = Len(q) - 1
      /\ \A i \in 1..Len(q) - 1 : parent_path(q)[i] = q[i]
  BY <1>1, <1>2, ParentIs
<1>5. Len(parent_path(q)) = Len(g) /\ \A i \in 1..Len(g) : parent_path(q)[i] = g[i]
  BY <1>1, <1>2, <1>4
<1>6. parent_path(q) = g
  BY <1>4, <1>5, SeqEqual
<1> QED BY <1>1, <1>3, <1>6 DEF q

(* What rename moves ends up below the new path. *)
LEMMA MovedIs ==
  ASSUME NEW old \in Seq(Nat), NEW new \in Seq(Nat), NEW p \in Seq(Nat), IsPrefix(old, p)
  PROVE  IsPrefix(new, new \o SubSeq(p, Len(old) + 1, Len(p))) /\ new \o SubSeq(old, Len(old) + 1, Len(old)) = new
<1> DEFINE rest == SubSeq(p, Len(old) + 1, Len(p))
           q == new \o rest
<1>1. Len(old) <= Len(p) /\ Len(old) \in Nat /\ Len(p) \in Nat
  BY PrefixIs
<1>2. \A i \in Len(old) + 1..Len(p) : p[i] \in Nat
  BY <1>1, ElementOfSeq
<1>3. rest \in Seq(Nat)
  BY <1>1, <1>2, SubSeqProperties
<1> HIDE DEF rest
<1>4. q \in Seq(Nat) /\ Len(q) = Len(new) + Len(rest) /\ \A i \in 1..Len(new) : q[i] = new[i]
  <2>1. q \in Seq(Nat) /\ Len(q) = Len(new) + Len(rest) /\ \A i \in 1..Len(new) + Len(rest) : q[i] = IF i <= Len(new) THEN new[i] ELSE rest[i - Len(new)]
    BY <1>3, ConcatProperties
  <2>2. Len(new) \in Nat /\ Len(rest) \in Nat
    BY <1>3
  <2> HIDE DEF q
  <2> QED BY <2>1, <2>2
<1>5. Len(new) \in Nat /\ Len(rest) \in Nat
  BY <1>3
<1> HIDE DEF q
<1>6. IsPrefix(new, q)
  <2>1. Len(new) <= Len(q) /\ \A i \in 1..Len(new) : new[i] = q[i]
    BY <1>4, <1>5
  <2> QED BY <1>4, <2>1, PrefixIs
<1>7. SubSeq(old, Len(old) + 1, Len(old)) = <<>>
  BY <1>1, SubSeqEmpty
<1>8. new \o <<>> = new
  BY ConcatEmptySeq
<1> QED BY <1>6, <1>7, <1>8 DEF q, rest

(* Two trees that show the same names below a path list the same children. *)
LEMMA ChildrenSame ==
  ASSUME NEW t, NEW s, NEW g,
         \A q \in DOMAIN t : IsStrictPrefix(g, q) => \E r \in DOMAIN s : IsStrictPrefix(g, r) /\ r[Len(g) + 1] = q[Len(g) + 1],
         \A q \in DOMAIN s : IsStrictPrefix(g, q) => \E r \in DOMAIN t : IsStrictPrefix(g, r) /\ r[Len(g) + 1] = q[Len(g) + 1]
  PROVE  children_for(s, g) = children_for(t, g)
BY DEF children_for

(* The parent of a path strictly below another is still at or below it. *)
LEMMA ParentBelow ==
  ASSUME NEW a \in Seq(Nat), NEW q \in Seq(Nat), IsPrefix(a, q), q # a
  PROVE  q # <<>> /\ IsPrefix(a, parent_path(q))
<1>1. IsStrictPrefix(a, q)
  BY DEF IsStrictPrefix
<1>2. q # <<>>
  BY <1>1, AboveIs
<1>3. parent_path(q) \in Seq(Nat)
  BY <1>2, ParentIs
<1>4. IsPrefix(a, a)
  BY PrefixIs
<1> QED BY <1>1, <1>2, <1>4, AboveIs DEF IsStrictPrefix

(* Two paths above a third: the one that is not below the other is above it. *)
LEMMA NotBelow ==
  ASSUME NEW a \in Seq(Nat), NEW g \in Seq(Nat), NEW q \in Seq(Nat), IsPrefix(a, q), IsStrictPrefix(g, q), ~IsPrefix(a, g)
  PROVE  IsStrictPrefix(g, a) /\ a[Len(g) + 1] = q[Len(g) + 1]
<1>1. Len(a) <= Len(q) /\ \A i \in 1..Len(a) : a[i] = q[i]
  BY PrefixIs
<1>2. Len(g) < Len(q) /\ \A i \in 1..Len(g) : g[i] = q[i]
  BY StrictPrefixIs
<1>3. Len(a) \in Nat /\ Len(g) \in Nat /\ Len(q) \in Nat
  OBVIOUS
<1>4. Len(g) < Len(a)
  <2>1. ASSUME Len(a) <= Len(g) PROVE FALSE
    <3>1. \A i \in 1..Len(a) : a[i] = g[i]
      BY <1>1, <1>2, <1>3, <2>1
    <3> QED BY <2>1, <3>1, PrefixIs
  <2> QED BY <1>3, <2>1
<1>5. \A i \in 1..Len(g) : g[i] = a[i]
  BY <1>1, <1>2, <1>3, <1>4
<1>6. IsStrictPrefix(g, a)
  BY <1>4, <1>5, StrictPrefixIs
<1>7. Len(g) + 1 \in 1..Len(a)
  BY <1>3, <1>4
<1> QED BY <1>1, <1>6, <1>7

(* The listing of g has the name by which q lies below g. *)
Shows(t, g, q) == \E r \in DOMAIN t : IsStrictPrefix(g, r) /\ r[Len(g) + 1] = q[Len(g) + 1]

(* A node whose parent is there adds nothing to a listing further up. *)
LEMMA ShownAbove ==
  ASSUME NEW t, NEW g \in Seq(Nat), NEW q \in Seq(Nat), IsStrictPrefix(g, q), g # parent_path(q),
         parent_path(q) = <<>> \/ parent_path(q) \in DOMAIN t
  PROVE  Shows(t, g, q)
BY AboveIs DEF Shows

(* Two trees differ only on T, and what is at T changes neither the node at g nor what *)
(* the listing of g has.                                                               *)
Alike(t, m, s, n, g, T) ==
  /\ DOMAIN t \subseteq Seq(Nat) /\ DOMAIN s \subseteq Seq(Nat) /\ g \in Seq(Nat) /\ g \notin T
  /\ \A q \in Seq(Nat) : q \notin T => stat(s, q) = stat(t, q) /\ (q \in DOMAIN s <=> q \in DOMAIN t)
  /\ \A q \in Seq(Nat) : q \in T /\ IsStrictPrefix(g, q) =>
       g # parent_path(q) /\ (q \in DOMAIN s => Shows(t, g, q)) /\ (q \in DOMAIN t => Shows(s, g, q))
  /\ g \in DOMAIN t => n[g] = m[g]

(* Then the answers to a request for g are the same. *)
LEMMA Unaffected ==
  ASSUME NEW t, NEW m, NEW s, NEW n, NEW k, NEW T, Alike(t, m, s, n, k.path, T)
  PROVE  Answer(s, n, k) = Answer(t, m, k)
<1> DEFINE g == k.path
<1>0. Alike(t, m, s, n, g, T)
  OBVIOUS
<1>1. stat(s, g) = stat(t, g) /\ (g \in DOMAIN s <=> g \in DOMAIN t)
  BY <1>0 DEF Alike
<1>2. children_for(s, g) = children_for(t, g)
  <2>1. \A q \in DOMAIN t : IsStrictPrefix(g, q) => \E r \in DOMAIN s : IsStrictPrefix(g, r) /\ r[Len(g) + 1] = q[Len(g) + 1]
    BY <1>0 DEF Shows, Alike
  <2>2. \A q \in DOMAIN s : IsStrictPrefix(g, q) => \E r \in DOMAIN t : IsStrictPrefix(g, r) /\ r[Len(g) + 1] = q[Len(g) + 1]
    BY <1>0 DEF Shows, Alike
  <2> HIDE DEF g
  <2> QED BY <2>1, <2>2, ChildrenSame
<1>3. \A x \in children_for(t, g) : x \in Nat
  <2>1. SUFFICES ASSUME NEW q \in DOMAIN t, IsStrictPrefix(g, q) PROVE q[Len(g) + 1] \in Nat
    BY DEF children_for
  <2>2. q \in Seq(Nat) /\ Len(g) < Len(q) /\ Len(g) \in Nat /\ Len(q) \in Nat
    BY <1>0, <2>1, StrictPrefixIs DEF Alike
  <2> HIDE DEF g
  <2>3. Len(g) + 1 \in 1..Len(q)
    BY <2>2
  <2> QED BY <2>2, <2>3, ElementOfSeq
<1>4. \A x \in children_for(t, g) : stat(s, Append(g, x)) = stat(t, Append(g, x))
  <2>1. SUFFICES ASSUME NEW x \in children_for(t, g) PROVE stat(s, Append(g, x)) = stat(t, Append(g, x))
    OBVIOUS
  <2>2. /\ Append(g, x) \in Seq(Nat) /\ IsStrictPrefix(g, Append(g, x)) /\ parent_path(Append(g, x)) = g
    BY <1>0, <1>3, ChildIs DEF Alike
  <2>3. Append(g, x) \notin T
    BY <1>0, <2>2 DEF Alike
  <2> QED BY <1>0, <2>2, <2>3 DEF Alike
<1>5. exists(s, g) = exists(t, g)
  BY <1>1 DEF exists
<1>6. ASSUME exists(t, g) PROVE s[g] = t[g] /\ n[g] = m[g]
  BY <1>0, <1>1, <1>6 DEF exists, stat, Alike
<1> HIDE DEF g
<1>7. ASSUME exists(t, g) PROVE Metadata(s, n, g) = Metadata(t, m, g) /\ NodeOf(s, g) = NodeOf(t, g)
  <2>1. IsDir(s, g) = IsDir(t, g) /\ ContentLength(s, g) = ContentLength(t, g)
    BY <1>2, <1>6, <1>7 DEF IsDir, ContentLength
  <2>2. {<<x, stat(s, Append(g, x)) = Dir>> : x \in children_for(s, g)} = {<<x, stat(t, Append(g, x)) = Dir>> : x \in children_for(t, g)}
    BY <1>2, <1>4
  <2>3. Metadata(s, n, g) = Metadata(t, m, g)
    BY <1>6, <1>7, <2>1 DEF Metadata
  <2>4. NodeOf(s, g) = NodeOf(t, g)
    BY <1>6, <1>7, <2>1, <2>2 DEF NodeOf
  <2> QED BY <2>3, <2>4
<1> QED BY <1>5, <1>7 DEF Answer, g

(* The paths whose entries a change invalidates. *)
Covers(c, g) ==
  \/ c.op = "patch"
  \/ IsPrefix(c.path, g) \/ g = parent_path(c.path)
  \/ c.op = "rename" /\ (IsPrefix(c.to, g) \/ g = parent_path(c.to))

(* Invalidations removes exactly the entries Covers names. *)
LEMMA InvalidationsAre ==
  ASSUME NEW c \in Changes, NEW k
  PROVE  k \in Invalidations(c) <=> k \in DOMAIN cache /\ Covers(c, k.path)
BY ChangesAreTyped DEF Invalidations, Covers, InTree, Exact

(* A change leaves the times of the nodes it does not touch. *)
LEMMA StampIs ==
  ASSUME NEW c \in Changes, NEW t, NEW m, NEW s, NEW g, g \in DOMAIN s, g \in DOMAIN t, s[g] = t[g],
         g # c.path, c.op = "rename" => ~IsPrefix(c.to, g)
  PROVE  Stamped(t, m, c, s)[g] = m[g]
BY DEF Stamped

(* A change of one node whose parent is there affects only the answers it covers. *)
LEMMA OnePathSuffices ==
  ASSUME DOMAIN tree \subseteq Seq(Nat), NEW c \in Changes, NEW s, DOMAIN s \subseteq Seq(Nat), c.path \in Seq(Nat),
         c.op # "rename",
         \A q \in Seq(Nat) : q # c.path => (q \in DOMAIN s <=> q \in DOMAIN tree) /\ (q \in DOMAIN tree => s[q] = tree[q]),
         parent_path(c.path) = <<>> \/ parent_path(c.path) \in DOMAIN tree \/ (c.path \in DOMAIN tree /\ c.path \in DOMAIN s),
         NEW k, k.path \in Seq(Nat), ~Covers(c, k.path)
  PROVE  Answer(s, Stamped(tree, mtime, c, s), k) = Answer(tree, mtime, k)
<1> DEFINE g == k.path
           n == Stamped(tree, mtime, c, s)
<1>1. ~IsPrefix(c.path, g) /\ g # parent_path(c.path)
  BY DEF Covers
<1>2. g # c.path
  BY <1>1, PrefixIs
<1>3. \A q \in Seq(Nat) : q \notin {c.path} => stat(s, q) = stat(tree, q) /\ (q \in DOMAIN s <=> q \in DOMAIN tree)
  BY DEF stat
<1>4. g \in DOMAIN tree => n[g] = mtime[g]
  BY <1>2, StampIs
<1>5. \A q \in Seq(Nat) : q \in {c.path} /\ IsStrictPrefix(g, q) =>
           g # parent_path(q) /\ (q \in DOMAIN s => Shows(tree, g, q)) /\ (q \in DOMAIN tree => Shows(s, g, q))
  <2>1. SUFFICES ASSUME IsStrictPrefix(g, c.path) PROVE Shows(tree, g, c.path) /\ Shows(s, g, c.path)
    BY <1>1
  <2>2. c.path # <<>>
    BY <2>1, AboveIs
  <2>3. CASE c.path \in DOMAIN tree /\ c.path \in DOMAIN s
    BY <2>1, <2>3 DEF Shows
  <2>4. CASE parent_path(c.path) = <<>>
    BY <1>1, <2>1, <2>4, ShownAbove
  <2>5. CASE parent_path(c.path) \in DOMAIN tree
    <3>1. parent_path(c.path) \in Seq(Nat) /\ parent_path(c.path) # c.path
      <4>1. parent_path(c.path) \in Seq(Nat) /\ Len(parent_path(c.path)) = Len(c.path) - 1 /\ Len(c.path) \in Nat
        BY <2>2, ParentIs
      <4> QED BY <4>1
    <3>2. parent_path(c.path) \in DOMAIN s
      BY <2>5, <3>1
    <3> QED BY <1>1, <2>1, <2>5, <3>2, ShownAbove
  <2> QED BY <2>3, <2>4, <2>5
<1>6. g \notin {c.path}
  BY <1>2
<1> HIDE DEF n
<1>7. Alike(tree, mtime, s, n, k.path, {c.path})
  BY <1>3, <1>4, <1>5, <1>6 DEF Alike
<1> HIDE DEF g
<1>8. Answer(s, n, k) = Answer(tree, mtime, k)
  BY ONLY <1>7, Unaffected
<1> QED BY <1>8 DEF n

(* What rename leaves outside of its two trees. *)
LEMMA RenamedIs ==
  ASSUME NEW t, DOMAIN t \subseteq Seq(Nat), NEW old \in Seq(Nat), NEW new \in Seq(Nat), NEW q \in Seq(Nat), old \in DOMAIN t,
         NEW s, s = Renamed(t, old, new)
  PROVE  /\ new \in DOMAIN s
         /\ ~IsPrefix(old, q) /\ ~IsPrefix(new, q) => (q \in DOMAIN s <=> q \in DOMAIN t) /\ (q \in DOMAIN t => s[q] = t[q])
         /\ ~IsPrefix(old, q) /\ q \in DOMAIN t => q \in DOMAIN s
<1> DEFINE gone == IF t[old] = Dir THEN {old} \cup Under(t, old) ELSE {old, new}
           moves == IF t[old] = Dir THEN {old} \cup Under(t, old) ELSE {old}
           To(p) == new \o SubSeq(p, Len(old) + 1, Len(p))
           rest == Without(t, gone)
<1>1. /\ DOMAIN s = DOMAIN rest \cup {To(p) : p \in moves}
      /\ \A r \in DOMAIN s : ~(\E p \in moves : To(p) = r) => s[r] = rest[r]
  BY DEF Renamed
<1>2. IsPrefix(old, old) /\ IsPrefix(new, new)
  BY PrefixIs
<1>3. \A p \in moves : p \in Seq(Nat) /\ IsPrefix(old, p)
  BY <1>2 DEF Under, IsStrictPrefix
<1>4. \A p \in moves : IsPrefix(new, To(p))
  BY <1>3, MovedIs
<1>5. old \in moves /\ To(old) = new
  BY <1>2, MovedIs
<1>6. \A p \in gone : IsPrefix(old, p) \/ p = new
  BY <1>2 DEF Under, IsStrictPrefix
<1>7. DOMAIN rest = DOMAIN t \ gone /\ \A r \in DOMAIN rest : rest[r] = t[r]
  BY DEF Without
<1> HIDE DEF gone, moves, rest, To
<1>8. new \in DOMAIN s
  BY <1>1, <1>5
<1>9. ~IsPrefix(old, q) /\ ~IsPrefix(new, q) => (q \in DOMAIN s <=> q \in DOMAIN t) /\ (q \in DOMAIN t => s[q] = t[q])
  <2>1. SUFFICES ASSUME ~IsPrefix(old, q), ~IsPrefix(new, q)
                 PROVE  (q \in DOMAIN s <=> q \in DOMAIN t) /\ (q \in DOMAIN t => s[q] = t[q])
    OBVIOUS
  <2>2. q \notin gone
    BY <1>2, <1>6, <2>1
  <2>3. ~\E p \in moves : To(p) = q
    BY <1>4, <2>1
  <2> QED BY <1>1, <1>7, <2>2, <2>3
<1>10. ~IsPrefix(old, q) /\ q \in DOMAIN t => q \in DOMAIN s
  <2>1. SUFFICES ASSUME ~IsPrefix(old, q), q \in DOMAIN t PROVE q \in DOMAIN s
    OBVIOUS
  <2>2. q \in gone => q = new
    BY <1>6, <2>1
  <2> QED BY <1>1, <1>7, <1>8, <2>1, <2>2
<1> QED BY <1>8, <1>9, <1>10

(* A rename affects only the answers it covers, when no node is an orphan. *)
LEMMA RenameSuffices ==
  ASSUME DOMAIN tree \subseteq Seq(Nat), NoOrphans(tree), NEW c \in Changes, c.op = "rename",
         c.path \in Seq(Nat), c.to \in Seq(Nat), InDirectory(tree, c.to), c.path \in DOMAIN tree,
         DOMAIN Renamed(tree, c.path, c.to) \subseteq Seq(Nat),
         NEW k, k.path \in Seq(Nat), ~Covers(c, k.path)
  PROVE  Answer(Renamed(tree, c.path, c.to), Stamped(tree, mtime, c, Renamed(tree, c.path, c.to)), k) = Answer(tree, mtime, k)
<1> DEFINE g == k.path
           s == Renamed(tree, c.path, c.to)
           n == Stamped(tree, mtime, c, s)
           T == {q \in Seq(Nat) : IsPrefix(c.path, q) \/ IsPrefix(c.to, q)}
<1>1. ~IsPrefix(c.path, g) /\ g # parent_path(c.path) /\ ~IsPrefix(c.to, g) /\ g # parent_path(c.to)
  BY DEF Covers
<1>2. g \notin T /\ g # c.path
  BY <1>1, PrefixIs
<1>0. s = Renamed(tree, c.path, c.to)
  OBVIOUS
<1> HIDE DEF s
<1>3. ASSUME NEW q \in Seq(Nat)
      PROVE  /\ c.to \in DOMAIN s
             /\ q \notin T => (q \in DOMAIN s <=> q \in DOMAIN tree) /\ (q \in DOMAIN tree => s[q] = tree[q])
             /\ ~IsPrefix(c.path, q) /\ q \in DOMAIN tree => q \in DOMAIN s
  BY <1>0, RenamedIs
<1>4. \A q \in Seq(Nat) : q \notin T => stat(s, q) = stat(tree, q) /\ (q \in DOMAIN s <=> q \in DOMAIN tree)
  BY <1>3 DEF stat
<1>5. g \in DOMAIN tree => n[g] = mtime[g]
  BY <1>1, <1>2, <1>3, StampIs
<1>6. ASSUME NEW q \in Seq(Nat), IsPrefix(c.path, q), IsStrictPrefix(g, q)
      PROVE  g # parent_path(q) /\ Shows(tree, g, q) /\ Shows(s, g, q)
  <2>1. IsStrictPrefix(g, c.path) /\ c.path[Len(g) + 1] = q[Len(g) + 1]
    BY <1>1, <1>6, NotBelow
  <2>2. g # parent_path(q)
    BY <1>1, <1>6, ParentBelow
  <2>3. c.path # <<>> /\ parent_path(c.path) # <<>> /\ IsStrictPrefix(g, parent_path(c.path))
        /\ parent_path(c.path)[Len(g) + 1] = c.path[Len(g) + 1]
    BY <1>1, <2>1, AboveIs
  <2>4. parent_path(c.path) \in DOMAIN tree
    BY DEF NoOrphans, exists, stat
  <2>5. ~IsPrefix(c.path, parent_path(c.path)) /\ parent_path(c.path) \in Seq(Nat)
    <3>1. /\ parent_path(c.path) \in Seq(Nat) /\ Len(parent_path(c.path)) = Len(c.path) - 1 /\ Len(c.path) \in Nat
      BY <2>3, ParentIs
    <3>2. Len(parent_path(c.path)) < Len(c.path)
      BY <3>1
    <3> QED BY <3>1, <3>2, PrefixIs
  <2>6. parent_path(c.path) \in DOMAIN s
    BY <1>3, <2>4, <2>5
  <2> QED BY <2>1, <2>2, <2>3, <2>4, <2>6 DEF Shows
<1>7. ASSUME NEW q \in Seq(Nat), IsPrefix(c.to, q), IsStrictPrefix(g, q)
      PROVE  g # parent_path(q) /\ Shows(tree, g, q) /\ Shows(s, g, q)
  <2>1. IsStrictPrefix(g, c.to) /\ c.to[Len(g) + 1] = q[Len(g) + 1]
    BY <1>1, <1>7, NotBelow
  <2>2. g # parent_path(q)
    BY <1>1, <1>7, ParentBelow
  <2>3. c.to # <<>> /\ parent_path(c.to) # <<>> /\ IsStrictPrefix(g, parent_path(c.to))
        /\ parent_path(c.to)[Len(g) + 1] = c.to[Len(g) + 1]
    BY <1>1, <2>1, AboveIs
  <2>4. parent_path(c.to) \in DOMAIN tree
    BY <2>3 DEF InDirectory, stat, Dir, Absent
  <2>5. c.to \in DOMAIN s
    BY <1>3
  <2> QED BY <2>1, <2>2, <2>3, <2>4, <2>5 DEF Shows
<1>8. \A q \in Seq(Nat) : q \in T /\ IsStrictPrefix(g, q) =>
           g # parent_path(q) /\ (q \in DOMAIN s => Shows(tree, g, q)) /\ (q \in DOMAIN tree => Shows(s, g, q))
  BY <1>6, <1>7
<1>9. DOMAIN s \subseteq Seq(Nat)
  BY DEF s
<1> HIDE DEF n, T
<1>10. Alike(tree, mtime, s, n, k.path, T)
  BY <1>2, <1>4, <1>5, <1>8, <1>9 DEF Alike
<1> HIDE DEF g
<1>11. Answer(s, n, k) = Answer(tree, mtime, k)
  BY ONLY <1>10, Unaffected
<1> QED BY <1>11 DEF n, s

(* A remove that succeeds. *)
LEMMA RemoveOk ==
  ASSUME NEW t, NEW p, remove(t, p).err = "none"
  PROVE  p # <<>> /\ exists(t, p) /\ remove(t, p).tree = Without(t, {p})
<1> DEFINE r == remove(t, p)
<1>1. p = <<>> => r = Fail("invalid", t)
  BY DEF remove
<1>2. p # <<>> /\ ~exists(t, p) => r = Fail("not_found", t)
  BY DEF remove
<1>3. p # <<>> /\ exists(t, p) => r = Fail("not_empty", t) \/ r = Ok(Without(t, {p}))
  BY DEF remove
<1> HIDE DEF r
<1>4. r.err = "none"
  BY DEF r
<1>5. r # Fail("invalid", t) /\ r # Fail("not_found", t) /\ r # Fail("not_empty", t)
  BY <1>4 DEF Fail
<1>6. p # <<>> /\ exists(t, p) /\ r = Ok(Without(t, {p}))
  BY <1>1, <1>2, <1>3, <1>5, Zenon
<1> QED BY <1>6 DEF r, Ok

(* A rename that succeeds. *)
LEMMA RenameOk ==
  ASSUME NEW t, NEW p, NEW q, p # q, rename(t, p, q).err = "none"
  PROVE  InDirectory(t, q) /\ exists(t, p) /\ rename(t, p, q).tree = Renamed(t, p, q)
<1> DEFINE r == rename(t, p, q)
<1>1. ~InDirectory(t, q) \/ ~exists(t, p) => r = Fail("not_found", t)
  BY DEF rename
<1>2. InDirectory(t, q) /\ exists(t, p) => r = Fail("exists", t) \/ r = Ok(Renamed(t, p, q))
  BY DEF rename
<1> HIDE DEF r
<1>3. r.err = "none"
  BY DEF r
<1>4. r # Fail("not_found", t) /\ r # Fail("exists", t)
  BY <1>3 DEF Fail
<1>5. InDirectory(t, q) /\ exists(t, p) /\ r = Ok(Renamed(t, p, q))
  BY <1>1, <1>2, <1>4, Zenon
<1> QED BY <1>5 DEF r, Ok

(* An mkdir that succeeds and makes a directory. *)
LEMMA MkdirOk ==
  ASSUME NEW t, NEW p, stat(t, p) # Dir, handle_mkdir(t, p).err = "none"
  PROVE  HasParent(t, p) /\ handle_mkdir(t, p).tree = Insert(t, p, Dir)
<1> DEFINE r == handle_mkdir(t, p)
<1>1. r = Fail("exists", t) \/ (HasParent(t, p) /\ r = Ok(Insert(t, p, Dir))) \/ r = Fail("not_found", t)
  BY DEF handle_mkdir, mkdir
<1> HIDE DEF r
<1>2. r.err = "none"
  BY DEF r
<1>3. HasParent(t, p) /\ r.tree = Insert(t, p, Dir)
  BY <1>1, <1>2 DEF Fail, Ok
<1> QED BY <1>3 DEF r

(* The invalidations of a change cover every entry whose answer the change affects, when *)
(* no node is an orphan.                                                                 *)
LEMMA InvalidationsSuffice ==
  ASSUME DOMAIN tree \subseteq Paths, NoOrphans(tree), NEW c \in Changes, handle(tree, c).err = "none",
         DOMAIN handle(tree, c).tree \subseteq Paths, NEW k, k.path \in Paths, ~Covers(c, k.path)
  PROVE  Answer(handle(tree, c).tree, Stamped(tree, mtime, c, handle(tree, c).tree), k) = Answer(tree, mtime, k)
<1> DEFINE s == handle(tree, c).tree
           P == c.path
<1>1. DOMAIN tree \subseteq Seq(Nat) /\ DOMAIN s \subseteq Seq(Nat) /\ P \in Seq(Nat) /\ k.path \in Seq(Nat)
  BY PathsAreSequences, ChangesAreTyped
<1>2. c.op # "patch"
  BY DEF Covers
<1>3. CASE c.op = "rename"
  <2>1. handle(tree, c) = rename(tree, P, c.to)
    BY <1>3 DEF handle
  <2>2. CASE P = c.to
    <3>1. s = tree
      BY <2>1, <2>2 DEF rename, Ok
    <3>2. k.path \in DOMAIN tree => Stamped(tree, mtime, c, s)[k.path] = mtime[k.path]
      <4>1. k.path # P /\ ~IsPrefix(c.to, k.path)
        BY <1>1, <2>2, PrefixIs DEF Covers
      <4> QED BY <3>1, <4>1, StampIs
    <3> DEFINE n == Stamped(tree, mtime, c, s)
    <3> HIDE DEF s, n
    <3>5. Alike(tree, mtime, s, n, k.path, {})
      BY <1>1, <3>1, <3>2 DEF Alike, n
    <3>6. Answer(s, n, k) = Answer(tree, mtime, k)
      BY <3>5, Unaffected
    <3> QED BY <3>6 DEF n, s
  <2>3. CASE P # c.to
    <3>1. InDirectory(tree, c.to) /\ exists(tree, P) /\ s = Renamed(tree, P, c.to)
      <4>1. rename(tree, P, c.to).err = "none"
        BY <2>1
      <4>2. InDirectory(tree, c.to) /\ exists(tree, P) /\ rename(tree, P, c.to).tree = Renamed(tree, P, c.to)
        BY <2>3, <4>1, RenameOk, Zenon
      <4> QED BY <2>1, <4>2
    <3>2. P \in DOMAIN tree
      BY <3>1 DEF exists, stat
    <3>3. c.to \in Seq(Nat)
      BY <1>3, PathsAreSequences, ChangesAreTyped
    <3> QED BY <1>1, <1>3, <3>1, <3>2, <3>3, RenameSuffices
  <2> QED BY <2>2, <2>3
<1>4. ASSUME NEW node, HasParent(tree, P), s = Insert(tree, P, node), c.op # "rename"
      PROVE  Answer(s, Stamped(tree, mtime, c, s), k) = Answer(tree, mtime, k)
  <2>1. \A q \in Seq(Nat) : q # P => (q \in DOMAIN s <=> q \in DOMAIN tree) /\ (q \in DOMAIN tree => s[q] = tree[q])
    BY <1>4 DEF Insert
  <2>2. parent_path(P) = <<>> \/ parent_path(P) \in DOMAIN tree
    BY <1>4 DEF HasParent, exists, stat
  <2> HIDE DEF s
  <2> QED BY <1>1, <1>4, <2>1, <2>2, OnePathSuffices
<1>5. CASE c.op = "put"
  <2>1. handle(tree, c) = handle_put(tree, P, c.data)
    BY <1>5 DEF handle
  <2>2. HasParent(tree, P) /\ s = Insert(tree, P, c.data)
    BY <2>1 DEF handle_put, Ok, Fail
  <2> QED BY <1>4, <1>5, <2>2
<1>6. CASE c.op = "mkdir"
  <2>1. handle(tree, c) = handle_mkdir(tree, P)
    BY <1>6 DEF handle
  <2>2. CASE stat(tree, P) = Dir
    <3>1. s = tree
      BY <2>1, <2>2 DEF handle_mkdir, Ok
    <3>2. P \in DOMAIN tree
      BY <2>2 DEF stat, Dir, Absent
    <3> HIDE DEF s
    <3>3. \A q \in Seq(Nat) : q # P => (q \in DOMAIN s <=> q \in DOMAIN tree) /\ (q \in DOMAIN tree => s[q] = tree[q])
      BY <3>1
    <3> QED BY <1>1, <1>6, <3>1, <3>2, <3>3, OnePathSuffices DEF s
  <2>3. CASE stat(tree, P) # Dir
    <3>1. HasParent(tree, P) /\ s = Insert(tree, P, Dir)
      BY <2>1, <2>3, MkdirOk
    <3> QED BY <1>4, <1>6, <3>1
  <2> QED BY <2>2, <2>3
<1>7. CASE c.op = "remove"
  <2>1. handle(tree, c) = remove(tree, P)
    BY <1>7 DEF handle
  <2>2. P # <<>> /\ exists(tree, P) /\ s = Without(tree, {P})
    BY <2>1, RemoveOk
  <2>3. parent_path(P) \in DOMAIN tree
    BY <2>2 DEF NoOrphans, exists, stat
  <2>4. \A q \in Seq(Nat) : q # P => (q \in DOMAIN s <=> q \in DOMAIN tree) /\ (q \in DOMAIN tree => s[q] = tree[q])
    BY <2>2 DEF Without
  <2> HIDE DEF s
  <2> QED BY <1>1, <1>7, <2>3, <2>4, OnePathSuffices, ZenonT(40) DEF s
<1> QED BY <1>2, <1>3, <1>5, <1>6, <1>7, ChangesAreTyped

(* The keys of the cache. *)
Keys == [kind : {"stat", "node"}, path : Paths]

(* Shape of what a lookup carries. *)
IsEntry(e) ==
  /\ DOMAIN e = {"value", "validators", "excused", "torn"}
  /\ e.excused \in BOOLEAN /\ e.torn \in BOOLEAN

(* An entry is what the server answers, or is excused. *)
Current(e, k, t, m) == e.excused \/ e.value = Answer(t, m, k)

(* The body of an entry is of the version its validators name, or was read torn. *)
Named(e, k, vs) ==
  e.torn \/ (e.value.kind = "file" => [path |-> k.path, etag |-> e.validators, body |-> e.value.body] \in vs)

(* A stale entry: with validators it is current, without any it is never renewed. *)
Renewable(e, k, t, m, vs) == IsEntry(e) /\ Named(e, k, vs) /\ (e.validators = NoValidators \/ Current(e, k, t, m))

(* A request on its way. *)
Asking(r, t, m, vs) ==
  /\ DOMAIN r = {"pc", "key", "multi", "stale"} /\ r.pc = "ask"
  /\ r.key \in Keys /\ r.multi \in BOOLEAN /\ Renewable(r.stale, r.key, t, m, vs)

(* A GET between metadata and contents: they are of one version, or torn. *)
HalfRead(r, t, vs) ==
  \/ r.torn
  \/ /\ exists(t, r.key.path) /\ IsDir(t, r.key.path) = r.dir
     /\ ~r.dir => [path |-> r.key.path, etag |-> <<FALSE, Length[t[r.key.path]], r.modified>>, body |-> t[r.key.path]] \in vs

(* A GET that has read the metadata. *)
Reading(r, t, m, vs) ==
  /\ DOMAIN r = {"pc", "key", "multi", "stale", "modified", "dir", "torn"} /\ r.pc = "read"
  /\ r.key \in Keys /\ r.key.kind = "node" /\ r.multi \in BOOLEAN /\ r.dir \in BOOLEAN /\ r.torn \in BOOLEAN
  /\ Renewable(r.stale, r.key, t, m, vs) /\ HalfRead(r, t, vs)

(* A response on its way into the cache. *)
Storing(r, t, m, vs) ==
  /\ DOMAIN r = {"pc", "key", "entry"} /\ r.pc = "store"
  /\ r.key \in Keys /\ IsEntry(r.entry) /\ Current(r.entry, r.key, t, m) /\ Named(r.entry, r.key, vs)

(* A change that was answered and is still to invalidate. *)
Invalidating(r) == DOMAIN r = {"pc", "change"} /\ r.pc = "invalidate" /\ r.change \in Changes

(* What a thread may be doing. *)
InFlight(r, t, m, vs) == r = Idle \/ Invalidating(r) \/ Asking(r, t, m, vs) \/ Reading(r, t, m, vs) \/ Storing(r, t, m, vs)

(* Shape of a cached entry. *)
IsCached(e) ==
  /\ DOMAIN e = {"value", "validators", "excused", "torn", "expires_at"}
  /\ e.excused \in BOOLEAN /\ e.torn \in BOOLEAN

(* A thread is about to invalidate the entry. *)
Foreseen(k) == \E u \in Users : thread[u].pc = "invalidate" /\ Covers(thread[u].change, k.path)

(* Every entry is current, or about to be invalidated; its validators name its body. *)
CacheOK ==
  \A k \in DOMAIN cache :
    /\ k \in Keys /\ IsCached(cache[k]) /\ Named(cache[k], k, versions)
    /\ Foreseen(k) \/ Current(cache[k], k, tree, mtime)

(* The inductive invariant. *)
Inv ==
  /\ DOMAIN tree \subseteq Paths
  /\ Versions(tree, mtime) \subseteq versions
  /\ thread = [u \in Users |-> thread[u]]
  /\ \A u \in Users : InFlight(thread[u], tree, mtime, versions)
  /\ CacheOK

(* What the server answers for a path that is there. *)
LEMMA AnswerIs ==
  ASSUME NEW t, NEW m, NEW k, exists(t, k.path)
  PROVE  /\ k.kind = "stat" => Answer(t, m, k) = Metadata(t, m, k.path) /\ Answer(t, m, k).kind = "stat"
         /\ k.kind # "stat" => Answer(t, m, k) = NodeOf(t, k.path)
         /\ Answer(t, m, k) # NotFound
<1>1. Metadata(t, m, k.path).kind = "stat" /\ Metadata(t, m, k.path) # NotFound
  BY DEF Metadata, NotFound
<1>2. NodeOf(t, k.path).kind \in {"dir", "file"} /\ NodeOf(t, k.path) # NotFound
  BY DEF NodeOf, NotFound
<1> QED BY <1>1, <1>2 DEF Answer

(* The node of a directory and of a file. *)
LEMMA NodeIs ==
  ASSUME NEW t, NEW p
  PROVE  /\ IsDir(t, p) => NodeOf(t, p).kind = "dir"
         /\ ~IsDir(t, p) => NodeOf(t, p) = [kind |-> "file", body |-> t[p]]
         /\ ~IsDir(t, p) => NodeOf(t, p).kind = "file" /\ NodeOf(t, p).body = t[p]
         /\ IsDir(t, p) \in BOOLEAN
BY DEF NodeOf, IsDir

(* A response, fresh or "not modified", makes an entry that is current and whose *)
(* validators name its body.                                                     *)
LEMMA ResponseIs ==
  ASSUME NEW r, NEW etag, NEW multipart \in BOOLEAN, NEW fresh, NEW torn \in BOOLEAN,
         NEW t, NEW m, NEW vs, r.key \in Keys, Renewable(r.stale, r.key, t, m, vs),
         etag # NoValidators, fresh = Answer(t, m, r.key), multipart => fresh.kind # "file",
         torn \/ (fresh.kind = "file" => [path |-> r.key.path, etag |-> etag, body |-> fresh.body] \in vs)
  PROVE  Storing(Response(r, etag, multipart, fresh, torn), t, m, vs)
<1> DEFINE same == ~multipart /\ conditional_not_modified(r.stale.validators, etag)
           e == Response(r, etag, multipart, fresh, torn).entry
<1>1. /\ Response(r, etag, multipart, fresh, torn) = [pc |-> "store", key |-> r.key, entry |-> e]
      /\ e = [value |-> IF same THEN r.stale.value ELSE fresh, validators |-> IF multipart THEN r.stale.validators ELSE etag,
              excused |-> torn \/ (same /\ r.stale.excused), torn |-> torn \/ (same /\ r.stale.torn)]
  BY DEF Response, Stores, response_validators
<1>2. same \in BOOLEAN /\ (same => ~multipart /\ r.stale.validators = etag)
  BY DEF conditional_not_modified
<1>3. IsEntry(r.stale) /\ Named(r.stale, r.key, vs) /\ (same => Current(r.stale, r.key, t, m))
  BY <1>2 DEF Renewable
<1> HIDE DEF same, e
<1>4. IsEntry(e)
  BY <1>1, <1>2, <1>3 DEF IsEntry
<1>5. Current(e, r.key, t, m)
  BY <1>1, <1>2, <1>3 DEF Current, IsEntry
<1>6. Named(e, r.key, vs)
  BY <1>1, <1>2, <1>3 DEF Named, IsEntry
<1> DEFINE s == Response(r, etag, multipart, fresh, torn)
<1>7. DOMAIN s = {"pc", "key", "entry"} /\ s.pc = "store" /\ s.key = r.key /\ s.entry = e
  BY <1>1
<1> HIDE DEF s
<1>8. Storing(s, t, m, vs)
  BY <1>4, <1>5, <1>6, <1>7 DEF Storing
<1> QED BY <1>8 DEF s

(* So does "not found". *)
LEMMA NotFoundIs ==
  ASSUME NEW r, r.key \in Keys, NEW t, NEW m, NEW vs, ~exists(t, r.key.path)
  PROVE  Storing(Stores(r, NotFound, NoValidators, FALSE, FALSE), t, m, vs)
<1> DEFINE s == Stores(r, NotFound, NoValidators, FALSE, FALSE)
           e == [value |-> NotFound, validators |-> NoValidators, excused |-> FALSE, torn |-> FALSE]
<1>1. DOMAIN s = {"pc", "key", "entry"} /\ s.pc = "store" /\ s.key = r.key /\ s.entry = e
  BY DEF Stores
<1>2. IsEntry(e)
  BY DEF IsEntry
<1>3. Current(e, r.key, t, m)
  BY DEF Current, Answer
<1>4. Named(e, r.key, vs)
  BY DEF Named, NotFound
<1> HIDE DEF s, e
<1>5. Storing(s, t, m, vs)
  BY <1>1, <1>2, <1>3, <1>4 DEF Storing
<1> QED BY <1>5 DEF s

(* Excusing an entry leaves its other fields. *)
LEMMA EntryExcused ==
  ASSUME NEW e, NEW x, x = [e EXCEPT !.excused = TRUE], DOMAIN e = {"value", "validators", "excused", "torn"}
  PROVE  /\ DOMAIN x = {"value", "validators", "excused", "torn"} /\ x.excused = TRUE
         /\ x.value = e.value /\ x.validators = e.validators /\ x.torn = e.torn
OBVIOUS

(* Excusing what a request carries leaves its other fields. *)
LEMMA AskExcused ==
  ASSUME NEW r, NEW x, x = [r EXCEPT !.stale.excused = TRUE], DOMAIN r = {"pc", "key", "multi", "stale"}
  PROVE  /\ DOMAIN x = {"pc", "key", "multi", "stale"} /\ x.stale = [r.stale EXCEPT !.excused = TRUE]
         /\ x.pc = r.pc /\ x.key = r.key /\ x.multi = r.multi
OBVIOUS

(* So it does between metadata and contents. *)
LEMMA ReadExcused ==
  ASSUME NEW r, NEW x, x = [r EXCEPT !.stale.excused = TRUE, !.torn = TRUE],
         DOMAIN r = {"pc", "key", "multi", "stale", "modified", "dir", "torn"}
  PROVE  /\ DOMAIN x = {"pc", "key", "multi", "stale", "modified", "dir", "torn"}
         /\ x.stale = [r.stale EXCEPT !.excused = TRUE] /\ x.torn = TRUE
         /\ x.pc = r.pc /\ x.key = r.key /\ x.multi = r.multi /\ x.dir = r.dir
OBVIOUS

(* So it does before the store. *)
LEMMA StoreExcused ==
  ASSUME NEW r, NEW x, x = [r EXCEPT !.entry.excused = TRUE], DOMAIN r = {"pc", "key", "entry"}
  PROVE  /\ DOMAIN x = {"pc", "key", "entry"} /\ x.entry = [r.entry EXCEPT !.excused = TRUE]
         /\ x.pc = r.pc /\ x.key = r.key
OBVIOUS

(* A change made while a lookup is in flight leaves it what it may be. *)
LEMMA NotedIs ==
  ASSUME NEW v \in Users, InFlight(thread[v], tree, mtime, versions), versions \subseteq versions'
  PROVE  InFlight(Noted(v), tree', mtime', versions')
<1> DEFINE r == thread[v]
           out == Outdated(r.key, tree', mtime')
<1>1. CASE r = Idle \/ Invalidating(r)
  <2>1. r.pc \notin {"ask", "read", "store"}
    BY <1>1 DEF Idle, Invalidating
  <2>2. Noted(v) = r
    BY <2>1 DEF Noted
  <2> QED BY <1>1, <2>2 DEF InFlight
<1>2. ASSUME NEW e, NEW k, Named(e, k, versions) PROVE Named(e, k, versions')
  BY <1>2 DEF Named
<1>3. ASSUME NEW e, NEW k, Renewable(e, k, tree, mtime, versions), ~Outdated(k, tree', mtime')
      PROVE  Renewable(e, k, tree', mtime', versions')
  BY <1>2, <1>3 DEF Renewable, Current, Outdated
<1>4. ASSUME NEW e, NEW k, Renewable(e, k, tree, mtime, versions)
      PROVE  Renewable([e EXCEPT !.excused = TRUE], k, tree', mtime', versions')
  <2> DEFINE x == [e EXCEPT !.excused = TRUE]
  <2>1. /\ DOMAIN x = {"value", "validators", "excused", "torn"} /\ x.excused = TRUE /\ e.torn \in BOOLEAN
        /\ x.value = e.value /\ x.validators = e.validators /\ x.torn = e.torn
    <3>1. DOMAIN e = {"value", "validators", "excused", "torn"} /\ e.torn \in BOOLEAN
      BY <1>4 DEF Renewable, IsEntry
    <3>2. x = [e EXCEPT !.excused = TRUE]
      OBVIOUS
    <3> HIDE DEF x
    <3> QED BY ONLY <3>1, <3>2, EntryExcused
  <2> HIDE DEF x
  <2>2. IsEntry(x) /\ Current(x, k, tree', mtime')
    BY <2>1 DEF IsEntry, Current
  <2>3. Named(x, k, versions')
    BY <1>4, <2>1 DEF Renewable, Named
  <2>4. Renewable(x, k, tree', mtime', versions')
    BY <2>2, <2>3 DEF Renewable
  <2> QED BY <2>4 DEF x
<1>5. CASE Asking(r, tree, mtime, versions)
  <2>1. DOMAIN r = {"pc", "key", "multi", "stale"} /\ r.pc = "ask"
    BY <1>5 DEF Asking
  <2>2. CASE out
    <3> DEFINE x == [r EXCEPT !.stale.excused = TRUE]
               e == [r.stale EXCEPT !.excused = TRUE]
    <3>1. Noted(v) = x
      BY <2>1, <2>2 DEF Noted
    <3>2. /\ DOMAIN x = {"pc", "key", "multi", "stale"} /\ x.stale = e
          /\ x.pc = r.pc /\ x.key = r.key /\ x.multi = r.multi
      <4>1. x = [r EXCEPT !.stale.excused = TRUE]
        OBVIOUS
      <4> HIDE DEF x
      <4> QED BY ONLY <2>1, <4>1, AskExcused DEF e
    <3>3. Renewable(e, r.key, tree', mtime', versions')
      BY <1>4, <1>5 DEF Asking
    <3> HIDE DEF x, e
    <3>4. Asking(x, tree', mtime', versions')
      BY <1>5, <3>2, <3>3 DEF Asking
    <3> QED BY <3>1, <3>4 DEF InFlight
  <2>3. CASE ~out
    <3>1. Noted(v) = r
      BY <2>3 DEF Noted
    <3>2. Asking(r, tree', mtime', versions')
      BY <1>3, <1>5, <2>3 DEF Asking
    <3> QED BY <3>1, <3>2 DEF InFlight
  <2> QED BY <2>2, <2>3
<1>6. CASE Reading(r, tree, mtime, versions)
  <2>1. DOMAIN r = {"pc", "key", "multi", "stale", "modified", "dir", "torn"} /\ r.pc = "read"
    BY <1>6 DEF Reading
  <2>2. CASE out
    <3> DEFINE x == [r EXCEPT !.stale.excused = TRUE, !.torn = TRUE]
               e == [r.stale EXCEPT !.excused = TRUE]
    <3>1. Noted(v) = x
      BY <2>1, <2>2 DEF Noted
    <3>2. /\ DOMAIN x = {"pc", "key", "multi", "stale", "modified", "dir", "torn"} /\ x.stale = e /\ x.torn = TRUE
          /\ x.pc = r.pc /\ x.key = r.key /\ x.multi = r.multi /\ x.dir = r.dir
      <4>1. x = [r EXCEPT !.stale.excused = TRUE, !.torn = TRUE]
        OBVIOUS
      <4> HIDE DEF x
      <4> QED BY ONLY <2>1, <4>1, ReadExcused DEF e
    <3>3. Renewable(e, r.key, tree', mtime', versions')
      BY <1>4, <1>6 DEF Reading
    <3> HIDE DEF x, e
    <3>4. HalfRead(x, tree', versions')
      BY <3>2 DEF HalfRead
    <3>5. Reading(x, tree', mtime', versions')
      BY <1>6, <3>2, <3>3, <3>4 DEF Reading
    <3> QED BY <3>1, <3>5 DEF InFlight
  <2>3. CASE ~out
    <3>1. Noted(v) = r
      BY <2>3 DEF Noted
    <3>2. Answer(tree, mtime, r.key) = Answer(tree', mtime', r.key) /\ r.key.kind = "node"
      BY <1>6, <2>3 DEF Outdated, Reading
    <3>3. HalfRead(r, tree', versions')
      <4>1. CASE r.torn
        BY <4>1 DEF HalfRead
      <4>2. CASE ~r.torn
        <5>1. /\ exists(tree, r.key.path) /\ IsDir(tree, r.key.path) = r.dir
              /\ ~r.dir => [path |-> r.key.path, etag |-> <<FALSE, Length[tree[r.key.path]], r.modified>>, body |-> tree[r.key.path]] \in versions
          BY <1>6, <4>2 DEF Reading, HalfRead
        <5>2. exists(tree', r.key.path)
          BY <3>2, <5>1, AnswerIs DEF Answer
        <5>3. NodeOf(tree, r.key.path) = NodeOf(tree', r.key.path)
          <6>1. r.key.kind # "stat"
            BY <3>2
          <6>2. Answer(tree, mtime, r.key) = NodeOf(tree, r.key.path)
            BY <5>1, <6>1, AnswerIs
          <6>3. Answer(tree', mtime', r.key) = NodeOf(tree', r.key.path)
            BY <5>2, <6>1, AnswerIs
          <6> QED BY <3>2, <6>2, <6>3
        <5>4. IsDir(tree', r.key.path) = IsDir(tree, r.key.path)
              /\ (~IsDir(tree, r.key.path) => tree'[r.key.path] = tree[r.key.path])
          <6> DEFINE p == r.key.path
          <6>1. /\ IsDir(tree, p) => NodeOf(tree, p).kind = "dir"
                /\ ~IsDir(tree, p) => NodeOf(tree, p).kind = "file" /\ NodeOf(tree, p).body = tree[p]
                /\ IsDir(tree, p) \in BOOLEAN
            BY NodeIs
          <6>2. /\ IsDir(tree', p) => NodeOf(tree', p).kind = "dir"
                /\ ~IsDir(tree', p) => NodeOf(tree', p).kind = "file" /\ NodeOf(tree', p).body = tree'[p]
                /\ IsDir(tree', p) \in BOOLEAN
            BY NodeIs
          <6> HIDE DEF p
          <6> QED BY <5>3, <6>1, <6>2 DEF p
        <5> QED BY <1>6, <5>1, <5>2, <5>4 DEF HalfRead, Reading
      <4> QED BY <4>1, <4>2
    <3>4. Reading(r, tree', mtime', versions')
      BY <1>3, <1>6, <2>3, <3>3 DEF Reading
    <3> QED BY <3>1, <3>4 DEF InFlight
  <2> QED BY <2>2, <2>3
<1>7. CASE Storing(r, tree, mtime, versions)
  <2>1. DOMAIN r = {"pc", "key", "entry"} /\ r.pc = "store"
    BY <1>7 DEF Storing
  <2>0. Renewable(r.entry, r.key, tree, mtime, versions)
    BY <1>7 DEF Storing, Renewable
  <2>2. CASE out
    <3> DEFINE x == [r EXCEPT !.entry.excused = TRUE]
               e == [r.entry EXCEPT !.excused = TRUE]
    <3>1. Noted(v) = x
      BY <2>1, <2>2 DEF Noted
    <3>2. /\ DOMAIN x = {"pc", "key", "entry"} /\ x.entry = e
          /\ x.pc = r.pc /\ x.key = r.key
      <4>1. x = [r EXCEPT !.entry.excused = TRUE]
        OBVIOUS
      <4> HIDE DEF x
      <4> QED BY ONLY <2>1, <4>1, StoreExcused DEF e
    <3>3. Renewable(e, r.key, tree', mtime', versions')
      BY <1>4, <2>0
    <3>4. Current(e, r.key, tree', mtime')
      BY <2>0 DEF Renewable, IsEntry, Current
    <3> HIDE DEF x, e
    <3>5. Storing(x, tree', mtime', versions')
      BY <1>7, <3>2, <3>3, <3>4 DEF Storing, Renewable
    <3> QED BY <3>1, <3>5 DEF InFlight
  <2>3. CASE ~out
    <3>1. Noted(v) = r
      BY <2>3 DEF Noted
    <3>2. Current(r.entry, r.key, tree', mtime')
      BY <1>7, <2>3 DEF Storing, Current, Outdated
    <3>3. Named(r.entry, r.key, versions')
      BY <1>2, <1>7 DEF Storing
    <3>4. Storing(r, tree', mtime', versions')
      BY <1>7, <3>2, <3>3 DEF Storing
    <3> QED BY <3>1, <3>4 DEF InFlight
  <2> QED BY <2>2, <2>3
<1> QED BY <1>1, <1>5, <1>6, <1>7 DEF InFlight

(* A step that only moves one thread on keeps the invariant. *)
LEMMA ThreadStep ==
  ASSUME Inv, NEW u \in Users, NEW w, InFlight(w, tree, mtime, versions), thread' = [thread EXCEPT ![u] = w],
         thread[u].pc # "invalidate", UNCHANGED <<tree, mtime, cache, versions>>
  PROVE  Inv'
<1>1. /\ thread' = [v \in Users |-> thread'[v]]
      /\ \A v \in Users : thread'[v] = IF v = u THEN w ELSE thread[v]
  BY DEF Inv
<1>2. ASSUME NEW v \in Users PROVE InFlight(thread'[v], tree', mtime', versions')
  BY <1>1 DEF Inv
<1>3. ASSUME NEW k, Foreseen(k) PROVE Foreseen(k)'
  BY <1>1, <1>3 DEF Foreseen
<1>4. CacheOK'
  <2>1. SUFFICES ASSUME NEW k \in DOMAIN cache
                 PROVE  /\ k \in Keys /\ IsCached(cache[k]) /\ Named(cache[k], k, versions)
                        /\ Foreseen(k)' \/ Current(cache[k], k, tree, mtime)
    BY DEF CacheOK
  <2> QED BY <1>3 DEF Inv, CacheOK
<1> QED BY <1>1, <1>2, <1>4 DEF Inv

(* An ETag is never the absence of validators. *)
LEMMA ETagIs ==
  ASSUME NEW t, NEW m, NEW p, NEW a, NEW b, NEW c
  PROVE  ETag(t, m, p) # NoValidators /\ <<a, b, c>> # NoValidators
BY DEF ETag, NoValidators

(* The file the server has now is one of the versions. *)
LEMMA VersionIs ==
  ASSUME NEW t, NEW m, NEW p, exists(t, p), ~IsDir(t, p)
  PROVE  [path |-> p, etag |-> <<FALSE, Length[t[p]], m[p]>>, body |-> t[p]] \in Versions(t, m)
<1>1. p \in DOMAIN t /\ t[p] # Dir
  BY DEF exists, stat, IsDir
<1>2. ETag(t, m, p) = <<FALSE, Length[t[p]], m[p]>>
  BY <1>1 DEF ETag, IsDir, ContentLength
<1> QED BY <1>1, <1>2 DEF Versions

(* What a lookup takes out of the cache to revalidate. *)
LEMMA StaleIs ==
  ASSUME Inv, NEW k \in Keys
  PROVE  Renewable(stale_entry(k), k, tree, mtime, versions)
<1> DEFINE e == stale_entry(k)
<1>1. CASE k \in DOMAIN cache /\ cache[k].value # NotFound
  <2> DEFINE waiting == \E u \in Users : thread[u].pc = "invalidate"
  <2>1. /\ DOMAIN e = {"value", "validators", "excused", "torn"} /\ e.value = cache[k].value
        /\ e.validators = cache[k].validators /\ e.torn = cache[k].torn /\ e.excused = (cache[k].excused \/ waiting)
    BY <1>1 DEF stale_entry
  <2>2. /\ cache[k].excused \in BOOLEAN /\ cache[k].torn \in BOOLEAN /\ Named(cache[k], k, versions)
        /\ Foreseen(k) \/ Current(cache[k], k, tree, mtime)
    BY <1>1 DEF Inv, CacheOK, IsCached
  <2>3. Foreseen(k) => waiting
    BY DEF Foreseen
  <2> HIDE DEF e, waiting
  <2>4. IsEntry(e)
    BY <2>1, <2>2 DEF IsEntry
  <2>5. Named(e, k, versions)
    BY <2>1, <2>2 DEF Named
  <2>6. Current(e, k, tree, mtime)
    BY <2>1, <2>2, <2>3 DEF Current
  <2>7. Renewable(e, k, tree, mtime, versions)
    BY <2>4, <2>5, <2>6 DEF Renewable
  <2> QED BY <2>7 DEF e
<1>2. CASE ~(k \in DOMAIN cache /\ cache[k].value # NotFound)
  <2>1. e = NoEntry
    BY <1>2 DEF stale_entry
  <2> HIDE DEF e
  <2>2. IsEntry(e) /\ e.validators = NoValidators
    BY <2>1 DEF NoEntry, IsEntry
  <2>3. Named(e, k, versions)
    BY <2>1 DEF NoEntry, Named, NotFound
  <2>4. Renewable(e, k, tree, mtime, versions)
    BY <2>2, <2>3 DEF Renewable
  <2> QED BY <2>4 DEF e
<1> QED BY <1>1, <1>2

(* A lookup that misses keeps the invariant. *)
LEMMA LookupStep ==
  ASSUME Inv, NEW u \in Users, NEW l \in Lookups, lookup(u, l)
  PROVE  Inv'
<1> DEFINE w == [pc |-> "ask", key |-> Key(l), multi |-> l.op = "read_dir", stale |-> stale_entry(Key(l))]
<1>1. thread[u] = Idle /\ thread' = [thread EXCEPT ![u] = w] /\ UNCHANGED <<tree, mtime, cache, versions>>
  BY DEF lookup
<1>2. Key(l) \in Keys
  BY LookupsAreTyped DEF Key, Keys
<1>3. Renewable(stale_entry(Key(l)), Key(l), tree, mtime, versions)
  BY <1>2, StaleIs
<1>4. /\ DOMAIN w = {"pc", "key", "multi", "stale"} /\ w.pc = "ask" /\ w.key = Key(l) /\ w.multi \in BOOLEAN
      /\ w.stale = stale_entry(Key(l))
  OBVIOUS
<1> HIDE DEF w
<1>5. InFlight(w, tree, mtime, versions)
  BY <1>2, <1>3, <1>4 DEF Asking, InFlight
<1>6. thread[u].pc # "invalidate"
  BY <1>1 DEF Idle
<1> QED BY <1>1, <1>5, <1>6, ThreadStep

(* The program counter tells what a thread is doing. *)
LEMMA PcTells ==
  ASSUME NEW r, NEW t, NEW m, NEW vs, InFlight(r, t, m, vs)
  PROVE  /\ r.pc = "ask" => Asking(r, t, m, vs)
         /\ r.pc = "read" => Reading(r, t, m, vs)
         /\ r.pc = "store" => Storing(r, t, m, vs)
         /\ r.pc = "invalidate" => Invalidating(r)
BY DEF InFlight, Asking, Reading, Storing, Invalidating, Idle

(* HEAD keeps the invariant. *)
LEMMA HeadStep ==
  ASSUME Inv, NEW u \in Users, handle_head(u)
  PROVE  Inv'
<1> DEFINE r == thread[u]
           p == r.key.path
           w == IF exists(tree, p) THEN Response(r, ETag(tree, mtime, p), FALSE, Metadata(tree, mtime, p), FALSE)
                ELSE Stores(r, NotFound, NoValidators, FALSE, FALSE)
<1>1. r.pc = "ask" /\ r.key.kind = "stat" /\ thread' = [thread EXCEPT ![u] = w] /\ UNCHANGED <<tree, mtime, cache, versions>>
  BY DEF handle_head, Answered
<1>2. r.key \in Keys /\ Renewable(r.stale, r.key, tree, mtime, versions)
  BY <1>1, PcTells DEF Inv, Asking
<1>3. Storing(w, tree, mtime, versions)
  <2>1. CASE exists(tree, p)
    <3> DEFINE etag == ETag(tree, mtime, p)
               fresh == Metadata(tree, mtime, p)
    <3>1. fresh = Answer(tree, mtime, r.key) /\ fresh.kind = "stat"
      <4>1. fresh.kind = "stat"
        BY DEF Metadata
      <4>2. Answer(tree, mtime, r.key) = fresh
        BY <1>1, <2>1 DEF Answer
      <4> QED BY <4>1, <4>2
    <3>2. etag # NoValidators
      BY ETagIs
    <3>3. w = Response(r, etag, FALSE, fresh, FALSE)
      BY <2>1
    <3> HIDE DEF etag, fresh, w
    <3>4. Storing(Response(r, etag, FALSE, fresh, FALSE), tree, mtime, versions)
      BY <1>2, <3>1, <3>2, ResponseIs
    <3> QED BY <3>3, <3>4
  <2>2. CASE ~exists(tree, p)
    BY <1>2, <2>2, NotFoundIs
  <2> QED BY <2>1, <2>2
<1> HIDE DEF w
<1> QED BY <1>1, <1>3, ThreadStep DEF InFlight

(* The first half of GET keeps the invariant. *)
LEMMA GetStep ==
  ASSUME Inv, NEW u \in Users, handle_get(u)
  PROVE  Inv'
<1> DEFINE r == thread[u]
           p == r.key.path
           x == [pc |-> "read", key |-> r.key, multi |-> r.multi, stale |-> r.stale,
                 modified |-> mtime[p], dir |-> IsDir(tree, p), torn |-> FALSE]
           w == IF exists(tree, p) THEN x ELSE Stores(r, NotFound, NoValidators, FALSE, FALSE)
<1>1. r.pc = "ask" /\ r.key.kind = "node" /\ thread' = [thread EXCEPT ![u] = w] /\ UNCHANGED <<tree, mtime, cache, versions>>
  BY DEF handle_get, Answered
<1>2. r.key \in Keys /\ r.multi \in BOOLEAN /\ Renewable(r.stale, r.key, tree, mtime, versions)
  BY <1>1, PcTells DEF Inv, Asking
<1>3. InFlight(w, tree, mtime, versions)
  <2>1. CASE exists(tree, p)
    <3>1. /\ DOMAIN x = {"pc", "key", "multi", "stale", "modified", "dir", "torn"} /\ x.pc = "read" /\ x.key = r.key
          /\ x.multi = r.multi /\ x.stale = r.stale /\ x.modified = mtime[p] /\ x.dir = IsDir(tree, p) /\ x.torn = FALSE
      OBVIOUS
    <3>2. IsDir(tree, p) \in BOOLEAN
      BY DEF IsDir
    <3>3. ~IsDir(tree, p) => [path |-> p, etag |-> <<FALSE, Length[tree[p]], mtime[p]>>, body |-> tree[p]] \in versions
      BY <2>1, VersionIs DEF Inv
    <3> HIDE DEF x
    <3>4. HalfRead(x, tree, versions)
      BY <2>1, <3>1, <3>2, <3>3 DEF HalfRead
    <3>5. Reading(x, tree, mtime, versions)
      BY <1>1, <1>2, <3>1, <3>2, <3>4 DEF Reading
    <3> QED BY <2>1, <3>5 DEF InFlight
  <2>2. CASE ~exists(tree, p)
    BY <1>2, <2>2, NotFoundIs DEF InFlight
  <2> QED BY <2>1, <2>2
<1> HIDE DEF w
<1> QED BY <1>1, <1>3, ThreadStep

(* The second half of GET keeps the invariant. *)
LEMMA GetBodyStep ==
  ASSUME Inv, NEW u \in Users, handle_get_body(u)
  PROVE  Inv'
<1> DEFINE r == thread[u]
           p == r.key.path
           etag == <<r.dir, ContentLength(tree, p), r.modified>>
           x == Response(r, etag, r.multi /\ r.dir, NodeOf(tree, p), r.torn)
           w == IF ~exists(tree, p) THEN Stores(r, NotFound, NoValidators, FALSE, FALSE)
                ELSE IF IsDir(tree, p) # r.dir THEN Idle ELSE x
<1>1. r.pc = "read" /\ thread' = [thread EXCEPT ![u] = w] /\ UNCHANGED <<tree, mtime, cache, versions>>
  BY DEF handle_get_body, Answered
<1>2. Reading(r, tree, mtime, versions)
  BY <1>1, PcTells DEF Inv
<1>3. /\ r.key \in Keys /\ r.key.kind = "node" /\ r.multi \in BOOLEAN /\ r.dir \in BOOLEAN /\ r.torn \in BOOLEAN
      /\ Renewable(r.stale, r.key, tree, mtime, versions) /\ HalfRead(r, tree, versions)
  BY <1>2 DEF Reading
<1>4. CASE ~exists(tree, p)
  <2>1. InFlight(w, tree, mtime, versions)
    BY <1>3, <1>4, NotFoundIs DEF InFlight
  <2> HIDE DEF w
  <2> QED BY <1>1, <2>1, ThreadStep
<1>5. CASE exists(tree, p) /\ IsDir(tree, p) # r.dir
  <2>1. InFlight(w, tree, mtime, versions)
    BY <1>5 DEF InFlight
  <2> HIDE DEF w
  <2> QED BY <1>1, <2>1, ThreadStep
<1>6. CASE exists(tree, p) /\ IsDir(tree, p) = r.dir
  <2> DEFINE fresh == NodeOf(tree, p)
             multipart == r.multi /\ r.dir
  <2>1. fresh = Answer(tree, mtime, r.key)
    BY <1>3, <1>6, AnswerIs, ZenonT(40)
  <2>2. (r.dir => fresh.kind = "dir") /\ (~r.dir => fresh.kind = "file" /\ fresh.body = tree[p])
    BY <1>6, NodeIs
  <2>3. etag # NoValidators
    BY ETagIs
  <2>4. ~r.dir => etag = <<FALSE, Length[tree[p]], r.modified>>
    BY <1>3, <1>6 DEF ContentLength, IsDir
  <2>5. multipart \in BOOLEAN /\ (multipart => fresh.kind # "file")
    BY <1>3, <2>2
  <2>6. w = Response(r, etag, multipart, fresh, r.torn)
    BY <1>6
  <2> HIDE DEF w, etag, fresh, multipart
  <2>7. r.torn \/ (fresh.kind = "file" => [path |-> p, etag |-> etag, body |-> fresh.body] \in versions)
    BY <1>3, <2>2, <2>4 DEF HalfRead
  <2>8. Storing(Response(r, etag, multipart, fresh, r.torn), tree, mtime, versions)
    BY <1>3, <2>1, <2>3, <2>5, <2>7, ResponseIs
  <2>9. InFlight(w, tree, mtime, versions)
    BY <2>6, <2>8 DEF InFlight
  <2> QED BY <1>1, <2>9, ThreadStep
<1> QED BY <1>4, <1>5, <1>6

(* A lookup that fails keeps the invariant. *)
LEMMA FailStep ==
  ASSUME Inv, NEW u \in Users, lookup_fails(u)
  PROVE  Inv'
<1>1. thread[u].pc # "invalidate" /\ thread' = [thread EXCEPT ![u] = Idle] /\ UNCHANGED <<tree, mtime, cache, versions>>
  BY DEF lookup_fails
<1>2. InFlight(Idle, tree, mtime, versions)
  BY DEF InFlight
<1> QED BY <1>1, <1>2, ThreadStep

(* Storing a response keeps the invariant. *)
LEMMA StoreStep ==
  ASSUME Inv, NEW u \in Users, cache_store(u)
  PROVE  Inv'
<1> DEFINE r == thread[u]
           e == [value |-> r.entry.value, validators |-> r.entry.validators, excused |-> r.entry.excused,
                 torn |-> r.entry.torn, expires_at |-> now + Ttl]
<1>1. /\ r.pc = "store" /\ cache' = With(r.key, e) /\ thread' = [thread EXCEPT ![u] = Idle]
      /\ UNCHANGED <<tree, mtime, versions>>
  BY DEF cache_store
<1>2. /\ r.key \in Keys /\ IsEntry(r.entry) /\ Current(r.entry, r.key, tree, mtime) /\ Named(r.entry, r.key, versions)
  BY <1>1, PcTells DEF Inv, Storing
<1>3. /\ DOMAIN e = {"value", "validators", "excused", "torn", "expires_at"} /\ e.value = r.entry.value
      /\ e.validators = r.entry.validators /\ e.excused = r.entry.excused /\ e.torn = r.entry.torn
  OBVIOUS
<1> HIDE DEF e
<1>4. IsCached(e) /\ Named(e, r.key, versions) /\ Current(e, r.key, tree, mtime)
  BY <1>2, <1>3 DEF IsCached, IsEntry, Named, Current
<1>5. /\ thread' = [v \in Users |-> thread'[v]]
      /\ \A v \in Users : thread'[v] = IF v = u THEN Idle ELSE thread[v]
  BY <1>1 DEF Inv
<1>6. ASSUME NEW v \in Users PROVE InFlight(thread'[v], tree', mtime', versions')
  BY <1>1, <1>5 DEF Inv, InFlight
<1>7. ASSUME NEW k, Foreseen(k) PROVE Foreseen(k)'
  BY <1>1, <1>5, <1>7 DEF Foreseen
<1>8. /\ DOMAIN cache' = DOMAIN cache \cup {r.key}
      /\ \A k \in DOMAIN cache' : cache'[k] = IF k = r.key THEN e ELSE cache[k]
  BY <1>1 DEF With
<1>9. CacheOK'
  <2>1. SUFFICES ASSUME NEW k \in DOMAIN cache'
                 PROVE  /\ k \in Keys /\ IsCached(cache'[k]) /\ Named(cache'[k], k, versions)
                        /\ Foreseen(k)' \/ Current(cache'[k], k, tree, mtime)
    BY <1>1 DEF CacheOK
  <2>2. CASE k = r.key
    BY <1>2, <1>4, <1>8, <2>2
  <2>3. CASE k # r.key
    <3>1. k \in DOMAIN cache /\ cache'[k] = cache[k]
      BY <1>8, <2>3
    <3> QED BY <1>7, <3>1 DEF Inv, CacheOK
  <2> QED BY <2>2, <2>3
<1> QED BY <1>1, <1>5, <1>6, <1>9 DEF Inv

(* Invalidating keeps the invariant: what stays was not covered. *)
LEMMA InvalidateStep ==
  ASSUME Inv, NEW u \in Users, invalidate(u)
  PROVE  Inv'
<1> DEFINE c == thread[u].change
<1>1. /\ thread[u].pc = "invalidate" /\ cache' = [k \in DOMAIN cache \ Invalidations(c) |-> cache[k]]
      /\ thread' = [thread EXCEPT ![u] = Idle] /\ UNCHANGED <<tree, mtime, versions>>
  BY DEF invalidate
<1>2. c \in Changes
  BY <1>1, PcTells DEF Inv, Invalidating
<1> HIDE DEF c
<1>3. /\ thread' = [v \in Users |-> thread'[v]]
      /\ \A v \in Users : thread'[v] = IF v = u THEN Idle ELSE thread[v]
  BY <1>1 DEF Inv
<1>4. ASSUME NEW v \in Users PROVE InFlight(thread'[v], tree', mtime', versions')
  BY <1>1, <1>3 DEF Inv, InFlight
<1>5. /\ DOMAIN cache' = DOMAIN cache \ Invalidations(c)
      /\ \A k \in DOMAIN cache' : cache'[k] = cache[k]
  BY <1>1
<1>6. CacheOK'
  <2>1. SUFFICES ASSUME NEW k \in DOMAIN cache'
                 PROVE  /\ k \in Keys /\ IsCached(cache'[k]) /\ Named(cache'[k], k, versions)
                        /\ Foreseen(k)' \/ Current(cache'[k], k, tree, mtime)
    BY <1>1 DEF CacheOK
  <2>2. k \in DOMAIN cache /\ k \notin Invalidations(c) /\ cache'[k] = cache[k]
    BY <1>5
  <2>3. ~Covers(c, k.path)
    BY <1>2, <2>2, InvalidationsAre
  <2>4. Foreseen(k) => Foreseen(k)'
    BY <1>3, <2>3 DEF Foreseen, c
  <2> QED BY <2>2, <2>4 DEF Inv, CacheOK
<1> QED BY <1>1, <1>3, <1>4, <1>6 DEF Inv

(* What a change does to the cached entries, whether or not the client is told. *)
LEMMA ServeStep ==
  ASSUME Inv, NEW c \in Changes, NEW told \in BOOLEAN, Serve(c, told)
  PROVE  /\ DOMAIN tree' \subseteq Paths /\ Versions(tree', mtime') \subseteq versions' /\ versions \subseteq versions'
         /\ DOMAIN cache' = DOMAIN cache
         /\ \A k \in DOMAIN cache :
              /\ k \in Keys /\ IsCached(cache'[k]) /\ Named(cache'[k], k, versions')
              /\ Foreseen(k) \/ (told /\ Covers(c, k.path)) \/ Current(cache'[k], k, tree', mtime')
<1>1. /\ tree' = handle(tree, c).tree /\ mtime' = Stamped(tree, mtime, c, tree') /\ handle(tree, c).err = "none"
      /\ DOMAIN tree' \subseteq Paths /\ versions' = versions \cup Versions(tree', mtime')
      /\ cache' = [k \in DOMAIN cache |->
                     IF Unforeseen(told) /\ Outdated(k, tree', mtime') THEN [cache[k] EXCEPT !.excused = TRUE] ELSE cache[k]]
  BY DEF Serve
<1>2. DOMAIN cache' = DOMAIN cache
  BY <1>1
<1>3. ASSUME NEW k \in DOMAIN cache
      PROVE  /\ k \in Keys /\ IsCached(cache'[k]) /\ Named(cache'[k], k, versions')
             /\ Foreseen(k) \/ (told /\ Covers(c, k.path)) \/ Current(cache'[k], k, tree', mtime')
  <2>1. /\ k \in Keys /\ k.path \in Paths /\ IsCached(cache[k]) /\ Named(cache[k], k, versions)
        /\ Foreseen(k) \/ Current(cache[k], k, tree, mtime)
    BY DEF Inv, CacheOK, Keys
  <2>2. Named(cache[k], k, versions')
    BY <1>1, <2>1 DEF Named
  <2>3. CASE Unforeseen(told) /\ Outdated(k, tree', mtime')
    <3>1. cache'[k] = [cache[k] EXCEPT !.excused = TRUE]
      BY <1>1, <2>3
    <3> DEFINE e == cache[k]
               x == cache'[k]
    <3>2. x = [e EXCEPT !.excused = TRUE] /\ DOMAIN e = {"value", "validators", "excused", "torn", "expires_at"}
      BY <2>1, <3>1 DEF IsCached
    <3>3. Named(e, k, versions') /\ e.torn \in BOOLEAN
      BY <2>1, <2>2 DEF IsCached
    <3> HIDE DEF e, x
    <3>4. /\ DOMAIN x = {"value", "validators", "excused", "torn", "expires_at"} /\ x.excused = TRUE
          /\ x.value = e.value /\ x.validators = e.validators /\ x.torn = e.torn
      BY ONLY <3>2
    <3>5. IsCached(x) /\ Named(x, k, versions') /\ Current(x, k, tree', mtime')
      BY <3>3, <3>4 DEF IsCached, Named, Current
    <3> QED BY <2>1, <3>5 DEF x
  <2>4. CASE ~(Unforeseen(told) /\ Outdated(k, tree', mtime'))
    <3>1. cache'[k] = cache[k]
      BY <1>1, <2>4
    <3>2. CASE Outdated(k, tree', mtime')
      <4>1. told /\ NoOrphans(tree)
        BY <2>4, <3>2 DEF Unforeseen
      <4>2. Covers(c, k.path)
        <5>1. ASSUME ~Covers(c, k.path) PROVE FALSE
          <6>1. Answer(handle(tree, c).tree, Stamped(tree, mtime, c, handle(tree, c).tree), k) = Answer(tree, mtime, k)
            BY <1>1, <2>1, <4>1, <5>1, InvalidationsSuffice DEF Inv
          <6> QED BY <1>1, <3>2, <6>1 DEF Outdated
        <5> QED BY <5>1
      <4> QED BY <2>1, <2>2, <3>1, <4>1, <4>2
    <3>3. CASE ~Outdated(k, tree', mtime')
      <4>1. Foreseen(k) \/ Current(cache[k], k, tree', mtime')
        BY <2>1, <3>3 DEF Outdated, Current
      <4> QED BY <2>1, <2>2, <3>1, <4>1
    <3> QED BY <3>2, <3>3
  <2> QED BY <2>3, <2>4
<1> QED BY <1>1, <1>2, <1>3

(* A change of this client keeps the invariant. *)
LEMMA ChangeStep ==
  ASSUME Inv, NEW u \in Users, NEW c \in Changes, change(u, c)
  PROVE  Inv'
<1> DEFINE w == [pc |-> "invalidate", change |-> c]
<1>1. thread[u] = Idle /\ Serve(c, TRUE) /\ thread' = [v \in Users |-> IF v = u THEN w ELSE Noted(v)]
  BY DEF change
<1>2. /\ DOMAIN tree' \subseteq Paths /\ Versions(tree', mtime') \subseteq versions' /\ versions \subseteq versions'
      /\ DOMAIN cache' = DOMAIN cache
      /\ \A k \in DOMAIN cache :
           /\ k \in Keys /\ IsCached(cache'[k]) /\ Named(cache'[k], k, versions')
           /\ Foreseen(k) \/ (TRUE /\ Covers(c, k.path)) \/ Current(cache'[k], k, tree', mtime')
  BY <1>1, ServeStep
<1>3. DOMAIN w = {"pc", "change"} /\ w.pc = "invalidate" /\ w.change = c
  OBVIOUS
<1> HIDE DEF w
<1>4. \A v \in Users : thread'[v] = IF v = u THEN w ELSE Noted(v)
  BY <1>1
<1>5. thread' = [v \in Users |-> thread'[v]]
  BY <1>1
<1>6. ASSUME NEW v \in Users PROVE InFlight(thread'[v], tree', mtime', versions')
  <2>1. CASE v = u
    BY <1>3, <1>4, <2>1 DEF InFlight, Invalidating
  <2>2. CASE v # u
    <3>1. InFlight(Noted(v), tree', mtime', versions')
      BY <1>2, NotedIs DEF Inv
    <3> QED BY <1>4, <2>2, <3>1
  <2> QED BY <2>1, <2>2
<1>7. ASSUME NEW k, Foreseen(k) PROVE Foreseen(k)'
  <2>1. PICK v \in Users : thread[v].pc = "invalidate" /\ Covers(thread[v].change, k.path)
    BY <1>7 DEF Foreseen
  <2>2. v # u
    BY <1>1, <2>1 DEF Idle
  <2>3. Noted(v) = thread[v]
    BY <2>1 DEF Noted
  <2>4. thread'[v] = thread[v]
    BY <1>4, <2>2, <2>3
  <2> QED BY <2>1, <2>4 DEF Foreseen
<1>8. ASSUME NEW k, Covers(c, k.path) PROVE Foreseen(k)'
  <2>1. thread'[u] = w
    BY <1>4
  <2> QED BY <1>3, <1>8, <2>1 DEF Foreseen
<1>9. CacheOK'
  <2>1. SUFFICES ASSUME NEW k \in DOMAIN cache'
                 PROVE  /\ k \in Keys /\ IsCached(cache'[k]) /\ Named(cache'[k], k, versions')
                        /\ Foreseen(k)' \/ Current(cache'[k], k, tree', mtime')
    BY DEF CacheOK
  <2> QED BY <1>2, <1>7, <1>8
<1> QED BY <1>2, <1>5, <1>6, <1>9 DEF Inv

(* A change it is not told of keeps the invariant. *)
LEMMA UnseenStep ==
  ASSUME Inv, NEW c \in Changes, change_unseen(c)
  PROVE  Inv'
<1>1. Serve(c, FALSE) /\ thread' = [v \in Users |-> Noted(v)]
  BY DEF change_unseen
<1>2. /\ DOMAIN tree' \subseteq Paths /\ Versions(tree', mtime') \subseteq versions' /\ versions \subseteq versions'
      /\ DOMAIN cache' = DOMAIN cache
      /\ \A k \in DOMAIN cache :
           /\ k \in Keys /\ IsCached(cache'[k]) /\ Named(cache'[k], k, versions')
           /\ Foreseen(k) \/ (FALSE /\ Covers(c, k.path)) \/ Current(cache'[k], k, tree', mtime')
  BY <1>1, ServeStep
<1>3. \A v \in Users : thread'[v] = Noted(v)
  BY <1>1
<1>4. thread' = [v \in Users |-> thread'[v]]
  BY <1>1
<1>5. ASSUME NEW v \in Users PROVE InFlight(thread'[v], tree', mtime', versions')
  <2>1. InFlight(Noted(v), tree', mtime', versions')
    BY <1>2, NotedIs DEF Inv
  <2> QED BY <1>3, <2>1
<1>6. ASSUME NEW k, Foreseen(k) PROVE Foreseen(k)'
  <2>1. PICK v \in Users : thread[v].pc = "invalidate" /\ Covers(thread[v].change, k.path)
    BY <1>6 DEF Foreseen
  <2>2. Noted(v) = thread[v]
    BY <2>1 DEF Noted
  <2>3. thread'[v] = thread[v]
    BY <1>3, <2>2
  <2> QED BY <2>1, <2>3 DEF Foreseen
<1>7. CacheOK'
  <2>1. SUFFICES ASSUME NEW k \in DOMAIN cache'
                 PROVE  /\ k \in Keys /\ IsCached(cache'[k]) /\ Named(cache'[k], k, versions')
                        /\ Foreseen(k)' \/ Current(cache'[k], k, tree', mtime')
    BY DEF CacheOK
  <2> QED BY <1>2, <1>6
<1> QED BY <1>2, <1>4, <1>5, <1>7 DEF Inv

(* The invariant holds initially. *)
LEMMA InitIsOk == Init => Inv
<1>1. SUFFICES ASSUME Init PROVE Inv
  OBVIOUS
<1>2. DOMAIN tree \subseteq Paths
  BY <1>1, InitTreeIsTyped DEF Init
<1>3. Versions(tree, mtime) \subseteq versions
  BY <1>1 DEF Init
<1>4. thread = [u \in Users |-> thread[u]] /\ \A u \in Users : thread[u] = Idle
  BY <1>1 DEF Init
<1>5. CacheOK
  BY <1>1 DEF Init, CacheOK
<1> QED BY <1>2, <1>3, <1>4, <1>5 DEF Inv, InFlight

(* Every reachable state of the client and the server satisfies the invariant. *)
THEOREM Invariance == Spec => []Inv
<1>1. ASSUME Inv, [Next]_vars PROVE Inv'
  <2>1. CASE UNCHANGED vars
    <3>1. CacheOK'
      <4>1. \A k : Foreseen(k)' <=> Foreseen(k)
        BY <2>1 DEF vars, Foreseen
      <4> QED BY <1>1, <2>1, <4>1 DEF vars, Inv, CacheOK
    <3> QED BY <1>1, <2>1, <3>1 DEF vars, Inv
  <2>2. CASE tick
    <3>0. UNCHANGED <<tree, mtime, cache, thread, versions>>
      BY <2>2 DEF tick
    <3>1. CacheOK'
      <4>1. \A k : Foreseen(k)' <=> Foreseen(k)
        BY <3>0 DEF Foreseen
      <4> QED BY <1>1, <3>0, <4>1 DEF Inv, CacheOK
    <3> QED BY <1>1, <3>0, <3>1 DEF Inv
  <2>3. ASSUME NEW u \in Users, NEW l \in Lookups, lookup(u, l) PROVE Inv'
    BY <1>1, <2>3, LookupStep
  <2>4. ASSUME NEW u \in Users, handle_head(u) PROVE Inv'
    BY <1>1, <2>4, HeadStep
  <2>5. ASSUME NEW u \in Users, handle_get(u) PROVE Inv'
    BY <1>1, <2>5, GetStep
  <2>6. ASSUME NEW u \in Users, handle_get_body(u) PROVE Inv'
    BY <1>1, <2>6, GetBodyStep
  <2>7. ASSUME NEW u \in Users, lookup_fails(u) PROVE Inv'
    BY <1>1, <2>7, FailStep
  <2>8. ASSUME NEW u \in Users, cache_store(u) PROVE Inv'
    BY <1>1, <2>8, StoreStep
  <2>9. ASSUME NEW u \in Users, invalidate(u) PROVE Inv'
    BY <1>1, <2>9, InvalidateStep
  <2>10. ASSUME NEW u \in Users, NEW c \in Changes, change(u, c) PROVE Inv'
    BY <1>1, <2>10, ChangeStep
  <2>11. ASSUME NEW c \in Changes, change_unseen(c) PROVE Inv'
    BY <1>1, <2>11, UnseenStep
  <2> QED BY <1>1, <2>1, <2>2, <2>3, <2>4, <2>5, <2>6, <2>7, <2>8, <2>9, <2>10, <2>11 DEF Next
<1> QED BY <1>1, InitIsOk, PTL DEF Spec

(* What invalidate_cache_after_put, _remove, _rename and _patch drop is enough: once     *)
(* every put, remove, rename and patch of the client has returned, no entry of its cache *)
(* shows the state before one of them, for any number of threads, whatever lookups were  *)
(* in flight and whatever was revalidated in between.                                    *)
THEOREM ClientSeesItsChanges == Spec => []OwnChangesAreSeen
<1>1. ASSUME Inv PROVE OwnChangesAreSeen
  <2>1. SUFFICES ASSUME \A u \in Users : thread[u].pc # "invalidate", NEW k \in DOMAIN cache, ~cache[k].excused
                 PROVE  cache[k].value = Answer(tree, mtime, k)
    BY DEF OwnChangesAreSeen
  <2>2. ~Foreseen(k)
    BY <2>1 DEF Foreseen
  <2>3. Current(cache[k], k, tree, mtime)
    BY <1>1, <2>2 DEF Inv, CacheOK
  <2> QED BY <2>1, <2>3 DEF Current
<1> QED BY <1>1, Invariance, PTL

(* A cached body is one the server had under the validators cached with it, however       *)
(* requests, changes, lost responses and 304 answers interleave: revalidation never joins *)
(* the body of one version to the ETag of another.                                        *)
THEOREM RevalidationIsExact == Spec => []ValidatorsNameTheirBody
<1>1. ASSUME Inv PROVE ValidatorsNameTheirBody
  <2>1. SUFFICES ASSUME NEW k \in DOMAIN cache, cache[k].value.kind = "file", ~cache[k].torn
                 PROVE  [path |-> k.path, etag |-> cache[k].validators, body |-> cache[k].value.body] \in versions
    BY DEF ValidatorsNameTheirBody
  <2>2. Named(cache[k], k, versions)
    BY <1>1 DEF Inv, CacheOK
  <2> QED BY <2>1, <2>2 DEF Named
<1> QED BY <1>1, Invariance, PTL

=============================================================================
