------------------------- MODULE NinePAsync_proofs -------------------------
(***************************************************************************)
(* Proofs of the safety properties of the 9P server and its asynchronous   *)
(* front end (modules NinePServer and NinePAsync) for any number of        *)
(* requests, tags, fids, files and bytes.                                  *)
(*                                                                         *)
(* Three invariants, each inductive with the ones before it.  ServerInv:   *)
(* every attribute being written, in the fid table or in a handler's own   *)
(* copy of a fid state, has as its ranges exactly the bytes written, and   *)
(* no attribute in the tree is torn.  AsyncInv: a tag names the one        *)
(* request it belongs to, which is running and not cancelled, and a        *)
(* cancelled request is silent.  LockInv: a handler calls an open file     *)
(* only while it holds the mutex, and the fid still has that file.         *)
(*                                                                         *)
(* The ranges of an attribute are kept apart from each other (AreApart),   *)
(* so record_write, which merges a write with the ranges it meets, loses   *)
(* and invents no byte (RecordIsExact); a single range from 0 to the size  *)
(* then means that every byte was written (CompleteIsWhole).               *)
(***************************************************************************)
EXTENDS NinePAsync, FileTree_proofs, FiniteSetTheorems

(* Lowest is the least member. *)
LEMMA LowestIs ==
  ASSUME NEW S \in SUBSET Nat, S # {}
  PROVE  Lowest(S) \in S /\ \A x \in S : Lowest(S) <= x
BY LeastNumber DEF Lowest

(* Highest is the greatest member of a bounded set. *)
LEMMA HighestIs ==
  ASSUME NEW n \in Nat, NEW S \in SUBSET (0..n), S # {}
  PROVE  Highest(S) \in S /\ \A x \in S : Highest(S) >= x
<1>1. \E s \in S : \A x \in S : s >= x
  <2> DEFINE R == {n - x : x \in S}
  <2>1. R \in SUBSET Nat /\ R # {}
    <3>1. \A x \in S : n - x \in Nat
      <4>1. \A x \in S : x \in 0..n
        OBVIOUS
      <4> QED BY <4>1
    <3> QED BY <3>1
  <2>2. Lowest(R) \in R /\ \A y \in R : Lowest(R) <= y
    BY <2>1, LowestIs
  <2>3. PICK s \in S : Lowest(R) = n - s
    BY <2>2
  <2>4. ASSUME NEW x \in S PROVE s >= x
    <3>1. n - s <= n - x
      BY <2>2, <2>3
    <3> QED BY <3>1
  <2> QED BY <2>4
<1> QED BY <1>1 DEF Highest

(* Span is the shortest range over ranges: it starts where one starts and ends where one *)
(* ends.                                                                                 *)
LEMMA SpanIs ==
  ASSUME NEW size \in Nat, NEW ranges, ranges # {},
         \A r \in ranges : r[1] \in 0..size - 1 /\ r[2] \in r[1] + 1..size
  PROVE  /\ Span(ranges)[1] \in 0..size - 1 /\ Span(ranges)[2] \in Span(ranges)[1] + 1..size
         /\ Span(ranges) = <<Span(ranges)[1], Span(ranges)[2]>>
         /\ \A r \in ranges : Span(ranges)[1] <= r[1] /\ r[2] <= Span(ranges)[2]
         /\ \E r \in ranges : Span(ranges)[1] = r[1]
         /\ \E r \in ranges : Span(ranges)[2] = r[2]
<1> DEFINE L == {r[1] : r \in ranges}
           H == {r[2] : r \in ranges}
<1>1. L \in SUBSET Nat /\ L # {} /\ H \in SUBSET (0..size) /\ H # {}
  OBVIOUS
<1>2. Lowest(L) \in L /\ (\A x \in L : Lowest(L) <= x) /\ Highest(H) \in H /\ (\A x \in H : Highest(H) >= x)
  BY <1>1, LowestIs, HighestIs
<1> DEFINE lo == Lowest(L)
           hi == Highest(H)
<1>3. Span(ranges) = <<lo, hi>> /\ Span(ranges)[1] = lo /\ Span(ranges)[2] = hi
  BY DEF Span
<1>4. PICK r1 \in ranges : lo = r1[1]
  BY <1>2
<1>5. PICK r2 \in ranges : hi = r2[2]
  BY <1>2
<1>6. \A r \in ranges : lo <= r[1] /\ r[2] <= hi
  <2> SUFFICES ASSUME NEW r \in ranges PROVE lo <= r[1] /\ r[2] <= hi
    OBVIOUS
  <2>1. r[1] \in L /\ r[2] \in H
    OBVIOUS
  <2>2. lo <= r[1] /\ hi >= r[2]
    BY <1>2, <2>1
  <2>3. hi \in Nat /\ r[2] \in Nat
    BY <1>5
  <2> QED BY <2>2, <2>3
<1> HIDE DEF lo, hi, L, H
<1>7. lo \in 0..size - 1 /\ hi \in lo + 1..size
  <2>1. lo \in 0..size - 1 /\ hi \in 0..size
    BY <1>4, <1>5
  <2>2. r1[2] <= hi /\ r1[2] \in r1[1] + 1..size
    BY <1>6
  <2> QED BY <1>4, <2>1, <2>2
<1> QED BY <1>3, <1>4, <1>5, <1>6, <1>7

(* Ranges of an attribute of that size, kept apart, and the bytes in them. *)
AreRanges(W, size) == \A r \in W : r[1] \in 0..size - 1 /\ r[2] \in r[1] + 1..size /\ r = <<r[1], r[2]>>
AreApart(W) == \A r, q \in W : r # q => r[2] < q[1] \/ q[2] < r[1]
Wrote(W, i) == \E r \in W : i \in r[1]..r[2] - 1

(* record_write adds the bytes written and no other, and leaves the ranges apart. *)
LEMMA RecordIsExact ==
  ASSUME NEW size \in Nat, NEW W, NEW s \in Nat, NEW e \in Nat, s < e, e <= size, AreRanges(W, size), AreApart(W)
  PROVE  /\ AreRanges(record_write(W, s, e), size) /\ AreApart(record_write(W, s, e))
         /\ \A i \in 0..size - 1 : Wrote(record_write(W, s, e), i) <=> (i \in s..e - 1 \/ Wrote(W, i))
<1>a. /\ \A r \in W : r[1] \in 0..size - 1 /\ r[2] \in r[1] + 1..size /\ r = <<r[1], r[2]>>
      /\ \A r, q \in W : r # q => r[2] < q[1] \/ q[2] < r[1]
  BY DEF AreRanges, AreApart
<1> USE <1>a
<1> DEFINE V == record_write(W, s, e)
           T == {r \in W : r[2] >= s /\ r[1] <= e}
           new == <<s, e>>
           M == Span(T \cup {new})
<1>1. new[1] = s /\ new[2] = e
  OBVIOUS
<1>2. V = (W \ T) \cup {M}
  BY DEF record_write
<1> HIDE DEF new
<1>3. \A r \in T \cup {new} : r[1] \in 0..size - 1 /\ r[2] \in r[1] + 1..size
  BY <1>1
<1>4. /\ M[1] \in 0..size - 1 /\ M[2] \in M[1] + 1..size /\ M = <<M[1], M[2]>>
      /\ \A r \in T \cup {new} : M[1] <= r[1] /\ r[2] <= M[2]
      /\ \E r \in T \cup {new} : M[1] = r[1]
      /\ \E r \in T \cup {new} : M[2] = r[2]
  BY <1>3, SpanIs
<1>5. PICK a \in T \cup {new} : M[1] = a[1]
  BY <1>4
<1>6. PICK b \in T \cup {new} : M[2] = b[2]
  BY <1>4
<1> HIDE DEF V, M
<1>7. \A r \in V : r[1] \in 0..size - 1 /\ r[2] \in r[1] + 1..size /\ r = <<r[1], r[2]>>
  BY <1>2, <1>4
<1>8. ASSUME NEW q \in W \ T PROVE q[2] < M[1] \/ M[2] < q[1]
  <2>0. q[1] \in Nat /\ q[2] \in Nat /\ q[1] < q[2] /\ (q[2] < s \/ q[1] > e)
    OBVIOUS
  <2>1. CASE q[2] < s
    <3>1. CASE a = new
      BY <1>1, <1>5, <2>1, <3>1
    <3>2. CASE a \in T
      BY <1>5, <2>0, <2>1, <3>2
    <3> QED BY <3>1, <3>2
  <2>2. CASE q[1] > e
    <3>1. CASE b = new
      BY <1>1, <1>6, <2>2, <3>1
    <3>2. CASE b \in T
      BY <1>6, <2>0, <2>2, <3>2
    <3> QED BY <3>1, <3>2
  <2> QED BY <2>0, <2>1, <2>2
<1>9. \A r, q \in V : r # q => r[2] < q[1] \/ q[2] < r[1]
  BY <1>2, <1>8
<1>10. ASSUME NEW i \in 0..size - 1
       PROVE  (\E r \in V : i \in r[1]..r[2] - 1) <=> (i \in s..e - 1 \/ \E r \in W : i \in r[1]..r[2] - 1)
  <2>1. ASSUME i \in M[1]..M[2] - 1 PROVE i \in s..e - 1 \/ \E r \in W : i \in r[1]..r[2] - 1
    <3>1. CASE i < s
      <4>1. a \in T
        BY <1>1, <1>5, <2>1, <3>1
      <4> QED BY <1>5, <2>1, <3>1, <4>1
    <3>2. CASE i >= e
      <4>1. b \in T
        BY <1>1, <1>4, <1>6, <2>1, <3>2
      <4> QED BY <1>4, <1>6, <2>1, <3>2, <4>1
    <3> QED BY <3>1, <3>2
  <2>2. ASSUME i \in s..e - 1 PROVE i \in M[1]..M[2] - 1
    BY <1>1, <1>4, <2>2
  <2>3. ASSUME NEW r \in T, i \in r[1]..r[2] - 1 PROVE i \in M[1]..M[2] - 1
    BY <1>4, <2>3
  <2>4. ASSUME NEW r \in V, i \in r[1]..r[2] - 1 PROVE i \in s..e - 1 \/ \E q \in W : i \in q[1]..q[2] - 1
    BY <1>2, <2>1, <2>4
  <2>5. ASSUME i \in s..e - 1 \/ \E q \in W : i \in q[1]..q[2] - 1 PROVE \E r \in V : i \in r[1]..r[2] - 1
    BY <1>2, <2>2, <2>3, <2>5
  <2> QED BY <2>4, <2>5
<1> QED BY <1>7, <1>9, <1>10 DEF V, AreRanges, AreApart, Wrote

(* A write keeps the ranges exact: they hold the bytes that were written. *)
LEMMA WriteIsExact ==
  ASSUME NEW h, IsXattrWrite(h), Exact(h), NEW offset \in Nat, NEW n \in Nat, NEW byte \in Bytes, CanWriteAt(h, offset, n)
  PROVE  IsXattrWrite(write_at(h, offset, n, byte)) /\ Exact(write_at(h, offset, n, byte))
<1> DEFINE w == write_at(h, offset, n, byte)
           size == Cardinality(DOMAIN h.data)
           V == record_write(h.written, offset, offset + n)
<1>1. /\ DOMAIN h.data = 0..size - 1 /\ size \in Nat /\ byte # Zero /\ offset + n <= size
      /\ DOMAIN h = {"kind", "data", "written", "committed"} /\ h.kind = "xattr_write" /\ h.committed \in BOOLEAN
      /\ \A i \in DOMAIN h.data : h.data[i] \in Bytes \cup {Zero}
      /\ \A r \in h.written : r[1] \in 0..size - 1 /\ r[2] \in r[1] + 1..size /\ r = <<r[1], r[2]>>
  BY DataIsAttribute DEF IsXattrWrite, CanWriteAt
<1>2. /\ DOMAIN w = DOMAIN h /\ w.kind = h.kind /\ w.committed = h.committed /\ w.written = V
      /\ w.data = [i \in DOMAIN h.data |-> IF i \in offset..offset + n - 1 THEN byte ELSE h.data[i]]
  <2> HIDE DEF V
  <2> QED BY <1>1 DEF write_at, V
<1> HIDE DEF w
<1>3. /\ DOMAIN w.data = 0..size - 1 /\ Cardinality(DOMAIN w.data) = size
      /\ \A i \in 0..size - 1 : w.data[i] = IF i \in offset..offset + n - 1 THEN byte ELSE h.data[i]
  BY <1>1, <1>2
<1>4. /\ \A r \in V : r[1] \in 0..size - 1 /\ r[2] \in r[1] + 1..size /\ r = <<r[1], r[2]>>
      /\ \A r, q \in V : r # q => r[2] < q[1] \/ q[2] < r[1]
      /\ \A i \in 0..size - 1 : (\E r \in V : i \in r[1]..r[2] - 1)
                                  <=> (i \in offset..offset + n - 1 \/ \E r \in h.written : i \in r[1]..r[2] - 1)
  <2>1. CASE n = 0
    <3>1. V = h.written /\ offset..offset + n - 1 = {}
      BY <2>1 DEF record_write
    <3> QED BY <1>1, <3>1 DEF Exact
  <2>2. CASE n # 0
    <3>1. offset < offset + n /\ offset + n \in Nat
      BY <2>2
    <3>2. \A r, q \in h.written : r # q => r[2] < q[1] \/ q[2] < r[1]
      BY DEF Exact
    <3>3. \A r \in h.written : r[1] \in 0..size - 1 /\ r[2] \in r[1] + 1..size /\ r = <<r[1], r[2]>>
      BY <1>1
    <3>4. size \in Nat /\ offset + n <= size
      BY <1>1
    <3> DEFINE W == h.written
               e == offset + n
    <3> HIDE DEF size, W, e
    <3>5. offset < e /\ e \in Nat /\ e <= size
      BY <3>1, <3>4 DEF e
    <3>6. AreRanges(W, size) /\ AreApart(W)
      BY <3>2, <3>3 DEF W, AreRanges, AreApart
    <3>7. /\ AreRanges(record_write(W, offset, e), size) /\ AreApart(record_write(W, offset, e))
          /\ \A i \in 0..size - 1 : Wrote(record_write(W, offset, e), i) <=> (i \in offset..e - 1 \/ Wrote(W, i))
      BY <3>4, <3>5, <3>6, RecordIsExact
    <3> QED BY <3>7 DEF W, e, AreRanges, AreApart, Wrote
  <2> QED BY <2>1, <2>2
<1> HIDE DEF V, size
<1>5. IsXattrWrite(w)
  <2>1. \A i \in DOMAIN w.data : w.data[i] \in Bytes \cup {Zero}
    BY <1>1, <1>3
  <2> QED BY <1>1, <1>2, <1>3, <1>4, <2>1 DEF IsXattrWrite
<1>6. Exact(w)
  <2>1. ASSUME NEW i \in DOMAIN w.data PROVE w.data[i] # Zero <=> \E r \in w.written : i \in r[1]..r[2] - 1
    <3>1. i \in DOMAIN h.data /\ (h.data[i] # Zero <=> \E r \in h.written : i \in r[1]..r[2] - 1)
      BY <1>1, <1>3 DEF Exact
    <3>2. w.data[i] # Zero <=> (i \in offset..offset + n - 1 \/ h.data[i] # Zero)
      BY <1>1, <1>3
    <3> QED BY <1>1, <1>2, <1>4, <3>1, <3>2
  <2> QED BY <1>2, <1>4, <2>1 DEF Exact
<1> QED BY <1>5, <1>6 DEF w

(* A complete attribute is not torn when all its writers write the same byte. *)
LEMMA CompleteIsWhole ==
  ASSUME NEW h, IsXattrWrite(h), Exact(h), is_complete(h), Cardinality(Bytes) = 1
  PROVE  Value(h) # Torn
<1>1. PICK b : Bytes = {b}
  BY FS_Singleton, BytesAreFinite
<1>2. CASE DOMAIN h.data = {}
  BY <1>2 DEF Value, Blank, Torn
<1>3. CASE DOMAIN h.data # {}
  <2> DEFINE size == Cardinality(DOMAIN h.data)
  <2>1. h.written = {<<0, size>>} /\ DOMAIN h.data = 0..size - 1 /\ size \in Nat
    BY <1>3 DEF is_complete, IsXattrWrite
  <2> HIDE DEF size
  <2>2. ASSUME NEW i \in DOMAIN h.data PROVE h.data[i] = b
    <3>1. <<0, size>> \in h.written /\ i \in <<0, size>>[1]..<<0, size>>[2] - 1
      BY <2>1
    <3>2. h.data[i] # Zero
      BY <3>1 DEF Exact
    <3> QED BY <1>1, <3>2 DEF IsXattrWrite
  <2>3. \A c \in Bytes : c = b
    BY <1>1
  <2>4. Value(h) \in Bytes
    BY <1>1, <1>3, <2>2, <2>3 DEF Value
  <2> QED BY <2>4, DataIsAttribute
<1> QED BY <1>2, <1>3

-----------------------------------------------------------------------------

(* No node of the tree is torn. *)
Untorn(t) == DOMAIN t \subseteq Seq(Nat) /\ (Cardinality(Bytes) = 1 => \A p \in DOMAIN t : t[p] # Torn)

(* Put keeps that. *)
LEMMA PutUntorn ==
  ASSUME NEW t, Untorn(t), NEW p \in Seq(Nat), NEW node, Cardinality(Bytes) = 1 => node # Torn
  PROVE  Untorn(Put(t, p, node))
BY DEF Untorn, Put

(* remove_all keeps that. *)
LEMMA RemoveUntorn ==
  ASSUME NEW t, Untorn(t), NEW p
  PROVE  Untorn(remove_all(t, p))
BY DEF Untorn, remove_all

(* rename keeps that. *)
LEMMA RenameUntorn ==
  ASSUME NEW t, Untorn(t), NEW old \in Seq(Nat), NEW new \in Seq(Nat)
  PROVE  Untorn(rename(t, old, new))
<1> DEFINE rest == remove_all(remove_all(t, old), new)
           moved == Moved(t, old, new)
           r == rename(t, old, new)
<1>1. Untorn(rest) /\ \A q \in DOMAIN rest : ~path_contains(new, q)
  <2>1. Untorn(rest)
    BY RemoveUntorn
  <2> QED BY <2>1 DEF remove_all
<1>2. r = [q \in DOMAIN rest \cup moved |-> IF path_contains(new, q) THEN t[Rebase(q, new, old)] ELSE rest[q]]
  BY DEF rename
<1>3. ASSUME NEW q \in moved
      PROVE  q \in Seq(Nat) /\ path_contains(new, q) /\ Rebase(q, new, old) \in DOMAIN t
  <2>1. PICK p \in DOMAIN t : path_contains(old, p) /\ q = Rebase(p, old, new)
    BY DEF Moved
  <2> QED BY <2>1, RebaseBack DEF Untorn
<1> HIDE DEF rest, moved, r
<1>4. DOMAIN r \subseteq Seq(Nat)
  BY <1>1, <1>2, <1>3 DEF Untorn
<1>5. ASSUME Cardinality(Bytes) = 1, NEW q \in DOMAIN r PROVE r[q] # Torn
  <2>1. CASE q \in moved
    BY <1>2, <1>3, <1>5, <2>1 DEF Untorn
  <2>2. CASE q \in DOMAIN rest
    BY <1>1, <1>2, <1>5, <2>2 DEF Untorn
  <2> QED BY <1>2, <2>1, <2>2
<1> QED BY <1>4, <1>5 DEF Untorn, r

-----------------------------------------------------------------------------

(* What is kept of fids, requests and the locals of a handler. *)
HandleOK(h) == h.kind = "xattr_write" => IsXattrWrite(h) /\ Exact(h)
StateOK(s) == DOMAIN s = {"path", "handle"} /\ s.path \in Seq(Nat) /\ HandleOK(s.handle)
RequestOK(req) ==
  /\ req.type = "write" => req.offset \in Nat /\ req.n \in Nat /\ req.byte \in Bytes
  /\ req.type = "xattrcreate" => req.size \in Nat
  /\ req.type = "walk" => req.names \in Seq(Nat)
  /\ req.type \in {"lcreate", "mkdir", "symlink", "link", "renameat", "unlinkat"} => req.name \in Nat
  /\ req.type = "renameat" => req.newname \in Nat
Locals == {"pc", "req", "path", "path2", "n", "state", "reply"}
LocalsOK(l) ==
  /\ DOMAIN l = Locals /\ RequestOK(l.req)
  /\ l.path \in Seq(Nat) /\ l.path2 \in Seq(Nat) /\ StateOK(l.state)

FidsOK == \A f \in DOMAIN fids : StateOK(fids[f])
HandlersOK == DOMAIN handler = Threads /\ \A t \in Threads : LocalsOK(handler[t])
(* The invariant of the server. *)
ServerInv == FidsOK /\ HandlersOK /\ Untorn(tree)

(* A new attribute has no ranges and no bytes. *)
LEMMA NewIsExact ==
  ASSUME NEW size \in Nat
  PROVE  HandleOK(NewXattrWrite(size))
<1> DEFINE h == NewXattrWrite(size)
<1>1. /\ DOMAIN h = {"kind", "data", "written", "committed"} /\ h.kind = "xattr_write" /\ h.written = {} /\ h.committed = FALSE
      /\ h.data = [i \in 0..size - 1 |-> Zero]
  BY DEF NewXattrWrite
<1> HIDE DEF h
<1>2. DOMAIN h.data = 0..size - 1 /\ \A i \in DOMAIN h.data : h.data[i] = Zero
  BY <1>1
<1>3. Cardinality(DOMAIN h.data) = size
  <2>1. Cardinality(0..size - 1) = IF 0 > size - 1 THEN 0 ELSE (size - 1) - 0 + 1
    BY FS_Interval
  <2> QED BY <1>2, <2>1
<1> QED BY <1>1, <1>2, <1>3 DEF HandleOK, IsXattrWrite, Exact, h

(* Installing a fid. *)
LEMMA InstallKeeps ==
  ASSUME FidsOK, NEW fid, NEW s, StateOK(s), Install(fid, s)
  PROVE  FidsOK'
BY DEF FidsOK, Install

(* Changing the handle of a fid. *)
LEMMA SetHandleKeeps ==
  ASSUME FidsOK, NEW fid \in DOMAIN fids, NEW h, HandleOK(h), SetHandle(fid, h)
  PROVE  FidsOK'
<1>1. StateOK(fids[fid])
  BY DEF FidsOK
<1>2. StateOK([fids[fid] EXCEPT !.handle = h])
  BY <1>1 DEF StateOK
<1> QED BY <1>2, InstallKeeps DEF SetHandle

(* Ending a request with a reply. *)
LEMMA ReplyKeeps ==
  ASSUME HandlersOK, NEW t \in Threads, NEW reply, Reply(t, reply)
  PROVE  HandlersOK'
BY DEF HandlersOK, LocalsOK, Locals, Reply

(* The same, with a result. *)
LEMMA AnswerKeeps ==
  ASSUME HandlersOK, NEW t \in Threads, NEW ok, NEW n, Answer(t, ok, n)
  PROVE  HandlersOK'
BY ReplyKeeps DEF Answer

(* A request that fails changes nothing. *)
LEMMA FailKeeps ==
  ASSUME ServerInv, NEW t \in Threads, Fail(t)
  PROVE  ServerInv'
<1>1. HandlersOK'
  BY ReplyKeeps DEF ServerInv, Fail
<1>2. FidsOK'
  BY DEF ServerInv, Fail, FidsOK
<1>3. Untorn(tree')
  BY DEF ServerInv, Fail
<1> QED BY <1>1, <1>2, <1>3 DEF ServerInv

(* commit_xattr_if_ready writes an attribute that is complete, so whole. *)
LEMMA CommitKeeps ==
  ASSUME Untorn(tree), NEW path \in Seq(Nat), NEW h, HandleOK(h), CommitTo(path, h)
  PROVE  Untorn(tree')
<1>1. CASE CommitReady(h) /\ is_leaf(tree, path) /\ tree' = Put(tree, path, Value(h))
  <2>1. IsXattrWrite(h) /\ Exact(h) /\ is_complete(h)
    BY <1>1 DEF CommitReady, HandleOK
  <2>2. Cardinality(Bytes) = 1 => Value(h) # Torn
    BY <2>1, CompleteIsWhole
  <2> QED BY <1>1, <2>2, PutUntorn
<1>2. CASE tree' = tree
  BY <1>2
<1> QED BY <1>1, <1>2 DEF CommitTo

(* A walk gets as far as some number of its names. *)
LEMMA WalkedIs ==
  ASSUME NEW base, NEW names \in Seq(Nat)
  PROVE  Walked(base, names) \in 0..Len(names)
<1> DEFINE good == {n \in 0..Len(names) : \A m \in 1..n : exists(tree, base \o SubSeq(names, 1, m))}
<1>1. good \in SUBSET (0..Len(names)) /\ 0 \in good /\ Len(names) \in Nat
  <2>1. Len(names) \in Nat /\ \A m \in 1..0 : FALSE
    OBVIOUS
  <2>2. \A m \in 1..0 : exists(tree, base \o SubSeq(names, 1, m))
    BY <2>1, Zenon
  <2>3. 0 \in 0..Len(names)
    BY <2>1
  <2>4. 0 \in good
    BY <2>2, <2>3, Zenon
  <2>5. good \subseteq 0..Len(names)
    BY Zenon
  <2> QED BY <2>1, <2>4, <2>5
<1>2. Walked(base, names) = CHOOSE n \in good : \A m \in good : m <= n
  BY DEF Walked
<1> HIDE DEF good
<1>3. Highest(good) \in good /\ \A x \in good : Highest(good) >= x
  BY <1>1, HighestIs
<1>4. \E n \in good : \A m \in good : m <= n
  <2>1. \A m \in good : m <= Highest(good)
    BY <1>1, <1>3
  <2> QED BY <1>3, <2>1
<1>5. Walked(base, names) \in good
  BY <1>2, <1>4
<1> QED BY <1>1, <1>5

(* Requests on the table of fids. *)
LEMMA TableStep ==
  ASSUME ServerInv, NEW t \in Threads,
         version(t) \/ attach(t) \/ getattr(t) \/ xattrcreate(t) \/ xattr_io(t) \/ file_io(t) \/ file_io_done(t) \/ fsync(t)
  PROVE  ServerInv'
<1>0. FidsOK /\ HandlersOK /\ Untorn(tree) /\ LocalsOK(handler[t]) /\ RequestOK(Req(t))
  BY DEF ServerInv, HandlersOK, LocalsOK, Req
<1>1. CASE version(t)
  BY <1>0, <1>1, ReplyKeeps DEF version, ServerInv, FidsOK
<1>2. CASE attach(t)
  <2>1. StateOK(unopened(<<>>))
    BY DEF StateOK, HandleOK, unopened, NoHandle
  <2>2. CASE Fail(t)
    BY <2>2, FailKeeps
  <2>3. CASE ~Fail(t)
    <3>1. FidsOK' /\ HandlersOK'
      BY <1>0, <1>2, <2>1, <2>3, InstallKeeps, ReplyKeeps DEF attach
    <3> QED BY <1>0, <1>2, <2>3, <3>1 DEF attach, ServerInv
  <2> QED BY <2>2, <2>3
<1>3. CASE getattr(t)
  <2>1. HandlersOK'
    BY <1>0, <1>3, AnswerKeeps DEF getattr
  <2> QED BY <1>0, <1>3, <2>1 DEF getattr, ServerInv, FidsOK
<1>4. CASE xattrcreate(t)
  <2>1. CASE Req(t).fid \in DOMAIN fids
    <3>1. Req(t).size \in Nat
      BY <1>0, <1>4 DEF xattrcreate, Handles, Req, RequestOK
    <3>2. FidsOK' /\ HandlersOK'
      BY <1>0, <1>4, <2>1, <3>1, NewIsExact, SetHandleKeeps, ReplyKeeps DEF xattrcreate
    <3> QED BY <1>0, <1>4, <2>1, <3>2 DEF xattrcreate, ServerInv
  <2>2. CASE Req(t).fid \notin DOMAIN fids
    BY <1>4, <2>2, FailKeeps DEF xattrcreate
  <2> QED BY <2>1, <2>2
<1>5. CASE xattr_io(t)
  <2> DEFINE f == Req(t).fid
             h == IF f \in DOMAIN fids THEN fids[f].handle ELSE NoHandle
  <2>1. CASE /\ Req(t).type = "write" /\ h.kind = "xattr_write" /\ CanWriteAt(h, Req(t).offset, Req(t).n)
             /\ SetHandle(f, write_at(h, Req(t).offset, Req(t).n, Req(t).byte))
             /\ Reply(t, Ok(Req(t).n)) /\ UNCHANGED <<lock, tree>>
    <3>1. Req(t).offset \in Nat /\ Req(t).n \in Nat /\ Req(t).byte \in Bytes
      BY <1>0, <2>1 DEF RequestOK
    <3>2. f \in DOMAIN fids
      BY <2>1 DEF NoHandle
    <3>3. IsXattrWrite(h) /\ Exact(h)
      BY <1>0, <2>1, <3>2 DEF FidsOK, StateOK, HandleOK
    <3> HIDE DEF h, f
    <3>4. HandleOK(write_at(h, Req(t).offset, Req(t).n, Req(t).byte))
      BY <2>1, <3>1, <3>3, WriteIsExact DEF HandleOK
    <3>5. FidsOK' /\ HandlersOK'
      BY <1>0, <2>1, <3>2, <3>4, SetHandleKeeps, ReplyKeeps
    <3> QED BY <1>0, <2>1, <3>5 DEF ServerInv
  <2>2. CASE Reply(t, [Ok(1) EXCEPT !.names = <<h.value>>]) /\ UNCHANGED <<fids, lock, tree, lost>>
    BY <1>0, <2>2, ReplyKeeps DEF ServerInv, FidsOK
  <2>3. CASE Fail(t)
    BY <2>3, FailKeeps
  <2> QED BY <1>5, <2>1, <2>2, <2>3 DEF xattr_io
<1>6. CASE file_io(t)
  BY <1>0, <1>6 DEF file_io, ServerInv, FidsOK, HandlersOK, LocalsOK, Locals
<1>7. CASE file_io_done(t)
  <2>1. PICK ok \in BOOLEAN :
          /\ IF ok THEN fids' = [fids EXCEPT ![Req(t).fid].handle = File(Req(t).type = "write" \/ (@.dirty /\ Req(t).type = "read"))]
             ELSE UNCHANGED fids
          /\ Answer(t, ok, 0)
    BY <1>7 DEF file_io_done
  <2>2. HandlersOK' /\ UNCHANGED tree
    BY <1>0, <1>7, <2>1, AnswerKeeps DEF file_io_done
  <2>3. FidsOK'
    <3>1. CASE ok
      <4>1. PICK d : fids' = [fids EXCEPT ![Req(t).fid].handle = File(d)]
        BY <2>1, <3>1
      <4>2. HandleOK(File(d))
        BY DEF HandleOK, File
      <4> HIDE DEF File
      <4> QED BY <1>0, <4>1, <4>2 DEF FidsOK, StateOK
    <3> QED BY <1>0, <2>1, <3>1 DEF FidsOK
  <2> QED BY <1>0, <2>2, <2>3 DEF ServerInv
<1>8. CASE fsync(t)
  <2> DEFINE f == Req(t).fid
             h == fids[f].handle
             ok == Committed(fids[f].path, h)
  <2>1. CASE Fail(t)
    BY <2>1, FailKeeps
  <2>2. CASE /\ f \in DOMAIN fids /\ CommitTo(fids[f].path, h) /\ Answer(t, ok, 0)
             /\ IF ok /\ h.kind = "xattr_write" THEN fids' = [fids EXCEPT ![f].handle.committed = TRUE] ELSE UNCHANGED fids
    <3>1. StateOK(fids[f]) /\ fids[f].path \in Seq(Nat) /\ HandleOK(h)
      BY <1>0, <2>2 DEF FidsOK, StateOK
    <3> HIDE DEF ok
    <3>2. HandlersOK'
      BY <1>0, <2>2, AnswerKeeps
    <3>3. Untorn(tree')
      BY <1>0, <2>2, <3>1, CommitKeeps
    <3>4. CASE h.kind = "xattr_write" /\ fids' = [fids EXCEPT ![f].handle.committed = TRUE]
      <4> DEFINE g == [h EXCEPT !.committed = TRUE]
      <4>1. IsXattrWrite(h) /\ Exact(h)
        BY <3>1, <3>4 DEF HandleOK
      <4>2. DOMAIN g = DOMAIN h /\ g.kind = h.kind /\ g.data = h.data /\ g.written = h.written /\ g.committed = TRUE
        BY <4>1 DEF IsXattrWrite
      <4> HIDE DEF g
      <4>3. HandleOK(g)
        BY <4>1, <4>2 DEF IsXattrWrite, Exact, HandleOK
      <4>4. fids' = [fids EXCEPT ![f].handle = g]
        BY <3>4 DEF g
      <4>5. FidsOK'
        BY <1>0, <4>3, <4>4 DEF FidsOK, StateOK
      <4> QED BY <3>2, <3>3, <4>5 DEF ServerInv
    <3>5. CASE UNCHANGED fids
      BY <1>0, <3>2, <3>3, <3>5 DEF ServerInv, FidsOK
    <3> QED BY <2>2, <3>4, <3>5
  <2> QED BY <1>8, <2>1, <2>2 DEF fsync
<1> QED BY <1>1, <1>2, <1>3, <1>4, <1>5, <1>6, <1>7, <1>8

(* Requests that resolve a fid, go to the file system and install another. *)
LEMMA ResolveStep ==
  ASSUME ServerInv, NEW t \in Threads,
         fid_path(t) \/ second_fid_path(t) \/ new_fid_path(t) \/ walk(t) \/ xattrwalk(t) \/ lopen(t) \/ lcreate(t)
           \/ install_new(t) \/ install_file(t)
  PROVE  ServerInv'
<1>0. FidsOK /\ HandlersOK /\ Untorn(tree) /\ LocalsOK(handler[t]) /\ RequestOK(Req(t))
  BY DEF ServerInv, HandlersOK, LocalsOK, Req
<1>a. \A f \in DOMAIN fids : fids[f].path \in Seq(Nat)
  BY <1>0 DEF FidsOK, StateOK
<1>b. handler[t].path \in Seq(Nat) /\ handler[t].path2 \in Seq(Nat) /\ StateOK(handler[t].state)
  BY <1>0 DEF LocalsOK
<1>c. CASE Fail(t)
  BY <1>c, FailKeeps
<1>1. CASE fid_path(t) /\ ~Fail(t)
  <2>1. Req(t).fid \in DOMAIN fids
    BY <1>1 DEF fid_path
  <2>2. PICK pc, path : path \in Seq(Nat) /\ handler' = [handler EXCEPT ![t].path = path, ![t].pc = pc] /\ UNCHANGED <<fids, tree>>
    BY <1>1, <1>a, <2>1 DEF fid_path
  <2>3. HandlersOK'
    BY <1>0, <2>2 DEF HandlersOK, LocalsOK, Locals
  <2> QED BY <1>0, <2>2, <2>3 DEF ServerInv, FidsOK
<1>2. CASE second_fid_path(t) /\ ~Fail(t)
  <2>1. Req(t).newfid \in DOMAIN fids
    BY <1>2 DEF second_fid_path
  <2>2. PICK pc, path : path \in Seq(Nat) /\ handler' = [handler EXCEPT ![t].path2 = path, ![t].pc = pc] /\ UNCHANGED <<fids, tree>>
    BY <1>2, <1>a, <2>1 DEF second_fid_path
  <2>3. HandlersOK'
    BY <1>0, <2>2 DEF HandlersOK, LocalsOK, Locals
  <2> QED BY <1>0, <2>2, <2>3 DEF ServerInv, FidsOK
<1>3. CASE new_fid_path(t) /\ ~Fail(t)
  <2>1. Req(t).fid \in DOMAIN fids
    BY <1>3 DEF new_fid_path
  <2>2. PICK pc, path : path \in Seq(Nat) /\ handler' = [handler EXCEPT ![t].path = path, ![t].pc = pc] /\ UNCHANGED <<fids, tree>>
    BY <1>3, <1>a, <2>1 DEF new_fid_path
  <2>3. HandlersOK'
    BY <1>0, <2>2 DEF HandlersOK, LocalsOK, Locals
  <2> QED BY <1>0, <2>2, <2>3 DEF ServerInv, FidsOK
<1>4. CASE walk(t) /\ ~Fail(t)
  <2> DEFINE names == Req(t).names
             n == Walked(handler[t].path, names)
             s == unopened(handler[t].path \o SubSeq(names, 1, n))
  <2>1. names \in Seq(Nat)
    BY <1>0, <1>4 DEF walk, Handles, Req, RequestOK
  <2> HIDE DEF names
  <2>2. n \in 0..Len(names)
    BY <2>1, WalkedIs
  <2> HIDE DEF n
  <2>3. SubSeq(names, 1, n) \in Seq(Nat)
    <3>1. \A i \in 1..n : names[i] \in Nat
      BY <2>1, <2>2, ElementOfSeq
    <3> QED BY <2>2, <3>1, SubSeqProperties
  <2>4. StateOK(s)
    <3>1. handler[t].path \o SubSeq(names, 1, n) \in Seq(Nat)
      BY <1>b, <2>3, ConcatProperties
    <3> QED BY <3>1 DEF StateOK, HandleOK, unopened, NoHandle
  <2> HIDE DEF s
  <2>5. /\ handler' = [handler EXCEPT ![t].pc = "install", ![t].n = n, ![t].state = s]
        /\ UNCHANGED <<fids, tree>>
    BY <1>4 DEF walk, s, n, names
  <2> QED BY <1>0, <2>4, <2>5 DEF ServerInv, FidsOK, HandlersOK, LocalsOK, Locals
<1>5. CASE xattrwalk(t) /\ ~Fail(t)
  <2> DEFINE s == [path |-> handler[t].path, handle |-> XattrRead(Node(tree, handler[t].path))]
  <2>1. StateOK(s)
    BY <1>b DEF StateOK, HandleOK, XattrRead
  <2> HIDE DEF s
  <2>2. /\ handler' = [handler EXCEPT ![t].pc = "install", ![t].n = IF Node(tree, handler[t].path) = Blank THEN 0 ELSE 1,
                                      ![t].state = s]
        /\ UNCHANGED <<fids, tree>>
    BY <1>5 DEF xattrwalk, s
  <2> QED BY <1>0, <2>1, <2>2 DEF ServerInv, FidsOK, HandlersOK, LocalsOK, Locals
<1>6. CASE lopen(t) /\ ~Fail(t)
  <2> DEFINE s == [path |-> handler[t].path, handle |-> File(FALSE)]
  <2>1. StateOK(s)
    BY <1>b DEF StateOK, HandleOK, File
  <2> HIDE DEF s
  <2>2. handler' = [handler EXCEPT ![t].pc = "install", ![t].state = s] /\ UNCHANGED <<fids, tree>>
    BY <1>6 DEF lopen, s
  <2> QED BY <1>0, <2>1, <2>2 DEF ServerInv, FidsOK, HandlersOK, LocalsOK, Locals
<1>7. CASE lcreate(t) /\ ~Fail(t)
  <2> DEFINE path == Append(handler[t].path, Req(t).name)
             s == [path |-> path, handle |-> File(FALSE)]
  <2>1. Req(t).name \in Nat
    BY <1>0, <1>7 DEF lcreate, Handles, Req, RequestOK
  <2>2. path \in Seq(Nat)
    BY <1>b, <2>1, AppendProperties
  <2> HIDE DEF path
  <2>3. StateOK(s)
    BY <2>2 DEF StateOK, HandleOK, File
  <2> HIDE DEF s
  <2>4. /\ handler' = [handler EXCEPT ![t].pc = "install", ![t].state = s] /\ UNCHANGED fids
        /\ tree' = IF exists(tree, path) THEN tree ELSE Put(tree, path, Unset)
    BY <1>7 DEF lcreate, s, path
  <2>5. Untorn(tree')
    BY <1>0, <2>2, <2>4, PutUntorn DEF Unset, Torn
  <2> QED BY <1>0, <2>3, <2>4, <2>5 DEF ServerInv, FidsOK, HandlersOK, LocalsOK, Locals
<1>8. CASE install_new(t)
  <2>1. FidsOK' /\ HandlersOK'
    BY <1>0, <1>8, <1>b, InstallKeeps, ReplyKeeps DEF install_new
  <2> QED BY <1>0, <1>8, <2>1 DEF install_new, ServerInv
<1>9. CASE install_file(t) /\ ~Fail(t)
  <2>1. FidsOK' /\ HandlersOK'
    BY <1>0, <1>9, <1>b, InstallKeeps, ReplyKeeps DEF install_file
  <2> QED BY <1>0, <1>9, <2>1 DEF install_file, ServerInv
<1> QED BY <1>1, <1>2, <1>3, <1>4, <1>5, <1>6, <1>7, <1>8, <1>9, <1>c

(* Requests that change the tree; clunk and remove may commit an attribute. *)
LEMMA TreeStep ==
  ASSUME ServerInv, NEW t \in Threads,
         setattr(t) \/ mkdir(t) \/ symlink(t) \/ readlink(t) \/ link(t) \/ rename_at(t) \/ unlink_at(t) \/ readdir(t)
           \/ take_fid(t) \/ clunk(t) \/ remove(t)
  PROVE  ServerInv'
<1>0. FidsOK /\ HandlersOK /\ Untorn(tree) /\ LocalsOK(handler[t]) /\ RequestOK(Req(t))
  BY DEF ServerInv, HandlersOK, LocalsOK, Req
<1>a. handler[t].path \in Seq(Nat) /\ handler[t].path2 \in Seq(Nat) /\ StateOK(handler[t].state)
  BY <1>0 DEF LocalsOK
<1>b. ASSUME UNCHANGED fids, HandlersOK', Untorn(tree') PROVE ServerInv'
  BY <1>0, <1>b DEF ServerInv, FidsOK
<1>1. CASE setattr(t)
  BY <1>0, <1>1, <1>b, AnswerKeeps DEF setattr
<1>2. CASE mkdir(t)
  <2> DEFINE path == Append(handler[t].path, Req(t).name)
             ok == is_dir(tree, handler[t].path) /\ ~exists(tree, path)
  <2>1. Req(t).name \in Nat
    BY <1>0, <1>2 DEF mkdir, Handles, Req, RequestOK
  <2>2. path \in Seq(Nat)
    BY <1>a, <2>1, AppendProperties
  <2>3. UNCHANGED fids /\ Answer(t, ok, 0) /\ tree' = IF ok THEN Put(tree, path, Dir) ELSE tree
    BY <1>2 DEF mkdir
  <2> HIDE DEF path, ok
  <2>4. Untorn(tree')
    BY <1>0, <2>2, <2>3, PutUntorn DEF Dir, Torn
  <2> QED BY <1>0, <1>b, <2>3, <2>4, AnswerKeeps
<1>3. CASE symlink(t)
  <2> DEFINE path == Append(handler[t].path, Req(t).name)
             ok == is_dir(tree, handler[t].path) /\ ~exists(tree, path)
  <2>1. Req(t).name \in Nat
    BY <1>0, <1>3 DEF symlink, Handles, Req, RequestOK
  <2>2. path \in Seq(Nat)
    BY <1>a, <2>1, AppendProperties
  <2>3. UNCHANGED fids /\ Answer(t, ok, 0) /\ tree' = IF ok THEN Put(tree, path, Unset) ELSE tree
    BY <1>3 DEF symlink
  <2> HIDE DEF path, ok
  <2>4. Untorn(tree')
    BY <1>0, <2>2, <2>3, PutUntorn DEF Unset, Torn
  <2> QED BY <1>0, <1>b, <2>3, <2>4, AnswerKeeps
<1>4. CASE readlink(t)
  BY <1>0, <1>4, <1>b, AnswerKeeps DEF readlink
<1>5. CASE link(t)
  <2> DEFINE path == Append(handler[t].path2, Req(t).name)
             node == Node(tree, handler[t].path)
             ok == is_leaf(tree, handler[t].path) /\ is_dir(tree, handler[t].path2) /\ ~exists(tree, path)
  <2>1. Req(t).name \in Nat
    BY <1>0, <1>5 DEF link, Handles, Req, RequestOK
  <2>2. path \in Seq(Nat)
    BY <1>a, <2>1, AppendProperties
  <2>3. UNCHANGED fids /\ Answer(t, ok, 0) /\ tree' = IF ok THEN Put(tree, path, node) ELSE tree
    BY <1>5 DEF link
  <2>4. Cardinality(Bytes) = 1 => node # Torn
    BY <1>0 DEF Untorn, Node, Dir, Absent, Torn
  <2> HIDE DEF path, ok, node
  <2>5. Untorn(tree')
    BY <1>0, <2>2, <2>3, <2>4, PutUntorn
  <2> QED BY <1>0, <1>b, <2>3, <2>5, AnswerKeeps
<1>6. CASE rename_at(t)
  <2> DEFINE old == Append(handler[t].path, Req(t).name)
             new == Append(handler[t].path2, Req(t).newname)
             ok == CanRename(tree, old, new)
  <2>1. Req(t).name \in Nat /\ Req(t).newname \in Nat
    BY <1>0, <1>6 DEF rename_at, Handles, Req, RequestOK
  <2>2. old \in Seq(Nat) /\ new \in Seq(Nat)
    BY <1>a, <2>1, AppendProperties
  <2>3. UNCHANGED fids /\ Answer(t, ok, 0) /\ tree' = IF ok THEN rename(tree, old, new) ELSE tree
    BY <1>6 DEF rename_at
  <2> HIDE DEF old, new, ok
  <2>4. Untorn(tree')
    BY <1>0, <2>2, <2>3, RenameUntorn
  <2> QED BY <1>0, <1>b, <2>3, <2>4, AnswerKeeps
<1>7. CASE unlink_at(t)
  <2> DEFINE path == Append(handler[t].path, Req(t).name)
             ok == CanUnlink(path, Req(t).removedir)
  <2>1. UNCHANGED fids /\ Answer(t, ok, 0) /\ tree' = IF ok THEN remove_all(tree, path) ELSE tree
    BY <1>7 DEF unlink_at
  <2> HIDE DEF path, ok
  <2>2. Untorn(tree')
    BY <1>0, <2>1, RemoveUntorn
  <2> QED BY <1>0, <1>b, <2>1, <2>2, AnswerKeeps
<1>8. CASE readdir(t)
  <2>1. PICK r : Reply(t, r)
    BY <1>8 DEF readdir
  <2> QED BY <1>0, <1>8, <1>b, <2>1, ReplyKeeps DEF readdir
<1>9. CASE take_fid(t)
  <2>1. CASE Fail(t)
    BY <2>1, FailKeeps
  <2>2. CASE Req(t).fid \in DOMAIN fids /\ ~Fail(t)
    <3>1. StateOK(fids[Req(t).fid])
      BY <1>0, <2>2 DEF FidsOK
    <3>2. /\ fids' = [f \in DOMAIN fids \ {Req(t).fid} |-> fids[f]]
          /\ handler' = [handler EXCEPT ![t].pc = "taken", ![t].state = fids[Req(t).fid]] /\ UNCHANGED tree
      BY <1>9, <2>2 DEF take_fid
    <3>3. FidsOK'
      BY <1>0, <3>2 DEF FidsOK
    <3>4. HandlersOK'
      BY <1>0, <3>1, <3>2 DEF HandlersOK, LocalsOK, Locals
    <3> QED BY <1>0, <3>2, <3>3, <3>4 DEF ServerInv
  <2> QED BY <1>9, <2>1, <2>2 DEF take_fid
<1>10. CASE clunk(t)
  <2> DEFINE s == handler[t].state
  <2>1. PICK ok : CommitTo(s.path, s.handle) /\ Answer(t, ok, 0) /\ UNCHANGED fids
    BY <1>10 DEF clunk
  <2>2. s.path \in Seq(Nat) /\ HandleOK(s.handle)
    BY <1>a DEF StateOK
  <2>3. Untorn(tree')
    BY <1>0, <2>1, <2>2, CommitKeeps
  <2> QED BY <1>0, <1>b, <2>1, <2>3, AnswerKeeps
<1>11. CASE remove(t)
  <2> DEFINE path == handler[t].state.path
             ok == path # <<>> /\ exists(tree, path) /\ is_empty(tree, path)
  <2>1. UNCHANGED fids /\ Answer(t, ok, 0) /\ tree' = IF ok THEN remove_all(tree, path) ELSE tree
    BY <1>11 DEF remove
  <2> HIDE DEF path, ok
  <2>2. Untorn(tree')
    BY <1>0, <2>1, RemoveUntorn
  <2> QED BY <1>0, <1>b, <2>1, <2>2, AnswerKeeps
<1> QED BY <1>1, <1>2, <1>3, <1>4, <1>5, <1>6, <1>7, <1>8, <1>9, <1>10, <1>11

-----------------------------------------------------------------------------

(* The invariant of the asynchronous front end. *)
AsyncInv ==
  /\ DOMAIN out = Threads /\ DOMAIN tag = Threads
  /\ received \in Nat /\ 1..received \subseteq Threads
  /\ \A g \in DOMAIN pending :
       LET t == pending[g]
       IN  t \in 1..received /\ tag[t] = g /\ out[t] = "running" /\ t \notin cancelled
  /\ cancelled \subseteq 1..received
  /\ CancelledIsSilent

(* Threads are numbered in the order of their requests. *)
LEMMA ThreadsAreNumbers == Threads \subseteq Nat
BY ThreadsAreNumbered, FS_CardinalityType

(* Cancelling what a tag names cancels a running request and takes the tag away. *)
LEMMA CancelKeeps ==
  ASSUME AsyncInv, NEW g, CancelPending(g)
  PROVE  /\ cancelled' \subseteq 1..received /\ \A t \in cancelled' : t \in cancelled \/ out[t] = "running"
         /\ \A h \in DOMAIN pending' : h \in DOMAIN pending /\ h # g /\ pending'[h] = pending[h] /\ pending[h] \notin cancelled'
<1>1. /\ pending' = [h \in DOMAIN pending \ {g} |-> pending[h]]
      /\ cancelled' = cancelled \cup {pending[h] : h \in {g} \cap DOMAIN pending}
  BY DEF CancelPending, WithoutTag
<1>2. ASSUME NEW t \in cancelled'
      PROVE  t \in cancelled \/ (g \in DOMAIN pending /\ t = pending[g])
  BY <1>1
<1>3. ASSUME NEW h \in DOMAIN pending' PROVE h \in DOMAIN pending /\ h # g /\ pending'[h] = pending[h] /\ pending[h] \notin cancelled'
  <2>1. h \in DOMAIN pending /\ h # g /\ pending'[h] = pending[h]
    BY <1>1
  <2>2. tag[pending[h]] = h /\ pending[h] \notin cancelled
    BY <2>1 DEF AsyncInv
  <2>3. g \in DOMAIN pending => tag[pending[g]] = g
    BY DEF AsyncInv
  <2> QED BY <1>2, <2>1, <2>2, <2>3
<1>4. /\ cancelled \subseteq 1..received
      /\ g \in DOMAIN pending => pending[g] \in 1..received /\ out[pending[g]] = "running"
  BY DEF AsyncInv
<1>5. ASSUME NEW t \in cancelled' PROVE t \in 1..received /\ (t \in cancelled \/ out[t] = "running")
  BY <1>2, <1>4
<1> QED BY <1>3, <1>5

(* Every step keeps the invariant of the front end: a late result finds its request no *)
(* longer pending.                                                                     *)
LEMMA AsyncStep ==
  ASSUME AsyncInv, Next
  PROVE  AsyncInv'
<1>0. /\ DOMAIN out = Threads /\ DOMAIN tag = Threads /\ received \in Nat /\ 1..received \subseteq Threads
      /\ cancelled \subseteq 1..received /\ Threads \subseteq Nat
      /\ \A g \in DOMAIN pending : pending[g] \in 1..received /\ tag[pending[g]] = g /\ out[pending[g]] = "running" /\ pending[g] \notin cancelled
      /\ \A t \in cancelled : out[t] \notin {"sending", "sent"}
  BY ThreadsAreNumbers DEF AsyncInv, CancelledIsSilent
<1>1. ASSUME NEW g \in Tags, NEW req \in Requests, handle_frame(g, req) PROVE AsyncInv'
  <2> DEFINE t == received + 1
  <2>1. /\ t \in Threads /\ g \notin DOMAIN pending /\ received' = t /\ UNCHANGED cancelled
        /\ tag' = [tag EXCEPT ![t] = g] /\ out' = [out EXCEPT ![t] = "running"]
        /\ pending' = [h \in DOMAIN pending \cup {g} |-> IF h = g THEN t ELSE pending[h]]
    BY <1>1 DEF handle_frame
  <2>2. t \notin 1..received /\ t \in 1..received' /\ 1..received \subseteq 1..received' /\ 1..received' \subseteq Threads /\ received' \in Nat
    BY <1>0, <2>1
  <2> HIDE DEF t
  <2>3. \A u \in 1..received : out'[u] = out[u] /\ tag'[u] = tag[u]
    BY <1>0, <2>1, <2>2
  <2>4. DOMAIN out' = Threads /\ DOMAIN tag' = Threads /\ out'[t] = "running" /\ tag'[t] = g
    BY <1>0, <2>1
  <2>5. CancelledIsSilent'
    BY <1>0, <2>1, <2>3 DEF CancelledIsSilent
  <2>6. ASSUME NEW h \in DOMAIN pending'
        PROVE  /\ pending'[h] \in 1..received' /\ tag'[pending'[h]] = h /\ out'[pending'[h]] = "running"
               /\ pending'[h] \notin cancelled'
    <3>1. CASE h = g
      BY <1>0, <2>1, <2>2, <2>4, <3>1
    <3>2. CASE h # g
      BY <1>0, <2>1, <2>2, <2>3, <3>2
    <3> QED BY <3>1, <3>2
  <2> QED BY <1>0, <2>1, <2>2, <2>4, <2>5, <2>6 DEF AsyncInv
<1>2. ASSUME NEW g \in Tags, duplicate_tag(g) PROVE AsyncInv'
  <2> DEFINE t == received + 1
  <2>1. /\ t \in Threads /\ received' = t /\ CancelPending(g)
        /\ tag' = [tag EXCEPT ![t] = g] /\ out' = [out EXCEPT ![t] = "refused"]
    BY <1>2 DEF duplicate_tag
  <2>2. t \notin 1..received /\ t \in 1..received' /\ 1..received \subseteq 1..received' /\ 1..received' \subseteq Threads /\ received' \in Nat
    BY <1>0, <2>1
  <2> HIDE DEF t
  <2>3. \A u \in 1..received : out'[u] = out[u] /\ tag'[u] = tag[u]
    BY <1>0, <2>1, <2>2
  <2>4. DOMAIN out' = Threads /\ DOMAIN tag' = Threads
    BY <1>0, <2>1
  <2>5. /\ cancelled' \subseteq 1..received /\ \A u \in cancelled' : u \in cancelled \/ out[u] = "running"
        /\ \A h \in DOMAIN pending' : h \in DOMAIN pending /\ h # g /\ pending'[h] = pending[h] /\ pending[h] \notin cancelled'
    BY <2>1, CancelKeeps
  <2>6. CancelledIsSilent'
    BY <1>0, <2>3, <2>5 DEF CancelledIsSilent
  <2>7. ASSUME NEW h \in DOMAIN pending'
        PROVE  /\ pending'[h] \in 1..received' /\ tag'[pending'[h]] = h /\ out'[pending'[h]] = "running"
               /\ pending'[h] \notin cancelled'
    BY <1>0, <2>2, <2>3, <2>5
  <2>8. cancelled' \subseteq 1..received'
    BY <2>2, <2>5
  <2> QED BY <2>2, <2>4, <2>6, <2>7, <2>8 DEF AsyncInv
<1>3. ASSUME NEW g \in Tags, flush(g) PROVE AsyncInv'
  <2>1. UNCHANGED <<received, tag, out>> /\ CancelPending(g)
    BY <1>3 DEF flush
  <2>2. /\ cancelled' \subseteq 1..received /\ \A u \in cancelled' : u \in cancelled \/ out[u] = "running"
        /\ \A h \in DOMAIN pending' : h \in DOMAIN pending /\ h # g /\ pending'[h] = pending[h] /\ pending[h] \notin cancelled'
    BY <2>1, CancelKeeps
  <2>3. CancelledIsSilent'
    BY <1>0, <2>1, <2>2 DEF CancelledIsSilent
  <2>4. ASSUME NEW h \in DOMAIN pending'
        PROVE  /\ pending'[h] \in 1..received' /\ tag'[pending'[h]] = h /\ out'[pending'[h]] = "running"
               /\ pending'[h] \notin cancelled'
    BY <1>0, <2>1, <2>2
  <2> QED BY <1>0, <2>1, <2>2, <2>3, <2>4 DEF AsyncInv
<1>4. ASSUME NEW t \in Threads, should_send(t) PROVE AsyncInv'
  <2>1. UNCHANGED <<received, tag, cancelled>> /\ Decide(t) /\ out[t] = "running"
    BY <1>4 DEF should_send
  <2>2. CASE /\ tag[t] \in DOMAIN pending /\ pending[tag[t]] = t /\ t \notin cancelled
             /\ pending' = [h \in DOMAIN pending \ {tag[t]} |-> pending[h]] /\ out' = [out EXCEPT ![t] = "sending"]
    <3>1. \A h \in DOMAIN pending' : h \in DOMAIN pending /\ h # tag[t] /\ pending'[h] = pending[h]
      BY <2>2
    <3>2. \A h \in DOMAIN pending' : pending[h] # t
      BY <1>0, <3>1
    <3>3. DOMAIN out' = Threads /\ \A u \in Threads : u # t => out'[u] = out[u]
      BY <1>0, <2>2
    <3>4. CancelledIsSilent'
      BY <1>0, <2>1, <2>2, <3>3 DEF CancelledIsSilent
    <3> QED BY <1>0, <2>1, <3>1, <3>2, <3>3, <3>4 DEF AsyncInv
  <2>3. CASE /\ ~(tag[t] \in DOMAIN pending /\ pending[tag[t]] = t /\ t \notin cancelled)
             /\ out' = [out EXCEPT ![t] = "silent"] /\ UNCHANGED pending
    <3>1. \A h \in DOMAIN pending : pending[h] # t
      BY <1>0, <2>3
    <3>2. DOMAIN out' = Threads /\ out'[t] = "silent" /\ \A u \in Threads : u # t => out'[u] = out[u]
      BY <1>0, <2>3
    <3>3. CancelledIsSilent'
      BY <1>0, <2>1, <3>2 DEF CancelledIsSilent
    <3> QED BY <1>0, <2>1, <2>3, <3>1, <3>2, <3>3 DEF AsyncInv
  <2> QED BY <2>1, <2>2, <2>3 DEF Decide, WithoutTag
<1>5. ASSUME NEW t \in Threads, push_response(t) PROVE AsyncInv'
  <2>1. UNCHANGED <<received, tag, pending, cancelled>> /\ out[t] = "sending" /\ out' = [out EXCEPT ![t] = "sent"]
    BY <1>5 DEF push_response
  <2>2. DOMAIN out' = Threads /\ \A u \in Threads : u # t => out'[u] = out[u]
    BY <1>0, <2>1
  <2>3. t \notin cancelled /\ \A h \in DOMAIN pending : pending[h] # t
    BY <1>0, <2>1
  <2>4. CancelledIsSilent'
    BY <1>0, <2>1, <2>2, <2>3 DEF CancelledIsSilent
  <2> QED BY <1>0, <2>1, <2>2, <2>3, <2>4 DEF AsyncInv
<1>6. ASSUME UNCHANGED <<received, tag, out, pending, cancelled>> PROVE AsyncInv'
  BY <1>6 DEF AsyncInv, CancelledIsSilent
<1> QED BY <1>1, <1>2, <1>3, <1>4, <1>5, <1>6 DEF Next, ThreadStep, HandleStep, async, next_response

(* A handler before its request. *)
LEMMA ReadyIsOK == LocalsOK(Ready)
<1> DEFINE s == unopened(<<>>)
<1>1. <<>> \in Seq(Nat)
  OBVIOUS
<1>2. StateOK(s)
  BY <1>1 DEF StateOK, HandleOK, unopened, NoHandle
<1>3. RequestOK(NoRequest)
  BY DEF RequestOK, NoRequest
<1> HIDE DEF s
<1>4. /\ DOMAIN Ready = Locals /\ Ready.req = NoRequest /\ Ready.path = <<>> /\ Ready.path2 = <<>>
      /\ Ready.state = s
  BY DEF Ready, Locals, s
<1> QED BY <1>1, <1>2, <1>3, <1>4 DEF LocalsOK

(* Every step keeps the invariant of the server. *)
LEMMA ServerStep ==
  ASSUME ServerInv, Next
  PROVE  ServerInv'
<1>1. ASSUME NEW g \in Tags, NEW req \in Requests, handle_frame(g, req) PROVE ServerInv'
  <2> DEFINE t == received + 1
             l == [Ready EXCEPT !.pc = "begin", !.req = req]
  <2>1. t \in Threads /\ UNCHANGED <<fids, tree>> /\ handler' = [handler EXCEPT ![t] = l]
    BY <1>1 DEF handle_frame, Start
  <2>2. LocalsOK(l)
    <3>1. RequestOK(req)
      BY RequestsAreTyped DEF RequestOK
    <3> QED BY <3>1, ReadyIsOK DEF LocalsOK, Locals
  <2> HIDE DEF t, l
  <2> QED BY <2>1, <2>2 DEF ServerInv, FidsOK, HandlersOK
<1>2. ASSUME NEW t \in Threads, HandlerStep(t) PROVE ServerInv'
  BY <1>2, TableStep, ResolveStep, TreeStep DEF HandlerStep
<1>3. ASSUME NEW t \in Threads, should_send(t) PROVE ServerInv'
  <2>1. LocalsOK(Ready)
    BY ReadyIsOK
  <2>2. UNCHANGED <<fids, tree>> /\ handler' = [handler EXCEPT ![t] = Ready]
    BY <1>3 DEF should_send
  <2> QED BY <2>1, <2>2 DEF ServerInv, FidsOK, HandlersOK
<1>4. ASSUME UNCHANGED server PROVE ServerInv'
  BY <1>4 DEF server, ServerInv, FidsOK, HandlersOK
<1> QED BY <1>1, <1>2, <1>3, <1>4 DEF Next, ThreadStep, HandleStep, duplicate_tag, flush, push_response, next_response

(* The initial states. *)
LEMMA Initially ==
  ASSUME Init
  PROVE  ServerInv /\ AsyncInv
<1>1. FidsOK
  BY SessionIsExact DEF Init, InitServer, FidsOK, StateOK, HandleOK
<1>2. HandlersOK
  <2>1. LocalsOK(Ready)
    BY ReadyIsOK
  <2> QED BY <2>1 DEF Init, InitServer, HandlersOK
<1>3. Untorn(tree)
  BY SessionIsExact, PathsAreNames DEF Init, InitServer, Untorn
<1>4. AsyncInv
  BY DEF Init, AsyncInv, CancelledIsSilent
<1> QED BY <1>1, <1>2, <1>3, <1>4 DEF ServerInv

(* Both invariants hold throughout. *)
THEOREM Invariance == Spec => [](ServerInv /\ AsyncInv)
<1>1. Init => ServerInv /\ AsyncInv
  BY Initially
<1>2. ServerInv /\ AsyncInv /\ [Next]_vars => (ServerInv /\ AsyncInv)'
  <2> SUFFICES ASSUME ServerInv, AsyncInv, [Next]_vars PROVE (ServerInv /\ AsyncInv)'
    OBVIOUS
  <2>1. CASE Next
    BY <2>1, ServerStep, AsyncStep
  <2>2. CASE UNCHANGED vars
    BY <2>2 DEF vars, server, async, ServerInv, FidsOK, HandlersOK, AsyncInv, CancelledIsSilent
  <2> QED BY <2>1, <2>2
<1> QED BY <1>1, <1>2, PTL DEF Spec

(* A cancelled request is never answered (late reply suppression of handle_frame), even *)
(* when its tag is in use again.                                                        *)
THEOREM FlushIsSilent == Spec => []CancelledIsSilent
<1>1. AsyncInv => CancelledIsSilent
  BY DEF AsyncInv
<1> QED BY <1>1, Invariance, PTL

(* Ranges are exactly the bytes written, and no attribute reaches the file system with a *)
(* hole (commit_xattr_if_ready).                                                         *)
THEOREM NoAttributeIsTorn == Spec => []AttributesAreWhole
<1>1. ServerInv => AttributesAreWhole
  BY DEF ServerInv, FidsOK, StateOK, HandleOK, Untorn, AttributesAreWhole, RangesAreExact
<1> QED BY <1>1, Invariance, PTL

-----------------------------------------------------------------------------

(* A handler that is calling an open file holds the mutex of ServerState, and the fid it *)
(* was called for still has that file: nothing clunks or replaces it meanwhile.          *)
IoIsExclusive ==
  \A t \in Threads :
    handler[t].pc = "io" =>
      /\ lock = t
      /\ Req(t).fid \in DOMAIN fids /\ fids[Req(t).fid].handle.kind = "file"
(* The mutex is held by nobody else. *)
LockInv == IoIsExclusive /\ \A t \in Threads : lock = t => handler[t].pc = "io"

(* A step of a handler that is not at its file keeps that, if it leaves the mutex alone *)
(* and touches the fids only while the mutex is free.                                   *)
LEMMA QuietStep ==
  ASSUME LockInv, HandlersOK, NEW t \in Threads, UNCHANGED lock, lock = Free \/ UNCHANGED fids,
         handler[t].pc # "io",
         DOMAIN handler' = Threads, handler'[t].pc # "io", \A u \in Threads : u # t => handler'[u] = handler[u]
  PROVE  LockInv'
<1>1. Free \notin Threads
  BY NoThreadIsFree DEF Free
<1>2. ASSUME NEW u \in Threads PROVE lock' = u => handler'[u].pc = "io"
  BY <1>1 DEF LockInv
<1>3. ASSUME NEW u \in Threads, handler'[u].pc = "io" PROVE lock' = u /\ Req(u)'.fid \in DOMAIN fids' /\ fids'[Req(u)'.fid].handle.kind = "file"
  <2>1. u # t /\ handler'[u] = handler[u]
    BY <1>3
  <2>2. lock = u /\ Req(u).fid \in DOMAIN fids /\ fids[Req(u).fid].handle.kind = "file"
    BY <1>3, <2>1 DEF LockInv, IoIsExclusive
  <2>3. UNCHANGED fids
    BY <1>1, <2>2
  <2> QED BY <2>1, <2>2, <2>3 DEF Req
<1> QED BY <1>2, <1>3 DEF LockInv, IoIsExclusive

(* Every step of a handler does. *)
LEMMA LockStep ==
  ASSUME LockInv, ServerInv, NEW t \in Threads, HandlerStep(t)
  PROVE  LockInv'
<1>0. HandlersOK /\ DOMAIN handler = Threads /\ DOMAIN handler[t] = Locals /\ Free \notin Threads
  BY NoThreadIsFree DEF ServerInv, HandlersOK, LocalsOK, Free
<1>1. CASE file_io(t)
  BY <1>0, <1>1 DEF file_io, LockInv, IoIsExclusive, Req, Locals
<1>2. CASE file_io_done(t)
  <2>1. PICK reply : handler' = [handler EXCEPT ![t].pc = "done", ![t].reply = reply]
    BY <1>2 DEF file_io_done, Answer, Reply
  <2>2. \A u \in Threads : handler'[u].pc # "io"
    BY <1>0, <1>2, <2>1 DEF file_io_done, LockInv, IoIsExclusive, Locals
  <2> QED BY <1>0, <1>2, <2>2 DEF file_io_done, LockInv, IoIsExclusive
<1>3. ASSUME NEW r, Reply(t, r)
      PROVE  /\ DOMAIN handler' = Threads /\ handler'[t].pc # "io"
             /\ \A u \in Threads : u # t => handler'[u] = handler[u]
  BY <1>0, <1>3 DEF Reply, Locals
<1>4. ASSUME Fail(t), handler[t].pc # "io" PROVE LockInv'
  BY <1>0, <1>3, <1>4, QuietStep DEF Fail
<1>5. ASSUME NEW r, Reply(t, r), UNCHANGED lock, handler[t].pc # "io", lock = Free \/ UNCHANGED fids
      PROVE  LockInv'
  BY <1>0, <1>3, <1>5, QuietStep
<1>6. CASE version(t) \/ attach(t) \/ getattr(t) \/ xattrcreate(t)
  BY <1>4, <1>5, <1>6 DEF version, attach, getattr, xattrcreate, Answer, Handles
<1>7. CASE xattr_io(t)
  BY <1>4, <1>5, <1>7 DEF xattr_io, Handles
<1>8. CASE fsync(t)
  <2>1. CASE Fail(t)
    BY <1>4, <1>8, <2>1 DEF fsync, Handles
  <2>2. CASE ~Fail(t)
    <3>1. PICK ok, n : Answer(t, ok, n)
      BY <1>8, <2>2 DEF fsync
    <3> QED BY <1>5, <1>8, <2>2, <3>1 DEF fsync, Answer, Handles
  <2> QED BY <2>1, <2>2
<1>9. ASSUME handler[t].pc # "io", UNCHANGED lock, lock = Free \/ UNCHANGED fids,
             NEW l, DOMAIN l = Locals, l.pc # "io", handler' = [handler EXCEPT ![t] = l]
      PROVE  LockInv'
  BY <1>0, <1>9, QuietStep
<1>10. CASE fid_path(t) \/ second_fid_path(t) \/ new_fid_path(t) \/ take_fid(t)
  <2>1. CASE Fail(t)
    BY <1>4, <1>10, <2>1 DEF fid_path, second_fid_path, new_fid_path, take_fid, Handles
  <2>2. CASE ~Fail(t)
    <3>1. /\ lock = Free /\ UNCHANGED lock /\ handler[t].pc # "io"
      BY <1>10, <2>2 DEF fid_path, second_fid_path, new_fid_path, take_fid, Handles
    <3>2. DOMAIN handler' = Threads /\ handler'[t].pc # "io" /\ \A u \in Threads : u # t => handler'[u] = handler[u]
      BY <1>0, <1>10, <2>2 DEF fid_path, second_fid_path, new_fid_path, take_fid, Locals
    <3> QED BY <1>0, <3>1, <3>2, QuietStep
  <2> QED BY <2>1, <2>2
<1>11. CASE walk(t) \/ xattrwalk(t) \/ lopen(t) \/ lcreate(t)
  <2>1. CASE Fail(t)
    BY <1>4, <1>11, <2>1 DEF walk, xattrwalk, lopen, lcreate, Handles
  <2>2. CASE ~Fail(t)
    <3>1. /\ UNCHANGED <<lock, fids>> /\ handler[t].pc # "io"
      BY <1>11, <2>2 DEF walk, xattrwalk, lopen, lcreate, Handles
    <3>2. PICK n, s : handler' = [handler EXCEPT ![t].pc = "install", ![t].n = n, ![t].state = s]
                      \/ handler' = [handler EXCEPT ![t].pc = "install", ![t].state = s]
      BY <1>11, <2>2 DEF walk, xattrwalk, lopen, lcreate
    <3>3. DOMAIN handler' = Threads /\ handler'[t].pc # "io" /\ \A u \in Threads : u # t => handler'[u] = handler[u]
      BY <1>0, <3>2 DEF Locals
    <3> QED BY <1>0, <3>1, <3>3, QuietStep
  <2> QED BY <2>1, <2>2
<1>12. CASE install_new(t) \/ install_file(t)
  BY <1>4, <1>5, <1>12 DEF install_new, install_file, Handles
<1>13. CASE setattr(t) \/ mkdir(t) \/ symlink(t) \/ readlink(t) \/ link(t) \/ rename_at(t) \/ unlink_at(t)
  <2>1. PICK ok, n : Answer(t, ok, n)
    BY <1>13 DEF setattr, mkdir, symlink, readlink, link, rename_at, unlink_at
  <2>2. /\ UNCHANGED <<lock, fids>> /\ handler[t].pc # "io"
    BY <1>13 DEF setattr, mkdir, symlink, readlink, link, rename_at, unlink_at, Handles
  <2> QED BY <1>5, <2>1, <2>2 DEF Answer
<1>14. CASE clunk(t) \/ remove(t)
  <2>1. PICK ok, n : Answer(t, ok, n)
    BY <1>14 DEF clunk, remove
  <2>2. /\ UNCHANGED <<lock, fids>> /\ handler[t].pc # "io"
    BY <1>14 DEF clunk, remove, Handles
  <2> QED BY <1>5, <2>1, <2>2 DEF Answer
<1>15. CASE readdir(t)
  BY <1>5, <1>15 DEF readdir, Handles
<1> QED BY <1>1, <1>2, <1>6, <1>7, <1>8, <1>10, <1>11, <1>12, <1>13, <1>14, <1>15 DEF HandlerStep

(* A thread that has no request yet is idle. *)
Unstarted == \A t \in Threads : t > received => handler[t].pc = "idle"

(* A handler's step changes its own locals only. *)
LEMMA OwnHandler ==
  ASSUME HandlersOK, NEW t \in Threads, HandlerStep(t)
  PROVE  handler[t].pc # "idle" /\ \A u \in Threads : u # t => handler'[u] = handler[u]
<1>0. DOMAIN handler = Threads
  BY DEF HandlersOK
<1>1. ASSUME NEW r, Reply(t, r) PROVE \A u \in Threads : u # t => handler'[u] = handler[u]
  BY <1>0, <1>1 DEF Reply
<1>2. ASSUME Fail(t) PROVE \A u \in Threads : u # t => handler'[u] = handler[u]
  BY <1>1, <1>2 DEF Fail
<1>3. ASSUME NEW ok, NEW n, Answer(t, ok, n) PROVE \A u \in Threads : u # t => handler'[u] = handler[u]
  BY <1>1, <1>3 DEF Answer
<1>4. CASE version(t) \/ attach(t) \/ getattr(t) \/ xattrcreate(t) \/ xattr_io(t) \/ file_io(t) \/ file_io_done(t)
  BY <1>0, <1>1, <1>2, <1>3, <1>4 DEF version, attach, getattr, xattrcreate, xattr_io, file_io, file_io_done, Handles
<1>5. CASE fsync(t)
  BY <1>2, <1>3, <1>5 DEF fsync, Handles
<1>6. CASE fid_path(t) \/ second_fid_path(t) \/ new_fid_path(t) \/ take_fid(t)
  BY <1>0, <1>2, <1>6 DEF fid_path, second_fid_path, new_fid_path, take_fid, Handles
<1>7. CASE walk(t) \/ xattrwalk(t) \/ lopen(t) \/ lcreate(t)
  BY <1>0, <1>2, <1>7 DEF walk, xattrwalk, lopen, lcreate, Handles
<1>8. CASE install_new(t) \/ install_file(t)
  BY <1>1, <1>2, <1>8 DEF install_new, install_file, Handles
<1>9. CASE setattr(t) \/ mkdir(t) \/ symlink(t) \/ readlink(t) \/ link(t) \/ rename_at(t) \/ unlink_at(t)
  BY <1>3, <1>9 DEF setattr, mkdir, symlink, readlink, link, rename_at, unlink_at, Handles
<1>10. CASE readdir(t) \/ clunk(t) \/ remove(t)
  BY <1>1, <1>3, <1>10 DEF readdir, clunk, remove, Handles
<1> QED BY <1>4, <1>5, <1>6, <1>7, <1>8, <1>9, <1>10 DEF HandlerStep

(* Requests are handed out in order. *)
LEMMA UnstartedStep ==
  ASSUME Unstarted, HandlersOK, received \in Nat, [Next]_vars
  PROVE  Unstarted'
<1>0. DOMAIN handler = Threads /\ Threads \subseteq Nat
  BY ThreadsAreNumbers DEF HandlersOK
<1>1. ASSUME NEW t \in Threads, HandlerStep(t), UNCHANGED received PROVE Unstarted'
  BY <1>1, OwnHandler DEF Unstarted
<1>2. ASSUME NEW t \in Threads, should_send(t) PROVE Unstarted'
  BY <1>0, <1>2 DEF should_send, Ready, Unstarted
<1>3. ASSUME NEW g \in Tags, NEW req \in Requests, handle_frame(g, req) PROVE Unstarted'
  <2>1. ASSUME NEW u \in Threads, u > received' PROVE handler'[u] = handler[u] /\ u > received
    BY <1>0, <1>3, <2>1 DEF handle_frame, Start
  <2> QED BY <2>1 DEF Unstarted
<1>4. ASSUME UNCHANGED handler, received' = received \/ received' = received + 1 PROVE Unstarted'
  BY <1>0, <1>4 DEF Unstarted
<1> QED BY <1>1, <1>2, <1>3, <1>4
        DEF Next, ThreadStep, HandleStep, duplicate_tag, flush, push_response, next_response, vars, server, async

(* File I/O holds the mutex and keeps its file for as long as it lasts *)
(* (NinePServer::handle under the lock of ServerState).                *)
THEOREM IoOwnsItsFile == Spec => []IoIsExclusive
<1>1. Init => LockInv
  BY NoThreadIsFree DEF Init, InitServer, LockInv, IoIsExclusive, Ready, Free
<1>2. LockInv /\ Unstarted /\ ServerInv /\ AsyncInv /\ [Next]_vars => LockInv'
  <2> SUFFICES ASSUME LockInv, Unstarted, ServerInv, AsyncInv, [Next]_vars PROVE LockInv'
    OBVIOUS
  <2>0. HandlersOK /\ DOMAIN handler = Threads
    BY DEF ServerInv, HandlersOK
  <2>1. ASSUME NEW t \in Threads, HandlerStep(t) PROVE LockInv'
    BY <2>1, LockStep
  <2>2. ASSUME NEW t \in Threads, should_send(t) PROVE LockInv'
    BY <2>0, <2>2, QuietStep DEF should_send, Ready
  <2>3. ASSUME NEW g \in Tags, NEW req \in Requests, handle_frame(g, req) PROVE LockInv'
    <3> DEFINE t == received + 1
    <3>1. t \in Threads /\ UNCHANGED <<lock, fids>> /\ handler' = [handler EXCEPT ![t] = [Ready EXCEPT !.pc = "begin", !.req = req]]
      BY <2>3 DEF handle_frame, Start
    <3> HIDE DEF t
    <3>2. DOMAIN handler' = Threads /\ handler'[t].pc # "io" /\ \A u \in Threads : u # t => handler'[u] = handler[u]
      BY <2>0, <3>1 DEF Ready
    <3>3. handler[t].pc # "io"
      <4>1. received \in Nat
        BY DEF AsyncInv
      <4>2. t > received
        BY <4>1 DEF t
      <4> QED BY <3>1, <4>2 DEF Unstarted
    <3> QED BY <2>0, <3>1, <3>2, <3>3, QuietStep
  <2>4. ASSUME UNCHANGED server PROVE LockInv'
    BY <2>4 DEF server, LockInv, IoIsExclusive, Req
  <2> QED BY <2>1, <2>2, <2>3, <2>4 DEF Next, ThreadStep, HandleStep, duplicate_tag, flush, push_response, next_response, vars
<1>3. Init => Unstarted
  BY DEF Init, InitServer, Unstarted, Ready
<1>4. Unstarted /\ ServerInv /\ AsyncInv /\ [Next]_vars => Unstarted'
  BY UnstartedStep DEF ServerInv, AsyncInv
<1>5. LockInv => IoIsExclusive
  BY DEF LockInv
<1> QED BY <1>1, <1>2, <1>3, <1>4, <1>5, Invariance, PTL DEF Spec
=============================================================================
