--------------------------- MODULE SyncFs_proofs ---------------------------
(***************************************************************************)
(* Proofs of the safety properties of module SyncFs for every set of paths *)
(* and data, every initial pair of trees, either conflict policy, and any  *)
(* number of calls, pushes and pulls interleaved with each other and with  *)
(* the remote's other clients.                                             *)
(*                                                                         *)
(* The inductive invariant has four parts.  Typed: both trees are file     *)
(* systems, and no generation is given out twice.  Kept: every change not  *)
(* yet pushed is marked or about to be marked, and an owed mark of the     *)
(* snapshot whose generation is still current is of a path the user has    *)
(* not called on since.  CopyOK: the copy of the snapshot the pull works   *)
(* from is part of it, and under KeepLocal all of it.  PullOK: between the *)
(* steps of a pull, whatever the two trees do not agree on is still on the *)
(* list, or overlaps a path retained as a conflict or touched by the user. *)
(* The last is what makes the end of a pull exact, whatever the order of   *)
(* the lists and of the user's calls.                                      *)
(***************************************************************************)
EXTENDS SyncFs, FileTree_proofs

(* A map of dirty marks with generations up to n. *)
IsDirty(f, n) ==
  /\ DOMAIN f \subseteq Paths
  /\ \A p \in DOMAIN f : f[p].change \in Changes /\ f[p].generation \in 1..n

(* The user's open file, linked to a leaf of tree t while linked. *)
FileOK(t, f) ==
  /\ DOMAIN f = {"path", "linked", "dirty"}
  /\ f.linked \in BOOLEAN /\ f.dirty \in BOOLEAN
  /\ f.path \in Paths \/ f = NoFile
  /\ f.linked = TRUE => is_leaf(t, f.path)

(* The mark_dirty calls a call has left to make. *)
MarksOK(calls) == calls \in Seq([path : Paths, change : Changes])

(* An entry of a patch. *)
EntryOK(e) ==
  /\ DOMAIN e = {"root", "path", "node", "recursive"}
  /\ e.path \in Paths
  /\ e.node \in Data \cup {Dir, Absent}

(* The state of the sync task. *)
SyncOK(s) ==
  /\ DOMAIN s = {"pc", "then", "snap", "cur", "todo", "patch", "index", "retained"}
  /\ s.pc \in {"idle", "build", "apply", "clear", "index", "snapshot", "collect", "delete", "fetch"}
  /\ s.pc = "idle" => s = Idle
  /\ s.then \in {"return", "pull"}
  /\ s.pc \in {"index", "snapshot"} => s.snap = NoDirty
  /\ s.pc = "collect" => s.cur = s.snap /\ s.retained = {}
  /\ s.todo \subseteq Paths
  /\ s.pc = "build" => s.todo \subseteq DOMAIN s.snap
  /\ \A e \in s.patch : EntryOK(e)
  /\ IsFs(s.index)

(* Types of the whole state; there is a generation left for every mark to be made. *)
Typed ==
  /\ policy \in {"KeepLocal", "PreferRemote"}
  /\ IsFs(local)
  /\ IsFs(remote)
  /\ next_generation \in Nat /\ next_generation + Len(marks) <= MaxGeneration
  /\ IsDirty(dirty, next_generation)
  /\ pull_conflicts \subseteq Paths
  /\ MarksOK(marks)
  /\ FileOK(local, file)
  /\ SyncOK(sync)
  /\ IsDirty(sync.snap, next_generation)

(* The paths of calls that have changed the tree and not marked it yet. *)
Doing(calls, f) == PathsOf(calls) \cup (IF f.dirty THEN {f.path} ELSE {})

(* No change is forgotten: the marks owed are made or being made, and a generation that *)
(* has not moved since the snapshot means the path was not touched.                     *)
Kept ==
  /\ owed \subseteq DOMAIN dirty \cup Doing(marks, file)
  /\ sync # Idle => Doing(marks, file) \subseteq touched
  /\ touched \cap owed \cap Unchanged(sync.snap) \subseteq Doing(marks, file)
  /\ sync.pc = "clear" => owed \cap DOMAIN sync.snap \subseteq touched

(* A path of S overlaps q. *)
Reported(S, q) == \E d \in S : paths_overlap(d, q)

(* The pull's copy of the snapshot. *)
CopyOK(s) ==
  /\ s.retained \subseteq DOMAIN s.snap
  /\ DOMAIN s.cur \subseteq DOMAIN s.snap
  /\ policy = "KeepLocal" /\ s.pc \in {"delete", "fetch"} => DOMAIN s.cur = DOMAIN s.snap

(* The deletion pass: what the remote does not have is on the list or reported. *)
Deleting(s, todo, t, seen) ==
  /\ todo \cap DOMAIN s.index = {}
  /\ \A q \in DOMAIN t \ DOMAIN s.index : q \in todo \/ Reported(s.retained \cup seen, q)

(* The fetch pass: the extra nodes are gone or reported, and what the remote has is on *)
(* the list, equal, or reported.                                                       *)
Fetching(s, todo, t, seen) ==
  /\ todo \subseteq DOMAIN s.index
  /\ \A q \in DOMAIN t \ DOMAIN s.index : Reported(s.retained \cup seen, q)
  /\ \A q \in DOMAIN s.index : q \in todo \/ Node(t, q) = s.index[q] \/ Reported(s.retained \cup seen, q)

(* Which pass the pull is in. *)
PullOK(s, t, seen) ==
  /\ s.pc = "delete" => Deleting(s, s.todo, t, seen)
  /\ s.pc = "fetch" => Fetching(s, s.todo, t, seen)

(* The inductive invariant. *)
Inv == Typed /\ Kept /\ CopyOK(sync) /\ PullOK(sync, local, touched)

(* The paths of no mark and of one. *)
LEMMA PathsOfMarks ==
  ASSUME NEW p, NEW c
  PROVE  PathsOf(<<>>) = {} /\ PathsOf(<<Mark(p, c)>>) = {p}
<1>1. PathsOf(<<>>) = {}
  BY DEF PathsOf, ToSet
<1>2. PathsOf(<<Mark(p, c)>>) = {p}
  <2> DEFINE s == <<Mark(p, c)>>
  <2>1. DOMAIN s = {1} /\ s[1] = Mark(p, c)
    OBVIOUS
  <2> HIDE DEF s
  <2>2. ToSet(s) = {Mark(p, c)}
    BY <2>1 DEF ToSet
  <2> QED BY <2>2 DEF PathsOf, Mark, s
<1> QED BY <1>1, <1>2

(* The paths of a rename's two marks. *)
LEMMA PathsOfTwoMarks ==
  ASSUME NEW p, NEW c, NEW q, NEW d
  PROVE  PathsOf(<<Mark(p, c), Mark(q, d)>>) = {p, q}
<1> DEFINE s == <<Mark(p, c), Mark(q, d)>>
<1>1. DOMAIN s = {1, 2} /\ s[1] = Mark(p, c) /\ s[2] = Mark(q, d)
  OBVIOUS
<1> HIDE DEF s
<1>2. ToSet(s) = {Mark(p, c), Mark(q, d)}
  BY <1>1 DEF ToSet
<1> QED BY <1>2 DEF PathsOf, Mark, s

(* Marks are typed. *)
LEMMA MarksTyped ==
  ASSUME NEW p \in Paths, NEW c \in Changes, NEW q \in Paths, NEW d \in Changes
  PROVE  MarksOK(<<>>) /\ MarksOK(<<Mark(p, c)>>) /\ MarksOK(<<Mark(p, c), Mark(q, d)>>)
<1>1. Mark(p, c) \in [path : Paths, change : Changes] /\ Mark(q, d) \in [path : Paths, change : Changes]
  BY DEF Mark
<1> HIDE DEF Mark
<1> QED BY <1>1 DEF MarksOK

(* Upsert and removal are changes. *)
LEMMA ChangesAre ==
  ASSUME NEW b \in BOOLEAN
  PROVE  Upsert \in Changes /\ Removal(b) \in Changes
BY DEF Changes

(* What a call must do to keep the invariant: leave a file system, and mark what it *)
(* changes.                                                                         *)
CallOK(t, calls, f) ==
  /\ IsFs(t) /\ MarksOK(calls) /\ FileOK(t, f)
  /\ Doing(marks, file) \subseteq Doing(calls, f)
  /\ \A q \in Paths : Node(t, q) = Node(local, q) \/ Reported(Doing(calls, f), q)

(* A call of that kind keeps the invariant, in whatever state the sync task is. *)
LEMMA LocalCallStep ==
  ASSUME Inv, NEW t, NEW calls, NEW f, CallOK(t, calls, f), LocalCall(t, calls, f)
  PROVE  Inv'
<1>1. /\ local' = t /\ marks' = calls /\ file' = f
      /\ UNCHANGED <<policy, dirty, next_generation, pull_conflicts, sync, remote, remoteChanges, owed>>
      /\ next_generation + Len(calls) <= MaxGeneration
  BY DEF LocalCall, marked, external
<1>2. Typed'
  BY <1>1 DEF Inv, Typed, CallOK
<1>3. touched' = IF sync = Idle THEN {} ELSE touched \cup Doing(calls, f)
  BY <1>1 DEF LocalCall, InProgress, Doing
<1>4. Kept'
  <2>1. owed \subseteq DOMAIN dirty \cup Doing(calls, f)
    BY DEF Inv, Kept, CallOK
  <2>2. Unchanged(sync.snap)' = Unchanged(sync.snap)
    BY <1>1 DEF Unchanged
  <2>3. touched' \cap owed \cap Unchanged(sync.snap) \subseteq Doing(calls, f)
    BY <1>3 DEF Inv, Kept, CallOK
  <2>4. sync.pc = "clear" => owed \cap DOMAIN sync.snap \subseteq touched'
    BY <1>3 DEF Inv, Kept, Idle
  <2> QED BY <1>1, <1>3, <2>1, <2>2, <2>3, <2>4 DEF Kept
<1>5. ASSUME sync.pc \in {"delete", "fetch"} PROVE PullOK(sync, t, touched')
  <2>1. touched' = touched \cup Doing(calls, f)
    BY <1>3, <1>5 DEF Idle
  <2>2. \A S, q : S \in {touched, Doing(calls, f)} /\ Reported(S, q) => Reported(sync.retained \cup touched', q)
    BY <2>1 DEF Reported
  <2>3. \A q : Reported(sync.retained \cup touched, q) => Reported(sync.retained \cup touched', q)
    BY <2>1 DEF Reported
  <2>4. \A q \in Paths : Node(t, q) = Node(local, q) \/ Reported(sync.retained \cup touched', q)
    BY <2>2 DEF CallOK
  <2>5. DOMAIN t \subseteq Paths /\ DOMAIN local \subseteq Paths /\ DOMAIN sync.index \subseteq Paths /\ <<>> \notin Paths
    BY PathIs DEF Inv, Typed, CallOK, SyncOK, IsFs, IsTyped
  <2>6. \A q \in DOMAIN t : t[q] # Absent
    BY DataIsNotDir DEF CallOK, IsFs, IsTyped, Dir, Absent
  <2>7. ASSUME NEW q \in DOMAIN t \ DOMAIN local PROVE Reported(sync.retained \cup touched', q)
    BY <2>4, <2>5, <2>6, <2>7 DEF Node
  <2>8. CASE sync.pc = "delete"
    BY <2>3, <2>7, <2>8 DEF Inv, PullOK, Deleting
  <2>9. CASE sync.pc = "fetch"
    BY <2>3, <2>4, <2>5, <2>7, <2>9 DEF Inv, PullOK, Fetching
  <2> QED BY <1>5, <2>8, <2>9
<1>6. PullOK(sync, t, touched')
  BY <1>5 DEF PullOK
<1>7. CopyOK(sync)'
  BY <1>1 DEF Inv, CopyOK
<1> QED BY <1>1, <1>2, <1>4, <1>6, <1>7 DEF Inv

(* With no call in progress only the open file can be unmarked. *)
LEMMA QuietMarks ==
  ASSUME ~Busy
  PROVE  Doing(marks, file) = IF file.dirty THEN {file.path} ELSE {}
<1>1. PathsOf(marks) = {}
  BY PathsOfMarks DEF Busy
<1> QED BY <1>1 DEF Doing

(* Leaves are nodes. *)
LEMMA LeafIs ==
  ASSUME NEW t, IsFs(t), NEW p
  PROVE  /\ is_leaf(t, p) => p \in DOMAIN t /\ p \in Paths /\ p # <<>>
         /\ p \in DOMAIN t => exists(t, p)
<1>1. \A q \in DOMAIN t : q \in Paths /\ q # <<>> /\ t[q] # Absent
  BY PathIs, DataIsNotDir DEF IsFs, IsTyped, Dir, Absent
<1> QED BY <1>1 DEF is_leaf, exists, is_dir, Node, Dir, Absent

(* Removing a subtree unlinks the file open in it and leaves others as they were. *)
LEMMA FileWithoutOK ==
  ASSUME Inv, NEW p \in Paths, NEW t, IsFs(t),
         file.linked = TRUE /\ ~path_contains(p, file.path) => Node(t, file.path) = Node(local, file.path)
  PROVE  FileOK(t, FileWithout(p)) /\ FileWithout(p).path = file.path /\ FileWithout(p).dirty = file.dirty
<1>1. FileOK(local, file)
  BY DEF Inv, Typed
<1>2. CASE path_contains(p, file.path)
  <2>1. FileWithout(p) = [file EXCEPT !.linked = FALSE]
    BY <1>2 DEF FileWithout
  <2>2. file.path \in Paths
    BY <1>1, <1>2, PathIs, ContainsRoot DEF FileOK, NoFile
  <2> QED BY <1>1, <2>1, <2>2 DEF FileOK
<1>3. CASE ~path_contains(p, file.path)
  <2>1. FileWithout(p) = file
    BY <1>3 DEF FileWithout
  <2> QED BY <1>1, <1>3, <2>1 DEF FileOK, is_leaf, exists, is_dir
<1> QED BY <1>2, <1>3

(* The open file stays as it is while its leaf stays. *)
LEMMA SameFile ==
  ASSUME Inv, NEW t, file.linked = TRUE => is_leaf(t, file.path)
  PROVE  FileOK(t, file)
BY DEF Inv, Typed, FileOK

(* Every call of the file system's users keeps the invariant. *)
LEMMA UserStep ==
  ASSUME Inv,
         \/ \E p \in Paths : \/ mkdir(p) \/ remove(p) \/ link(p) \/ truncate(p) \/ chmod(p)
                            \/ create(p) \/ open_file(p)
         \/ \E p, q \in Paths : rename_path(p, q)
         \/ \E d \in Data : write(d)
         \/ close
  PROVE  Inv'
<1>0. IsFs(local) /\ FileOK(local, file) /\ Empty \in Data \cup {Dir} /\ Dir \in Data \cup {Dir}
  BY InitTreesAreTrees DEF Inv, Typed
<1>1. \A q : \A p \in Paths : q = p => Reported({p}, q)
  BY PathIs, ContainsItself DEF Reported, paths_overlap
<1>2. ASSUME NEW p \in Paths, NEW node \in Data \cup {Dir}, ~Busy, is_dir(local, parent_path(p)),
             ~is_dir(local, p), node = Dir => ~is_leaf(local, p),
             LocalCall(Put(local, p, node), <<Mark(p, Upsert)>>, file)
      PROVE  Inv'
  <2> DEFINE t == Put(local, p, node)
             calls == <<Mark(p, Upsert)>>
  <2>1. IsFs(t)
    BY <1>0, <1>2, PutFs
  <2>2. MarksOK(calls) /\ PathsOf(calls) = {p}
    BY MarksTyped, PathsOfMarks, ChangesAre
  <2>3. file.linked = TRUE => is_leaf(t, file.path)
    <3> SUFFICES ASSUME file.linked = TRUE PROVE is_leaf(t, file.path)
      OBVIOUS
    <3>1. is_leaf(local, file.path)
      BY <1>0 DEF FileOK
    <3>2. CASE file.path = p
      <4>1. node \in Data
        BY <1>2, <3>1, <3>2
      <4>2. Node(t, p) = node
        BY PathIs DEF Put, Node
      <4> QED BY <3>2, <4>1, <4>2, DataIsNotDir DEF is_leaf, exists, is_dir
    <3>3. CASE file.path # p
      BY <3>1, <3>3, PutIs DEF is_leaf, exists, is_dir
    <3> QED BY <3>2, <3>3
  <2>4. FileOK(t, file)
    BY <2>3, SameFile
  <2>5. Doing(marks, file) \subseteq Doing(calls, file) /\ p \in Doing(calls, file)
    BY <1>2, <2>2, QuietMarks DEF Doing
  <2>6. \A q \in Paths : Node(t, q) = Node(local, q) \/ Reported(Doing(calls, file), q)
    BY <1>1, <2>5, PutIs DEF Reported
  <2>7. CallOK(t, calls, file)
    BY <2>1, <2>2, <2>4, <2>5, <2>6 DEF CallOK
  <2> QED BY <1>2, <2>7, LocalCallStep
<1>3. ASSUME NEW p \in Paths, mkdir(p) PROVE Inv'
  BY <1>0, <1>2, <1>3 DEF mkdir, is_dir, is_leaf, exists, LocalCall, Dir, Absent
<1>4. ASSUME NEW p \in Paths, link(p) PROVE Inv'
  <2>1. ~is_dir(local, p) /\ Empty # Dir
    BY <1>4, InitTreesAreTrees, DataIsNotDir DEF link, is_dir, exists, Dir, Absent
  <2> QED BY <1>0, <1>2, <1>4, <2>1 DEF link, LocalCall
<1>5. ASSUME NEW p \in Paths, truncate(p) PROVE Inv'
  <2>1. ~is_dir(local, p) /\ Empty # Dir
    BY <1>5, InitTreesAreTrees, DataIsNotDir DEF truncate, is_leaf
  <2>2. is_dir(local, parent_path(p))
    BY <1>0, <1>5, LeafIs DEF truncate, IsFs, IsTree
  <2> QED BY <1>0, <1>2, <1>5, <2>1, <2>2 DEF truncate, LocalCall
<1>6. ASSUME NEW p \in Paths, chmod(p) PROVE Inv'
  <2> DEFINE calls == <<Mark(p, Upsert)>>
  <2>1. MarksOK(calls)
    BY MarksTyped, ChangesAre
  <2>2. ~Busy /\ LocalCall(local, calls, file)
    BY <1>6 DEF chmod, LocalCall
  <2>3. Doing(marks, file) \subseteq Doing(calls, file)
    BY <2>2, QuietMarks DEF Doing
  <2>4. CallOK(local, calls, file)
    BY <1>0, <2>1, <2>3 DEF CallOK
  <2> QED BY <2>2, <2>4, LocalCallStep
<1>7. ASSUME NEW p \in Paths, remove(p) PROVE Inv'
  <2> DEFINE t == remove_all(local, p)
             c == Removal(is_dir(local, p))
             calls == <<Mark(p, c)>>
             f == FileWithout(p)
  <2>1. ~Busy /\ LocalCall(t, calls, f)
    BY <1>7 DEF remove, LocalCall
  <2>2. IsFs(t)
    BY <1>0, RemoveFs
  <2>3. c \in Changes
    BY ChangesAre DEF is_dir
  <2> HIDE DEF c
  <2>4. MarksOK(calls) /\ PathsOf(calls) = {p}
    BY <2>3, MarksTyped, PathsOfMarks
  <2>5. FileOK(t, f) /\ f.path = file.path /\ f.dirty = file.dirty
    BY <2>2, RemoveIs, FileWithoutOK
  <2> HIDE DEF f, calls
  <2>6. Doing(marks, file) \subseteq Doing(calls, f) /\ p \in Doing(calls, f)
    BY <2>1, <2>4, <2>5, QuietMarks DEF Doing
  <2>7. \A q \in Paths : Node(t, q) = Node(local, q) \/ Reported(Doing(calls, f), q)
    BY <2>6, RemoveIs DEF Reported, paths_overlap
  <2>8. CallOK(t, calls, f)
    BY <2>2, <2>4, <2>5, <2>6, <2>7 DEF CallOK
  <2> QED BY <2>1, <2>8, LocalCallStep
<1>8. ASSUME NEW old \in Paths, NEW new \in Paths, rename_path(old, new) PROVE Inv'
  <2> DEFINE t == rename(local, old, new)
             c == Removal(is_dir(local, old))
             calls == <<Mark(old, c), Mark(new, Upsert)>>
             f == FileWithout(new)
  <2>1. ~Busy /\ LocalCall(t, calls, f) /\ CanRename(local, old, new) /\ (file.linked = TRUE => ~path_contains(old, file.path))
    BY <1>8 DEF rename_path, LocalCall
  <2>2. IsFs(t)
    BY <1>0, <2>1, RenameFs
  <2>3. c \in Changes
    BY ChangesAre DEF is_dir
  <2> HIDE DEF c
  <2>4. MarksOK(calls) /\ PathsOf(calls) = {old, new}
    <3>1. Upsert \in Changes
      BY ChangesAre
    <3> HIDE DEF Upsert
    <3>2. MarksOK(calls)
      <4>1. \A d \in Changes : MarksOK(<<Mark(old, c), Mark(new, d)>>)
        BY <2>3, MarksTyped
      <4> QED BY <3>1, <4>1
    <3>3. PathsOf(calls) = {old, new}
      BY PathsOfTwoMarks
    <3> QED BY <3>2, <3>3
  <2>a. old \in Seq(Nat) /\ new \in Seq(Nat) /\ DOMAIN local \subseteq Seq(Nat)
    BY <1>0, PathIs DEF IsFs, IsTyped
  <2>b. \A q : ~path_contains(old, q) /\ ~path_contains(new, q) => Node(t, q) = Node(local, q)
    BY <2>a, RenameIs
  <2> HIDE DEF t
  <2>5. FileOK(t, f) /\ f.path = file.path /\ f.dirty = file.dirty
    BY <2>1, <2>2, <2>b, FileWithoutOK
  <2> HIDE DEF f, calls
  <2>6. Doing(marks, file) \subseteq Doing(calls, f) /\ old \in Doing(calls, f) /\ new \in Doing(calls, f)
    BY <2>1, <2>4, <2>5, QuietMarks DEF Doing
  <2>7. \A q \in Paths : Node(t, q) = Node(local, q) \/ Reported(Doing(calls, f), q)
    BY <2>6, <2>b DEF Reported, paths_overlap
  <2>8. CallOK(t, calls, f)
    BY <2>2, <2>4, <2>5, <2>6, <2>7 DEF CallOK
  <2> QED BY <2>1, <2>8, LocalCallStep
<1>9. ASSUME NEW p \in Paths, create(p) PROVE Inv'
  <2> DEFINE t == Put(local, p, Empty)
             f == [path |-> p, linked |-> TRUE, dirty |-> TRUE]
  <2>1. ~Busy /\ LocalCall(t, <<>>, f) /\ file = NoFile /\ ~is_dir(local, p) /\ is_dir(local, parent_path(p))
    BY <1>9 DEF create, LocalCall
  <2>2. IsFs(t)
    BY <1>0, <2>1, PutFs
  <2>3. Node(t, p) = Empty
    BY PathIs DEF Put, Node
  <2>4. FileOK(t, f)
    BY <2>3, InitTreesAreTrees, DataIsNotDir DEF FileOK, is_leaf, exists, is_dir
  <2>5. MarksOK(<<>>) /\ Doing(<<>>, f) = {p}
    BY MarksTyped, PathsOfMarks, ChangesAre DEF Doing
  <2>6. Doing(marks, file) = {}
    BY <2>1, QuietMarks DEF NoFile
  <2>7. \A q \in Paths : Node(t, q) = Node(local, q) \/ Reported({p}, q)
    BY <1>1, PutIs
  <2> HIDE DEF f
  <2>8. CallOK(t, <<>>, f)
    BY <2>2, <2>4, <2>5, <2>6, <2>7 DEF CallOK
  <2> QED BY <2>1, <2>8, LocalCallStep
<1>10. ASSUME NEW p \in Paths, open_file(p) PROVE Inv'
  <2> DEFINE f == [path |-> p, linked |-> TRUE, dirty |-> FALSE]
  <2>1. ~Busy /\ LocalCall(local, <<>>, f) /\ file = NoFile /\ is_leaf(local, p)
    BY <1>10 DEF open_file, LocalCall
  <2>2. FileOK(local, f)
    BY <2>1 DEF FileOK
  <2>3. MarksOK(<<>>)
    BY MarksTyped, ChangesAre
  <2>4. Doing(marks, file) = {}
    BY <2>1, QuietMarks DEF NoFile
  <2> HIDE DEF f
  <2>5. CallOK(local, <<>>, f)
    BY <1>0, <2>2, <2>3, <2>4 DEF CallOK
  <2> QED BY <2>1, <2>5, LocalCallStep
<1>11. ASSUME NEW d \in Data, write(d) PROVE Inv'
  <2> DEFINE t == IF file.linked THEN Put(local, file.path, d) ELSE local
             f == [file EXCEPT !.dirty = TRUE]
  <2>1. ~Busy /\ LocalCall(t, <<>>, f) /\ file # NoFile
    BY <1>11 DEF write, LocalCall
  <2>2. file.path \in Paths /\ file.linked \in BOOLEAN
    BY <1>0, <2>1 DEF FileOK
  <2>3. ASSUME file.linked = TRUE
        PROVE  /\ IsFs(t) /\ is_leaf(t, file.path)
               /\ \A q \in Paths : Node(t, q) = Node(local, q) \/ q = file.path
    <3>1. is_leaf(local, file.path)
      BY <1>0, <2>3 DEF FileOK
    <3>2. is_dir(local, parent_path(file.path)) /\ ~is_dir(local, file.path)
      BY <1>0, <3>1, LeafIs DEF IsFs, IsTree, is_leaf
    <3>3. t = Put(local, file.path, d)
      BY <2>3
    <3>4. IsFs(t)
      BY <1>0, <2>2, <3>2, <3>3, PutFs
    <3>5. Node(t, file.path) = d
      BY <2>2, <3>3, PathIs DEF Put, Node
    <3>6. is_leaf(t, file.path)
      BY <3>5, DataIsNotDir DEF is_leaf, exists, is_dir
    <3>7. \A q \in Paths : Node(t, q) = Node(local, q) \/ q = file.path
      BY <3>3, PutIs
    <3> QED BY <3>4, <3>6, <3>7
  <2>4. ASSUME file.linked = FALSE PROVE t = local
    BY <2>4
  <2>5. /\ IsFs(t) /\ (file.linked = TRUE => is_leaf(t, file.path))
        /\ \A q \in Paths : Node(t, q) = Node(local, q) \/ q = file.path
    BY <1>0, <2>2, <2>3, <2>4
  <2> HIDE DEF t
  <2>6. FileOK(t, f) /\ f.path = file.path /\ f.dirty = TRUE
    BY <1>0, <2>2, <2>5 DEF FileOK
  <2> HIDE DEF f
  <2>7. MarksOK(<<>>) /\ Doing(<<>>, f) = {file.path}
    BY <2>2, <2>6, MarksTyped, PathsOfMarks, ChangesAre DEF Doing
  <2>8. Doing(marks, file) \subseteq {file.path}
    BY <2>1, QuietMarks
  <2>9. \A q \in Paths : Node(t, q) = Node(local, q) \/ Reported({file.path}, q)
    BY <1>1, <2>2, <2>5
  <2>10. CallOK(t, <<>>, f)
    BY <2>5, <2>6, <2>7, <2>8, <2>9 DEF CallOK
  <2> QED BY <2>1, <2>10, LocalCallStep
<1>12. ASSUME close PROVE Inv'
  <2> DEFINE calls == IF file.dirty THEN <<Mark(file.path, Upsert)>> ELSE <<>>
  <2>1. ~Busy /\ LocalCall(local, calls, NoFile) /\ file # NoFile
    BY <1>12 DEF close, LocalCall
  <2>2. file.path \in Paths /\ file.dirty \in BOOLEAN
    BY <1>0, <2>1 DEF FileOK
  <2>3. FileOK(local, NoFile)
    BY DEF FileOK, NoFile
  <2>4. MarksOK(calls) /\ PathsOf(calls) = IF file.dirty THEN {file.path} ELSE {}
    BY <2>2, MarksTyped, PathsOfMarks, ChangesAre
  <2>5. Doing(marks, file) \subseteq Doing(calls, NoFile)
    BY <2>1, <2>4, QuietMarks DEF Doing
  <2> HIDE DEF calls
  <2>6. CallOK(local, calls, NoFile)
    BY <1>0, <2>3, <2>4, <2>5 DEF CallOK
  <2> QED BY <2>1, <2>6, LocalCallStep
<1> QED BY <1>3, <1>4, <1>5, <1>6, <1>7, <1>8, <1>9, <1>10, <1>11, <1>12

(* A close that fails forgets what was owed of its path. *)
LEMMA CloseFailsStep ==
  ASSUME Inv, close_fails
  PROVE  Inv'
<1>1. /\ file.dirty /\ ~Busy /\ file' = NoFile /\ owed' = owed \ Doing(marks, file)
      /\ UNCHANGED <<policy, local, marks, dirty, next_generation, pull_conflicts, sync, remote, remoteChanges, touched>>
  BY DEF close_fails, InProgress, Doing, marked, external
<1>2. Typed'
  <2>1. FileOK(local, NoFile)
    BY DEF FileOK, NoFile
  <2> QED BY <1>1, <2>1 DEF Inv, Typed
<1>3. Doing(marks, NoFile) \subseteq Doing(marks, file)
  BY DEF Doing, NoFile
<1>4. Unchanged(sync.snap)' = Unchanged(sync.snap)
  BY <1>1 DEF Unchanged
<1>5. Kept'
  <2>1. owed' \subseteq DOMAIN dirty \cup Doing(marks, NoFile)
    BY <1>1 DEF Inv, Kept
  <2>2. sync # Idle => Doing(marks, NoFile) \subseteq touched
    BY <1>3 DEF Inv, Kept
  <2>3. touched \cap owed' \cap Unchanged(sync.snap) \subseteq Doing(marks, NoFile)
    BY <1>1 DEF Inv, Kept
  <2>4. sync.pc = "clear" => owed' \cap DOMAIN sync.snap \subseteq touched
    BY <1>1 DEF Inv, Kept
  <2> QED BY <1>1, <1>4, <2>1, <2>2, <2>3, <2>4 DEF Kept
<1>6. CopyOK(sync)' /\ PullOK(sync, local, touched)'
  BY <1>1 DEF Inv, CopyOK
<1> QED BY <1>2, <1>5, <1>6 DEF Inv

(* mark_dirty gives the path a generation no snapshot has, so that the mark survives a *)
(* push in flight.                                                                     *)
LEMMA MarkStep ==
  ASSUME Inv, mark_dirty
  PROVE  Inv'
<1> DEFINE m == Head(marks)
           n == next_generation
           e == MarkedEntry(m.change)
<1>1. marks \in Seq([path : Paths, change : Changes]) /\ marks # <<>> /\ n \in Nat /\ n + Len(marks) <= MaxGeneration
  BY DEF Inv, Typed, MarksOK, mark_dirty, Busy
<1>2. /\ m \in [path : Paths, change : Changes] /\ Tail(marks) \in Seq([path : Paths, change : Changes])
      /\ Len(Tail(marks)) = Len(marks) - 1 /\ m = marks[1]
      /\ \A i \in 1..Len(Tail(marks)) : Tail(marks)[i] = marks[i + 1]
  <2>1. m = marks[1]
    BY <1>1
  <2> QED BY <1>1, <2>1, HeadTailProperties
<1>3. /\ dirty' = Put(dirty, m.path, e) /\ owed' = owed \cup {m.path} /\ next_generation' = n + 1
      /\ marks' = Tail(marks)
      /\ UNCHANGED <<policy, local, file, pull_conflicts, sync, remote, remoteChanges, touched>>
  BY DEF mark_dirty, external
<1>4. e.change = m.change /\ e.generation = n + 1 /\ m.path \in Paths /\ m.change \in Changes
  BY <1>2 DEF MarkedEntry
<1>5. Doing(marks, file) = {m.path} \cup Doing(marks', file)
  <2>1. ToSet(marks) = {marks[i] : i \in 1..Len(marks)} /\ Len(marks) \in Nat /\ Len(marks) >= 1
    BY <1>1, EmptySeq, LenProperties DEF ToSet
  <2>2. ToSet(Tail(marks)) = {Tail(marks)[i] : i \in 1..Len(marks) - 1}
    BY <1>2, LenProperties DEF ToSet
  <2>3. ToSet(marks) = {m} \cup ToSet(Tail(marks))
    <3>1. ASSUME NEW i \in 1..Len(marks) PROVE marks[i] \in {m} \cup ToSet(Tail(marks))
      <4>1. CASE i = 1
        BY <1>2, <4>1
      <4>2. CASE i # 1
        <5>1. i - 1 \in 1..Len(marks) - 1 /\ i - 1 + 1 = i
          BY <2>1, <4>2
        <5>2. Tail(marks)[i - 1] = marks[i]
          BY <1>2, <5>1
        <5> QED BY <2>2, <5>1, <5>2
      <4> QED BY <4>1, <4>2
    <3>2. ASSUME NEW i \in 1..Len(marks) - 1 PROVE Tail(marks)[i] \in ToSet(marks)
      <4>1. i + 1 \in 1..Len(marks) /\ i \in 1..Len(Tail(marks))
        BY <1>2, <2>1
      <4> QED BY <1>2, <2>1, <4>1
    <3>3. m \in ToSet(marks)
      BY <1>2, <2>1
    <3> QED BY <2>1, <2>2, <3>1, <3>2, <3>3
  <2> QED BY <1>3, <2>3 DEF Doing, PathsOf
<1> HIDE DEF m, e
<1>6. IsDirty(dirty', n + 1) /\ IsDirty(sync.snap, n + 1)
  BY <1>1, <1>3, <1>4 DEF Inv, Typed, IsDirty, Put
<1>7. Typed'
  <2>1. next_generation' \in Nat /\ next_generation' + Len(marks') <= MaxGeneration
    BY <1>1, <1>2, <1>3, LenProperties
  <2>2. MarksOK(marks')
    BY <1>2, <1>3 DEF MarksOK
  <2> QED BY <1>3, <1>6, <2>1, <2>2 DEF Inv, Typed
<1>8. Unchanged(sync.snap)' \subseteq Unchanged(sync.snap) \ {m.path}
  <2>1. Unchanged(sync.snap)' =
          {p \in DOMAIN sync.snap \cap DOMAIN dirty' : dirty'[p].generation = sync.snap[p].generation}
    BY <1>3 DEF Unchanged
  <2>2. \A p \in DOMAIN sync.snap : sync.snap[p].generation # n + 1
    BY <1>1 DEF Inv, Typed, IsDirty
  <2>3. \A p \in DOMAIN dirty' : p # m.path => p \in DOMAIN dirty /\ dirty'[p] = dirty[p]
    BY <1>3 DEF Put
  <2>4. m.path \in DOMAIN dirty' /\ dirty'[m.path] = e
    BY <1>3 DEF Put
  <2> QED BY <1>4, <2>1, <2>2, <2>3, <2>4 DEF Unchanged
<1>9. Kept'
  <2>1. owed' \subseteq DOMAIN dirty' \cup Doing(marks', file)
    BY <1>3, <1>5 DEF Inv, Kept, Put
  <2>2. sync # Idle => Doing(marks', file) \subseteq touched
    BY <1>5 DEF Inv, Kept
  <2>3. touched \cap owed' \cap Unchanged(sync.snap)' \subseteq Doing(marks', file)
    BY <1>3, <1>5, <1>8 DEF Inv, Kept
  <2>4. sync.pc = "clear" => owed' \cap DOMAIN sync.snap \subseteq touched
    BY <1>3, <1>5 DEF Inv, Kept, Idle
  <2> QED BY <1>3, <2>1, <2>2, <2>3, <2>4 DEF Kept
<1>10. CopyOK(sync)' /\ PullOK(sync, local, touched)'
  BY <1>3 DEF Inv, CopyOK
<1> QED BY <1>7, <1>9, <1>10 DEF Inv

(* The marks of a snapshot that are still current: Unchanged of module SyncFs, of any *)
(* map.                                                                               *)
Same(d, snap) == {p \in DOMAIN snap \cap DOMAIN d : d[p].generation = snap[p].generation}

(* What a step of the sync task must keep. *)
LEMMA SyncKeeps ==
  ASSUME Inv, UNCHANGED <<policy, marks, next_generation>>,
         IsFs(local'), IsFs(remote'), FileOK(local', file'), file'.path = file.path, file'.dirty = file.dirty,
         IsDirty(dirty', next_generation), pull_conflicts' \subseteq Paths,
         SyncOK(sync'), IsDirty(sync'.snap, next_generation), CopyOK(sync'), PullOK(sync', local', touched'),
         owed' \subseteq DOMAIN dirty' \cup Doing(marks, file),
         sync' # Idle => Doing(marks, file) \subseteq touched',
         touched' \cap owed' \cap Same(dirty', sync'.snap) \subseteq Doing(marks, file),
         sync'.pc = "clear" => owed' \cap DOMAIN sync'.snap \subseteq touched'
  PROVE  Inv'
<1>1. Typed'
  BY DEF Inv, Typed
<1>2. Doing(marks', file') = Doing(marks, file)
  BY DEF Doing
<1>3. Unchanged(sync.snap)' = Same(dirty', sync'.snap)
  BY DEF Unchanged, Same
<1>4. Kept'
  BY <1>2, <1>3 DEF Kept
<1>5. CopyOK(sync)'
  BY DEF CopyOK
<1> QED BY <1>1, <1>4, <1>5 DEF Inv

(* The empty snapshot. *)
LEMMA NoDirtyIs ==
  ASSUME NEW n \in Nat, NEW d
  PROVE  DOMAIN NoDirty = {} /\ IsDirty(NoDirty, n) /\ Same(d, NoDirty) = {}
BY DEF NoDirty, IsDirty, Same

(* The sync task at rest, and at the start of a pull. *)
LEMMA IdleOK ==
  /\ SyncOK(Idle) /\ CopyOK(Idle) /\ Idle.snap = NoDirty /\ Idle.pc = "idle"
  /\ SyncOK(StartPull) /\ CopyOK(StartPull) /\ StartPull.snap = NoDirty /\ StartPull.pc = "index"
<1>1. IsFs([p \in {} |-> Dir])
  BY DEF IsFs, IsTyped, IsTree
<1>2. SyncOK(Idle) /\ Idle.snap = NoDirty /\ Idle.pc = "idle" /\ Idle.retained = {} /\ Idle.cur = NoDirty
  BY <1>1 DEF SyncOK, Idle
<1>3. SyncOK(StartPull) /\ StartPull.snap = NoDirty /\ StartPull.pc = "index" /\ StartPull.retained = {} /\ StartPull.cur = NoDirty
  BY <1>1 DEF SyncOK, Idle, StartPull
<1> HIDE DEF Idle, StartPull
<1>4. DOMAIN NoDirty = {}
  BY NoDirtyIs
<1> QED BY <1>2, <1>3, <1>4 DEF CopyOK

(* What a step of the sync task must keep when it leaves the tree and the marks alone. *)
LEMMA TurnKeeps ==
  ASSUME Inv, UNCHANGED <<policy, local, marks, file, dirty, next_generation, pull_conflicts>>,
         IsFs(remote'), owed' \subseteq owed,
         SyncOK(sync'), IsDirty(sync'.snap, next_generation), CopyOK(sync'), PullOK(sync', local, touched'),
         sync' # Idle => Doing(marks, file) \subseteq touched',
         touched' \cap owed' \cap Same(dirty, sync'.snap) \subseteq Doing(marks, file),
         sync'.pc = "clear" => owed' \cap DOMAIN sync'.snap \subseteq touched'
  PROVE  Inv'
<1>1. IsFs(local') /\ FileOK(local', file') /\ IsDirty(dirty', next_generation) /\ pull_conflicts' \subseteq Paths
  BY DEF Inv, Typed
<1>2. owed' \subseteq DOMAIN dirty' \cup Doing(marks, file)
  BY DEF Inv, Kept
<1> QED BY <1>1, <1>2, SyncKeeps

(* A push that ends, to return or to pull. *)
LEMMA ReturnKeeps ==
  ASSUME Inv, Return, UNCHANGED <<policy, local, marks, file, dirty, next_generation, pull_conflicts, remote, owed>>
  PROVE  Inv'
<1>1. sync' = Idle /\ touched' = {}
  BY DEF Return
<1>2. next_generation \in Nat /\ IsFs(remote')
  BY DEF Inv, Typed
<1>3. PullOK(Idle, local, {})
  BY IdleOK DEF PullOK
<1>4. IsDirty(Idle.snap, next_generation)
  BY <1>2, IdleOK, NoDirtyIs
<1> HIDE DEF Idle
<1> QED BY <1>1, <1>2, <1>3, <1>4, IdleOK, TurnKeeps

(* push takes its snapshot: nothing has been touched since. *)
LEMMA PushStep ==
  ASSUME Inv, NEW then \in {"return", "pull"}, push(then)
  PROVE  Inv'
<1> DEFINE s == [Idle EXCEPT !.pc = "build", !.then = then, !.snap = dirty, !.todo = DOMAIN dirty]
<1>1. /\ touched' = Doing(marks, file)
      /\ UNCHANGED <<policy, local, marks, file, dirty, next_generation, pull_conflicts, remote, owed>>
      /\ sync' = IF DOMAIN dirty = {} THEN StartPull ELSE s
  BY DEF push, InProgress, Doing, user, marked, external
<1>2. next_generation \in Nat /\ IsFs(remote') /\ IsDirty(dirty, next_generation)
  BY <1>1 DEF Inv, Typed
<1>3. SyncOK(s) /\ s.snap = dirty /\ s.pc = "build" /\ CopyOK(s)
  <2>1. /\ DOMAIN s = DOMAIN Idle /\ s.pc = "build" /\ s.then = then /\ s.snap = dirty /\ s.cur = NoDirty
        /\ s.todo = DOMAIN dirty /\ s.patch = {} /\ s.index = Idle.index /\ s.retained = {}
    BY DEF Idle
  <2>2. DOMAIN Idle = {"pc", "then", "snap", "cur", "todo", "patch", "index", "retained"} /\ IsFs(Idle.index)
    BY IdleOK DEF SyncOK
  <2> HIDE DEF s
  <2>3. SyncOK(s)
    BY <1>2, <2>1, <2>2 DEF SyncOK, IsDirty
  <2>4. CopyOK(s)
    BY <1>2, <2>1, NoDirtyIs DEF CopyOK
  <2> QED BY <2>1, <2>3, <2>4
<1> HIDE DEF s, Idle, StartPull
<1>4. CASE sync' = StartPull
  <2>1. PullOK(sync', local, touched') /\ IsDirty(sync'.snap, next_generation)
    BY <1>2, <1>4, IdleOK, NoDirtyIs DEF PullOK
  <2> QED BY <1>1, <1>2, <1>4, <2>1, IdleOK, TurnKeeps
<1>5. CASE sync' = s
  <2>1. PullOK(sync', local, touched')
    BY <1>3, <1>5 DEF PullOK
  <2> QED BY <1>1, <1>2, <1>3, <1>5, <2>1, TurnKeeps
<1> QED BY <1>1, <1>4, <1>5

(* build_patch reads the tree path by path. *)
LEMMA BuildStep ==
  ASSUME Inv, build_patch
  PROVE  Inv'
<1>1. /\ UNCHANGED <<policy, local, marks, file, dirty, next_generation, pull_conflicts, remote, owed>>
      /\ sync.pc = "build"
  BY DEF build_patch, user, marked, external
<1>2. SyncOK(sync) /\ IsFs(local) /\ IsFs(remote') /\ IsDirty(sync.snap, next_generation)
  BY <1>1 DEF Inv, Typed
<1>3. ASSUME NEW p \in sync.todo, NEW E, \A e \in E : EntryOK(e), UNCHANGED touched,
             sync' = [sync EXCEPT !.todo = @ \ {p}, !.patch = @ \cup E,
                                  !.pc = IF sync.todo = {p} THEN "apply" ELSE @]
      PROVE  Inv'
  <2>1. /\ DOMAIN sync' = DOMAIN sync /\ sync'.then = sync.then /\ sync'.snap = sync.snap /\ sync'.cur = sync.cur
        /\ sync'.todo = sync.todo \ {p} /\ sync'.patch = sync.patch \cup E /\ sync'.index = sync.index
        /\ sync'.retained = sync.retained /\ sync'.pc \in {"build", "apply"}
    BY <1>1, <1>2, <1>3 DEF SyncOK
  <2>2. SyncOK(sync')
    BY <1>1, <1>2, <1>3, <2>1 DEF SyncOK
  <2>3. CopyOK(sync') /\ PullOK(sync', local, touched')
    BY <1>1, <2>1 DEF Inv, CopyOK, PullOK
  <2>4. sync # Idle /\ Doing(marks, file) \subseteq touched' /\ touched' \cap owed' \cap Same(dirty, sync'.snap) \subseteq Doing(marks, file)
    BY <1>1, <1>3, <2>1, IdleOK DEF Inv, Kept, Same, Unchanged
  <2> QED BY <1>1, <1>2, <2>1, <2>2, <2>3, <2>4, TurnKeeps
<1> DEFINE next(p, E) == [sync EXCEPT !.todo = @ \ {p}, !.patch = @ \cup E,
                                      !.pc = IF sync.todo = {p} THEN "apply" ELSE @]
           D(p) == {DeleteMarker(p, sync.snap[p].change.recursive)}
<1>4. PICK p \in sync.todo : \/ sync' = next(p, D(p)) /\ UNCHANGED touched
                             \/ sync' = next(p, append_patch_path(p)) /\ UNCHANGED touched
                             \/ Return
  BY DEF build_patch
<1>5. p \in Paths
  BY <1>2 DEF SyncOK
<1>6. \A e \in D(p) : EntryOK(e)
  BY <1>5 DEF DeleteMarker, EntryOK
<1>7. \A e \in append_patch_path(p) : EntryOK(e)
  <2> SUFFICES ASSUME NEW q \in DOMAIN local PROVE EntryOK(Entry(p, q, local[q]))
    BY DEF append_patch_path
  <2>1. q \in Paths /\ local[q] \in Data \cup {Dir}
    BY <1>2 DEF IsFs, IsTyped
  <2> QED BY <2>1 DEF Entry, EntryOK
<1> HIDE DEF D
<1>8. CASE sync' = next(p, D(p)) /\ UNCHANGED touched
  BY <1>3, <1>6, <1>8
<1>9. CASE sync' = next(p, append_patch_path(p)) /\ UNCHANGED touched
  BY <1>3, <1>7, <1>9
<1>10. CASE Return
  BY <1>1, <1>10, ReturnKeeps
<1> QED BY <1>4, <1>8, <1>9, <1>10

(* ensure_sync_patch_parent_dirs leaves a file system with the parent in it, whatever *)
(* files were in the way.                                                             *)
LEMMA ParentDirsFs ==
  ASSUME NEW t, IsFs(t), NEW p \in Paths
  PROVE  /\ IsFs(ensure_sync_patch_parent_dirs(t, p))
         /\ is_dir(ensure_sync_patch_parent_dirs(t, p), parent_path(p))
<1> DEFINE up == Upto(p) \ {p}
           kept == {r \in DOMAIN t : ~\E u \in up : is_leaf(t, u) /\ path_contains(u, r)}
           b == ensure_sync_patch_parent_dirs(t, p)
<1>0. p \in Seq(Nat)
  BY PathIs
<1>1. up = {q \in Paths : path_contains(q, p) /\ q # p}
  BY UptoIs
<1>2. /\ DOMAIN b = kept \cup up /\ b = [q \in DOMAIN b |-> b[q]]
      /\ \A q \in DOMAIN b : b[q] = IF q \in up THEN Dir ELSE t[q]
  BY DEF ensure_sync_patch_parent_dirs
<1> HIDE DEF up, b
<1>3. \A q \in up : is_dir(b, q)
  BY <1>2 DEF is_dir, Node
<1>4. IsTyped(b)
  BY <1>1, <1>2 DEF IsFs, IsTyped
<1>5. ASSUME NEW q \in Paths, path_contains(q, p) PROVE is_dir(b, parent_path(q))
  <2>1. /\ q \in Seq(Nat) /\ parent_path(q) \in Seq(Nat) /\ parent_path(q) \in Paths \cup {<<>>}
        /\ path_contains(parent_path(q), q) /\ ~path_contains(q, parent_path(q))
    BY PathIs, ParentContains
  <2>2. path_contains(parent_path(q), p) /\ parent_path(q) # p
    BY <1>0, <1>5, <2>1, ContainsTransitively
  <2>3. CASE parent_path(q) = <<>>
    BY <2>3 DEF is_dir, Node
  <2>4. CASE parent_path(q) \in Paths
    BY <1>1, <1>3, <2>2, <2>4
  <2> QED BY <2>1, <2>3, <2>4
<1>6. ASSUME NEW q \in kept PROVE is_dir(b, parent_path(q))
  <2>1. q \in DOMAIN t /\ q \in Paths /\ q \in Seq(Nat) /\ is_dir(t, parent_path(q))
    BY PathIs DEF IsFs, IsTyped, IsTree
  <2> DEFINE r == parent_path(q)
  <2>2. r \in Seq(Nat) /\ path_contains(r, q)
    BY <2>1, ParentContains
  <2>3. is_dir(t, r)
    BY <2>1
  <2> HIDE DEF r
  <2>4. CASE r = <<>>
    BY <2>4 DEF r, is_dir, Node
  <2>5. CASE r # <<>>
    <3>1. r \in DOMAIN t /\ t[r] = Dir
      BY <2>3, <2>5 DEF is_dir, Node, Dir, Absent
    <3>2. ASSUME NEW u \in up, is_leaf(t, u), path_contains(u, r) PROVE FALSE
      <4>1. u \in Seq(Nat)
        BY <1>1, PathIs
      <4>2. path_contains(u, q)
        BY <2>1, <2>2, <3>2, <4>1, ContainsTransitively
      <4> QED BY <3>2, <4>2
    <3>3. r \in kept
      BY <3>1, <3>2
    <3> HIDE DEF kept
    <3>4. r \in DOMAIN b /\ b[r] = Dir
      BY <1>2, <3>1, <3>3
    <3> QED BY <3>4 DEF r, is_dir, Node
  <2> QED BY <2>4, <2>5
<1> HIDE DEF kept
<1>7. IsTree(b)
  BY <1>1, <1>2, <1>5, <1>6 DEF IsTree
<1>8. is_dir(b, parent_path(p))
  BY <1>0, <1>5, ContainsItself
<1>9. IsFs(b)
  BY <1>2, <1>4, <1>7 DEF IsFs
<1> QED BY <1>8, <1>9 DEF b

(* Applying an entry of a patch leaves a file system. *)
LEMMA ApplyFs ==
  ASSUME NEW t, IsFs(t), NEW e, EntryOK(e)
  PROVE  IsFs(ApplyEntry(t, e))
<1> DEFINE p == e.path
           base == ensure_sync_patch_parent_dirs(t, p)
<1>1. p \in Paths /\ e.node \in Data \cup {Dir, Absent} /\ p \in Seq(Nat) /\ p # <<>>
  BY PathIs DEF EntryOK
<1>2. IsFs(base) /\ is_dir(base, parent_path(p))
  BY <1>1, ParentDirsFs
<1>3. ApplyEntry(t, e) = CASE e.node = Absent -> remove_all(t, p)
                           [] e.node = Dir -> IF is_dir(base, p) THEN base ELSE Put(base, p, Dir)
                           [] OTHER -> Put(remove_all(base, p), p, e.node)
  BY DEF ApplyEntry
<1> HIDE DEF p, base
<1>4. CASE e.node = Absent
  <2>1. ApplyEntry(t, e) = remove_all(t, p)
    BY <1>3, <1>4 DEF Dir, Absent
  <2> QED BY <1>1, <2>1, RemoveFs
<1>5. CASE e.node = Dir
  <2>1. ApplyEntry(t, e) = IF is_dir(base, p) THEN base ELSE Put(base, p, Dir)
    BY <1>3, <1>5 DEF Dir, Absent
  <2> QED BY <1>1, <1>2, <2>1, PutFs
<1>6. CASE e.node \notin {Absent, Dir}
  <2>1. ApplyEntry(t, e) = Put(remove_all(base, p), p, e.node)
    BY <1>3, <1>6
  <2>2. IsFs(remove_all(base, p))
    BY <1>1, <1>2, RemoveFs
  <2>3. ~path_contains(p, parent_path(p)) /\ path_contains(p, p)
    BY <1>1, ParentContains, ContainsItself
  <2>4. is_dir(remove_all(base, p), parent_path(p))
    BY <1>2, <2>3, RemoveIs DEF is_dir
  <2>5. ~is_dir(remove_all(base, p), p)
    BY <1>1, <2>3 DEF is_dir, Node, remove_all, Dir, Absent
  <2>6. e.node \in Data \cup {Dir}
    BY <1>1, <1>6
  <2> QED BY <1>1, <2>1, <2>2, <2>4, <2>5, <2>6, PutFs
<1> QED BY <1>4, <1>5, <1>6

(* The patch applied entry by entry, answered or failed half way. *)
LEMMA ApplyStep ==
  ASSUME Inv, apply_sync_patch \/ apply_patch \/ apply_patch_fails
  PROVE  Inv'
<1>0. SyncOK(sync) /\ IsFs(remote) /\ IsDirty(sync.snap, next_generation)
  BY DEF Inv, Typed
<1>1. CASE apply_patch_fails
  BY <1>1, ReturnKeeps DEF apply_patch_fails, user, marked, external
<1>2. ASSUME sync.pc = "apply", UNCHANGED <<policy, local, marks, file, dirty, next_generation, pull_conflicts, touched>>,
             NEW E, E \subseteq sync.patch, NEW pc \in {"apply", "clear"}, IsFs(remote'), owed' \subseteq owed,
             sync' = [sync EXCEPT !.patch = E, !.pc = pc],
             pc = "clear" => owed' \cap DOMAIN sync.snap \subseteq touched
      PROVE  Inv'
  <2>1. /\ DOMAIN sync' = DOMAIN sync /\ sync'.then = sync.then /\ sync'.snap = sync.snap /\ sync'.cur = sync.cur
        /\ sync'.todo = sync.todo /\ sync'.patch = E /\ sync'.index = sync.index
        /\ sync'.retained = sync.retained /\ sync'.pc = pc
    BY <1>0, <1>2 DEF SyncOK
  <2>2. SyncOK(sync')
    BY <1>0, <1>2, <2>1 DEF SyncOK
  <2>3. CopyOK(sync') /\ PullOK(sync', local, touched')
    BY <1>2, <2>1 DEF Inv, CopyOK, PullOK
  <2>4. Doing(marks, file) \subseteq touched' /\ touched' \cap owed' \cap Same(dirty, sync'.snap) \subseteq Doing(marks, file)
    BY <1>2, <2>1, IdleOK DEF Inv, Kept, Same, Unchanged
  <2> QED BY <1>0, <1>2, <2>1, <2>2, <2>3, <2>4, TurnKeeps
<1>3. CASE apply_sync_patch
  <2>1. /\ sync.pc = "apply" /\ owed' = owed
        /\ UNCHANGED <<policy, local, marks, file, dirty, next_generation, pull_conflicts, touched>>
    BY <1>3 DEF apply_sync_patch, user, marked
  <2>2. PICK e \in sync.patch : remote' = ApplyEntry(remote, e) /\ sync' = [sync EXCEPT !.patch = @ \ {e}]
    BY <1>3 DEF apply_sync_patch
  <2>3. IsFs(remote')
    BY <1>0, <2>2, ApplyFs DEF SyncOK
  <2> DEFINE E == sync.patch \ {e}
  <2>4. sync' = [sync EXCEPT !.patch = E, !.pc = "apply"]
    BY <1>0, <2>1, <2>2 DEF SyncOK
  <2>5. E \subseteq sync.patch
    OBVIOUS
  <2> HIDE DEF E
  <2> QED BY <1>2, <2>1, <2>3, <2>4, <2>5
<1>4. CASE apply_patch
  <2>1. /\ sync.pc = "apply" /\ owed' = owed \ (DOMAIN sync.snap \ touched) /\ remote' = remote
        /\ UNCHANGED <<policy, local, marks, file, dirty, next_generation, pull_conflicts, touched>>
    BY <1>4 DEF apply_patch, user, marked, external, Settled
  <2>2. sync' = [sync EXCEPT !.patch = {}, !.pc = "clear"]
    BY <1>0, <1>4 DEF SyncOK, apply_patch
  <2> QED BY <1>0, <1>2, <2>1, <2>2
<1> QED BY <1>1, <1>3, <1>4

(* push_clear drops the marks still of the snapshot's generation: none of them is owed. *)
LEMMA ClearStep ==
  ASSUME Inv, push_clear
  PROVE  Inv'
<1> DEFINE done == Unchanged(sync.snap)
<1>1. /\ sync.pc = "clear" /\ dirty' = Without(dirty, done) /\ pull_conflicts' = pull_conflicts \ done
      /\ UNCHANGED <<policy, local, marks, file, next_generation, remote, owed>>
      /\ (sync' = Idle /\ touched' = {}) \/ (sync' = StartPull /\ touched' = touched)
  BY DEF push_clear, user, external, Return
<1>2. next_generation \in Nat /\ IsFs(local') /\ IsFs(remote') /\ FileOK(local', file')
  BY <1>1 DEF Inv, Typed
<1>3. IsDirty(dirty', next_generation) /\ pull_conflicts' \subseteq Paths /\ DOMAIN dirty' = DOMAIN dirty \ done
  BY <1>1 DEF Inv, Typed, IsDirty, Without
<1>4. owed' \subseteq DOMAIN dirty' \cup Doing(marks, file)
  <2>1. done \subseteq DOMAIN sync.snap
    BY DEF Unchanged
  <2> QED BY <1>1, <1>3, <2>1 DEF Inv, Kept
<1>5. Doing(marks, file) \subseteq touched
  BY <1>1, IdleOK DEF Inv, Kept
<1>6. SyncOK(sync') /\ CopyOK(sync') /\ PullOK(sync', local', touched') /\ sync'.snap = NoDirty /\ sync'.pc # "clear"
  BY <1>1, IdleOK DEF PullOK
<1>7. IsDirty(sync'.snap, next_generation) /\ Same(dirty', sync'.snap) = {}
  BY <1>2, <1>6, NoDirtyIs
<1> HIDE DEF Idle, StartPull, done
<1> QED BY <1>1, <1>2, <1>3, <1>4, <1>5, <1>6, <1>7, SyncKeeps

(* Going to the next path, or from deletions to fetches: when no deletion is left, all *)
(* extra nodes are gone or reported.                                                   *)
LEMMA AdvanceOK ==
  ASSUME NEW s, SyncOK(s), s.pc \in {"delete", "fetch"}, NEW rest \in SUBSET Paths, NEW t, NEW seen,
         s.pc = "delete" => Deleting(s, rest, t, seen),
         s.pc = "fetch" => Fetching(s, rest, t, seen)
  PROVE  /\ SyncOK(Advance(s, rest)) /\ PullOK(Advance(s, rest), t, seen)
         /\ Advance(s, rest).snap = s.snap /\ Advance(s, rest).cur = s.cur /\ Advance(s, rest).retained = s.retained
         /\ Advance(s, rest).index = s.index /\ Advance(s, rest).pc \in {"delete", "fetch"}
<1> DEFINE a == Advance(s, rest)
<1>1. CASE s.pc = "delete" /\ rest = {}
  <2>1. a = [s EXCEPT !.pc = "fetch", !.todo = DOMAIN s.index]
    BY <1>1 DEF Advance
  <2>2. /\ DOMAIN a = DOMAIN s /\ a.pc = "fetch" /\ a.todo = DOMAIN s.index /\ a.then = s.then /\ a.snap = s.snap
        /\ a.cur = s.cur /\ a.patch = s.patch /\ a.index = s.index /\ a.retained = s.retained
    BY <2>1 DEF SyncOK
  <2> HIDE DEF a
  <2>3. SyncOK(a)
    BY <2>2 DEF SyncOK, IsFs, IsTyped
  <2>4. PullOK(a, t, seen)
    BY <1>1, <2>2 DEF PullOK, Deleting, Fetching
  <2> QED BY <2>2, <2>3, <2>4 DEF a
<1>2. CASE ~(s.pc = "delete" /\ rest = {})
  <2>1. a = [s EXCEPT !.todo = rest]
    BY <1>2 DEF Advance
  <2>2. /\ DOMAIN a = DOMAIN s /\ a.pc = s.pc /\ a.todo = rest /\ a.then = s.then /\ a.snap = s.snap
        /\ a.cur = s.cur /\ a.patch = s.patch /\ a.index = s.index /\ a.retained = s.retained
    BY <2>1 DEF SyncOK
  <2> HIDE DEF a
  <2>3. SyncOK(a)
    BY <2>2 DEF SyncOK
  <2>4. PullOK(a, t, seen)
    BY <2>2 DEF PullOK, Deleting, Fetching
  <2> QED BY <2>2, <2>3, <2>4 DEF a
<1> QED BY <1>1, <1>2

(* The start of a pull: the list of deletions is what the index does not have. *)
LEMMA StartStep ==
  ASSUME Inv, pull \/ pull_index \/ pull_snapshot \/ pull_collect
  PROVE  Inv'
<1>0. /\ SyncOK(sync) /\ IsFs(remote) /\ IsFs(local) /\ IsDirty(dirty, next_generation) /\ next_generation \in Nat
      /\ IsDirty(sync.snap, next_generation)
      /\ UNCHANGED <<policy, local, marks, file, dirty, next_generation, pull_conflicts, remote, owed>>
  BY DEF Inv, Typed, pull, pull_index, pull_snapshot, pull_collect, user, marked, external
<1>1. CASE pull
  <2>1. sync' = StartPull /\ touched' = Doing(marks, file)
    BY <1>1 DEF pull, InProgress, Doing
  <2>2. PullOK(StartPull, local, touched') /\ IsDirty(StartPull.snap, next_generation)
    BY <1>0, IdleOK, NoDirtyIs DEF PullOK
  <2> HIDE DEF StartPull, Idle
  <2> QED BY <1>0, <2>1, <2>2, IdleOK, TurnKeeps
<1>2. CASE pull_index
  <2>1. CASE Return
    BY <1>0, <2>1, ReturnKeeps
  <2>2. CASE sync' = [sync EXCEPT !.pc = "snapshot", !.index = remote] /\ UNCHANGED touched
    <3>1. sync.pc = "index"
      BY <1>2 DEF pull_index
    <3>2. /\ DOMAIN sync' = DOMAIN sync /\ sync'.pc = "snapshot" /\ sync'.todo = sync.todo /\ sync'.then = sync.then
          /\ sync'.snap = sync.snap /\ sync'.cur = sync.cur /\ sync'.patch = sync.patch /\ sync'.index = remote
          /\ sync'.retained = sync.retained
      BY <1>0, <2>2 DEF SyncOK
    <3>3. SyncOK(sync')
      BY <1>0, <3>1, <3>2 DEF SyncOK
    <3>4. CopyOK(sync') /\ PullOK(sync', local, touched')
      BY <3>1, <3>2 DEF Inv, CopyOK, PullOK
    <3>5. Doing(marks, file) \subseteq touched' /\ touched' \cap owed' \cap Same(dirty, sync'.snap) \subseteq Doing(marks, file)
      BY <1>0, <2>2, <3>1, <3>2, IdleOK DEF Inv, Kept, Same, Unchanged
    <3> QED BY <1>0, <3>2, <3>3, <3>4, <3>5, TurnKeeps
  <2> QED BY <1>2, <2>1, <2>2 DEF pull_index
<1>3. CASE pull_snapshot
  <2> DEFINE s == [sync EXCEPT !.pc = "collect", !.snap = dirty, !.cur = dirty]
  <2>1. sync.pc = "snapshot" /\ sync' = s /\ touched' = Doing(marks, file)
    BY <1>3 DEF pull_snapshot, InProgress, Doing
  <2>2. /\ DOMAIN s = DOMAIN sync /\ s.pc = "collect" /\ s.todo = sync.todo /\ s.then = sync.then
        /\ s.snap = dirty /\ s.cur = dirty /\ s.patch = sync.patch /\ s.index = sync.index
        /\ s.retained = sync.retained
    BY <1>0 DEF SyncOK
  <2> HIDE DEF s
  <2>3. sync.retained = {}
    <3>1. DOMAIN sync.snap = {}
      BY <1>0, <2>1, NoDirtyIs DEF SyncOK
    <3> QED BY <3>1 DEF Inv, CopyOK
  <2>4. SyncOK(s) /\ CopyOK(s) /\ PullOK(s, local, touched') /\ IsDirty(s.snap, next_generation)
    BY <1>0, <2>2, <2>3 DEF SyncOK, CopyOK, PullOK
  <2> QED BY <1>0, <2>1, <2>2, <2>4, TurnKeeps
<1>4. CASE pull_collect
  <2> DEFINE s == [sync EXCEPT !.pc = "delete"]
             rest == DOMAIN local \ DOMAIN sync.index
  <2>1. sync.pc = "collect" /\ sync' = Advance(s, rest) /\ touched' = touched
    BY <1>4 DEF pull_collect
  <2>2. /\ DOMAIN s = DOMAIN sync /\ s.pc = "delete" /\ s.todo = sync.todo /\ s.then = sync.then
        /\ s.snap = sync.snap /\ s.cur = sync.snap /\ s.patch = sync.patch /\ s.index = sync.index
        /\ s.retained = {}
    BY <1>0, <2>1 DEF SyncOK
  <2> HIDE DEF s
  <2>3. SyncOK(s)
    BY <1>0, <2>2 DEF SyncOK
  <2>4. Deleting(s, rest, local, touched') /\ rest \in SUBSET Paths
    BY <1>0, <2>2 DEF Deleting, IsFs, IsTyped
  <2> HIDE DEF rest
  <2>5. /\ SyncOK(sync') /\ PullOK(sync', local, touched')
        /\ sync'.snap = sync.snap /\ sync'.cur = sync.snap /\ sync'.retained = {} /\ sync'.pc \in {"delete", "fetch"}
    BY <2>1, <2>2, <2>3, <2>4, AdvanceOK
  <2>6. CopyOK(sync')
    BY <2>5 DEF CopyOK
  <2>7. Doing(marks, file) \subseteq touched' /\ touched' \cap owed' \cap Same(dirty, sync'.snap) \subseteq Doing(marks, file)
    BY <1>0, <2>1, <2>5, IdleOK DEF Inv, Kept, Same, Unchanged
  <2> QED BY <1>0, <2>5, <2>6, <2>7, TurnKeeps
<1> QED BY <1>1, <1>2, <1>3, <1>4

(* The marks that conflict with a path overlap it, and include all that contain it. *)
LEMMA ConflictsAre ==
  ASSUME NEW p
  PROVE  /\ \A d \in conflicting_dirty_paths(p) : d \in DOMAIN sync.cur /\ paths_overlap(d, p)
         /\ ~(is_dir(sync.index, p) /\ is_dir(local, p)) => conflicting_dirty_paths(p) = Overlapping(p)
         /\ \A d \in DOMAIN sync.cur : path_contains(d, p) => d \in conflicting_dirty_paths(p)
BY DEF conflicting_dirty_paths, Overlapping, paths_overlap

(* What a step of the pull must keep. *)
LEMMA PullKeeps ==
  ASSUME Inv, sync.pc \in {"delete", "fetch"},
         UNCHANGED <<policy, marks, dirty, next_generation, pull_conflicts, remote, owed, touched>>,
         IsFs(local'), FileOK(local', file'), file'.path = file.path, file'.dirty = file.dirty,
         NEW p \in sync.todo, NEW s, SyncOK(s), s.pc = sync.pc, s.snap = sync.snap, s.index = sync.index,
         s.pc = "delete" => Deleting(s, sync.todo \ {p}, local', touched),
         s.pc = "fetch" => Fetching(s, sync.todo \ {p}, local', touched),
         CopyOK(s), sync' = Advance(s, sync.todo \ {p})
  PROVE  Inv'
<1> DEFINE rest == sync.todo \ {p}
<1>1. SyncOK(sync) /\ IsFs(remote') /\ IsDirty(dirty', next_generation) /\ pull_conflicts' \subseteq Paths
      /\ IsDirty(sync.snap, next_generation)
  BY DEF Inv, Typed
<1>2. rest \in SUBSET Paths
  BY <1>1 DEF SyncOK
<1> HIDE DEF rest
<1>3. /\ SyncOK(sync') /\ PullOK(sync', local', touched)
      /\ sync'.snap = s.snap /\ sync'.cur = s.cur /\ sync'.retained = s.retained /\ sync'.pc \in {"delete", "fetch"}
  BY <1>2, AdvanceOK DEF rest
<1>4. CopyOK(sync')
  BY <1>3 DEF CopyOK
<1>5. /\ owed' \subseteq DOMAIN dirty' \cup Doing(marks, file) /\ Doing(marks, file) \subseteq touched
      /\ touched \cap owed \cap Same(dirty, sync.snap) \subseteq Doing(marks, file)
  BY IdleOK DEF Inv, Kept, Same, Unchanged
<1> QED BY <1>1, <1>3, <1>4, <1>5, SyncKeeps

(* A path skipped for its conflicts is reported. *)
LEMMA SkipStep ==
  ASSUME Inv, sync.pc \in {"delete", "fetch"}, NEW p \in sync.todo, ~Overwrites(p), Skip(p),
         UNCHANGED <<policy, marks, dirty, next_generation, pull_conflicts, remote, owed>>
  PROVE  Inv'
<1> DEFINE C == conflicting_dirty_paths(p)
           s == [sync EXCEPT !.retained = @ \cup C]
           rest == sync.todo \ {p}
<1>1. sync' = Advance(s, rest) /\ UNCHANGED <<local, file, touched>> /\ C # {}
  BY DEF Skip, Overwrites
<1>2. SyncOK(sync) /\ IsFs(local) /\ FileOK(local, file)
  BY DEF Inv, Typed
<1>3. \A d \in C : d \in DOMAIN sync.cur /\ paths_overlap(d, p)
  BY ConflictsAre
<1> HIDE DEF C
<1>4. /\ DOMAIN s = DOMAIN sync /\ s.pc = sync.pc /\ s.todo = sync.todo /\ s.then = sync.then
      /\ s.snap = sync.snap /\ s.cur = sync.cur /\ s.patch = sync.patch /\ s.index = sync.index
      /\ s.retained = sync.retained \cup C
  BY <1>2 DEF SyncOK
<1> HIDE DEF s
<1>5. SyncOK(s)
  BY <1>2, <1>4, IdleOK DEF SyncOK
<1>6. CopyOK(s)
  BY <1>3, <1>4 DEF Inv, CopyOK
<1>7. Reported(s.retained \cup touched, p) /\ \A q : Reported(sync.retained \cup touched, q) => Reported(s.retained \cup touched, q)
  BY <1>1, <1>3, <1>4 DEF Reported
<1>8. s.pc = "delete" => Deleting(s, rest, local, touched)
  BY <1>4, <1>7 DEF Inv, PullOK, Deleting
<1>9. s.pc = "fetch" => Fetching(s, rest, local, touched)
  BY <1>4, <1>7 DEF Inv, PullOK, Fetching
<1> QED BY <1>1, <1>2, <1>4, <1>5, <1>6, <1>8, <1>9, PullKeeps

(* A deletion. *)
LEMMA DeleteStep ==
  ASSUME Inv, pull_delete
  PROVE  Inv'
<1>0. /\ sync.pc = "delete" /\ SyncOK(sync) /\ IsFs(local)
      /\ UNCHANGED <<policy, marks, dirty, next_generation, pull_conflicts, remote, owed>>
  BY DEF Inv, Typed, pull_delete, marked, external
<1>1. PICK p \in sync.todo :
        \/ ~Overwrites(p) /\ Skip(p)
        \/ /\ Overwrites(p) /\ local' = remove_all(local, p) /\ file' = FileWithout(p) /\ UNCHANGED touched
           /\ sync' = Advance([sync EXCEPT !.cur = Without(@, Subpaths(p))], sync.todo \ {p})
        \/ GiveUp
  BY DEF pull_delete
<1>2. CASE ~Overwrites(p) /\ Skip(p)
  BY <1>0, <1>2, SkipStep
<1>3. CASE GiveUp
  BY <1>0, <1>3, ReturnKeeps DEF GiveUp
<1>4. CASE /\ Overwrites(p) /\ local' = remove_all(local, p) /\ file' = FileWithout(p) /\ UNCHANGED touched
           /\ sync' = Advance([sync EXCEPT !.cur = Without(@, Subpaths(p))], sync.todo \ {p})
  <2> DEFINE s == [sync EXCEPT !.cur = Without(@, Subpaths(p))]
             rest == sync.todo \ {p}
  <2>1. p \in Paths /\ p \in Seq(Nat) /\ path_contains(p, p) /\ p \notin DOMAIN sync.index /\ p # <<>>
    BY <1>0, PathIs, ContainsItself DEF Inv, SyncOK, PullOK, Deleting
  <2>2. IsFs(local')
    BY <1>0, <1>4, <2>1, RemoveFs
  <2>3. FileOK(local', file') /\ file'.path = file.path /\ file'.dirty = file.dirty
    BY <1>4, <2>1, <2>2, RemoveIs, FileWithoutOK
  <2>4. /\ DOMAIN s = DOMAIN sync /\ s.pc = sync.pc /\ s.todo = sync.todo /\ s.then = sync.then
        /\ s.snap = sync.snap /\ s.cur = Without(sync.cur, Subpaths(p)) /\ s.patch = sync.patch
        /\ s.index = sync.index /\ s.retained = sync.retained
    BY <1>0 DEF SyncOK
  <2> HIDE DEF s
  <2>5. SyncOK(s)
    BY <1>0, <2>4 DEF SyncOK
  <2>6. DOMAIN s.cur = DOMAIN sync.cur \ Subpaths(p)
    BY <2>4 DEF Without
  <2>7. ASSUME policy = "KeepLocal" PROVE DOMAIN sync.cur \cap Subpaths(p) = {}
    <3>1. conflicting_dirty_paths(p) = {}
      BY <1>4, <2>7 DEF Overwrites
    <3>2. ~is_dir(sync.index, p)
      BY <2>1 DEF is_dir, Node, Dir, Absent
    <3> QED BY <3>1, <3>2, ConflictsAre DEF Overlapping, Subpaths, paths_overlap
  <2>8. CopyOK(s)
    BY <2>4, <2>6, <2>7 DEF Inv, CopyOK
  <2>9. DOMAIN local' \subseteq DOMAIN local \ {p}
    BY <1>4, <2>1 DEF remove_all
  <2>10. Deleting(s, rest, local', touched)
    BY <1>0, <2>4, <2>9 DEF Inv, PullOK, Deleting
  <2>11. sync' = Advance(s, rest) /\ s.pc = "delete"
    BY <1>0, <1>4, <2>4 DEF s
  <2> QED BY <1>0, <1>4, <2>2, <2>3, <2>4, <2>5, <2>8, <2>10, <2>11, PullKeeps
<1> QED BY <1>1, <1>2, <1>3, <1>4

(* What fetching a path does to the tree: the path becomes the remote's, and every other *)
(* node stays or becomes the remote's.                                                   *)
LEMMA FetchedIs ==
  ASSUME IsFs(local), IsFs(sync.index), NEW p \in DOMAIN sync.index, CanFetch(p)
  PROVE  /\ IsFs(Fetched(p)) /\ Node(Fetched(p), p) = sync.index[p]
         /\ \A q \in Paths : Node(Fetched(p), q) \in {Node(local, q), Node(sync.index, q)}
         /\ \A q \in Paths : ~paths_overlap(q, p) => Node(Fetched(p), q) = Node(local, q)
         /\ \A q \in Paths : ~path_contains(p, q) /\ q \in DOMAIN local => Node(Fetched(p), q) = Node(local, q)
         /\ is_dir(local, p) /\ is_dir(sync.index, p) => Fetched(p) = local
<1> DEFINE t == Fetched(p)
           above == parent_path(p)
           base == remove_all(local, p)
<1>0. /\ p \in Paths /\ p \in Seq(Nat) /\ p # <<>> /\ sync.index[p] \in Data \cup {Dir}
      /\ Node(sync.index, p) = sync.index[p] /\ path_contains(p, p)
  <2>1. p \in Paths /\ sync.index[p] \in Data \cup {Dir}
    BY DEF IsFs, IsTyped
  <2>2. p \in Seq(Nat) /\ p # <<>> /\ path_contains(p, p)
    BY <2>1, PathIs, ContainsItself
  <2> QED BY <2>1, <2>2 DEF Node
<1>1. above \in Seq(Nat) /\ above \in Paths \cup {<<>>} /\ path_contains(above, p) /\ ~path_contains(p, above) /\ above # p
  BY <1>0, PathIs, ParentContains
<1> HIDE DEF above
<1>2. IsFs(base) /\ p \notin DOMAIN base
      /\ \A q : ~path_contains(p, q) => Node(base, q) = Node(local, q) /\ (q \in DOMAIN base <=> q \in DOMAIN local)
  <2>1. IsFs(base)
    BY <1>0, RemoveFs
  <2>2. \A q : ~path_contains(p, q) => Node(base, q) = Node(local, q)
    BY RemoveIs
  <2>3. DOMAIN base = {q \in DOMAIN local : ~path_contains(p, q)}
    BY DEF remove_all
  <2> HIDE DEF base
  <2> QED BY <1>0, <2>1, <2>2, <2>3
<1>3. \A q \in Paths : path_contains(p, q) => Node(base, q) = Absent
  <2>1. \A q \in Paths : q # <<>>
    BY PathIs
  <2> QED BY <2>1 DEF Node, remove_all
<1> HIDE DEF base
<1>4. ASSUME NEW q \in Paths, path_contains(q, p), q # p
      PROVE  /\ path_contains(q, above) /\ ~path_contains(p, q) /\ ~is_leaf(base, q)
             /\ q \in DOMAIN sync.index /\ Node(sync.index, q) = Dir
  <2>1. q \in Seq(Nat) /\ q # <<>>
    BY PathIs
  <2>2. path_contains(q, above)
    BY <1>0, <1>4, <2>1, BelowItsParent DEF above
  <2>3. ~path_contains(p, q)
    BY <1>0, <1>4, <2>1, ContainsBothWays
  <2>4. is_dir(sync.index, q)
    BY <1>0, <1>4, <2>1, AncestorIsDir
  <2>5. ~is_leaf(local, q)
    <3>1. CASE Len(p) = 1
      <4>1. Len(above) = 0
        <5>1. Len(above) = Len(p) - 1
          BY <1>0, ParentIs DEF above
        <5> QED BY <3>1, <5>1
      <4>2. above = <<>>
        BY <1>1, <4>1, EmptySeq
      <4> QED BY <2>1, <2>2, <4>2, ContainsRoot
    <3>2. CASE CanMkdirAll(local, above)
      BY <1>1, <2>2, <3>2, UptoIs DEF CanMkdirAll
    <3> QED BY <3>1, <3>2 DEF CanFetch, above
  <2>6. ~is_leaf(base, q)
    BY <1>2, <2>3, <2>5 DEF is_leaf, exists, is_dir
  <2> QED BY <2>1, <2>2, <2>3, <2>4, <2>6 DEF is_dir, Node, Dir, Absent
<1>5. CASE is_dir(sync.index, p) /\ is_dir(local, p)
  <2>1. t = local
    BY <1>5 DEF Fetched
  <2>2. Node(local, p) = sync.index[p]
    BY <1>0, <1>5 DEF is_dir
  <2> HIDE DEF t
  <2> QED BY <2>1, <2>2 DEF t
<1>6. CASE is_dir(sync.index, p) /\ ~is_dir(local, p)
  <2>1. t = mkdir_all(base, p)
    BY <1>6 DEF Fetched, base
  <2>2. CanMkdirAll(base, p)
    <3> SUFFICES ASSUME NEW q \in Paths, path_contains(q, p) PROVE ~is_leaf(base, q)
      BY <1>0, UptoIs DEF CanMkdirAll
    <3>1. CASE q = p
      BY <1>0, <1>3, <3>1 DEF is_leaf, exists
    <3>2. CASE q # p
      BY <1>4, <3>2
    <3> QED BY <3>1, <3>2
  <2>3. IsFs(t) /\ is_dir(t, p)
    BY <1>0, <1>2, <2>1, <2>2, MkdirFs
  <2>4. \A q : Node(t, q) = IF q \in Paths /\ path_contains(q, p) /\ q \notin DOMAIN base THEN Dir ELSE Node(base, q)
    BY <1>0, <2>1, MkdirIs
  <2> HIDE DEF t
  <2>5. Node(t, p) = sync.index[p]
    BY <1>0, <1>6, <2>3 DEF is_dir
  <2>6. ASSUME NEW q \in Paths, path_contains(p, q), q # p PROVE Node(t, q) = Node(local, q)
    <3>1. q \notin DOMAIN local
      BY <1>0, <1>6, <2>6, AncestorIsDir
    <3>2. q # <<>> /\ q \in Seq(Nat)
      BY PathIs
    <3>3. ~path_contains(q, p)
      BY <1>0, <2>6, <3>2, ContainsBothWays
    <3> QED BY <1>3, <2>4, <2>6, <3>1, <3>2, <3>3 DEF Node
  <2>7. ASSUME NEW q \in Paths, path_contains(q, p), q # p
        PROVE  Node(t, q) \in {Node(local, q), Node(sync.index, q)} /\ (q \in DOMAIN local => Node(t, q) = Node(local, q))
    BY <1>2, <1>4, <2>4, <2>7
  <2>8. ASSUME NEW q \in Paths, ~path_contains(p, q), ~path_contains(q, p) PROVE Node(t, q) = Node(local, q)
    BY <1>2, <2>4, <2>8
  <2> QED BY <1>0, <1>6, <2>3, <2>5, <2>6, <2>7, <2>8 DEF t, paths_overlap
<1>7. CASE ~is_dir(sync.index, p)
  <2> DEFINE m == mkdir_all(base, above)
  <2>1. t = Put(m, p, sync.index[p])
    BY <1>7 DEF Fetched, base, above
  <2>2. CanMkdirAll(base, above)
    <3> SUFFICES ASSUME NEW q \in Paths, path_contains(q, above) PROVE ~is_leaf(base, q)
      BY <1>1, UptoIs DEF CanMkdirAll
    <3>1. q \in Seq(Nat)
      BY PathIs
    <3>2. path_contains(q, p) /\ q # p
      BY <1>0, <1>1, <3>1, ContainsTransitively
    <3> QED BY <1>4, <3>2
  <2>3. IsFs(m) /\ is_dir(m, above)
    BY <1>1, <1>2, <2>2, MkdirFs
  <2>4. \A q : Node(m, q) = IF q \in Paths /\ path_contains(q, above) /\ q \notin DOMAIN base THEN Dir ELSE Node(base, q)
    BY <1>1, MkdirIs
  <2> HIDE DEF m
  <2>5. Node(m, p) = Absent
    BY <1>0, <1>1, <1>3, <2>4
  <2>6. IsFs(t)
    BY <1>0, <2>1, <2>3, <2>5, PutFs DEF is_dir, Dir, Absent, above
  <2>7. Node(t, p) = sync.index[p] /\ \A q : q # p => Node(t, q) = Node(m, q)
    BY <1>0, <2>1, PutIs DEF Put, Node
  <2> HIDE DEF t
  <2>8. ASSUME NEW q \in Paths, path_contains(p, q), q # p PROVE Node(t, q) = Node(sync.index, q)
    <3>1. q \notin DOMAIN sync.index
      BY <1>0, <1>7, <2>8, AncestorIsDir
    <3>2. q # <<>> /\ q \in Seq(Nat)
      BY PathIs
    <3>3. ~path_contains(q, above)
      BY <1>0, <1>1, <2>8, <3>2, ContainsBothWays, ContainsTransitively
    <3> QED BY <1>3, <2>4, <2>7, <2>8, <3>1, <3>2, <3>3 DEF Node
  <2>9. ASSUME NEW q \in Paths, path_contains(q, p), q # p
        PROVE  Node(t, q) \in {Node(local, q), Node(sync.index, q)} /\ (q \in DOMAIN local => Node(t, q) = Node(local, q))
    BY <1>2, <1>4, <2>4, <2>7, <2>9
  <2>10. ASSUME NEW q \in Paths, ~path_contains(p, q), ~path_contains(q, p) PROVE Node(t, q) = Node(local, q)
    <3>1. q \in Seq(Nat)
      BY PathIs
    <3>2. ~path_contains(q, above)
      BY <1>0, <1>1, <2>10, <3>1, ContainsTransitively
    <3> QED BY <1>0, <1>2, <2>4, <2>7, <2>10, <3>2
  <2> QED BY <1>0, <1>7, <2>6, <2>7, <2>8, <2>9, <2>10 DEF t, paths_overlap
<1> QED BY <1>5, <1>6, <1>7

(* A fetch. *)
LEMMA FetchStep ==
  ASSUME Inv, pull_fetch
  PROVE  Inv'
<1>0. /\ sync.pc = "fetch" /\ SyncOK(sync) /\ IsFs(local) /\ IsFs(sync.index) /\ FileOK(local, file)
      /\ UNCHANGED <<policy, marks, dirty, next_generation, pull_conflicts, remote, owed>>
  BY DEF Inv, Typed, SyncOK, pull_fetch, marked, external
<1>1. PICK p \in sync.todo :
        \/ ~Overwrites(p) /\ Skip(p)
        \/ /\ Overwrites(p) /\ CanFetch(p) /\ local' = Fetched(p) /\ UNCHANGED touched
           /\ file' = IF is_dir(sync.index, p) = is_dir(local, p) THEN file ELSE FileWithout(p)
           /\ sync' = Advance([sync EXCEPT !.cur = Without(@, IF is_dir(sync.index, p) THEN {p} ELSE Subpaths(p))],
                              sync.todo \ {p})
        \/ GiveUp
  BY DEF pull_fetch
<1>2. CASE ~Overwrites(p) /\ Skip(p)
  BY <1>0, <1>2, SkipStep
<1>3. CASE GiveUp
  BY <1>0, <1>3, ReturnKeeps DEF GiveUp
<1>4. CASE /\ Overwrites(p) /\ CanFetch(p) /\ local' = Fetched(p) /\ UNCHANGED touched
           /\ file' = IF is_dir(sync.index, p) = is_dir(local, p) THEN file ELSE FileWithout(p)
           /\ sync' = Advance([sync EXCEPT !.cur = Without(@, IF is_dir(sync.index, p) THEN {p} ELSE Subpaths(p))],
                              sync.todo \ {p})
  <2> DEFINE gone == IF is_dir(sync.index, p) THEN {p} ELSE Subpaths(p)
             s == [sync EXCEPT !.cur = Without(@, gone)]
             rest == sync.todo \ {p}
  <2>1. p \in DOMAIN sync.index
    BY <1>0 DEF Inv, PullOK, Fetching
  <2>2. /\ p \in Paths /\ p \in Seq(Nat) /\ p # <<>> /\ path_contains(p, p) /\ sync.index[p] \in Data \cup {Dir}
        /\ Node(sync.index, p) = sync.index[p]
    BY <1>0, <2>1, PathIs, ContainsItself DEF SyncOK, IsFs, IsTyped, Node
  <2>3. /\ IsFs(local') /\ Node(local', p) = sync.index[p]
        /\ \A q \in Paths : Node(local', q) \in {Node(local, q), Node(sync.index, q)}
        /\ \A q \in Paths : ~path_contains(p, q) /\ q \in DOMAIN local => Node(local', q) = Node(local, q)
        /\ is_dir(local, p) /\ is_dir(sync.index, p) => local' = local
    BY <1>0, <1>4, <2>1, FetchedIs
  <2>4. file.linked = TRUE => is_leaf(local, file.path) /\ file.path \in DOMAIN local /\ file.path \in Paths
    BY <1>0, LeafIs DEF FileOK
  <2>5. FileOK(local', file') /\ file'.path = file.path /\ file'.dirty = file.dirty
    <3>1. CASE is_dir(sync.index, p) = is_dir(local, p)
      <4>1. file' = file
        BY <1>4, <3>1
      <4>2. ASSUME file.linked = TRUE PROVE is_leaf(local', file.path)
        <5>1. CASE is_dir(local, p)
          BY <2>3, <2>4, <3>1, <4>2, <5>1
        <5>2. CASE ~is_dir(local, p) /\ path_contains(p, file.path)
          <6>1. file.path = p
            BY <1>0, <2>2, <2>4, <4>2, <5>2, AncestorIsDir
          <6>2. sync.index[p] \in Data
            BY <2>2, <3>1, <5>2 DEF is_dir
          <6> QED BY <2>3, <6>1, <6>2, DataIsNotDir DEF is_leaf, exists, is_dir
        <5>3. CASE ~path_contains(p, file.path)
          BY <2>3, <2>4, <4>2, <5>3 DEF is_leaf, exists, is_dir
        <5> QED BY <5>1, <5>2, <5>3
      <4>3. FileOK(local', file)
        BY <4>2, SameFile
      <4> QED BY <4>1, <4>3
    <3>2. CASE is_dir(sync.index, p) # is_dir(local, p)
      <4>1. file' = FileWithout(p)
        BY <1>4, <3>2
      <4>2. file.linked = TRUE /\ ~path_contains(p, file.path) => Node(local', file.path) = Node(local, file.path)
        BY <2>3, <2>4
      <4>3. \A t : IsFs(t) /\ (file.linked = TRUE /\ ~path_contains(p, file.path) => Node(t, file.path) = Node(local, file.path))
              => FileOK(t, FileWithout(p)) /\ FileWithout(p).path = file.path /\ FileWithout(p).dirty = file.dirty
        BY <2>2, FileWithoutOK
      <4> QED BY <2>3, <4>1, <4>2, <4>3
    <3> QED BY <3>1, <3>2
  <2>6. /\ DOMAIN s = DOMAIN sync /\ s.pc = sync.pc /\ s.todo = sync.todo /\ s.then = sync.then
        /\ s.snap = sync.snap /\ s.cur = Without(sync.cur, gone) /\ s.patch = sync.patch
        /\ s.index = sync.index /\ s.retained = sync.retained
    BY <1>0 DEF SyncOK
  <2>a. sync' = Advance(s, rest)
    BY <1>4
  <2> HIDE DEF s
  <2>7. SyncOK(s)
    BY <1>0, <2>6 DEF SyncOK
  <2>8. DOMAIN s.cur = DOMAIN sync.cur \ gone
    BY <2>6 DEF Without
  <2>9. ASSUME policy = "KeepLocal" PROVE DOMAIN sync.cur \cap gone = {}
    <3>1. conflicting_dirty_paths(p) = {}
      BY <1>4, <2>9 DEF Overwrites
    <3>2. CASE is_dir(sync.index, p)
      BY <2>2, <3>1, <3>2, ConflictsAre
    <3>3. CASE ~is_dir(sync.index, p)
      BY <3>1, <3>3, ConflictsAre DEF Overlapping, Subpaths, paths_overlap
    <3> QED BY <3>2, <3>3
  <2>10. CopyOK(s)
    BY <2>6, <2>8, <2>9 DEF Inv, CopyOK
  <2>11. Fetching(s, rest, local', touched)
    <3> DEFINE R(q) == Reported(sync.retained \cup touched, q)
    <3>0. /\ sync.todo \subseteq DOMAIN sync.index
          /\ \A q \in DOMAIN local \ DOMAIN sync.index : R(q)
          /\ \A q \in DOMAIN sync.index : q \in sync.todo \/ Node(local, q) = sync.index[q] \/ R(q)
      BY <1>0 DEF Inv, PullOK, Fetching
    <3> HIDE DEF R
    <3>1. ASSUME NEW q \in DOMAIN local' \ DOMAIN sync.index PROVE R(q)
      <4>1. q \in Paths /\ q # <<>> /\ local'[q] # Absent
        BY <2>3, PathIs, DataIsNotDir DEF IsFs, IsTyped, Dir, Absent
      <4>2. Node(local', q) # Absent /\ Node(sync.index, q) = Absent
        BY <4>1 DEF Node
      <4>3. Node(local', q) = Node(local, q)
        BY <2>3, <4>1, <4>2
      <4>4. q \in DOMAIN local
        BY <4>1, <4>2, <4>3 DEF Node
      <4> QED BY <3>0, <4>4
    <3>2. ASSUME NEW q \in DOMAIN sync.index PROVE q \in rest \/ Node(local', q) = sync.index[q] \/ R(q)
      <4>1. q \in Paths /\ Node(sync.index, q) = sync.index[q]
        BY <1>0, PathIs DEF IsFs, IsTyped, Node
      <4>2. CASE q = p
        BY <2>3, <4>2
      <4>3. CASE q # p
        BY <2>3, <3>0, <4>1, <4>3
      <4> QED BY <4>2, <4>3
    <3> QED BY <2>6, <3>0, <3>1, <3>2 DEF Fetching, R
  <2>12. s.pc = "fetch"
    BY <1>0, <2>6
  <2> QED BY <1>0, <1>4, <2>3, <2>5, <2>6, <2>7, <2>a, <2>10, <2>11, <2>12, PullKeeps
<1> QED BY <1>1, <1>2, <1>3, <1>4

(* The end of a pull. *)
LEMMA FinishStep ==
  ASSUME Inv, pull_finish
  PROVE  Inv'
<1> DEFINE done == Unchanged(sync.snap) \ DOMAIN sync.cur
<1>1. /\ sync.pc = "fetch" /\ dirty' = Without(dirty, done) /\ sync' = Idle /\ touched' = {}
      /\ owed' = owed \ ((DOMAIN sync.snap \ DOMAIN sync.cur) \ touched)
      /\ pull_conflicts' \subseteq sync.retained
      /\ UNCHANGED <<policy, local, marks, file, next_generation, remote>>
  BY DEF pull_finish, user, external, Return, Settled
<1>2. /\ next_generation \in Nat /\ IsFs(local') /\ IsFs(remote') /\ FileOK(local', file')
      /\ sync.retained \subseteq Paths
  BY <1>1 DEF Inv, Typed, CopyOK, IsDirty
<1>3. IsDirty(dirty', next_generation) /\ pull_conflicts' \subseteq Paths /\ DOMAIN dirty' = DOMAIN dirty \ done
  BY <1>1, <1>2 DEF Inv, Typed, IsDirty, Without
<1>4. owed' \subseteq DOMAIN dirty' \cup Doing(marks, file)
  <2>1. done \subseteq DOMAIN sync.snap
    BY DEF Unchanged
  <2> QED BY <1>1, <1>3, <2>1 DEF Inv, Kept
<1>6. SyncOK(sync') /\ CopyOK(sync') /\ PullOK(sync', local', touched') /\ sync'.snap = NoDirty /\ sync'.pc # "clear"
  BY <1>1, IdleOK DEF PullOK
<1>7. IsDirty(sync'.snap, next_generation) /\ Same(dirty', sync'.snap) = {}
  BY <1>2, <1>6, NoDirtyIs
<1> HIDE DEF Idle, done
<1> QED BY <1>1, <1>2, <1>3, <1>4, <1>6, <1>7, SyncKeeps

(* A change of the remote by another client. *)
LEMMA RemoteStep ==
  ASSUME Inv, NEW p \in Paths, NEW node \in Data \cup {Dir, Absent}, RemoteChange(p, node)
  PROVE  Inv'
<1>1. /\ UNCHANGED <<policy, local, marks, file, dirty, next_generation, pull_conflicts, sync, owed, touched>>
      /\ remote' = IF node = Absent THEN remove_all(remote, p) ELSE Put(remove_all(remote, p), p, node)
      /\ is_dir(remote, parent_path(p))
  BY DEF RemoteChange, user, marked
<1>2. IsFs(remote) /\ IsFs(remove_all(remote, p))
  BY RemoveFs DEF Inv, Typed
<1>3. p # <<>> /\ path_contains(p, p) /\ ~path_contains(p, parent_path(p))
  BY PathIs, ContainsItself, ParentContains
<1>4. is_dir(remove_all(remote, p), parent_path(p)) /\ ~is_dir(remove_all(remote, p), p)
  <2>1. is_dir(remove_all(remote, p), parent_path(p))
    BY <1>1, <1>3, RemoveIs DEF is_dir
  <2>2. ~is_dir(remove_all(remote, p), p)
    BY <1>3 DEF is_dir, Node, remove_all, Dir, Absent
  <2> QED BY <2>1, <2>2
<1>5. IsFs(remote')
  BY <1>1, <1>2, <1>4, PutFs
<1>6. Typed'
  BY <1>1, <1>5 DEF Inv, Typed
<1>7. Kept' /\ CopyOK(sync)' /\ PullOK(sync, local, touched)'
  BY <1>1 DEF Inv, Kept, CopyOK, Unchanged
<1> QED BY <1>6, <1>7 DEF Inv

(* Steps that change nothing. *)
LEMMA Stutter ==
  ASSUME Inv, UNCHANGED vars
  PROVE  Inv'
<1>1. UNCHANGED <<policy, local, marks, file, dirty, next_generation, pull_conflicts, sync, remote, remoteChanges, owed, touched>>
  BY DEF vars, user, marked, external
<1> QED BY <1>1 DEF Inv, Typed, Kept, CopyOK, Unchanged

(* The initial states. *)
LEMMA Initially ==
  ASSUME Init
  PROVE  Inv
<1>1. /\ policy \in {"KeepLocal", "PreferRemote"} /\ local \in Trees /\ remote = local /\ dirty = NoDirty
      /\ next_generation = 0 /\ pull_conflicts = {} /\ marks = <<>> /\ file = NoFile /\ sync = Idle
      /\ owed = {} /\ touched = {}
  BY InitTreesAreTrees DEF Init
<1>2. IsFs(local) /\ IsFs(remote)
  BY <1>1, FsIsTree
<1>3. MarksOK(marks) /\ FileOK(local, file) /\ Len(marks) = 0
  BY <1>1, EmptySeq DEF MarksOK, FileOK, NoFile
<1>4. IsDirty(NoDirty, 0) /\ Same(NoDirty, NoDirty) = {} /\ DOMAIN NoDirty = {}
  BY NoDirtyIs
<1>5. Typed
  BY <1>1, <1>2, <1>3, <1>4, IdleOK, SyncBounds DEF Typed
<1>6. Kept /\ PullOK(sync, local, touched)
  BY <1>1, IdleOK DEF Kept, PullOK
<1>7. CopyOK(sync)
  BY <1>1, IdleOK
<1> QED BY <1>5, <1>6, <1>7 DEF Inv

(* The invariant holds throughout. *)
THEOREM Invariance == Spec => []Inv
<1>1. Init => Inv
  BY Initially
<1>2. Inv /\ [Next]_vars => Inv'
  <2> SUFFICES ASSUME Inv, [Next]_vars PROVE Inv'
    OBVIOUS
  <2>1. CASE UserNext
    BY <2>1, UserStep, CloseFailsStep, MarkStep DEF UserNext
  <2>2. CASE SyncNext
    BY <2>2, PushStep, BuildStep, ApplyStep, ClearStep, StartStep, DeleteStep, FetchStep, FinishStep DEF SyncNext
  <2>3. CASE \E p \in Paths, node \in Data \cup {Dir, Absent} : RemoteChange(p, node)
    BY <2>3, RemoteStep
  <2>4. CASE UNCHANGED vars
    BY <2>4, Stutter
  <2> QED BY <2>1, <2>2, <2>3, <2>4 DEF Next
<1> QED BY <1>1, <1>2, PTL DEF Spec

(* The local tree and the remote's stay file systems: no entry of a patch, no fetch and *)
(* no deletion leaves a node without a directory above it.                              *)
THEOREM TypeCorrect == Spec => []TypeOK
<1>1. Inv => TypeOK
  <2> SUFFICES ASSUME Inv PROVE TypeOK
    OBVIOUS
  <2>1. local \in Trees /\ remote \in Trees
    BY FsIsTree DEF Inv, Typed
  <2>2. next_generation \in 0..MaxGeneration
    BY SyncBounds, LenProperties DEF Inv, Typed, MarksOK
  <2>3. file.path \in Paths \cup {<<>>} /\ (file.linked => is_leaf(local, file.path))
    BY DEF Inv, Typed, FileOK, NoFile
  <2> QED BY <2>1, <2>2, <2>3 DEF Inv, Typed, IsDirty, TypeOK
<1> QED BY <1>1, Invariance, PTL

(* No mark is dropped before it is served (push_clear, mark_dirty): a change made while a *)
(* push is in flight stays marked.                                                        *)
THEOREM NoMarkIsLost == Spec => []MarksAreKept
<1>1. Inv => MarksAreKept
  BY DEF Inv, Kept, MarksAreKept, InProgress, Doing
<1> QED BY <1>1, Invariance, PTL

(* Under KeepLocal the paths a pull overwrites do not overlap a dirty one, except a *)
(* directory that stays one.                                                        *)
LEMMA PullLeavesDirty ==
  ASSUME Inv, policy = "KeepLocal", NEW p \in sync.todo, Overwrites(p), NEW d \in DOMAIN sync.snap,
         sync.pc \in {"delete", "fetch"}
  PROVE  \/ is_dir(sync.index, p) /\ is_dir(local, p)
         \/ ~paths_overlap(d, p)
<1>1. DOMAIN sync.cur = DOMAIN sync.snap
  BY DEF Inv, CopyOK
<1>2. conflicting_dirty_paths(p) = {}
  BY DEF Overwrites
<1> QED BY <1>1, <1>2, ConflictsAre DEF Overlapping

(* Under KeepLocal no step of a pull changes a node that was dirty when the pull began. *)
LEMMA PullKeepsEdits ==
  ASSUME Inv, [Next]_vars, policy = "KeepLocal", sync.pc \in {"delete", "fetch"}, sync' # sync,
         NEW d \in DOMAIN sync.snap
  PROVE  Node(local', d) = Node(local, d)
<1>0. d \in Paths /\ SyncOK(sync) /\ IsFs(local) /\ IsFs(sync.index)
  BY DEF Inv, Typed, IsDirty, SyncOK
<1>1. CASE UserNext
  BY <1>1 DEF UserNext, mkdir, remove, rename_path, link, truncate, chmod, create, open_file, write, close, close_fails, mark_dirty, LocalCall
<1>2. CASE \E p \in Paths, node \in Data \cup {Dir, Absent} : RemoteChange(p, node)
  BY <1>2 DEF RemoteChange
<1>3. CASE UNCHANGED vars
  BY <1>3 DEF vars
<1>4. CASE pull_delete
  <2>1. PICK p \in sync.todo : UNCHANGED local \/ (Overwrites(p) /\ local' = remove_all(local, p))
    BY <1>4 DEF pull_delete, Skip, GiveUp
  <2>2. CASE Overwrites(p) /\ local' = remove_all(local, p)
    <3>1. p \notin DOMAIN sync.index /\ p \in Paths /\ sync.pc = "delete"
      BY <1>0, <1>4 DEF Inv, PullOK, Deleting, SyncOK, pull_delete
    <3>2. ~is_dir(sync.index, p)
      BY <3>1, PathIs DEF is_dir, Node, Dir, Absent
    <3>3. ~paths_overlap(d, p)
      BY <2>2, <3>2, PullLeavesDirty
    <3> QED BY <2>2, <3>3, RemoveIs DEF paths_overlap
  <2> QED BY <2>1, <2>2
<1>5. CASE pull_fetch
  <2>1. PICK p \in sync.todo : UNCHANGED local \/ (Overwrites(p) /\ CanFetch(p) /\ local' = Fetched(p))
    BY <1>5 DEF pull_fetch, Skip, GiveUp
  <2>2. CASE Overwrites(p) /\ CanFetch(p) /\ local' = Fetched(p)
    <3>1. p \in DOMAIN sync.index
      BY <1>5 DEF Inv, PullOK, Fetching, pull_fetch
    <3>2. /\ \A q \in Paths : ~paths_overlap(q, p) => Node(Fetched(p), q) = Node(local, q)
          /\ is_dir(local, p) /\ is_dir(sync.index, p) => Fetched(p) = local
      BY <1>0, <2>2, <3>1, FetchedIs
    <3> QED BY <1>0, <2>2, <3>2, PullLeavesDirty
  <2> QED BY <2>1, <2>2
<1>6. CASE pull_finish
  BY <1>6 DEF pull_finish, user
<1>7. CASE SyncNext
  BY <1>4, <1>5, <1>6, <1>7, IdleOK DEF SyncNext, push, build_patch, apply_sync_patch, apply_patch, apply_patch_fails,
     push_clear, pull, pull_index, pull_snapshot, pull_collect
<1> QED BY <1>1, <1>2, <1>3, <1>7 DEF Next

(* At the end of a pull whatever differs from the remote overlaps a retained conflict or *)
(* a path touched meanwhile.                                                             *)
LEMMA FinishReports ==
  ASSUME Inv, pull_finish, NEW p \in Paths, Node(local, p) # Node(sync.index, p)
  PROVE  Reported(sync.retained \cup touched, p)
<1>1. Fetching(sync, {}, local, touched) /\ p # <<>>
  BY PathIs DEF Inv, PullOK, pull_finish
<1> QED BY <1>1 DEF Fetching, Node

(* A pull keeps local changes under KeepLocal and reports every difference it leaves *)
(* (pull, conflicting_dirty_paths).                                                  *)
THEOREM EditsSurvivePulls == Spec => DirtyPathsAreKept
<1>1. ASSUME Inv, [Next]_vars
      PROVE  [/\ policy = "KeepLocal" /\ sync.pc \in {"delete", "fetch"} /\ sync' # sync =>
                   \A p \in DOMAIN sync.snap : Node(local', p) = Node(local, p)
              /\ pull_finish /\ RetainConflicts =>
                   \A p \in Paths :
                     Node(local, p) # Node(sync.index, p) =>
                       \E d \in pull_conflicts' \cup touched : paths_overlap(d, p)]_vars
  <2>1. policy = "KeepLocal" /\ sync.pc \in {"delete", "fetch"} /\ sync' # sync =>
          \A p \in DOMAIN sync.snap : Node(local', p) = Node(local, p)
    BY <1>1, PullKeepsEdits
  <2>2. ASSUME pull_finish, RetainConflicts, NEW p \in Paths, Node(local, p) # Node(sync.index, p)
        PROVE  \E d \in pull_conflicts' \cup touched : paths_overlap(d, p)
    <3>1. pull_conflicts' = sync.retained
      BY <2>2 DEF pull_finish
    <3> QED BY <1>1, <2>2, <3>1, FinishReports DEF Reported
  <2> QED BY <2>1, <2>2
<1> QED BY <1>1, Invariance, PTL DEF Spec, DirtyPathsAreKept

(* A pull that ends with nothing dirty and nothing touched leaves the local tree equal to *)
(* the index it fetched (sync).                                                           *)
THEOREM QuietSyncIsExact == Spec => QuietSyncConverges
<1>1. ASSUME Inv, pull_finish, touched = {}, DOMAIN sync.snap = {}
      PROVE  local = sync.index
  <2>1. sync.retained = {}
    BY <1>1 DEF Inv, CopyOK
  <2>2. \A p \in Paths : Node(local, p) = Node(sync.index, p)
    BY <1>1, <2>1, FinishReports DEF Reported
  <2>3. IsFs(local) /\ IsFs(sync.index)
    BY <1>1 DEF Inv, Typed, SyncOK
  <2>4. \A p \in Paths : p # <<>>
    BY PathIs
  <2>5. /\ \A p \in DOMAIN local : p \in Paths /\ local[p] # Absent
        /\ \A p \in DOMAIN sync.index : p \in Paths /\ sync.index[p] # Absent
    BY <2>3, DataIsNotDir DEF IsFs, IsTyped, Dir, Absent
  <2>6. DOMAIN local = DOMAIN sync.index
    BY <2>2, <2>4, <2>5 DEF Node
  <2>7. \A p \in DOMAIN local : local[p] = sync.index[p]
    BY <2>2, <2>4, <2>5, <2>6 DEF Node
  <2> QED BY <2>3, <2>6, <2>7 DEF IsFs
<1>2. Inv /\ [Next]_vars => [pull_finish /\ touched = {} /\ DOMAIN sync.snap = {} => local = sync.index]_vars
  BY <1>1
<1> QED BY <1>2, Invariance, PTL DEF Spec, QuietSyncConverges
=============================================================================
