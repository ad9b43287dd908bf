------------------------------ MODULE FileTree ------------------------------
(***************************************************************************)
(* A mutable file system as the code above it sees one (LocalFs and the    *)
(* helpers of crates/star9-fs/src/lib.rs): a partial function from paths   *)
(* to nodes.  A path is the sequence of its names, <<>> is the root ".", a *)
(* name is a number so that names have the order BTreeMap gives them, and  *)
(* a node is Dir or the contents of a leaf (a file or a symbolic link).    *)
(***************************************************************************)
EXTENDS Naturals, Sequences, SequencesExt

CONSTANTS
  Paths,  (* the paths in use, without the root *)
  Data    (* the contents of leaves             *)

ASSUME PathsAreNames == \A p \in Paths : p \in Seq(Nat) /\ p # <<>>
ASSUME PathsAreClosed == \A p \in Paths : Len(p) = 1 \/ Front(p) \in Paths

Dir == "dir"
Absent == "absent"
ASSUME DataIsNotDir == Dir \notin Data /\ Absent \notin Data

parent_path(p) == Front(p)
path_contains(ancestor, descendant) == IsPrefix(ancestor, descendant)
paths_overlap(p, q) == path_contains(p, q) \/ path_contains(q, p)

Node(t, p) == IF p = <<>> THEN Dir ELSE IF p \in DOMAIN t THEN t[p] ELSE Absent
exists(t, p) == Node(t, p) # Absent
is_dir(t, p) == Node(t, p) = Dir
is_leaf(t, p) == exists(t, p) /\ ~is_dir(t, p)
is_empty(t, p) == \A q \in DOMAIN t : ~IsStrictPrefix(p, q)

(* Every node lies in a directory. *)
IsTree(t) == \A p \in DOMAIN t : is_dir(t, parent_path(p))
Trees == {t \in UNION {[S -> Data \cup {Dir}] : S \in SUBSET Paths} : IsTree(t)}

Put(t, p, node) == [q \in DOMAIN t \cup {p} |-> IF q = p THEN node ELSE t[q]]
remove_all(t, p) == [q \in {r \in DOMAIN t : ~path_contains(p, r)} |-> t[q]]

(* The directories mkdir_all walks through to p; it fails where a leaf is in the way. *)
Upto(p) == {SubSeq(p, 1, n) : n \in 1..Len(p)}
CanMkdirAll(t, p) == \A q \in Upto(p) : ~is_leaf(t, q)
mkdir_all(t, p) == [q \in DOMAIN t \cup Upto(p) |-> IF q \in DOMAIN t THEN t[q] ELSE Dir]

(* rename(2) of a subtree: what is below `old` is below `new` afterwards. *)
Rebase(p, old, new) == new \o SubSeq(p, Len(old) + 1, Len(p))
Moved(t, old, new) == {Rebase(p, old, new) : p \in {q \in DOMAIN t : path_contains(old, q)}}
CanRename(t, old, new) ==
  /\ exists(t, old) /\ ~path_contains(old, new)
  /\ is_dir(t, parent_path(new))
  /\ IF is_dir(t, old) THEN ~is_leaf(t, new) /\ is_empty(t, new) ELSE ~is_dir(t, new)
  /\ Moved(t, old, new) \subseteq Paths
rename(t, old, new) ==
  LET rest == remove_all(remove_all(t, old), new)
  IN  [q \in DOMAIN rest \cup Moved(t, old, new) |->
         IF path_contains(new, q) THEN t[Rebase(q, new, old)] ELSE rest[q]]

(* The order of a BTreeMap keyed by path, and the order of collect_paths.  The*)
(* code compares the bytes of the strings, which is the order of the names    *)
(* one after the other where no name has a character below "/".               *)
PathLess(p, q) ==
  \/ IsStrictPrefix(p, q)
  \/ \E n \in 1..Len(p) : n <= Len(q) /\ SubSeq(p, 1, n - 1) = SubSeq(q, 1, n - 1) /\ p[n] < q[n]
ShallowFirst(p, q) == Len(p) < Len(q) \/ (Len(p) = Len(q) /\ PathLess(p, q))
collect_paths(t) == SetToSortSeq(DOMAIN t, ShallowFirst)
Subtree(t, p) == SetToSortSeq({q \in DOMAIN t : path_contains(p, q)}, PathLess)

=============================================================================
