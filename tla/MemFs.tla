------------------------------- MODULE MemFs --------------------------------
(***************************************************************************)
(* star9_fs::MemFs (crates/star9-fs/src/lib.rs): one map from paths to     *)
(* nodes, the root "." included.  A path is the sequence of its names and  *)
(* <<>> is "."; a node is Dir or the contents of a file.  Nothing in the   *)
(* code keeps the map a tree: create and mkdir ask only that the parent    *)
(* exists, create replaces whatever was at the path, and rename moves a    *)
(* directory anywhere.  A call yields the error it reports and the map it  *)
(* leaves.  Symbolic links, attributes and sizes are left out.             *)
(***************************************************************************)
EXTENDS Naturals, Sequences, SequencesExt

Dir == "dir"
Absent == "absent"
Empty == "empty"

Ok(t) == [err |-> "none", tree |-> t]
Fail(kind, t) == [err |-> kind, tree |-> t]

parent_path(p) == IF p = <<>> THEN <<>> ELSE Front(p)
stat(t, p) == IF p \in DOMAIN t THEN t[p] ELSE Absent
exists(t, p) == stat(t, p) # Absent

(* The names below p: those of its nodes, and the directories implied by deeper paths. *)
children_for(t, p) == {q[Len(p) + 1] : q \in {r \in DOMAIN t : IsStrictPrefix(p, r)}}

Insert(t, p, node) == [q \in DOMAIN t \cup {p} |-> IF q = p THEN node ELSE t[q]]
Without(t, S) == [q \in DOMAIN t \ S |-> t[q]]
HasParent(t, p) == parent_path(p) = <<>> \/ exists(t, parent_path(p))

create(t, p) == IF HasParent(t, p) THEN Ok(Insert(t, p, Empty)) ELSE Fail("not_found", t)

mkdir(t, p) ==
  IF exists(t, p) THEN Fail("exists", t)
  ELSE IF HasParent(t, p) THEN Ok(Insert(t, p, Dir)) ELSE Fail("not_found", t)

remove(t, p) ==
  IF p = <<>> THEN Fail("invalid", t)
  ELSE IF ~exists(t, p) THEN Fail("not_found", t)
  ELSE IF t[p] = Dir /\ children_for(t, p) # {} THEN Fail("not_empty", t)
  ELSE Ok(Without(t, {p}))

(* The paths that begin with "p/": none begins with "./". *)
Under(t, p) == IF p = <<>> THEN {} ELSE {q \in DOMAIN t : IsStrictPrefix(p, q)}

Renamed(t, old, new) ==
  LET gone  == IF t[old] = Dir THEN {old} \cup Under(t, old) ELSE {old, new}
      moves == IF t[old] = Dir THEN {old} \cup Under(t, old) ELSE {old}
      To(p) == new \o SubSeq(p, Len(old) + 1, Len(p))
      rest  == Without(t, gone)
  IN  [q \in DOMAIN rest \cup {To(p) : p \in moves} |->
         IF \E p \in moves : To(p) = q THEN t[CHOOSE p \in moves : To(p) = q] ELSE rest[q]]

InDirectory(t, p) == parent_path(p) = <<>> \/ stat(t, parent_path(p)) = Dir

rename(t, old, new) ==
  IF old = new THEN Ok(t)
  ELSE IF ~InDirectory(t, new) \/ ~exists(t, old) THEN Fail("not_found", t)
  ELSE IF stat(t, new) = Dir /\ Under(t, new) # {} THEN Fail("exists", t)
  ELSE Ok(Renamed(t, old, new))

link(t, old, new) ==
  IF exists(t, new) THEN Fail("exists", t)
  ELSE IF ~InDirectory(t, new) \/ ~exists(t, old) THEN Fail("not_found", t)
  ELSE IF t[old] = Dir THEN Fail("denied", t)
  ELSE Ok(Insert(t, new, t[old]))

(* Every node lies in a node, up to a root that is a directory. *)
NoOrphans(t) == stat(t, <<>>) = Dir /\ \A p \in DOMAIN t : exists(t, parent_path(p))

=============================================================================
