------------------------------- MODULE MCFiles -------------------------------
(***************************************************************************)
(* The files of a task: its namespace, and the descriptors a WASI guest    *)
(* has in it.  The guest's files are in one file system, so that the two   *)
(* share no state and a behaviour is one of them.                          *)
(*                                                                         *)
(* In the namespace, two stores, one with a file in a directory and one    *)
(* with a bare file; the root, a hidden name, a name and a path are mount  *)
(* points.  The guest names two paths and one below the second.            *)
(***************************************************************************)
EXTENDS Namespace, TLC

CONSTANTS s1, s2, x, GuestPaths, NodeIds, Bytes, Buffers, MaxLen, MaxFd, MaxOps
VARIABLES part, files, nodes, fds, next, net, result, ops, ref, lost, walks

MCStores == {s1, s2}
MCData == {x}
MCInitTree == [s \in MCStores |->
                 IF s = s1 THEN <<>> :> Dir @@ <<1>> :> Dir @@ <<1, 1>> :> x ELSE <<>> :> Dir @@ <<2>> :> x]
MCNames == {<<>>, <<1>>, <<2>>, <<1, 1>>}
MCSources == {<<>>, <<1>>}
MCPoints == {<<>>, <<0>>, <<1>>, <<2, 1>>}
MCHidden == {0}

MCNodeIds == <<"n1", "n2", "n3">>
MCGuestPaths == {<<1>>, <<2>>, <<2, 1>>}
Guest == INSTANCE Wasi WITH Paths <- GuestPaths, tree <- files
guestVars == <<files, nodes, fds, next, net, result, ops, ref, lost, walks>>

MCInit == part \in {"namespace", "guest"} /\ Init /\ Guest!Init
MCNext ==
  /\ \/ part = "namespace" /\ Next /\ UNCHANGED guestVars
     \/ part = "guest" /\ Guest!Next /\ UNCHANGED vars
  /\ UNCHANGED part
MCSpec == MCInit /\ [][MCNext]_<<part, vars, guestVars>>

(* No step reads `last` or `result`: the steps out of a state do not       *)
(* depend on them.                                                         *)
View == <<part, tree, bindings, calls, files, nodes, fds, next, net, ops, ref, lost, walks>>

(* A descriptor of the guest reads the bytes written to its file where     *)
(* they were meant to go (fd_read, fd_write, with_preserved_offset).       *)
DescriptorsSeeTheirFile == Guest!DescriptorsSeeTheirFile

(* A listing read in pieces has every entry that stayed (fd_readdir).      *)
ListingsAreWhole == Guest!ListingsAreWhole
=============================================================================
