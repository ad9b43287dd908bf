----------------------------- MODULE MCSyncFs -----------------------------
(* A directory 1 with one entry and a path 2 beside it; both sides start    *)
(* from the same tree.  One close fails at most, in the place of a mark and *)
(* of the change of the remote.                                             *)
EXTENDS SyncFs, TLC

VARIABLE failures

MCPaths == {<<1>>, <<1, 1>>, <<2>>}
MCInitTrees == {<<1>> :> Dir @@ <<1, 1>> :> "x"}

MCInit == Init /\ failures = 0
MCNext ==
  /\ Next
  /\ failures' = IF close_fails THEN failures + 1 ELSE failures
  /\ failures' + remoteChanges' <= MaxRemoteChanges
  /\ (next_generation + Len(marks))' + failures' <= MaxGeneration
MCSpec == MCInit /\ [][MCNext]_<<vars, failures>>
=============================================================================
