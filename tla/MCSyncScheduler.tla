-------------------------- MODULE MCSyncScheduler --------------------------
(* Two background handles and one calling thread: enough for an old handle  *)
(* to be dropped while a new one runs and for three attempts to overlap.    *)
EXTENDS SyncScheduler, TLC
=============================================================================
