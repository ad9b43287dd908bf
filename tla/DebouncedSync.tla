--------------------------- MODULE DebouncedSync ---------------------------
(***************************************************************************)
(* What DebouncedSyncScheduler (crates/star9-fs/src/syncfs.rs) promises,   *)
(* without its clock, its request numbers, its condition variable and its  *)
(* thread handles.  Work is asked for, becomes due when nobody asks for    *)
(* some time, and is attempted by callers whenever they like and by one    *)
(* background thread when it is due.  An attempt accounts for the requests *)
(* filed before it began and for no later one.                             *)
(***************************************************************************)
CONSTANTS
  Handles,     (* identities of background threads            *)
  Callers,     (* threads that call run_due and flush         *)
  Debounce     (* the debounce window; 0 makes requests due   *)

VARIABLES
  status,      (* of the latest request: "clean" when nothing is asked for, *)
               (* "waiting" inside the window, "due", or "failed"           *)
  attempt,     (* per thread: "none", "current" or "stale"    *)
  background   (* "on" while there is a background thread     *)

vars == <<status, attempt, background>>

Init ==
  /\ status = "clean"
  /\ attempt = [t \in Handles \cup Callers |-> "none"]
  /\ background = "off"

(* A request: whatever is under way does not account for it. *)
File ==
  /\ status' = IF Debounce = 0 THEN "due" ELSE "waiting"
  /\ attempt' = [t \in Handles \cup Callers |-> IF attempt[t] = "none" THEN "none" ELSE "stale"]
  /\ UNCHANGED background

(* The window of the latest request has passed. *)
Ripen ==
  /\ status = "waiting"
  /\ status' = "due"
  /\ UNCHANGED <<attempt, background>>

(* A caller may try at any time. *)
Try(c) ==
  /\ attempt[c] = "none"
  /\ attempt' = [attempt EXCEPT ![c] = "current"]
  /\ UNCHANGED <<status, background>>

(* The background thread tries what is due, alone, and never what failed. *)
TryDue(h) ==
  /\ background = "on" /\ status = "due"
  /\ \A g \in Handles : attempt[g] = "none"
  /\ attempt' = [attempt EXCEPT ![h] = "current"]
  /\ UNCHANGED <<status, background>>

(* An attempt ends, and counts if no request was filed since it began. *)
Succeed(t) ==
  /\ attempt[t] # "none"
  /\ attempt' = [attempt EXCEPT ![t] = "none"]
  /\ status' = IF attempt[t] = "current" THEN "clean" ELSE status
  /\ UNCHANGED background

Fail(t) ==
  /\ attempt[t] # "none"
  /\ attempt' = [attempt EXCEPT ![t] = "none"]
  /\ status' = IF attempt[t] = "current" /\ status # "clean" THEN "failed" ELSE status
  /\ UNCHANGED background

(* One background thread starts at a time, and stops between attempts. *)
Start ==
  /\ background = "off"
  /\ background' = "on"
  /\ UNCHANGED <<status, attempt>>

Stop ==
  /\ background = "on"
  /\ \A g \in Handles : attempt[g] = "none"
  /\ background' = "off"
  /\ UNCHANGED <<status, attempt>>

Next ==
  \/ File \/ Ripen \/ Start \/ Stop
  \/ \E c \in Callers : Try(c)
  \/ \E h \in Handles : TryDue(h)
  \/ \E t \in Handles \cup Callers : Succeed(t) \/ Fail(t)

Spec == Init /\ [][Next]_vars
=============================================================================
