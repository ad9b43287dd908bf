--------------------------- MODULE SyncScheduler ---------------------------
(***************************************************************************)
(* DebouncedSyncScheduler of crates/star9-fs/src/syncfs.rs: callers file   *)
(* sync requests, a request becomes due one debounce window after the last *)
(* one, and the sync is run by a caller (run_due, flush) or by a native    *)
(* background thread that sleeps on a condition variable.                  *)
(*                                                                         *)
(* One action is one critical section of the scheduler's mutex.  The sync  *)
(* itself runs outside the mutex, between Begin... and FinishSyncAttempt,  *)
(* and its result is not known beforehand; module SyncFs models its work.  *)
(***************************************************************************)
EXTENDS Integers

CONSTANTS
  Handles,      (* DebouncedSyncBackgroundHandle identities, each with its thread *)
  Callers,      (* threads that call run_due and flush                            *)
  Debounce,     (* the debounce window, in clock ticks                            *)
  MaxRequests,  (* bound on the number of requests                                *)
  MaxTime       (* bound on the clock                                             *)

ASSUME HandlesAreNotCallers == Handles \cap Callers = {}
ASSUME DebounceIsNat == Debounce \in Nat
ASSUME BoundsAreNat == MaxRequests \in Nat /\ MaxTime \in Nat

VARIABLES
  now,                    (* the wall clock                                       *)
  requested_at,           (* DebouncedSyncState: time of the pending request      *)
  request_serial,         (* DebouncedSyncState: number of the latest request     *)
  failed_request_serial,  (* DebouncedSyncState: request whose sync failed        *)
  background_running,     (* DebouncedSyncState                                   *)
  shutdown_requested,     (* DebouncedSyncState                                   *)
  handle,                 (* per handle: where its owner is in its life           *)
  worker,                 (* per handle: program counter of its thread            *)
  deadline,               (* per handle: when its thread's timed wait ends        *)
  attempt,                (* per thread: the sync attempt it is running           *)
  served,                 (* history: latest request a successful sync began after *)
  attempted               (* history: latest request the background thread tried  *)

state == <<requested_at, request_serial, failed_request_serial>>
lifecycle == <<background_running, shutdown_requested, handle>>
history == <<served, attempted>>
vars == <<now, state, lifecycle, worker, deadline, attempt, history>>

Threads == Handles \cup Callers
None == -1
Pending == requested_at # None

(* The request number an attempt was started for (`serial`, the local       *)
(* request_serial of the code) and the latest request when its sync began.  *)
NoAttempt == [serial |-> None, began |-> None]
Attempts == [serial : Nat, began : Nat] \cup {NoAttempt}

HandleStates == {"unused", "starting", "live", "joining", "dropping", "joined", "gone"}
WorkerStates == {"none", "check", "waiting", "timed", "syncing", "exited"}
Alive(h) == worker[h] \in {"check", "waiting", "timed", "syncing"}

due_at(t) == t + Debounce

(* Condvar::notify_all: every sleeping background thread re-examines the state. *)
notify_waiters ==
  [h \in Handles |-> IF worker[h] \in {"waiting", "timed"} THEN "check" ELSE worker[h]]

Init ==
  /\ now = 0
  /\ requested_at = None
  /\ request_serial = 0
  /\ failed_request_serial = None
  /\ background_running = FALSE
  /\ shutdown_requested = FALSE
  /\ handle = [h \in Handles |-> "unused"]
  /\ worker = [h \in Handles |-> "none"]
  /\ deadline = [h \in Handles |-> 0]
  /\ attempt = [t \in Threads |-> NoAttempt]
  /\ served = 0
  /\ attempted = 0

-----------------------------------------------------------------------------
(* Requests and the attempts callers make.                                  *)

(* Mutant of request: the background thread is not notified. *)
QuietRequest ==
  /\ request_serial < MaxRequests
  /\ due_at(now) <= MaxTime
  /\ requested_at' = now
  /\ request_serial' = request_serial + 1
  /\ failed_request_serial' = None
  /\ UNCHANGED <<now, lifecycle, worker, deadline, attempt, history>>

(* Bounded so that the clock can still pass the due time of the last request. *)
request ==
  /\ request_serial < MaxRequests
  /\ due_at(now) <= MaxTime
  /\ requested_at' = now
  /\ request_serial' = request_serial + 1
  /\ failed_request_serial' = None
  /\ worker' = notify_waiters
  /\ UNCHANGED <<now, lifecycle, deadline, attempt, history>>

(* Mutant of BeginAttempt: the attempt is filed under the failed request's number. *)
BeginFailedAttempt(t) ==
  attempt' = [attempt EXCEPT ![t] = [serial |-> failed_request_serial, began |-> request_serial]]

(* The request number is read in the critical section, the sync begins after it. *)
BeginAttempt(t) ==
  attempt' = [attempt EXCEPT ![t] = [serial |-> request_serial, began |-> request_serial]]

run_due(c) ==
  /\ attempt[c] = NoAttempt
  /\ Pending
  /\ now >= due_at(requested_at)
  /\ BeginAttempt(c)
  /\ UNCHANGED <<now, state, lifecycle, worker, deadline, history>>

flush(c) ==
  /\ attempt[c] = NoAttempt
  /\ BeginAttempt(c)
  /\ UNCHANGED <<now, state, lifecycle, worker, deadline, history>>

(* Mutant of ApplyResult: the request numbers are not compared. *)
ApplyAnyResult(serial, ok) ==
  IF ok THEN requested_at' = None /\ failed_request_serial' = None
        ELSE failed_request_serial' = serial /\ UNCHANGED requested_at

(* finish_sync_attempt: a result counts only for the request it was started for. *)
ApplyResult(serial, ok) ==
  IF serial # request_serial
  THEN UNCHANGED <<requested_at, failed_request_serial>>
  ELSE IF ok
       THEN requested_at' = None /\ failed_request_serial' = None
       ELSE failed_request_serial' = serial /\ UNCHANGED requested_at

finish_sync_attempt(t, ok) ==
  /\ attempt[t] # NoAttempt
  /\ ApplyResult(attempt[t].serial, ok)
  /\ attempt' = [attempt EXCEPT ![t] = NoAttempt]
  /\ worker' = [h \in Handles |-> IF h = t THEN "check" ELSE notify_waiters[h]]
  /\ served' = IF ok /\ attempt[t].began > served THEN attempt[t].began ELSE served
  /\ UNCHANGED <<now, request_serial, lifecycle, deadline, attempted>>

-----------------------------------------------------------------------------
(* run_background: the loop of the background thread.                       *)

WorkerExit(h) ==
  /\ worker[h] = "check"
  /\ shutdown_requested
  /\ background_running' = FALSE
  /\ shutdown_requested' = FALSE
  /\ worker' = [notify_waiters EXCEPT ![h] = "exited"]
  /\ UNCHANGED <<now, state, handle, deadline, attempt, history>>

WorkerWait(h) ==
  /\ worker[h] = "check"
  /\ ~shutdown_requested
  /\ ~Pending \/ failed_request_serial = request_serial
  /\ worker' = [worker EXCEPT ![h] = "waiting"]
  /\ UNCHANGED <<now, state, lifecycle, deadline, attempt, history>>

(* Mutant of WorkerHasWork: the failed request is not remembered. *)
WorkerRetries(h) ==
  /\ worker[h] = "check"
  /\ ~shutdown_requested
  /\ Pending

WorkerHasWork(h) ==
  /\ worker[h] = "check"
  /\ ~shutdown_requested
  /\ Pending
  /\ failed_request_serial # request_serial

WorkerTimedWait(h) ==
  /\ WorkerHasWork(h)
  /\ now < due_at(requested_at)
  /\ worker' = [worker EXCEPT ![h] = "timed"]
  /\ deadline' = [deadline EXCEPT ![h] = due_at(requested_at)]
  /\ UNCHANGED <<now, state, lifecycle, attempt, history>>

WorkerTimeout(h) ==
  /\ worker[h] = "timed"
  /\ now >= deadline[h]
  /\ worker' = [worker EXCEPT ![h] = "check"]
  /\ UNCHANGED <<now, state, lifecycle, deadline, attempt, history>>

WorkerBegin(h) ==
  /\ WorkerHasWork(h)
  /\ now >= due_at(requested_at)
  /\ worker' = [worker EXCEPT ![h] = "syncing"]
  /\ BeginAttempt(h)
  /\ attempted' = request_serial
  /\ UNCHANGED <<now, state, lifecycle, deadline, served>>

(* A condition variable may also wake with no notification. *)
SpuriousWake(h) ==
  /\ worker[h] \in {"waiting", "timed"}
  /\ worker' = [worker EXCEPT ![h] = "check"]
  /\ UNCHANGED <<now, state, lifecycle, deadline, attempt, history>>

-----------------------------------------------------------------------------
(* Background handles.  start_background claims the running flag in one     *)
(* critical section and spawns the thread outside it.  shutdown() takes the *)
(* handle by value, so Drop runs shutdown_inner a second time after the     *)
(* join; a handle that is only dropped runs it once.                        *)

(* Mutant of start_background: the running flag is not consulted. *)
StartAnyway(h) ==
  /\ handle[h] = "unused"
  /\ background_running' = TRUE
  /\ shutdown_requested' = FALSE
  /\ handle' = [handle EXCEPT ![h] = "starting"]
  /\ UNCHANGED <<now, state, worker, deadline, attempt, history>>

start_background(h) ==
  /\ handle[h] = "unused"
  /\ ~background_running
  /\ background_running' = TRUE
  /\ shutdown_requested' = FALSE
  /\ handle' = [handle EXCEPT ![h] = "starting"]
  /\ UNCHANGED <<now, state, worker, deadline, attempt, history>>

SpawnOk(h) ==
  /\ handle[h] = "starting"
  /\ handle' = [handle EXCEPT ![h] = "live"]
  /\ worker' = [worker EXCEPT ![h] = "check"]
  /\ UNCHANGED <<now, state, background_running, shutdown_requested, deadline, attempt, history>>

SpawnFails(h) ==
  /\ handle[h] = "starting"
  /\ handle' = [handle EXCEPT ![h] = "unused"]
  /\ background_running' = FALSE
  /\ shutdown_requested' = FALSE
  /\ UNCHANGED <<now, state, worker, deadline, attempt, history>>

(* Mutant of shutdown_inner: the sleeping thread is not notified. *)
ShutdownQuietly(h, from, to) ==
  /\ handle[h] = from
  /\ handle' = [handle EXCEPT ![h] = to]
  /\ shutdown_requested' = TRUE
  /\ UNCHANGED <<now, state, background_running, worker, deadline, attempt, history>>

shutdown_inner(h, from, to) ==
  /\ handle[h] = from
  /\ handle' = [handle EXCEPT ![h] = to]
  /\ shutdown_requested' = TRUE
  /\ worker' = notify_waiters
  /\ UNCHANGED <<now, state, background_running, deadline, attempt, history>>

shutdown(h) == shutdown_inner(h, "live", "joining")
DropLive(h) == shutdown_inner(h, "live", "dropping")
DropJoined(h) == shutdown_inner(h, "joined", "gone")

JoinReturns(h) ==
  /\ handle[h] \in {"joining", "dropping"}
  /\ worker[h] = "exited"
  /\ handle' = [handle EXCEPT ![h] = IF @ = "joining" THEN "joined" ELSE "gone"]
  /\ UNCHANGED <<now, state, background_running, shutdown_requested, worker, deadline, attempt, history>>

Tick ==
  /\ now < MaxTime
  /\ now' = now + 1
  /\ UNCHANGED <<state, lifecycle, worker, deadline, attempt, history>>

-----------------------------------------------------------------------------
Next ==
  \/ request
  \/ Tick
  \/ \E c \in Callers : run_due(c) \/ flush(c)
  \/ \E t \in Threads, ok \in BOOLEAN : finish_sync_attempt(t, ok)
  \/ \E h \in Handles :
        \/ WorkerExit(h)
        \/ WorkerWait(h)
        \/ WorkerTimedWait(h)
        \/ WorkerTimeout(h)
        \/ WorkerBegin(h)
        \/ SpuriousWake(h)
        \/ start_background(h)
        \/ SpawnOk(h)
        \/ SpawnFails(h)
        \/ shutdown(h)
        \/ DropLive(h)
        \/ DropJoined(h)
        \/ JoinReturns(h)

(* Threads are scheduled, time passes, a sync ends, a spawn call returns.   *)
(* Nobody has to request, to flush, to start or to shut down.               *)
WorkerSteps(h) ==
  WorkerExit(h) \/ WorkerWait(h) \/ WorkerTimedWait(h) \/ WorkerTimeout(h) \/ WorkerBegin(h)

Fairness ==
  /\ WF_vars(Tick)
  /\ \A t \in Threads : WF_vars(\E ok \in BOOLEAN : finish_sync_attempt(t, ok))
  /\ \A h \in Handles :
        /\ WF_vars(WorkerSteps(h))
        /\ WF_vars(SpawnOk(h) \/ SpawnFails(h))
        /\ WF_vars(JoinReturns(h))

Init_Next == Init /\ [][Next]_vars
Spec == Init_Next /\ Fairness

-----------------------------------------------------------------------------
TypeOK ==
  /\ now \in Nat
  /\ requested_at \in Nat \cup {None}
  /\ request_serial \in Nat
  /\ failed_request_serial \in Nat \cup {None}
  /\ background_running \in BOOLEAN
  /\ shutdown_requested \in BOOLEAN
  /\ handle \in [Handles -> HandleStates]
  /\ worker \in [Handles -> WorkerStates]
  /\ deadline \in [Handles -> Nat]
  /\ attempt \in [Threads -> Attempts]
  /\ served \in Nat
  /\ attempted \in Nat

(* No request is forgotten: the scheduler has nothing pending only when a    *)
(* successful sync began after the latest request was filed, whatever older  *)
(* attempts of callers and of the background thread end in between.          *)
NoRequestLost == ~Pending => served = request_serial

(* At most one background thread exists, and the running flag is set exactly *)
(* while one is alive or being spawned, across starts, failed spawns, stops  *)
(* and late drops of old handles.                                            *)
OneBackgroundThread ==
  /\ background_running <=> \E h \in Handles : Alive(h) \/ handle[h] = "starting"
  /\ \A g, h \in Handles :
        (Alive(g) \/ handle[g] = "starting") /\ (Alive(h) \/ handle[h] = "starting") => g = h

(* The background thread never tries the same request twice (no retry spin   *)
(* after a failure), and never inside the debounce window of the latest one, *)
(* also when a request arrives while the thread wakes from its timed wait.   *)
OneTryPerRequest ==
  [][\A h \in Handles :
       worker[h] # "syncing" /\ worker'[h] = "syncing" =>
         /\ attempted < request_serial
         /\ now >= due_at(requested_at)]_vars

(* While a background thread runs, a pending request is eventually synced or *)
(* its sync has failed: the wake-ups leave no request sleeping.              *)
RequestIsServed ==
  Pending /\ background_running ~>
    ~Pending \/ failed_request_serial = request_serial \/ ~background_running

(* shutdown() and drop return: the thread they join always ends. *)
ShutdownReturns ==
  \A h \in Handles : handle[h] \in {"joining", "dropping"} ~> handle[h] \in {"joined", "gone"}

(* What the scheduler tells of the latest request, and whom an attempt      *)
(* under way accounts for: its request number is the latest, or an older    *)
(* one.                                                                     *)
Status ==
  IF ~Pending THEN "clean"
  ELSE IF failed_request_serial = request_serial THEN "failed"
  ELSE IF now < due_at(requested_at) THEN "waiting" ELSE "due"
Standing(t) ==
  IF attempt[t] = NoAttempt THEN "none"
  ELSE IF attempt[t].serial = request_serial THEN "current" ELSE "stale"

Debounced == INSTANCE DebouncedSync WITH
  status <- Status,
  attempt <- [t \in Threads |-> Standing(t)],
  background <- IF background_running THEN "on" ELSE "off"

(* Clock, request numbers, wake-ups and handles together do what            *)
(* DebouncedSync promises: an attempt accounts for no request filed after   *)
(* it began, a failed request is left to callers, and one background thread *)
(* at a time tries what is due.                                             *)
ImplementsDebouncedSync == Debounced!Spec

=============================================================================
