----------------------- MODULE SyncScheduler_proofs -----------------------
(***************************************************************************)
(* Proofs of the safety properties of module SyncScheduler for any number  *)
(* of handles and callers, any debounce window and any bounds.             *)
(*                                                                         *)
(* NoRequestLost needs to know what an attempt in flight may claim         *)
(* (SerialInv); OneTryPerRequest needs in addition where a request that    *)
(* was tried stands (TryInv) and that no second thread can be between its  *)
(* check and its sync (OneBackgroundThread); OneBackgroundThread needs the *)
(* correspondence of a handle and its thread (LifecycleInv).               *)
(***************************************************************************)
EXTENDS SyncScheduler, TLAPS

(* A thread's program counter agrees with its handle's life and its attempt. *)
LifecycleInv ==
  /\ \A h \in Handles : handle[h] \in {"unused", "starting"} <=> worker[h] = "none"
  /\ \A h \in Handles : handle[h] \in {"joined", "gone"} => worker[h] = "exited"
  /\ \A h \in Handles : worker[h] = "syncing" <=> attempt[h] # NoAttempt

(* What is known of the attempts in flight and of the requests they serve. *)
SerialInv ==
  /\ served <= request_serial
  /\ attempted <= request_serial
  /\ \A t \in Threads : attempt[t] # NoAttempt =>
        attempt[t].serial = attempt[t].began /\ attempt[t].serial <= request_serial

(* A pending request the background thread has tried is being synced by it or has failed. *)
TryInv ==
  attempted = request_serial /\ Pending =>
    \/ failed_request_serial = request_serial
    \/ \E h \in Handles : worker[h] = "syncing" /\ attempt[h].serial = request_serial

IInv == TypeOK /\ LifecycleInv /\ SerialInv /\ NoRequestLost /\ OneBackgroundThread /\ TryInv

(* notify_waiters keeps program counters typed, alive threads alive, and leaves the rest. *)
LEMMA NotifyFacts ==
  ASSUME TypeOK
  PROVE  /\ notify_waiters \in [Handles -> WorkerStates]
         /\ \A h \in Handles :
              /\ notify_waiters[h] \in {"check", "waiting", "timed", "syncing"} <=> Alive(h)
              /\ notify_waiters[h] = "none" <=> worker[h] = "none"
              /\ notify_waiters[h] = "exited" <=> worker[h] = "exited"
              /\ notify_waiters[h] = "syncing" <=> worker[h] = "syncing"
BY DEF TypeOK, notify_waiters, WorkerStates, Alive

(* The scheduler's initial state satisfies the invariant. *)
LEMMA InitIInv == Init => IInv
<1> SUFFICES ASSUME Init PROVE IInv
  OBVIOUS
<1>1. TypeOK
  BY DEF Init, TypeOK, None, NoAttempt, Attempts, HandleStates, WorkerStates
<1>2. LifecycleInv
  BY DEF Init, LifecycleInv, Threads
<1>3. SerialInv /\ NoRequestLost /\ TryInv
  BY DEF Init, SerialInv, NoRequestLost, TryInv, Pending
<1>4. OneBackgroundThread
  BY DEF Init, OneBackgroundThread, Alive
<1> QED BY <1>1, <1>2, <1>3, <1>4 DEF IInv

(* The state components keep their types in every step. *)
LEMMA NextTypeOK ==
  ASSUME TypeOK, [Next]_vars
  PROVE  TypeOK'
<1> USE DebounceIsNat, BoundsAreNat, NotifyFacts
<1>1. CASE request
  BY <1>1 DEF request, TypeOK, None, lifecycle, history
<1>2. CASE Tick
  BY <1>2 DEF Tick, TypeOK, state, lifecycle, history
<1>3. ASSUME NEW c \in Callers, run_due(c) \/ flush(c) PROVE TypeOK'
  BY <1>3 DEF run_due, flush, BeginAttempt, TypeOK, state, lifecycle, history, Attempts, Threads
<1>4. ASSUME NEW t \in Threads, NEW ok \in BOOLEAN, finish_sync_attempt(t, ok) PROVE TypeOK'
  <2>1. attempt[t].serial \in Nat /\ attempt[t].began \in Nat
    BY <1>4 DEF finish_sync_attempt, TypeOK, Attempts
  <2>2. requested_at' \in Nat \cup {None} /\ failed_request_serial' \in Nat \cup {None}
    BY <1>4, <2>1 DEF finish_sync_attempt, ApplyResult, TypeOK, None
  <2>3. worker' \in [Handles -> WorkerStates]
    BY <1>4 DEF finish_sync_attempt, WorkerStates
  <2>4. attempt' \in [Threads -> Attempts]
    BY <1>4 DEF finish_sync_attempt, TypeOK, Attempts
  <2>5. served' \in Nat
    BY <1>4, <2>1 DEF finish_sync_attempt, TypeOK
  <2>6. UNCHANGED <<now, request_serial, background_running, shutdown_requested, handle,
                    deadline, attempted>>
    BY <1>4 DEF finish_sync_attempt, lifecycle
  <2> QED BY <2>2, <2>3, <2>4, <2>5, <2>6 DEF TypeOK
<1>5. ASSUME NEW h \in Handles,
             \/ WorkerExit(h) \/ WorkerWait(h) \/ WorkerTimedWait(h) \/ WorkerTimeout(h)
             \/ SpuriousWake(h)
      PROVE  TypeOK'
  <2>1. CASE WorkerExit(h)
    BY <2>1 DEF WorkerExit, TypeOK, state, history, WorkerStates
  <2>2. CASE WorkerWait(h) \/ WorkerTimeout(h) \/ SpuriousWake(h)
    BY <2>2 DEF WorkerWait, WorkerTimeout, SpuriousWake, TypeOK, state, lifecycle, history,
       WorkerStates
  <2>3. CASE WorkerTimedWait(h)
    <3>1. due_at(requested_at) \in Nat
      BY <2>3 DEF WorkerTimedWait, WorkerHasWork, due_at, Pending, TypeOK, None
    <3> QED BY <2>3, <3>1 DEF WorkerTimedWait, TypeOK, state, lifecycle, history, WorkerStates
  <2> QED BY <1>5, <2>1, <2>2, <2>3
<1>6. ASSUME NEW h \in Handles, WorkerBegin(h) PROVE TypeOK'
  BY <1>6 DEF WorkerBegin, BeginAttempt, TypeOK, state, lifecycle, WorkerStates, Attempts, Threads
<1>7. ASSUME NEW h \in Handles,
             \/ start_background(h) \/ SpawnOk(h) \/ SpawnFails(h) \/ JoinReturns(h)
      PROVE  TypeOK'
  BY <1>7 DEF start_background, SpawnOk, SpawnFails, JoinReturns, TypeOK, state, history,
     HandleStates, WorkerStates
<1>8. ASSUME NEW h \in Handles, shutdown(h) \/ DropLive(h) \/ DropJoined(h) PROVE TypeOK'
  BY <1>8 DEF shutdown, DropLive, DropJoined, shutdown_inner, TypeOK, state, history, HandleStates
<1>9. CASE UNCHANGED vars
  BY <1>9 DEF vars, TypeOK, state, lifecycle, history
<1> QED BY <1>1, <1>2, <1>3, <1>4, <1>5, <1>6, <1>7, <1>8, <1>9 DEF Next

(* Every step keeps threads, handles and attempts in step with each other, and one thread. *)
LEMMA NextLifecycle ==
  ASSUME TypeOK, LifecycleInv, OneBackgroundThread, [Next]_vars
  PROVE  LifecycleInv' /\ OneBackgroundThread'
<1> USE NotifyFacts, HandlesAreNotCallers
<1>1. CASE request
  BY <1>1 DEF request, TypeOK, lifecycle, history, LifecycleInv, OneBackgroundThread, Alive
<1>2. CASE Tick
  BY <1>2 DEF Tick, state, lifecycle, history, LifecycleInv, OneBackgroundThread, Alive
<1>3. ASSUME NEW c \in Callers, run_due(c) \/ flush(c)
      PROVE  LifecycleInv' /\ OneBackgroundThread'
  <2>1. \A h \in Handles : attempt'[h] = attempt[h]
    BY <1>3 DEF run_due, flush, BeginAttempt, TypeOK, Threads
  <2> QED BY <1>3, <2>1 DEF run_due, flush, lifecycle, LifecycleInv, OneBackgroundThread, Alive
<1>4. ASSUME NEW t \in Threads, NEW ok \in BOOLEAN, finish_sync_attempt(t, ok)
      PROVE  LifecycleInv' /\ OneBackgroundThread'
  <2>1. \A h \in Handles : attempt'[h] = IF h = t THEN NoAttempt ELSE attempt[h]
    BY <1>4 DEF finish_sync_attempt, TypeOK, Threads
  <2>2. \A h \in Handles : worker'[h] = IF h = t THEN "check" ELSE notify_waiters[h]
    BY <1>4 DEF finish_sync_attempt
  <2>3. t \in Handles => worker[t] = "syncing"
    BY <1>4 DEF finish_sync_attempt, LifecycleInv
  <2>4. UNCHANGED <<background_running, handle>>
    BY <1>4 DEF finish_sync_attempt, lifecycle
  <2>5. \A h \in Handles : /\ Alive(h)' <=> Alive(h)
                           /\ worker'[h] = "none" <=> worker[h] = "none"
                           /\ worker'[h] = "exited" <=> worker[h] = "exited"
    BY <2>2, <2>3 DEF Alive
  <2> QED BY <2>1, <2>2, <2>3, <2>4, <2>5 DEF LifecycleInv, OneBackgroundThread
<1>5. ASSUME NEW h \in Handles, WorkerExit(h)
      PROVE  LifecycleInv' /\ OneBackgroundThread'
  <2>1. \A g \in Handles : worker'[g] = IF g = h THEN "exited" ELSE notify_waiters[g]
    BY <1>5 DEF WorkerExit
  <2>2. UNCHANGED <<handle, attempt>> /\ ~background_running' /\ worker[h] = "check"
    BY <1>5 DEF WorkerExit
  <2> QED BY <2>1, <2>2 DEF LifecycleInv, OneBackgroundThread, Alive
<1>6. ASSUME NEW h \in Handles,
             WorkerWait(h) \/ WorkerTimedWait(h) \/ WorkerTimeout(h) \/ SpuriousWake(h)
      PROVE  LifecycleInv' /\ OneBackgroundThread'
  <2>1. PICK w \in {"waiting", "timed", "check"} : worker' = [worker EXCEPT ![h] = w]
    BY <1>6 DEF WorkerWait, WorkerTimedWait, WorkerTimeout, SpuriousWake
  <2>2. /\ UNCHANGED <<background_running, handle, attempt>>
        /\ worker[h] \in {"check", "timed", "waiting"}
    BY <1>6 DEF WorkerWait, WorkerTimedWait, WorkerHasWork, WorkerTimeout, SpuriousWake, lifecycle
  <2> QED BY <2>1, <2>2 DEF TypeOK, LifecycleInv, OneBackgroundThread, Alive
<1>7. ASSUME NEW h \in Handles, WorkerBegin(h)
      PROVE  LifecycleInv' /\ OneBackgroundThread'
  <2>1. /\ UNCHANGED <<background_running, handle>>
        /\ worker[h] = "check"
        /\ worker' = [worker EXCEPT ![h] = "syncing"]
    BY <1>7 DEF WorkerBegin, WorkerHasWork, lifecycle
  <2>2. \A g \in Handles : g # h => attempt'[g] = attempt[g]
    BY <1>7 DEF WorkerBegin, BeginAttempt, TypeOK, Threads
  <2>3. attempt'[h] # NoAttempt
    BY <1>7 DEF WorkerBegin, BeginAttempt, TypeOK, Threads, NoAttempt, None
  <2> QED BY <2>1, <2>2, <2>3 DEF TypeOK, LifecycleInv, OneBackgroundThread, Alive
<1>8. ASSUME NEW h \in Handles,
             start_background(h) \/ SpawnOk(h) \/ SpawnFails(h) \/ JoinReturns(h)
      PROVE  LifecycleInv' /\ OneBackgroundThread'
  <2>1. CASE start_background(h)
    BY <2>1 DEF start_background, TypeOK, LifecycleInv, OneBackgroundThread, Alive
  <2>2. CASE SpawnOk(h)
    BY <2>2 DEF SpawnOk, TypeOK, LifecycleInv, OneBackgroundThread, Alive
  <2>3. CASE SpawnFails(h)
    BY <2>3 DEF SpawnFails, TypeOK, LifecycleInv, OneBackgroundThread, Alive
  <2>4. CASE JoinReturns(h)
    BY <2>4 DEF JoinReturns, TypeOK, LifecycleInv, OneBackgroundThread, Alive
  <2> QED BY <1>8, <2>1, <2>2, <2>3, <2>4
<1>9. ASSUME NEW h \in Handles, shutdown(h) \/ DropLive(h) \/ DropJoined(h)
      PROVE  LifecycleInv' /\ OneBackgroundThread'
  <2>1. PICK from \in {"live", "joined"}, to \in {"joining", "dropping", "gone"} :
          /\ handle[h] = from
          /\ handle' = [handle EXCEPT ![h] = to]
          /\ to = "gone" <=> from = "joined"
    BY <1>9 DEF shutdown, DropLive, DropJoined, shutdown_inner
  <2>2. worker' = notify_waiters /\ UNCHANGED <<background_running, attempt>>
    BY <1>9 DEF shutdown, DropLive, DropJoined, shutdown_inner
  <2> QED BY <2>1, <2>2 DEF TypeOK, LifecycleInv, OneBackgroundThread, Alive
<1>10. CASE UNCHANGED vars
  BY <1>10 DEF vars, state, lifecycle, LifecycleInv, OneBackgroundThread, Alive
<1> QED BY <1>1, <1>2, <1>3, <1>4, <1>5, <1>6, <1>7, <1>8, <1>9, <1>10 DEF Next

(* Every step keeps what is known of the requests: attempts claim no more than they began *)
(* with, no request is dropped unserved, and a tried request is in flight or has failed.  *)
LEMMA NextSerials ==
  ASSUME IInv, [Next]_vars
  PROVE  SerialInv' /\ NoRequestLost' /\ TryInv'
<1> USE NotifyFacts, HandlesAreNotCallers DEF IInv
<1>1. CASE request
  <2>1. /\ request_serial' = request_serial + 1
        /\ requested_at' = now
        /\ UNCHANGED <<attempt, served, attempted>>
    BY <1>1 DEF request, history
  <2> QED BY <2>1 DEF TypeOK, SerialInv, NoRequestLost, TryInv, Pending, None, Attempts
<1>2. CASE Tick
  BY <1>2 DEF Tick, state, history, SerialInv, NoRequestLost, TryInv, Pending
<1>3. ASSUME NEW c \in Callers, run_due(c) \/ flush(c)
      PROVE  SerialInv' /\ NoRequestLost' /\ TryInv'
  <2>1. /\ UNCHANGED <<requested_at, request_serial, failed_request_serial, worker, served, attempted>>
        /\ attempt' = [attempt EXCEPT ![c] = [serial |-> request_serial, began |-> request_serial]]
    BY <1>3 DEF run_due, flush, BeginAttempt, state, history
  <2> QED BY <2>1 DEF TypeOK, SerialInv, NoRequestLost, TryInv, Pending, Threads
<1>4. ASSUME NEW t \in Threads, NEW ok \in BOOLEAN, finish_sync_attempt(t, ok)
      PROVE  SerialInv' /\ NoRequestLost' /\ TryInv'
  <2> DEFINE a == attempt[t]
  <2>1. a \in [serial : Nat, began : Nat] /\ a.serial = a.began /\ a.serial <= request_serial
    BY <1>4 DEF finish_sync_attempt, TypeOK, SerialInv, Attempts
  <2>2. /\ UNCHANGED <<request_serial, attempted>>
        /\ attempt' = [attempt EXCEPT ![t] = NoAttempt]
        /\ served' = IF ok /\ a.began > served THEN a.began ELSE served
    BY <1>4 DEF finish_sync_attempt
  <2>3. SerialInv'
    BY <2>1, <2>2 DEF TypeOK, SerialInv
  <2>4. \A h \in Handles : h # t => (worker'[h] = "syncing" <=> worker[h] = "syncing")
    BY <1>4 DEF finish_sync_attempt
  <2>5. CASE a.serial # request_serial
    <3>1. UNCHANGED <<requested_at, failed_request_serial>>
      BY <1>4, <2>5 DEF finish_sync_attempt, ApplyResult
    <3>2. NoRequestLost'
      BY <2>1, <2>2, <3>1 DEF TypeOK, NoRequestLost, SerialInv, Pending
    <3>3. TryInv'
      BY <2>2, <2>4, <2>5, <3>1 DEF TypeOK, TryInv, Pending, Threads
    <3> QED BY <2>3, <3>2, <3>3
  <2>6. CASE a.serial = request_serial /\ ok
    <3>1. requested_at' = None
      BY <1>4, <2>6 DEF finish_sync_attempt, ApplyResult
    <3>2. served' = request_serial
      BY <2>1, <2>2, <2>6 DEF TypeOK, SerialInv
    <3> QED BY <2>2, <2>3, <3>1, <3>2 DEF NoRequestLost, TryInv, Pending
  <2>7. CASE a.serial = request_serial /\ ~ok
    <3>1. UNCHANGED requested_at /\ failed_request_serial' = request_serial
      BY <1>4, <2>7 DEF finish_sync_attempt, ApplyResult
    <3> QED BY <2>2, <2>3, <2>7, <3>1 DEF NoRequestLost, TryInv, Pending
  <2> QED BY <2>5, <2>6, <2>7
<1>5. ASSUME NEW h \in Handles, WorkerBegin(h)
      PROVE  SerialInv' /\ NoRequestLost' /\ TryInv'
  <2>1. /\ UNCHANGED <<requested_at, request_serial, failed_request_serial, served>>
        /\ attempted' = request_serial
        /\ worker' = [worker EXCEPT ![h] = "syncing"]
        /\ attempt' = [attempt EXCEPT ![h] = [serial |-> request_serial, began |-> request_serial]]
    BY <1>5 DEF WorkerBegin, BeginAttempt, state
  <2> QED BY <2>1 DEF TypeOK, SerialInv, NoRequestLost, TryInv, Pending, Threads
<1>6. ASSUME NEW h \in Handles,
             \/ WorkerExit(h) \/ WorkerWait(h) \/ WorkerTimedWait(h) \/ WorkerTimeout(h)
             \/ SpuriousWake(h) \/ start_background(h) \/ SpawnOk(h) \/ SpawnFails(h)
             \/ shutdown(h) \/ DropLive(h) \/ DropJoined(h) \/ JoinReturns(h)
      PROVE  SerialInv' /\ NoRequestLost' /\ TryInv'
  <2>1. UNCHANGED <<requested_at, request_serial, failed_request_serial, attempt, served, attempted>>
    BY <1>6 DEF WorkerExit, WorkerWait, WorkerTimedWait, WorkerTimeout, SpuriousWake,
       start_background, SpawnOk, SpawnFails, shutdown, DropLive, DropJoined, shutdown_inner,
       JoinReturns, state, history
  <2>2. \A g \in Handles : worker[g] = "syncing" => worker'[g] = "syncing"
    <3>1. CASE WorkerExit(h) \/ shutdown(h) \/ DropLive(h) \/ DropJoined(h)
      BY <3>1 DEF WorkerExit, shutdown, DropLive, DropJoined, shutdown_inner
    <3>2. CASE WorkerWait(h) \/ WorkerTimedWait(h) \/ WorkerTimeout(h) \/ SpuriousWake(h)
      BY <3>2 DEF TypeOK, WorkerWait, WorkerTimedWait, WorkerHasWork, WorkerTimeout, SpuriousWake
    <3>3. CASE start_background(h) \/ SpawnOk(h) \/ SpawnFails(h) \/ JoinReturns(h)
      BY <3>3 DEF TypeOK, start_background, SpawnOk, SpawnFails, JoinReturns, LifecycleInv
    <3> QED BY <1>6, <3>1, <3>2, <3>3
  <2> QED BY <2>1, <2>2 DEF SerialInv, NoRequestLost, TryInv, Pending
<1>7. CASE UNCHANGED vars
  BY <1>7 DEF vars, state, history, SerialInv, NoRequestLost, TryInv, Pending
<1> QED BY <1>1, <1>2, <1>3, <1>4, <1>5, <1>6, <1>7 DEF Next

(* The inductive invariant holds in every reachable state. *)
LEMMA Inductive == Init_Next => []IInv
<1>1. IInv /\ [Next]_vars => IInv'
  BY NextTypeOK, NextLifecycle, NextSerials DEF IInv
<1> QED BY InitIInv, <1>1, PTL DEF Init_Next

(* DebouncedSyncScheduler keeps its types. *)
THEOREM TypeCorrect == Spec => []TypeOK
BY Inductive, PTL DEF Spec, IInv

(* request / finish_sync_attempt: nothing is pending only when the latest request was served. *)
THEOREM NoRequestIsLost == Spec => []NoRequestLost
BY Inductive, PTL DEF Spec, IInv

(* start_background / run_background / shutdown: one background thread, known to the flag. *)
THEOREM OneThread == Spec => []OneBackgroundThread
BY Inductive, PTL DEF Spec, IInv

(* run_background: a request is tried once, and only after its debounce window. *)
THEOREM TriedOnce == Spec => OneTryPerRequest
<1> DEFINE Step ==
      \A h \in Handles :
        worker[h] # "syncing" /\ worker'[h] = "syncing" =>
          /\ attempted < request_serial
          /\ now >= due_at(requested_at)
<1>1. IInv /\ [Next]_vars => [Step]_vars
  <2> SUFFICES ASSUME IInv, Next, NEW g \in Handles, worker[g] # "syncing", worker'[g] = "syncing"
               PROVE  attempted < request_serial /\ now >= due_at(requested_at)
    OBVIOUS
  <2> USE NotifyFacts, HandlesAreNotCallers DEF IInv
  <2>1. \E h \in Handles : WorkerBegin(h)
    <3>1. ~request /\ ~Tick
      BY DEF request, Tick
    <3>2. \A c \in Callers : ~run_due(c) /\ ~flush(c)
      BY DEF run_due, flush
    <3>3. \A t \in Threads, ok \in BOOLEAN : ~finish_sync_attempt(t, ok)
      BY DEF finish_sync_attempt
    <3>4. \A h \in Handles : ~(WorkerExit(h) \/ shutdown(h) \/ DropLive(h) \/ DropJoined(h))
      BY DEF WorkerExit, shutdown, DropLive, DropJoined, shutdown_inner
    <3>5. \A h \in Handles :
            ~(WorkerWait(h) \/ WorkerTimedWait(h) \/ WorkerTimeout(h) \/ SpuriousWake(h))
      BY DEF TypeOK, WorkerWait, WorkerTimedWait, WorkerTimeout, SpuriousWake
    <3>6. \A h \in Handles :
            ~(start_background(h) \/ SpawnOk(h) \/ SpawnFails(h) \/ JoinReturns(h))
      BY DEF TypeOK, start_background, SpawnOk, SpawnFails, JoinReturns
    <3> QED BY <3>1, <3>2, <3>3, <3>4, <3>5, <3>6 DEF Next
  <2>2. PICK h \in Handles : WorkerBegin(h)
    BY <2>1
  <2>3. /\ Pending /\ failed_request_serial # request_serial
        /\ worker[h] = "check" /\ now >= due_at(requested_at)
    BY <2>2 DEF WorkerBegin, WorkerHasWork
  <2>4. \A k \in Handles : worker[k] # "syncing"
    BY <2>3 DEF OneBackgroundThread, Alive
  <2>5. attempted # request_serial
    BY <2>3, <2>4 DEF TryInv
  <2> QED BY <2>3, <2>5 DEF SerialInv, TypeOK
<1> QED BY Inductive, <1>1, PTL DEF Spec, Init_Next, OneTryPerRequest

-----------------------------------------------------------------------------
(* The refinement.  A step that leaves a variable of the mapping as it was. *)
LEMMA Unmoved ==
  /\ UNCHANGED state /\ UNCHANGED now => UNCHANGED Status
  /\ UNCHANGED <<attempt, request_serial>> => UNCHANGED [t \in Threads |-> Standing(t)]
  /\ UNCHANGED background_running => UNCHANGED IF background_running THEN "on" ELSE "off"
<1>1. UNCHANGED state /\ UNCHANGED now => UNCHANGED Status
  BY DEF state, Status, Pending, due_at
<1>2. UNCHANGED <<attempt, request_serial>> => UNCHANGED [t \in Threads |-> Standing(t)]
  BY DEF Standing
<1>3. UNCHANGED background_running => UNCHANGED IF background_running THEN "on" ELSE "off"
  OBVIOUS
<1> QED BY <1>1, <1>2, <1>3

(* BeginAttempt files the attempt under the latest request. *)
LEMMA BeginsCurrent ==
  ASSUME TypeOK, NEW t \in Threads, BeginAttempt(t), UNCHANGED request_serial
  PROVE  [u \in Threads |-> Standing(u)]' = [[u \in Threads |-> Standing(u)] EXCEPT ![t] = "current"]
<1>1. attempt' \in [Threads -> Attempts] /\ attempt'[t].serial = request_serial /\ attempt'[t] # NoAttempt
  BY DEF TypeOK, BeginAttempt, Attempts, NoAttempt, None
<1>2. \A u \in Threads : u # t => attempt'[u] = attempt[u]
  BY DEF TypeOK, BeginAttempt
<1>3. Standing(t)' = "current" /\ \A u \in Threads : u # t => Standing(u)' = Standing(u)
  BY <1>1, <1>2 DEF Standing
<1> QED BY <1>3

(* While a handle's thread looks for work, no handle has an attempt; and    *)
(* neither when there is no background thread.                              *)
LEMMA NoneBusy ==
  ASSUME IInv, (\E h \in Handles : worker[h] = "check")
  PROVE  \A g \in Handles : Standing(g) = "none"
<1>1. \A g \in Handles : worker[g] # "syncing"
  BY DEF IInv, OneBackgroundThread, Alive
<1> QED BY <1>1 DEF IInv, LifecycleInv, Standing

(* finish_sync_attempt does what Succeed or Fail says. *)
LEMMA FinishImplements ==
  ASSUME IInv, NEW t \in Threads, NEW ok \in BOOLEAN, finish_sync_attempt(t, ok)
  PROVE  Debounced!Succeed(t) \/ Debounced!Fail(t)
<1> DEFINE A == [u \in Threads |-> Standing(u)]
<1>1. A[t] # "none" /\ (A[t] = "current" <=> attempt[t].serial = request_serial)
  BY DEF finish_sync_attempt, Standing
<1>2. A' = [A EXCEPT ![t] = "none"]
  <2>1. Standing(t)' = "none"
    BY DEF finish_sync_attempt, Standing, IInv, TypeOK
  <2>2. \A u \in Threads : u # t => Standing(u)' = Standing(u)
    BY DEF finish_sync_attempt, Standing, IInv, TypeOK
  <2> QED BY <2>1, <2>2
<1>3. UNCHANGED IF background_running THEN "on" ELSE "off"
  BY Unmoved DEF finish_sync_attempt, lifecycle
<1>4. UNCHANGED <<now, request_serial>> /\ ApplyResult(attempt[t].serial, ok)
  BY DEF finish_sync_attempt
<1>5. CASE attempt[t].serial # request_serial
  <2>1. UNCHANGED Status
    BY <1>4, <1>5, Unmoved DEF ApplyResult, state
  <2> QED BY <2>1, <1>1, <1>2, <1>3, <1>5 DEF Debounced!Succeed
<1>6. CASE attempt[t].serial = request_serial /\ ok
  <2>1. Status' = "clean"
    BY <1>4, <1>6 DEF ApplyResult, Status, Pending
  <2> QED BY <2>1, <1>1, <1>2, <1>3, <1>6 DEF Debounced!Succeed
<1>7. CASE attempt[t].serial = request_serial /\ ~ok
  <2>1. Status' = IF Status # "clean" THEN "failed" ELSE Status
    BY <1>4, <1>7 DEF ApplyResult, Status, Pending
  <2> QED BY <2>1, <1>1, <1>2, <1>3, <1>7 DEF Debounced!Fail
<1> QED BY <1>5, <1>6, <1>7

(* Every step of the scheduler is a step of DebouncedSync, or leaves its variables alone. *)
LEMMA StepImplements ==
  ASSUME IInv, IInv', [Next]_vars
  PROVE  [Debounced!Next]_(Debounced!vars)
<1> DEFINE A == [u \in Threads |-> Standing(u)]
           B == IF background_running THEN "on" ELSE "off"
<1> USE DEF Debounced!vars
<1>1. CASE request
  <2>1. Status' = IF Debounce = 0 THEN "due" ELSE "waiting"
    <3>1. requested_at' = now /\ now' = now /\ failed_request_serial' = None /\ request_serial' \in Nat
      BY <1>1 DEF request, IInv, TypeOK
    <3> QED BY <3>1, DebounceIsNat DEF Status, Pending, due_at, None, IInv, TypeOK
  <2>2. \A t \in Threads : Standing(t)' = IF Standing(t) = "none" THEN "none" ELSE "stale"
    BY <1>1 DEF request, Standing, IInv, SerialInv, TypeOK, Attempts
  <2>3. A' = [t \in Threads |-> IF A[t] = "none" THEN "none" ELSE "stale"]
    BY <2>2
  <2>4. UNCHANGED B
    BY <1>1 DEF request, lifecycle
  <2> QED BY <2>1, <2>3, <2>4 DEF Debounced!Next, Debounced!File, Threads
<1>2. CASE Tick
  <2>1. UNCHANGED A /\ UNCHANGED B
    BY <1>2, Unmoved DEF Tick, state, lifecycle
  <2>2. Status' = Status \/ (Status = "waiting" /\ Status' = "due")
    BY <1>2, DebounceIsNat DEF Tick, state, Status, Pending, due_at, IInv, TypeOK
  <2> QED BY <2>1, <2>2 DEF Debounced!Next, Debounced!Ripen
<1>3. ASSUME NEW c \in Callers, run_due(c) \/ flush(c)
      PROVE  Debounced!Next
  <2>1. BeginAttempt(c) /\ UNCHANGED <<now, state, lifecycle>> /\ A[c] = "none" /\ c \in Threads
    BY <1>3 DEF run_due, flush, Standing, Threads
  <2>2. A' = [A EXCEPT ![c] = "current"]
    BY <2>1, BeginsCurrent DEF IInv, state
  <2>3. UNCHANGED Status /\ UNCHANGED B
    BY <2>1, Unmoved DEF lifecycle
  <2> QED BY <2>1, <2>2, <2>3 DEF Debounced!Next, Debounced!Try
<1>4. ASSUME NEW t \in Threads, NEW ok \in BOOLEAN, finish_sync_attempt(t, ok)
      PROVE  Debounced!Next
  BY <1>4, FinishImplements DEF Debounced!Next, Threads
<1>5. ASSUME NEW h \in Handles, WorkerBegin(h)
      PROVE  Debounced!Next
  <2>1. BeginAttempt(h) /\ UNCHANGED <<now, state, lifecycle>> /\ h \in Threads /\ worker[h] = "check"
    BY <1>5 DEF WorkerBegin, WorkerHasWork, Threads
  <2>2. A' = [A EXCEPT ![h] = "current"]
    BY <2>1, BeginsCurrent DEF IInv, state
  <2>3. UNCHANGED Status /\ UNCHANGED B
    BY <2>1, Unmoved DEF lifecycle
  <2>4. Status = "due"
    BY <1>5, DebounceIsNat DEF WorkerBegin, WorkerHasWork, Status, IInv, TypeOK, due_at, Pending
  <2>5. B = "on"
    BY <2>1 DEF IInv, OneBackgroundThread, Alive
  <2>6. \A g \in Handles : A[g] = "none"
    BY <2>1, NoneBusy DEF Threads
  <2> QED BY <2>2, <2>3, <2>4, <2>5, <2>6 DEF Debounced!Next, Debounced!TryDue
<1>6. ASSUME NEW h \in Handles, WorkerExit(h)
      PROVE  Debounced!Next
  <2>1. UNCHANGED Status /\ UNCHANGED A
    BY <1>6, Unmoved DEF WorkerExit, state
  <2>2. B = "on" /\ B' = "off"
    BY <1>6 DEF WorkerExit, IInv, OneBackgroundThread, Alive
  <2>3. \A g \in Handles : A[g] = "none"
    BY <1>6, NoneBusy DEF WorkerExit, Threads
  <2> QED BY <2>1, <2>2, <2>3 DEF Debounced!Next, Debounced!Stop
<1>7. ASSUME NEW h \in Handles, start_background(h)
      PROVE  Debounced!Next
  <2>1. UNCHANGED Status /\ UNCHANGED A
    BY <1>7, Unmoved DEF start_background, state
  <2>2. B = "off" /\ B' = "on"
    BY <1>7 DEF start_background
  <2> QED BY <2>1, <2>2 DEF Debounced!Next, Debounced!Start
<1>8. ASSUME NEW h \in Handles, SpawnFails(h)
      PROVE  Debounced!Next
  <2>1. UNCHANGED Status /\ UNCHANGED A
    BY <1>8, Unmoved DEF SpawnFails, state
  <2>2. B = "on" /\ B' = "off"
    BY <1>8 DEF SpawnFails, IInv, OneBackgroundThread
  <2>3. \A g \in Handles : worker[g] # "syncing"
    BY <1>8 DEF SpawnFails, IInv, OneBackgroundThread, LifecycleInv, Alive
  <2>4. \A g \in Handles : A[g] = "none"
    BY <2>3 DEF IInv, LifecycleInv, Standing, Threads
  <2> QED BY <2>1, <2>2, <2>4 DEF Debounced!Next, Debounced!Stop
<1>9. ASSUME NEW h \in Handles,
             WorkerWait(h) \/ WorkerTimedWait(h) \/ WorkerTimeout(h) \/ SpuriousWake(h)
               \/ SpawnOk(h) \/ shutdown(h) \/ DropLive(h) \/ DropJoined(h) \/ JoinReturns(h)
      PROVE  UNCHANGED <<Status, A, B>>
  <2>1. UNCHANGED <<now, state, attempt, background_running>>
    BY <1>9 DEF WorkerWait, WorkerTimedWait, WorkerTimeout, SpuriousWake, SpawnOk, shutdown,
                DropLive, DropJoined, shutdown_inner, JoinReturns, lifecycle
  <2> QED BY <2>1, Unmoved DEF state
<1>10. CASE UNCHANGED vars
  BY <1>10, Unmoved DEF vars, state, lifecycle
<1> QED BY <1>1, <1>2, <1>3, <1>4, <1>5, <1>6, <1>7, <1>8, <1>9, <1>10 DEF Next

(* DebouncedSyncScheduler implements DebouncedSync: with its clock, request *)
(* numbers, wake-ups and handles, for any of them, every attempt accounts   *)
(* for the requests filed before it began and no other, and the background  *)
(* thread tries, alone, what is due and has not failed.                     *)
THEOREM Refinement == Spec => ImplementsDebouncedSync
<1>1. Init => Debounced!Init
  BY DEF Init, Debounced!Init, Status, Standing, Pending, Threads
<1>2. IInv /\ IInv' /\ [Next]_vars => [Debounced!Next]_(Debounced!vars)
  BY StepImplements
<1> QED BY Inductive, <1>1, <1>2, PTL DEF Spec, Init_Next, ImplementsDebouncedSync, Debounced!Spec

=============================================================================
