----------------------------- MODULE NinePAsync -----------------------------
(***************************************************************************)
(* AsyncNinePServer of crates/star9-protocol/src/p9.rs: every request but  *)
(* Tflush is handled by a thread of its own; a map of pending tags decides *)
(* whether the reply a thread ends with is queued or thrown away.  Tflush, *)
(* and a second request under a pending tag, cancel the pending one.       *)
(*                                                                         *)
(* A thread is identified with the request it was spawned for; the caller  *)
(* of handle_frame is any client, well-behaved or not.                     *)
(***************************************************************************)
EXTENDS NinePServer

CONSTANTS
  Tags,         (* request tags                                  *)
  Requests,     (* the requests clients may send                 *)
  InitFids,     (* fids of the session so far                    *)
  InitTree      (* the served tree                               *)

ASSUME ThreadsAreNumbered == IsFiniteSet(Threads) /\ Threads = 1..Cardinality(Threads)

(* A write has an offset and bytes, an attribute a size, a file a name; in the session  *)
(* so far an attribute is being collected as the server does it, and none is torn.      *)
ASSUME RequestsAreTyped ==
  \A req \in Requests :
    /\ req.type = "write" => req.offset \in Nat /\ req.n \in Nat /\ req.byte \in Bytes
    /\ req.type = "xattrcreate" => req.size \in Nat
    /\ req.type = "walk" => req.names \in Seq(Nat)
    /\ req.type \in {"lcreate", "mkdir", "symlink", "link", "renameat", "unlinkat"} => req.name \in Nat
    /\ req.type = "renameat" => req.newname \in Nat
ASSUME SessionIsExact ==
  /\ \A f \in DOMAIN InitFids : DOMAIN InitFids[f] = {"path", "handle"} /\ InitFids[f].path \in Seq(Nat)
  /\ \A f \in DOMAIN InitFids : LET h == InitFids[f].handle IN h.kind = "xattr_write" => IsXattrWrite(h) /\ Exact(h)
  /\ DOMAIN InitTree \subseteq Paths /\ \A p \in DOMAIN InitTree : InitTree[p] # Torn

VARIABLES
  received,   (* number of requests received; each has a thread number           *)
  tag,        (* per thread: the tag of its request                              *)
  out,        (* per thread: what becomes of its reply                           *)
  pending,    (* AsyncNinePServerInner.pending: tag to thread                    *)
  cancelled,  (* the threads whose AsyncPending.cancelled is set                 *)
  responses,  (* AsyncNinePServerInner.responses, as the threads they come from  *)
  flushed     (* history: requests a Tflush named too late to cancel them        *)

async == <<received, tag, out, pending, cancelled, responses, flushed>>
vars == <<server, async>>

Init ==
  /\ InitServer(InitFids, InitTree)
  /\ received = 0
  /\ tag = [t \in Threads |-> CHOOSE g \in Tags : TRUE]
  /\ out = [t \in Threads |-> "none"]
  /\ pending = [g \in {} |-> 0]
  /\ cancelled = {}
  /\ responses = <<>>
  /\ flushed = {}

WithoutTag(g) == [h \in DOMAIN pending \ {g} |-> pending[h]]

CancelPending(g) ==
  /\ pending' = WithoutTag(g)
  /\ cancelled' = cancelled \cup {pending[h] : h \in {g} \cap DOMAIN pending}

(* A request under a free tag: it becomes pending and its thread is spawned. *)
handle_frame(g, req) ==
  LET t == received + 1
  IN  /\ t \in Threads
      /\ g \notin DOMAIN pending
      /\ received' = t
      /\ tag' = [tag EXCEPT ![t] = g]
      /\ out' = [out EXCEPT ![t] = "running"]
      /\ pending' = [h \in DOMAIN pending \cup {g} |-> IF h = g THEN t ELSE pending[h]]
      /\ Start(t, req)
      /\ UNCHANGED <<fids, lock, tree, lost, cancelled, responses, flushed>>

(* A request under a pending tag: the pending one is cancelled, this one refused. *)
duplicate_tag(g) ==
  LET t == received + 1
  IN  /\ t \in Threads
      /\ g \in DOMAIN pending
      /\ received' = t
      /\ tag' = [tag EXCEPT ![t] = g]
      /\ out' = [out EXCEPT ![t] = "refused"]
      /\ CancelPending(g)
      /\ UNCHANGED <<server, responses, flushed>>

(* Tflush: cancel(oldtag), then Rflush whether or not anything was pending. *)
flush(oldtag) ==
  /\ CancelPending(oldtag)
  /\ flushed' = flushed \cup {t \in 1..received : tag[t] = oldtag /\ out[t] = "sending"}
  /\ UNCHANGED <<server, received, tag, out, responses>>

(* Mutant of Decide: any pending request under the tag lets the reply through. *)
DecideByTag(t) ==
  IF tag[t] \in DOMAIN pending /\ pending[tag[t]] \notin cancelled
  THEN pending' = WithoutTag(tag[t]) /\ out' = [out EXCEPT ![t] = "sending"]
  ELSE out' = [out EXCEPT ![t] = "silent"] /\ UNCHANGED pending

(* Arc::ptr_eq: the pending entry under the tag is this thread's own. *)
Decide(t) ==
  IF tag[t] \in DOMAIN pending /\ pending[tag[t]] = t /\ t \notin cancelled
  THEN pending' = WithoutTag(tag[t]) /\ out' = [out EXCEPT ![t] = "sending"]
  ELSE out' = [out EXCEPT ![t] = "silent"] /\ UNCHANGED pending

(* The thread decides under the mutex of pending ... *)
should_send(t) ==
  /\ handler[t].pc = "done" /\ out[t] = "running"
  /\ Decide(t)
  /\ handler' = [handler EXCEPT ![t] = Ready]
  /\ UNCHANGED <<fids, lock, tree, lost, received, tag, cancelled, responses, flushed>>

(* ... and queues the reply under that of responses. *)
push_response(t) ==
  /\ out[t] = "sending"
  /\ responses' = Append(responses, t)
  /\ out' = [out EXCEPT ![t] = "sent"]
  /\ UNCHANGED <<server, received, tag, pending, cancelled, flushed>>

(* next_response and recv_response_timeout, when there is a response. *)
next_response ==
  /\ responses # <<>>
  /\ responses' = Tail(responses)
  /\ UNCHANGED <<server, received, tag, out, pending, cancelled, flushed>>

HandleStep(t) == HandlerStep(t) /\ UNCHANGED async

ThreadStep == \E t \in Threads : HandleStep(t) \/ should_send(t) \/ push_response(t)

Next ==
  \/ \E g \in Tags : (\E req \in Requests : handle_frame(g, req)) \/ duplicate_tag(g) \/ flush(g)
  \/ ThreadStep
  \/ next_response

(* As long as some spawned thread can run, one does; requests are finitely many, so     *)
(* this is less than fairness of every thread.  It covers the call to the served file   *)
(* that read and write make under the mutex: one that never returns blocks the server.  *)
Fairness == WF_vars(ThreadStep)
Spec == Init /\ [][Next]_vars /\ Fairness

-----------------------------------------------------------------------------

TypeOK ==
  /\ ServerTypeOK
  /\ received \in 0..Cardinality(Threads)
  /\ tag \in [Threads -> Tags]
  /\ out \in [Threads -> {"none", "running", "refused", "sending", "silent", "sent"}]
  /\ DOMAIN pending \subseteq Tags /\ \A g \in DOMAIN pending : pending[g] \in 1..received
  /\ cancelled \subseteq 1..received /\ flushed \subseteq 1..received
  /\ \A i \in DOMAIN responses : responses[i] \in Threads

(* A request that was cancelled while pending, by Tflush or by a duplicate of its tag, *)
(* never has a reply queued, even when another request has since taken its tag         *)
(* (late reply suppression of AsyncNinePServer::handle_frame).                          *)
CancelledIsSilent == \A t \in cancelled : out[t] \notin {"sending", "sent"}

(* An attribute reaches the file system only when no byte of it is missing: with one    *)
(* byte value in use, a stored value is never a mixture (commit_xattr_if_ready).  What   *)
(* decides it, the ranges its writers record, are exactly the bytes written so far.      *)
AttributesAreWhole ==
  /\ RangesAreExact
  /\ Cardinality(Bytes) = 1 => \A p \in DOMAIN tree : tree[p] # Torn

(* Every request that gets a thread is answered, unless it was cancelled: no handler    *)
(* keeps the mutex of ServerState, whatever the others do meanwhile.                     *)
RequestIsAnswered ==
  \A t \in Threads : out[t] = "running" ~> (out[t] = "sent" \/ t \in cancelled)

(* What the documents say of Tflush: once Rflush has been returned, no reply of the      *)
(* flushed request is queued any more.                                                   *)
FlushedIsSilent == [][\A t \in flushed \cup cancelled : out'[t] = "sent" => out[t] = "sent"]_vars

=============================================================================
