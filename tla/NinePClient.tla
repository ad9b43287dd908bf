---------------------------- MODULE NinePClient ----------------------------
(***************************************************************************)
(* NinePClientFs and NinePFile of crates/star9-protocol/src/p9.rs over a   *)
(* NinePServer: every call of the FileSystem interface is a sequence of    *)
(* requests that walks new fids from the root, uses them and clunks them.  *)
(*                                                                         *)
(* Threads share one client, each with at most one call in progress and    *)
(* one open file.  A call is a plan of requests; what follows an error is  *)
(* up to the code of the call.  A request may be lost on the way to the    *)
(* server, and a reply on the way back (a failed round_trip).              *)
(***************************************************************************)
EXTENDS NinePServer

CONSTANTS
  Calls,         (* the FileSystem and FileHandle calls made: [op, path, path2, byte]  *)
  InitTree,      (* the served tree                                                    *)
  MaxCalls,      (* bound on the number of FileSystem calls                            *)
  MaxFailures    (* bound on the number of failed round trips                          *)

ASSUME ClientBounds == MaxCalls \in Nat /\ MaxFailures \in Nat

VARIABLES
  connected,  (* NinePClientFs::connect has succeeded                              *)
  next_fid,   (* NinePClientInner.next_fid                                         *)
  client,     (* per thread: the call in progress                                  *)
  file,       (* per thread: fid of the NinePFile it has open                      *)
  calls,      (* number of FileSystem calls made                                   *)
  failures,   (* number of failed round trips                                      *)
  orphans     (* history: fids whose clunk cannot be expected of the client        *)

clientVars == <<connected, next_fid, client, file, calls, failures, orphans>>
vars == <<server, clientVars>>

root_fid == 1
NoFid == 0

(* plan: the steps still to do; held: fids walked and not clunked; failed: an error   *)
(* is on its way to the caller; entries, offset: read_dir so far; was_dir: what stat  *)
(* saw; quiet: history, the tree has not changed since the call began.                *)
NoCall == [op |-> "none", path |-> <<>>, path2 |-> <<>>, byte |-> Zero, plan |-> <<>>, held |-> <<>>,
           failed |-> FALSE, entries |-> <<>>, offset |-> 0, was_dir |-> FALSE, quiet |-> TRUE]

Init ==
  /\ InitServer([f \in {} |-> unopened(<<>>)], InitTree)
  /\ connected = FALSE
  /\ next_fid = 2
  /\ client = [t \in Threads |-> NoCall]
  /\ file = [t \in Threads |-> NoFid]
  /\ calls = 0
  /\ failures = 0
  /\ orphans = {}

-----------------------------------------------------------------------------
(* The calls, as plans.  A walk names its path; "keep" turns the fid into   *)
(* the open file; "close" clunks the open file.                             *)

Walk(p) == [do |-> "walk", path |-> p]
Do(type) == [do |-> type, path |-> <<>>]

Plan(c) ==
  LET at == Walk(c.path)
      in == Walk(parent_path(c.path))
      in2 == Walk(parent_path(c.path2))
      clunk1 == Do("clunk")
  IN  CASE c.op = "connect" -> <<Do("version"), Do("attach")>>
        [] c.op \in {"open", "open_rdonly"} -> <<at, Do("lopen"), Do("keep")>>
        [] c.op = "open_trunc" -> <<at, Do("lopen"), Do("keep"), at, Do("setattr"), clunk1>>
        [] c.op = "create" -> <<in, Do("lcreate"), Do("keep")>>
        [] c.op = "read_dir" -> <<at, Do("lopen"), Do("readdir"), clunk1>>
        [] c.op = "stat" -> <<at, Do("getattr"), clunk1>>
        [] c.op = "set_attr" -> <<at, Do("setattr"), clunk1>>
        [] c.op = "readlink" -> <<at, Do("readlink"), clunk1>>
        [] c.op = "mkdir" -> <<in, Do("mkdir"), clunk1>>
        [] c.op = "symlink" -> <<in, Do("symlink"), clunk1>>
        [] c.op = "remove" -> <<at, Do("getattr"), clunk1, in, Do("unlinkat"), clunk1>>
        [] c.op = "rename" -> <<in, in2, Do("renameat"), clunk1, clunk1>>
        [] c.op = "link" -> <<at, in2, Do("link"), clunk1, clunk1>>
        [] c.op = "set_xattr" -> <<at, Do("xattrcreate"), Do("write0"), Do("write1"), clunk1>>
        [] c.op = "get_xattr" -> <<at, Do("xattrwalk"), clunk1, Do("read"), clunk1>>
        [] c.op \in {"file_read", "file_write", "file_sync"} -> <<Do(c.op)>>
        [] c.op = "close" -> <<Do("close")>>

Uncounted == {"connect", "file_read", "file_write", "file_sync", "close"}
OnFile == {"file_read", "file_write", "file_sync", "close"}

(* A FileSystem call, or a call on the thread's open file. *)
Call(t, c) ==
  /\ client[t] = NoCall
  /\ c.op \in Uncounted \/ calls < MaxCalls
  /\ connected = (c.op # "connect") /\ (c.op = "connect" => \A u \in Threads : client[u] = NoCall)
  /\ (c.op \in OnFile) <=> (file[t] # NoFid)
  /\ client' = [client EXCEPT ![t] = [NoCall EXCEPT !.op = c.op, !.path = c.path, !.path2 = c.path2,
                                                    !.byte = c.byte, !.plan = Plan(c)]]
  /\ calls' = IF c.op \in Uncounted THEN calls ELSE calls + 1
  /\ UNCHANGED <<server, connected, next_fid, file, failures, orphans>>

(* The request a step sends; g is the fid a walk allocates. *)
Request(t, step, g) ==
  LET c == client[t]
      held == c.held
      f == IF held = <<>> THEN NoFid ELSE held[1]
      name == IF c.path = <<>> THEN 0 ELSE c.path[Len(c.path)]
      name2 == IF c.path2 = <<>> THEN 0 ELSE c.path2[Len(c.path2)]
  IN  CASE step.do = "version" -> [type |-> "version"]
        [] step.do = "attach" -> [type |-> "attach", fid |-> root_fid]
        [] step.do = "walk" -> [type |-> "walk", fid |-> root_fid, newfid |-> g, names |-> step.path]
        [] step.do = "xattrwalk" -> [type |-> "xattrwalk", fid |-> f, newfid |-> g]
        [] step.do \in {"lopen", "getattr", "readlink", "read", "clunk"} -> [type |-> step.do, fid |-> f]
        [] step.do = "setattr" -> [type |-> "setattr", fid |-> f, size |-> c.op = "open_trunc"]
        [] step.do \in {"lcreate", "mkdir", "symlink"} -> [type |-> step.do, fid |-> f, name |-> name]
        [] step.do = "readdir" -> [type |-> "readdir", fid |-> f, offset |-> c.offset]
        [] step.do = "unlinkat" -> [type |-> "unlinkat", fid |-> f, name |-> name, removedir |-> c.was_dir]
        [] step.do = "renameat" ->
             [type |-> "renameat", fid |-> f, name |-> name, newfid |-> held[2], newname |-> name2]
        [] step.do = "link" -> [type |-> "link", fid |-> f, newfid |-> held[2], name |-> name2]
        [] step.do = "xattrcreate" -> [type |-> "xattrcreate", fid |-> f, size |-> 2]
        [] step.do = "write0" -> [type |-> "write", fid |-> f, offset |-> 0, n |-> 1, byte |-> c.byte]
        [] step.do = "write1" -> [type |-> "write", fid |-> f, offset |-> 1, n |-> 1, byte |-> c.byte]
        [] step.do = "file_read" -> [type |-> "read", fid |-> file[t]]
        [] step.do = "file_write" -> [type |-> "write", fid |-> file[t]]
        [] step.do = "file_sync" -> [type |-> "fsync", fid |-> file[t]]
        [] step.do = "close" -> [type |-> "clunk", fid |-> file[t]]

Step(t) == Head(client[t].plan)
Allocates(step) == step.do \in {"walk", "xattrwalk"}

(* call: send the request of the next step; it may never arrive.  A clunk that does    *)
(* not arrive leaves its fid with the server.                                          *)
send(t) ==
  /\ client[t].plan # <<>> /\ Step(t).do # "keep" /\ handler[t].pc = "idle"
  /\ LET req == Request(t, Step(t), next_fid)
     IN  /\ next_fid' = IF Allocates(Step(t)) THEN next_fid + 1 ELSE next_fid
         /\ next_fid' - 1 \in Fids
         /\ \/ Start(t, req) /\ UNCHANGED <<failures, orphans>>
            \/ /\ failures < MaxFailures
               /\ handler' = [handler EXCEPT ![t] = [Ready EXCEPT !.pc = "done", !.req = req]]
               /\ failures' = failures + 1
               /\ orphans' = IF req.type = "clunk" THEN orphans \cup {req.fid} ELSE orphans
  /\ UNCHANGED <<fids, lock, tree, lost, connected, client, file, calls>>

-----------------------------------------------------------------------------
(* What a call does with a reply.                                           *)

Clunks(held) == [i \in DOMAIN held |-> Do("clunk")]

(* Mutant of GiveUp: the fids walked so far are not clunked. *)
GiveUpAtOnce(c) == [c EXCEPT !.failed = TRUE, !.plan = <<>>]

(* The error path: clunk what is held and return the error. *)
GiveUp(c) == [c EXCEPT !.failed = TRUE, !.plan = Clunks(c.held)]

(* The error path of walk_fid is the caller's `?`: what rename and link hold already  *)
(* is not clunked.  After a partial walk the new fid alone is.                        *)
WalkError(c) == [c EXCEPT !.failed = TRUE, !.plan = <<>>, !.held = <<>>]
PartialWalk(c, g) == [c EXCEPT !.failed = TRUE, !.plan = <<Do("clunk")>>, !.held = <<g>>]

AfterOk(c, step, req, reply) ==
  LET done == [c EXCEPT !.plan = Tail(@)]
  IN  CASE step.do = "walk" /\ reply.n < Len(step.path) -> PartialWalk(c, req.newfid)
        [] step.do = "walk" /\ reply.n = Len(step.path) -> [done EXCEPT !.held = Append(@, req.newfid)]
        [] step.do = "xattrwalk" ->
             [done EXCEPT !.held = Append(@, req.newfid),
                          !.plan = IF reply.n = 0 THEN <<Do("clunk"), Do("clunk")>> ELSE @]
        [] step.do = "clunk" -> [done EXCEPT !.held = Tail(@)]
        [] step.do = "getattr" -> [done EXCEPT !.was_dir = reply.n = 1]
        [] step.do = "readdir" ->
             IF reply.names = <<>> THEN done
             ELSE [c EXCEPT !.entries = @ \o reply.names, !.offset = reply.n]
        [] step.do \notin {"walk", "xattrwalk", "clunk", "getattr", "readdir"} -> done

(* A clunk is answered with an error also when the server has dropped the fid. *)
AfterError(c, step, req) ==
  CASE step.do = "walk" -> WalkError(c)
    [] step.do = "xattrwalk" -> GiveUp([c EXCEPT !.held = Append(@, req.newfid)])
    [] step.do = "clunk" -> GiveUp([c EXCEPT !.held = Tail(@)])
    [] step.do = "close" -> [c EXCEPT !.failed = TRUE, !.plan = Tail(@)]
    [] step.do \notin {"walk", "xattrwalk", "clunk", "close"} -> GiveUp(c)

(* A fid the server may have although the client was told of an error: a walk whose   *)
(* reply was lost, and what rename and link hold when their second walk fails.        *)
Orphaned(c, step, req, replyLost) ==
  IF step.do = "walk" THEN {c.held[i] : i \in DOMAIN c.held} \cup (IF replyLost THEN {req.newfid} ELSE {})
  ELSE {}

receive(t) ==
  /\ handler[t].pc = "done"
  /\ handler' = [handler EXCEPT ![t] = Ready]
  /\ LET c == client[t]
         req == handler[t].req
         reply == handler[t].reply
         closed == Step(t).do = "close"
     IN  \/ /\ reply.ok
            /\ client' = [client EXCEPT ![t] = AfterOk(c, Step(t), req, reply)]
            /\ file' = [file EXCEPT ![t] = IF closed THEN NoFid ELSE @]
            /\ orphans' = IF Step(t).do = "walk" /\ reply.n < Len(Step(t).path)
                          THEN orphans \cup {c.held[i] : i \in DOMAIN c.held} ELSE orphans
            /\ UNCHANGED failures
         \/ /\ ~reply.ok \/ failures < MaxFailures
            /\ client' = [client EXCEPT ![t] = AfterError(c, Step(t), req)]
            /\ failures' = IF reply.ok THEN failures + 1 ELSE failures
            /\ orphans' = orphans \cup Orphaned(c, Step(t), req, reply.ok)
            /\ UNCHANGED file
  /\ UNCHANGED <<fids, lock, tree, lost, connected, next_fid, calls>>

(* NinePFile::new *)
keep(t) ==
  /\ client[t].plan # <<>> /\ Step(t).do = "keep"
  /\ file' = [file EXCEPT ![t] = client[t].held[1]]
  /\ client' = [client EXCEPT ![t].plan = Tail(@), ![t].held = <<>>]
  /\ UNCHANGED <<server, connected, next_fid, calls, failures, orphans>>

(* The call returns.  open tries again read-only; a truncating open that cannot        *)
(* truncate, and a close that failed, drop the NinePFile, which clunks the fid again.   *)
Follow(c, fid) ==
  IF c.failed /\ c.op = "open"
  THEN [NoCall EXCEPT !.op = "open_rdonly", !.path = c.path, !.plan = Plan(c)]
  ELSE IF c.failed /\ c.op \in {"open_trunc", "close"} /\ fid # NoFid
       THEN [NoCall EXCEPT !.op = "drop", !.plan = <<Do("close")>>]
       ELSE NoCall

return(t) ==
  /\ client[t].op # "none" /\ client[t].plan = <<>> /\ handler[t].pc = "idle"
  /\ client' = [client EXCEPT ![t] = Follow(client[t], file[t])]
  /\ file' = [file EXCEPT ![t] = IF client[t].op = "drop" THEN NoFid ELSE @]
  /\ connected' = (connected \/ (client[t].op = "connect" /\ ~client[t].failed))
  /\ UNCHANGED <<server, next_fid, calls, failures, orphans>>

(* A step of the server; history: it tells the calls in progress that the tree changed. *)
ServerStep(t) ==
  /\ HandlerStep(t)
  /\ client' = [u \in Threads |-> [client[u] EXCEPT !.quiet = @ /\ (tree' = tree \/ client[u].op # "read_dir")]]
  /\ UNCHANGED <<connected, next_fid, file, calls, failures, orphans>>

Finished == calls = MaxCalls /\ \A t \in Threads : client[t] = NoCall

Next ==
  \/ \E t \in Threads : \/ \E c \in Calls : Call(t, c)
                        \/ send(t) \/ receive(t) \/ keep(t) \/ return(t) \/ ServerStep(t)
  \/ Finished /\ UNCHANGED vars

Spec == Init /\ [][Next]_vars

-----------------------------------------------------------------------------

TypeOK ==
  /\ ServerTypeOK
  /\ next_fid \in 2..Cardinality(Fids) + 2
  /\ \A t \in Threads : file[t] \in Fids \cup {NoFid} /\ client[t].path \in Paths \cup {<<>>}
  /\ calls \in 0..MaxCalls /\ failures \in 0..MaxFailures
  /\ orphans \subseteq Fids

Held(t) == {client[t].held[i] : i \in DOMAIN client[t].held} \cup {file[t]}
           \cup (IF handler[t].req.type \in NewFid THEN {handler[t].req.newfid} ELSE {})

(* Every fid of the server's table belongs to a call in progress or to an open file,   *)
(* through every error path of the client's calls.  Excepted are round trips that fail *)
(* and the one error path the code has no clunk for: rename and link return at once    *)
(* when their second walk fails, and leave the fid of the first with the server.  Nor  *)
(* is a write that was acknowledged dropped: the server closes the file of every fid   *)
(* that was written to, whichever way the client gives the fid up.                     *)
NoFidLeak ==
  ~lost /\ \A f \in DOMAIN fids \ {root_fid} : f \in orphans \/ \E t \in Threads : f \in Held(t)

(* A directory listing is collected from several Rreaddir with offsets into it: if the   *)
(* tree does not change meanwhile, it is the directory, each entry once.                 *)
ListingIsExact ==
  \A t \in Threads :
    (client[t].op = "read_dir" /\ client[t].quiet /\ ~client[t].failed
       /\ client[t].plan = <<Do("clunk")>>) => client[t].entries = Children(client[t].path)

=============================================================================
