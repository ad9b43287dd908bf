----------------------------- MODULE BrowserP9 -----------------------------
(***************************************************************************)
(* 9P over a MessagePort in the browser: Star9P9NamespaceMount and         *)
(* Star9P9FramePortClient (crates/star9-web/js/p9-port.js) on one side of  *)
(* two message queues, StorageP9FrameServer (storage-p9.js), which serves  *)
(* an asynchronous storage adapter, on the other.                          *)
(*                                                                         *)
(* JavaScript runs one piece of code at a time: an action is what happens  *)
(* between two awaits.  Calls of the mount interleave at their awaits, the *)
(* server's handlers at theirs.  A direct user of the client shares it     *)
(* with the mount, chooses its tags itself and may abort its requests.     *)
(*                                                                         *)
(* The adapter is the one of storage-file-system.js over a browser's       *)
(* directory handle: a FileTree, with the blocks of each file beside it.   *)
(* Its calls take effect at one moment each.  A block of a file, and       *)
(* DirChunk entries of a listing, fill a message.                          *)
(***************************************************************************)
EXTENDS FileTree

CONSTANTS
  Ops,           (* calls of the mount that may be in progress at a time              *)
  Calls,         (* the calls made: [op, path, blocks]                                *)
  InitTree, InitBlocks, (* what the adapter holds at the start                        *)
  NTags,         (* number of tags (0xfffe in the code)                               *)
  DirectTags,    (* the ones a direct user of the client chooses from                 *)
  DirChunk,
  MaxCalls,      (* bound on the number of calls                                      *)
  MaxTroubles    (* bound on direct requests, failures of the adapter and closings    *)

VARIABLES
  tree, blocks,            (* the adapter                                             *)
  next_tag, next_fid,      (* the mount's                                             *)
  closed,
  op,                      (* per call in progress: its state                         *)
  pending, cancelled,      (* the client's _pending (tag to request) and _cancelledTags *)
  client_closed,
  toServer, toClient,      (* the two directions of the port                          *)
  fids, handling,          (* the server's _fids and _pending                         *)
  server_closed,
  tasks,                   (* handlers that await the adapter, by request             *)
  calls, troubles,         (* numbers of calls, and of troubles                       *)
  sent,                    (* number of requests made: their names                    *)
  mixed,                   (* history: a reply resolved a request it does not answer  *)
  confused                 (* history: a request was made with a tag still in use     *)

mountVars == <<next_tag, next_fid, closed, op>>
clientVars == <<pending, cancelled, client_closed>>
serverVars == <<fids, handling, server_closed, tasks>>
adapterVars == <<tree, blocks>>
vars == <<mountVars, clientVars, serverVars, adapterVars, toServer, toClient, calls, troubles, sent, mixed, confused>>

root_fid == 1
Tags == 1..NTags
Zero == "zero"
Empty == [k \in {} |-> k]
With(f, k, v) == [j \in DOMAIN f \cup {k} |-> IF j = k THEN v ELSE f[j]]
Without(f, k) == [j \in DOMAIN f \ {k} |-> f[j]]

(* plan: steps to go, the one in progress first; id: the request awaited; got, offset:   *)
(* what read and readdir returned so far; quiet: history, nobody else has changed        *)
(* anything, and no adapter call failed, since the call began; verdict: history, of the  *)
(* call that ended last.                                                                 *)
NoOp == [state |-> "idle", op |-> "none", path |-> <<>>, blocks |-> <<>>, plan |-> <<>>, id |-> 0, fid |-> 0,
         failed |-> FALSE, got |-> <<>>, offset |-> 0, quiet |-> TRUE, verdict |-> "none"]

(* One more of what is bounded by MaxTroubles. *)
Trouble == troubles < MaxTroubles /\ troubles' = troubles + 1

(* connect has returned: it made two requests, Tversion and Tattach of the root. *)
Init ==
  /\ tree = InitTree /\ blocks = InitBlocks
  /\ next_tag = 3 /\ next_fid = 2 /\ fids = With(Empty, root_fid, <<>>)
  /\ closed = FALSE /\ client_closed = FALSE /\ server_closed = FALSE
  /\ op = [o \in Ops |-> NoOp]
  /\ pending = Empty /\ cancelled = {}
  /\ toServer = <<>> /\ toClient = <<>>
  /\ handling = Empty /\ tasks = Empty
  /\ calls = 0 /\ troubles = 0 /\ sent = 0
  /\ mixed = FALSE /\ confused = FALSE

-----------------------------------------------------------------------------
(* The calls of the mount, as plans of requests.  soft: errors are caught   *)
(* (remove's stat); "write" has the number of its block.                    *)

Walk(p) == [do |-> "walk", names |-> p, n |-> 0, soft |-> FALSE]
Do(what) == [do |-> what, names |-> <<>>, n |-> 0, soft |-> FALSE]
Softly(step) == [step EXCEPT !.soft = TRUE]

Plan(c) ==
  LET at == Walk(c.path)
      in == Walk(IF c.path = <<>> THEN <<>> ELSE parent_path(c.path))
      done == Do("clunk")
  IN  CASE c.op = "stat" -> <<at, Do("getattr"), done>>
        [] c.op = "readFile" -> <<at, Do("lopen"), Do("read"), done>>
        [] c.op = "readDir" -> <<at, Do("lopen"), Do("readdir"), done>>
        [] c.op = "mkdir" -> <<in, Do("mkdir"), done>>
        [] c.op = "writeFile" ->
             <<in, Do("lcreate")>> \o [n \in 1..Len(c.blocks) |-> [Do("write") EXCEPT !.n = n]] \o <<done>>
        [] c.op = "remove" -> <<Softly(at), Softly(Do("getattr")), Softly(done), in, Do("unlinkat"), done>>

Name(c) == IF c.path = <<>> THEN 0 ELSE Last(c.path)
NoMessage == [type |-> "none", tag |-> 0, id |-> 0, fid |-> root_fid, newfid |-> 0, names |-> <<>>, name |-> 0,
              offset |-> 0, block |-> <<>>, oldtag |-> 0]
Message(c) ==
  LET s == Head(c.plan)
  IN  [NoMessage EXCEPT !.type = s.do, !.fid = IF s.do = "walk" THEN root_fid ELSE c.fid,
                        !.newfid = c.fid, !.names = s.names, !.name = Name(c),
                        !.offset = IF s.do = "write" THEN s.n - 1 ELSE c.offset,
                        !.block = IF s.do = "write" THEN <<c.blocks[s.n]>> ELSE <<>>]

(* The tag after this one. *)
_allocTag == IF next_tag = NTags THEN 1 ELSE next_tag + 1

(* _call: allocate a tag (a walk has allocated a fid before) and give the request to the *)
(* client, which rejects it if it is closed or the tag is in `held`, the pending tags.   *)
_call(o, c, held) ==
  LET walks == Head(c.plan).do = "walk"
      to == IF walks THEN [c EXCEPT !.fid = next_fid] ELSE c
      accepted == ~client_closed /\ next_tag \notin DOMAIN held
      m == [Message(to) EXCEPT !.tag = next_tag, !.id = sent + 1]
  IN  /\ next_tag' = _allocTag
      /\ next_fid' = IF walks THEN next_fid + 1 ELSE next_fid
      /\ sent' = sent + 1
      /\ confused' = (confused \/ next_tag \in cancelled \/ next_tag \in DOMAIN held)
      /\ op' = [op EXCEPT ![o] = [to EXCEPT !.state = IF accepted THEN "waiting" ELSE "rejected", !.id = sent + 1]]
      /\ toServer' = IF accepted THEN Append(toServer, m) ELSE toServer
      /\ pending' = IF accepted THEN With(held, next_tag, sent + 1) ELSE held

(* History: did a call that nobody disturbed do what it says? *)
Names(p) == SetToSortSeq({Last(q) : q \in {r \in DOMAIN tree : parent_path(r) = p}}, LAMBDA a, b : a < b)
Expected(c) ==
  CASE c.op = "readFile" -> is_leaf(tree, c.path) /\ c.got = blocks[c.path]
    [] c.op = "readDir" -> is_dir(tree, c.path) /\ c.got = Names(c.path)
    [] c.op = "writeFile" -> is_leaf(tree, c.path) /\ blocks[c.path] = c.blocks
    [] c.op = "mkdir" -> is_dir(tree, c.path)
    [] c.op = "remove" -> ~exists(tree, c.path)
    [] c.op = "stat" -> exists(tree, c.path)
Verdict(c) ==
  IF c.failed THEN "failed" ELSE IF c.quiet /\ ~Expected(c) /\ ~server_closed THEN "wrong" ELSE "right"

Finish(o, c, held) ==
  /\ op' = [op EXCEPT ![o] = [NoOp EXCEPT !.verdict = Verdict(c)]]
  /\ pending' = held
  /\ UNCHANGED <<next_tag, next_fid, sent, confused, toServer>>

(* The call goes on to its next request.  When the mount is closed each _call throws. *)
Proceed(o, c, held) ==
  CASE c.plan = <<>> -> Finish(o, c, held)
    [] c.plan # <<>> /\ closed -> Finish(o, [c EXCEPT !.failed = TRUE], held)
    [] c.plan # <<>> /\ ~closed -> _call(o, c, held)

(* Mutant of AfterError: what a step had walked to is not clunked when the step fails. *)
ForgetAfterError(c) ==
  IF Head(c.plan).soft THEN [c EXCEPT !.plan = SelectSeq(@, LAMBDA s : ~s.soft)]
  ELSE [c EXCEPT !.failed = TRUE, !.plan = <<>>]

(* try/finally: a failed walk or clunk ends the call, any other failure goes on with the *)
(* clunk.  Errors in remove's stat end only the stat.                                    *)
AfterError(c) ==
  LET s == Head(c.plan)
      clunks == SelectSeq(c.plan, LAMBDA x : x.do = "clunk")
      rest == SelectSeq(c.plan, LAMBDA x : ~x.soft)
      over == s.do \in {"walk", "clunk"}
  IN  IF s.soft THEN [c EXCEPT !.plan = IF over THEN rest ELSE <<Head(clunks)>> \o rest]
      ELSE [c EXCEPT !.failed = TRUE, !.plan = IF over THEN <<>> ELSE clunks]

(* A walk that stopped half-way is clunked, and then an error. *)
AfterPartialWalk(c) ==
  LET rest == SelectSeq(c.plan, LAMBDA x : ~x.soft)
  IN  IF Head(c.plan).soft THEN [c EXCEPT !.plan = <<Softly(Do("clunk"))>> \o rest]
      ELSE [c EXCEPT !.failed = TRUE, !.plan = <<Do("clunk")>>]

(* The await of a request returns.  read and readdir go on until nothing is returned. *)
AfterReply(c, r) ==
  LET s == Head(c.plan)
  IN  CASE r.type # s.do -> AfterError(c)
        [] r.type = s.do /\ s.do = "walk" /\ r.n < Len(s.names) -> AfterPartialWalk(c)
        [] r.type = s.do /\ s.do \in {"read", "readdir"} /\ r.items # <<>> ->
             [c EXCEPT !.got = @ \o r.items, !.offset = @ + Len(r.items)]
        [] OTHER -> [c EXCEPT !.plan = Tail(@)]

-----------------------------------------------------------------------------
(* The mount.                                                               *)

(* A call takes the first place that is free. *)
call(o, c) ==
  /\ ~closed /\ op[o].state = "idle" /\ calls < MaxCalls
  /\ \A p \in Ops : p < o => op[p].state # "idle"
  /\ calls' = calls + 1
  /\ _call(o, [NoOp EXCEPT !.op = c.op, !.path = c.path, !.blocks = c.blocks, !.plan = Plan(c)], pending)
  /\ UNCHANGED <<closed, cancelled, client_closed, serverVars, adapterVars, toClient, troubles, mixed>>

(* The call of a request that the client rejected. *)
rejected(o) ==
  /\ op[o].state = "rejected"
  /\ Proceed(o, AfterError(op[o]), pending)
  /\ UNCHANGED <<closed, cancelled, client_closed, serverVars, adapterVars, toClient, calls, troubles, mixed>>

(* close of the mount, which does not own its client here. *)
mount_close ==
  /\ ~closed /\ Trouble
  /\ closed' = TRUE
  /\ UNCHANGED <<next_tag, next_fid, op, clientVars, serverVars, adapterVars, toServer, toClient,
                 calls, sent, mixed, confused>>

-----------------------------------------------------------------------------
(* The client.                                                              *)

IsDirect(tag) == tag \in DOMAIN pending /\ \A o \in Ops : op[o].id # pending[tag]

(* A direct user asks for the attributes of the root, with a tag that is not pending. *)
request(tag) ==
  /\ ~client_closed /\ Trouble /\ tag \notin DOMAIN pending
  /\ sent' = sent + 1
  /\ pending' = With(pending, tag, sent + 1)
  /\ toServer' = Append(toServer, [NoMessage EXCEPT !.type = "getattr", !.tag = tag, !.id = sent + 1])
  /\ confused' = (confused \/ tag \in cancelled)
  /\ UNCHANGED <<mountVars, cancelled, client_closed, serverVars, adapterVars, toClient, calls, mixed>>

(* Mutant of _allocSyntheticTag: the tag of a pending request will do. *)
AllocAnyTag(avoid) == {t \in Tags \ cancelled : t # avoid}

(* The tags a flush of `avoid` may have: it gets the least. *)
_allocSyntheticTag(avoid) == {t \in Tags \ cancelled : t # avoid /\ t \notin DOMAIN pending}

(* _cancelPending: the signal of a direct request is aborted.  When there is no tag for *)
(* the Tflush nothing is sent.                                                          *)
abort(tag) ==
  LET free == _allocSyntheticTag(tag)
      own == CHOOSE t \in free : \A u \in free : t <= u
  IN  /\ ~client_closed /\ IsDirect(tag)
      /\ pending' = Without(pending, tag)
      /\ cancelled' = cancelled \cup {tag} \cup (IF free = {} THEN {} ELSE {own})
      /\ toServer' = IF free = {} THEN toServer
                     ELSE Append(toServer, [NoMessage EXCEPT !.type = "flush", !.tag = own, !.oldtag = tag])
      /\ UNCHANGED <<mountVars, client_closed, serverVars, adapterVars, toClient, calls, troubles, sent, mixed, confused>>

(* Mutant of Known: the cancelled tags are looked up first. *)
KnownUnlessCancelled(r) == r.tag \in DOMAIN pending /\ r.tag \notin cancelled

Known(r) == r.tag \in DOMAIN pending

(* A reply arrives: it resolves the request pending under its tag, whose call goes on    *)
(* until it awaits its next request; or it answers something cancelled, or is unknown    *)
(* and reported to the error listeners.                                                  *)
_handleMessage ==
  LET r == Head(toClient)
      known == Known(r)
      mine == {o \in Ops : known /\ op[o].state = "waiting" /\ op[o].id = pending[r.tag]}
      rest == IF known THEN Without(pending, r.tag) ELSE pending
  IN  /\ ~client_closed /\ toClient # <<>>
      /\ toClient' = Tail(toClient)
      /\ cancelled' = IF known THEN cancelled ELSE cancelled \ {r.tag}
      /\ mixed' = (mixed \/ (known /\ pending[r.tag] # r.id))
      /\ \/ \E o \in mine : Proceed(o, AfterReply(op[o], r), rest)
         \/ /\ mine = {}
            /\ pending' = rest
            /\ UNCHANGED <<op, next_tag, next_fid, sent, confused, toServer>>
      /\ UNCHANGED <<closed, client_closed, serverVars, adapterVars, calls, troubles>>

(* close of the client: every pending request is rejected. *)
client_close ==
  /\ ~client_closed /\ Trouble
  /\ client_closed' = TRUE
  /\ pending' = Empty
  /\ op' = [o \in Ops |-> IF op[o].state = "waiting" THEN [op[o] EXCEPT !.state = "rejected"] ELSE op[o]]
  /\ UNCHANGED <<next_tag, next_fid, closed, cancelled, serverVars, adapterVars, toServer, toClient,
                 calls, sent, mixed, confused>>

-----------------------------------------------------------------------------
(* The server.  A handler awaits the adapter: m its request, path the file  *)
(* or directory it is about, names what is left to walk, data what _write   *)
(* has read, step the number of awaits behind it.                           *)

Reply(m, type, n, items) == [type |-> type, tag |-> m.tag, id |-> m.id, n |-> n, items |-> items]
ErrorFrame(m) == Reply(m, "error", 0, <<>>)

_fidPath(m) == fids[m.fid]
Handler(m) ==
  [m |-> m, names |-> m.names, data |-> <<>>, step |-> 0,
   path |-> IF m.type \in {"lcreate", "mkdir", "unlinkat"} THEN _fidPath(m) \o <<m.name>> ELSE _fidPath(m)]

(* The requests answered without awaiting the adapter. *)
Immediate(m) ==
  m.type = "clunk" \/ m.fid \notin DOMAIN fids \/ (m.type = "walk" /\ m.names = <<>>)
AnswerAtOnce(m) ==
  /\ fids' = CASE m.type = "clunk" -> Without(fids, m.fid)
               [] m.type = "walk" /\ m.fid \in DOMAIN fids -> With(fids, m.newfid, _fidPath(m))
               [] OTHER -> fids
  /\ toClient' = Append(toClient, IF m.type = "clunk" \/ m.fid \in DOMAIN fids
                                  THEN Reply(m, m.type, 0, <<>>) ELSE ErrorFrame(m))
  /\ UNCHANGED <<handling, tasks>>

(* _handleMessage of the server: Tflush, a duplicate tag, or a request. *)
receive ==
  LET m == Head(toServer)
  IN  /\ ~server_closed /\ toServer # <<>>
      /\ toServer' = Tail(toServer)
      /\ \/ /\ m.type = "flush"
            /\ handling' = Without(handling, m.oldtag)
            /\ toClient' = Append(toClient, Reply(m, "flush", 0, <<>>))
            /\ UNCHANGED <<fids, tasks>>
         \/ /\ m.type # "flush" /\ m.tag \in DOMAIN handling
            /\ handling' = Without(handling, m.tag)
            /\ toClient' = Append(toClient, ErrorFrame(m))
            /\ UNCHANGED <<fids, tasks>>
         \/ m.type # "flush" /\ m.tag \notin DOMAIN handling /\ Immediate(m) /\ AnswerAtOnce(m)
         \/ /\ m.type # "flush" /\ m.tag \notin DOMAIN handling /\ ~Immediate(m)
            /\ handling' = With(handling, m.tag, m.id)
            /\ tasks' = With(tasks, m.id, Handler(m))
            /\ UNCHANGED <<fids, toClient>>
      /\ UNCHANGED <<mountVars, clientVars, adapterVars, server_closed, calls, troubles, sent, mixed, confused>>

(* The handler ends: its reply is posted unless it was flushed or superseded. *)
IsAwaited(id) ==
  LET m == tasks[id].m
  IN  m.tag \in DOMAIN handling /\ handling[m.tag] = id
settle(id, r) ==
  /\ tasks' = Without(tasks, id)
  /\ handling' = IF IsAwaited(id) THEN Without(handling, r.tag) ELSE handling
  /\ toClient' = IF IsAwaited(id) THEN Append(toClient, r) ELSE toClient

(* History: calls other than the one this request belongs to are disturbed. *)
Disturbed(ids) ==
  [o \in Ops |-> IF op[o].state = "idle" \/ op[o].id \in ids THEN op[o] ELSE [op[o] EXCEPT !.quiet = FALSE]]

(* The adapter of storage-file-system.js. *)
Children(p) == Names(p)
CanWrite(p) == is_dir(tree, parent_path(p)) /\ ~is_dir(tree, p)
CanMkdir(p) == is_dir(tree, parent_path(p)) /\ ~exists(tree, p)
CanRemove(p) == exists(tree, p) /\ is_empty(tree, p)

writeFile(id, p, data) ==
  /\ tree' = Put(tree, p, "file")
  /\ blocks' = With(blocks, p, data)
  /\ op' = Disturbed({id})
mkdir(id, p) == tree' = Put(tree, p, Dir) /\ op' = Disturbed({id}) /\ UNCHANGED blocks
remove(id, p) ==
  tree' = remove_all(tree, p) /\ blocks' = Without(blocks, p) /\ op' = Disturbed({id})

Chunk(items, offset, size) == SubSeq(items, offset + 1, IF offset + size > Len(items) THEN Len(items) ELSE offset + size)

(* Mutant of Overlaid: what was written before is forgotten. *)
OverlaidAfresh(data, offset, block) == [n \in 1..offset + 1 |-> IF n = offset + 1 THEN block ELSE Zero]

(* What _write writes: the block over the contents it has read. *)
Overlaid(data, offset, block) ==
  [n \in 1..(IF offset >= Len(data) THEN offset + 1 ELSE Len(data)) |->
     IF n = offset + 1 THEN block ELSE IF n <= Len(data) THEN data[n] ELSE Zero]

(* An await of _walk returns: one name further, or the end. *)
ResumeWalk(id, found) ==
  LET t == tasks[id]
      next == t.path \o <<Head(t.names)>>
      done == found /\ Len(t.names) = 1
      behind == Len(t.m.names) - Len(t.names)
  IN  /\ IF found /\ ~done
         THEN /\ tasks' = [tasks EXCEPT ![id].path = next, ![id].names = Tail(@)]
              /\ UNCHANGED <<handling, toClient>>
         ELSE settle(id, Reply(t.m, "walk", IF done THEN behind + 1 ELSE behind, <<>>))
      /\ fids' = IF done THEN With(fids, t.m.newfid, next) ELSE fids
      /\ UNCHANGED <<tree, blocks, op>>

(* The first await of _write returns, with what was read or, if that failed, nothing. *)
ResumeWrite(id, data) ==
  /\ tasks' = [tasks EXCEPT ![id].data = data, ![id].step = 1]
  /\ UNCHANGED <<tree, blocks, op, fids, handling, toClient>>

Refused(id) == settle(id, ErrorFrame(tasks[id].m)) /\ UNCHANGED <<tree, blocks, op, fids>>
Answered(id, items) ==
  settle(id, Reply(tasks[id].m, tasks[id].m.type, 0, items)) /\ UNCHANGED <<tree, blocks, op, fids>>
Done(id) == settle(id, Reply(tasks[id].m, tasks[id].m.type, 0, <<>>))

(* An await of handler id returns what the adapter does. *)
resume(id) ==
  LET t == tasks[id]
      type == t.m.type
      p == t.path
      reads == type = "write" /\ t.step = 0
      writes == type = "lcreate" \/ (type = "write" /\ t.step = 1)
      new == IF type = "lcreate" THEN <<>> ELSE Overlaid(t.data, t.m.offset, t.m.block[1])
  IN  /\ \/ type = "walk" /\ ResumeWalk(id, exists(tree, p \o <<Head(t.names)>>))
         \/ type \in {"lopen", "getattr"} /\ exists(tree, p) /\ Answered(id, <<>>)
         \/ type = "read" /\ is_leaf(tree, p) /\ Answered(id, Chunk(blocks[p], t.m.offset, 1))
         \/ type = "readdir" /\ is_dir(tree, p) /\ Answered(id, Chunk(Children(p), t.m.offset, DirChunk))
         \/ reads /\ ResumeWrite(id, IF is_leaf(tree, p) THEN blocks[p] ELSE <<>>)
         \/ writes /\ CanWrite(p) /\ writeFile(id, p, new) /\ Done(id)
            /\ fids' = IF type = "lcreate" THEN With(fids, t.m.fid, p) ELSE fids
         \/ type = "mkdir" /\ CanMkdir(p) /\ mkdir(id, p) /\ Done(id) /\ UNCHANGED fids
         \/ type = "unlinkat" /\ CanRemove(p) /\ remove(id, p) /\ Done(id) /\ UNCHANGED fids
         \/ /\ \/ type \in {"lopen", "getattr"} /\ ~exists(tree, p)
               \/ type = "read" /\ ~is_leaf(tree, p)
               \/ type = "readdir" /\ ~is_dir(tree, p)
               \/ writes /\ ~CanWrite(p)
               \/ type = "mkdir" /\ ~CanMkdir(p)
               \/ type = "unlinkat" /\ ~CanRemove(p)
            /\ Refused(id)
      /\ UNCHANGED <<next_tag, next_fid, closed, clientVars, server_closed, toServer, calls, troubles,
                     sent, mixed, confused>>

(* An await of handler id throws, because the adapter fails or heeds the abort signal. *)
adapter_fails(id) ==
  LET type == tasks[id].m.type
  IN  /\ IF IsAwaited(id) THEN Trouble ELSE UNCHANGED troubles
      /\ op' = Disturbed({})
      /\ \/ type = "walk" /\ settle(id, Reply(tasks[id].m, "walk", Len(tasks[id].m.names) - Len(tasks[id].names), <<>>))
         \/ /\ type = "write" /\ tasks[id].step = 0
            /\ tasks' = [tasks EXCEPT ![id].data = <<>>, ![id].step = 1]
            /\ UNCHANGED <<handling, toClient>>
         \/ type # "walk" /\ ~(type = "write" /\ tasks[id].step = 0) /\ settle(id, ErrorFrame(tasks[id].m))
      /\ UNCHANGED <<tree, blocks, fids, next_tag, next_fid, closed, clientVars, server_closed, toServer,
                     calls, sent, mixed, confused>>

(* close of the server: its handlers run on, and answer nobody. *)
server_close ==
  /\ ~server_closed /\ Trouble
  /\ server_closed' = TRUE
  /\ handling' = Empty /\ fids' = Empty
  /\ UNCHANGED <<mountVars, clientVars, adapterVars, tasks, toServer, toClient, calls, sent, mixed, confused>>

-----------------------------------------------------------------------------
Next ==
  \/ \E o \in Ops : (\E c \in Calls : call(o, c)) \/ rejected(o)
  \/ \E tag \in DirectTags : request(tag) \/ abort(tag)
  \/ \E id \in DOMAIN tasks : resume(id) \/ adapter_fails(id)
  \/ mount_close \/ client_close \/ server_close
  \/ _handleMessage \/ receive

Spec == Init /\ [][Next]_vars

-----------------------------------------------------------------------------
(* Type correctness; NOTAG is never the tag of a call, a request is pending under one    *)
(* tag, the adapter's tree stays a tree and has blocks for its files.                    *)
TypeOK ==
  /\ IsTree(tree) /\ DOMAIN blocks = {p \in DOMAIN tree : is_leaf(tree, p)}
  /\ next_tag \in Tags /\ DOMAIN pending \subseteq Tags /\ cancelled \subseteq Tags
  /\ \A t, u \in DOMAIN pending : pending[t] = pending[u] => t = u
  /\ DOMAIN handling \subseteq Tags /\ \A t \in DOMAIN handling : handling[t] \in DOMAIN tasks
  /\ DOMAIN fids \subseteq 1..next_fid - 1
  /\ \A o \in Ops : op[o].state \in {"idle", "waiting", "rejected"} /\ (op[o].state = "idle" <=> op[o].plan = <<>>)

(* A promise of the client is resolved by the reply to its own request, however replies, *)
(* aborts, flushes and late replies interleave, as long as nobody makes a request with a *)
(* tag that is still in use (the client accepts a cancelled tag again before the server  *)
(* has let go of it).  So a call of the mount that nobody disturbed and that reports     *)
(* success has done what it says: all of the file, in order; each entry of the directory *)
(* once; the file written.                                                               *)
ResultsAreExact == ~confused => ~mixed /\ \A o \in Ops : op[o].verdict # "wrong"

(* However its requests fail, a call leaves no fid behind in the server's table.         *)
NoFidLeak ==
  ~confused /\ ~closed /\ ~client_closed /\ (\A o \in Ops : op[o].state = "idle") => DOMAIN fids \subseteq {root_fid}

(* No call waits for an answer that cannot come: while the server is open its request is *)
(* on its way, or in a handler that will answer, or a reply for its tag is on its way.   *)
NoCallIsStranded ==
  \A o \in Ops : op[o].state = "waiting" /\ ~server_closed =>
     \/ \E n \in 1..Len(toServer) : toServer[n].id = op[o].id
     \/ op[o].id \in DOMAIN tasks /\ IsAwaited(op[o].id)
     \/ \E n \in 1..Len(toClient) : toClient[n].tag \in DOMAIN pending /\ pending[toClient[n].tag] = op[o].id

=============================================================================
