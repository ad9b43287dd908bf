------------------------------ MODULE TaskHost ------------------------------
(***************************************************************************)
(* Tasks and the host that serves workers' requests about them: TaskFs,    *)
(* Task and FdTable of crates/star9-task/src/lib.rs, RuntimeProtocolHost   *)
(* of crates/star9-runtime/src/worker.rs.                                  *)
(*                                                                         *)
(* Threads handle requests.  Every table (the tasks, their names, the      *)
(* worker and port tables of the host, each task's state and descriptors)  *)
(* has a lock of its own, taken for one access at a time, so a request is  *)
(* a sequence of steps, one for each lock it takes, between which other    *)
(* threads run.  Operations on descriptors hold the descriptors' lock from *)
(* beginning to end and are one step each.                                 *)
(*                                                                         *)
(* A task has a number (its id) and may have an alias; lookup takes either *)
(* and so does a request's task_id.  Any name may be given as an alias, an *)
(* id that another task has or will have among them.  Task fields that     *)
(* only hold a value (cmd, env, dir, the namespace) are left out; exit is  *)
(* the lifecycle.                                                          *)
(***************************************************************************)
EXTENDS Naturals, Sequences, FiniteSets

CONSTANTS
  Threads,
  Workers,      (* worker ids                                                         *)
  Aliases,      (* task aliases, ids of tasks perhaps among them                      *)
  Ports,        (* port ids                                                           *)
  None,         (* no worker, no alias                                                *)
  Requests,     (* the requests made, as built by the operators below                 *)
  MaxTasks,     (* bound on the number of tasks                                       *)
  MaxRequests,  (* bound on the number of requests                                    *)
  MaxFiles      (* bound on the number of files opened                                *)

ASSUME TaskBounds == {MaxTasks, MaxRequests, MaxFiles} \subseteq Nat /\ MaxTasks > 0
ASSUME NoneIsNoName == None \notin Workers \cup Aliases

VARIABLES
  next_id, resources,   (* TaskFs: the last id given, the ids registered              *)
  aliases,              (* TaskFs: alias to task                                      *)
  named,                (* the names and tasks a lookup has ever been able to match   *)
  alias, worker, exit,  (* per task: its alias, the worker it was started for, exit   *)
  files, next,          (* per task: its FdTable, descriptor to file                  *)
  workers, ports,       (* RuntimeProtocolState: worker to task_id, port to record    *)
  messages,             (* RuntimeProtocolState: per task, the payloads posted        *)
  thread,               (* per thread: the request it handles and the steps to go     *)
  opened, closed,       (* number of files opened; the ones closed                    *)
  requests              (* number of requests made                                    *)

taskVars == <<next_id, resources, aliases, named, alias, worker, exit>>
fdVars == <<files, next, opened, closed>>
hostVars == <<workers, ports, messages>>
vars == <<taskVars, fdVars, hostVars, thread, requests>>

Ids == 1..MaxTasks
Empty == [k \in {} |-> k]
With(f, k, v) == [j \in DOMAIN f \cup {k} |-> IF j = k THEN v ELSE f[j]]
Without(f, k) == [j \in DOMAIN f \ {k} |-> f[j]]

(* The requests.  name is the request's task_id; steps what its handler does, one lock   *)
(* each; fds the descriptors of an execution, ok whether its path can be opened; from    *)
(* the WorkerHandle inside the PortHandoff that a message carries.                       *)
NoRequest == [name |-> 1, worker |-> None, target |-> 1, port |-> None, fds |-> <<>>, alias |-> None, fd |-> 0,
              value |-> "none", from |-> [worker |-> None, name |-> 1], steps |-> <<>>]

spawn_worker(w, parent) ==
  [NoRequest EXCEPT !.worker = w, !.name = parent, !.steps = <<"lookup", "next", "insert", "record_id">>]

start_worker(w, n, fds) ==
  [NoRequest EXCEPT !.worker = w, !.name = n, !.fds = fds,
                    !.steps = <<"lookup", "check", "record", "worker", "running">>
                              \o [i \in 1..Len(fds) |-> "install"] \o <<"started">>]
open_port(w, n, p) ==
  [NoRequest EXCEPT !.worker = w, !.name = n, !.port = p, !.steps = <<"lookup", "check", "record", "upsert">>]
handoff_port(w, n, to, p) ==
  [NoRequest EXCEPT !.worker = w, !.name = n, !.target = to, !.port = p,
                    !.steps = <<"lookup", "check", "target", "record", "handoff">>]
post_message(w, n, value, p, from, to, fd) ==
  [NoRequest EXCEPT !.worker = w, !.name = n, !.value = value, !.port = p, !.from = from, !.target = to, !.fd = fd,
                    !.steps = <<"lookup">> \o (IF w = None THEN <<>> ELSE <<"record_id">>) \o <<"push">>
                              \o CASE value = "PortOpened" -> <<"upsert">>
                                   [] value \in {"Ready", "PortHandoff"} -> <<>>
                                   [] value = "FdData" -> <<"write">>
                                   [] OTHER -> <<"exit">>]
set_alias(n, al) == [NoRequest EXCEPT !.name = n, !.alias = al, !.steps = <<"lookup", "alias", "update_alias">>]
clear_fds(n) == [NoRequest EXCEPT !.name = n, !.steps = <<"lookup", "take">>]

(* Every request is one of these.  A message about a port names it, and one that hands   *)
(* it over names the worker that does.                                                   *)
Names == Ids \cup Aliases
Descriptors == Seq([fd : Nat, ok : BOOLEAN])
Handles == [worker : Workers \cup {None}, name : Names]
PostsAboutPort(r) == r.value \in {"PortOpened", "PortHandoff"}
ASSUME RequestsAreBuilt ==
  \A r \in Requests :
    \/ \E w \in Workers, n \in Names :
         \/ r = spawn_worker(w, n)
         \/ r.fds \in Descriptors /\ r = start_worker(w, n, r.fds)
         \/ \E p \in Ports, to \in Names : r = open_port(w, n, p) \/ r = handoff_port(w, n, to, p)
    \/ \E w \in Workers \cup {None}, n, to \in Names, p \in Ports \cup {None} :
         /\ r.value \in STRING /\ r.fd \in Nat /\ r.from \in Handles
         /\ PostsAboutPort(r) => p \in Ports
         /\ r.value = "PortHandoff" => r.from.worker \in Workers
         /\ r = post_message(w, n, r.value, p, r.from, to, r.fd)
    \/ \E n \in Names, al \in Aliases \cup {None} : r = set_alias(n, al) \/ r = clear_fds(n)

(* task: the task looked up, or the id being given to a new one; old: the alias it had;  *)
(* taken: the files clear_fds has taken.                                                 *)
NoThread == [req |-> NoRequest, steps |-> <<>>, task |-> 0, old |-> None, taken |-> {}]

Init ==
  /\ next_id = 1 /\ resources = {1} /\ aliases = Empty /\ named = {<<1, 1>>}
  /\ alias = [t \in Ids |-> None] /\ worker = [t \in Ids |-> None] /\ exit = [t \in Ids |-> "none"]
  /\ files = [t \in Ids |-> Empty] /\ next = [t \in Ids |-> 3]
  /\ workers = Empty /\ ports = Empty /\ messages = [t \in Ids |-> <<>>]
  /\ thread = [x \in Threads |-> NoThread]
  /\ opened = 0 /\ closed = {} /\ requests = 0

-----------------------------------------------------------------------------
(* The steps.                                                               *)

At(x, step) == thread[x].steps # <<>> /\ Head(thread[x].steps) = step
Goes(x) == thread' = [thread EXCEPT ![x].steps = Tail(@)]
Fails(x) == thread' = [thread EXCEPT ![x] = NoThread]
Serves(x, r) == thread' = [thread EXCEPT ![x] = [NoThread EXCEPT !.req = r, !.steps = r.steps]]

(* A thread takes the next request. *)
handle_request(x, r) ==
  /\ thread[x].steps = <<>> /\ thread[x].taken = {} /\ requests < MaxRequests
  /\ requests' = requests + 1
  /\ Serves(x, r)
  /\ UNCHANGED <<taskVars, fdVars, hostVars>>

(* TaskFs::lookup: the ids are tried first and then, under another lock, the aliases. *)
Finds(x, t) == thread' = [thread EXCEPT ![x].task = t, ![x].steps = Tail(@)]
TriesAliases(x, step) == thread' = [thread EXCEPT ![x].steps[1] = step]

lookup(x) ==
  LET n == thread[x].req.name
  IN  /\ At(x, "lookup")
      /\ IF n \in resources THEN Finds(x, n) ELSE TriesAliases(x, "aliases")
      /\ UNCHANGED <<taskVars, fdVars, hostVars, requests>>
lookup_alias(x) ==
  LET n == thread[x].req.name
  IN  /\ At(x, "aliases")
      /\ IF n \in DOMAIN aliases THEN Finds(x, aliases[n]) ELSE Fails(x)
      /\ UNCHANGED <<taskVars, fdVars, hostVars, requests>>

(* lookup_task_for_worker: the worker must not belong to another task. *)
IsOthers(w, n) == w \in DOMAIN workers /\ workers[w] # n
check(x) ==
  /\ At(x, "check")
  /\ IF IsOthers(thread[x].req.worker, thread[x].req.name) THEN Fails(x) ELSE Goes(x)
  /\ UNCHANGED <<taskVars, fdVars, hostVars, requests>>

(* The lookup of the task a port is handed to, which must be there and is not used. *)
target(x) ==
  /\ At(x, "target")
  /\ IF thread[x].req.target \in resources THEN Goes(x) ELSE TriesAliases(x, "target_alias")
  /\ UNCHANGED <<taskVars, fdVars, hostVars, requests>>
target_alias(x) ==
  /\ At(x, "target_alias")
  /\ IF thread[x].req.target \in DOMAIN aliases THEN Goes(x) ELSE Fails(x)
  /\ UNCHANGED <<taskVars, fdVars, hostVars, requests>>

(* Mutant of Recorded: the check was made before, with the lock released since. *)
RecordedUnchecked(x, w, n) == workers' = With(workers, w, n) /\ Goes(x)

(* record_worker: checked again under the lock. *)
Recorded(x, w, n) ==
  IF IsOthers(w, n) THEN Fails(x) /\ UNCHANGED workers ELSE workers' = With(workers, w, n) /\ Goes(x)

(* What is recorded: the name in the request; for a new task and a message, the id. *)
record(x) ==
  LET r == thread[x].req
  IN  /\ \/ At(x, "record") /\ Recorded(x, r.worker, r.name)
         \/ At(x, "record_id") /\ Recorded(x, r.worker, thread[x].task)
      /\ UNCHANGED <<taskVars, fdVars, ports, messages, requests>>

(* The counter of ids, under its lock. *)
NextId == next_id' = next_id + 1

(* alloc_with_parent_and_namespace: an id, then the entry in the table of tasks. *)
next_task(x) ==
  /\ At(x, "next") /\ next_id < MaxTasks
  /\ NextId
  /\ thread' = [thread EXCEPT ![x].task = next_id', ![x].steps = Tail(@)]
  /\ UNCHANGED <<resources, aliases, named, alias, worker, exit, fdVars, hostVars, requests>>

insert(x) ==
  /\ At(x, "insert")
  /\ resources' = resources \cup {thread[x].task}
  /\ named' = named \cup {<<thread[x].task, thread[x].task>>}
  /\ Goes(x)
  /\ UNCHANGED <<next_id, aliases, alias, worker, exit, fdVars, hostVars, requests>>

(* apply_execution_spec: the fields, then the descriptors one by one, then "started".    *)
(* A descriptor that cannot be opened ends it there.                                     *)
set_worker(x) ==
  /\ At(x, "worker")
  /\ worker' = [worker EXCEPT ![thread[x].task] = thread[x].req.worker]
  /\ Goes(x)
  /\ UNCHANGED <<next_id, resources, aliases, named, alias, exit, fdVars, hostVars, requests>>

running(x) ==
  /\ At(x, "running")
  /\ exit' = [exit EXCEPT ![thread[x].task] = "running"]
  /\ Goes(x)
  /\ UNCHANGED <<next_id, resources, aliases, named, alias, worker, fdVars, hostVars, requests>>

(* Task::set_fd: a file that was there is dropped, not closed. *)
set_fd(t, fd, file) ==
  /\ files' = [files EXCEPT ![t] = With(@, fd, file)]
  /\ next' = [next EXCEPT ![t] = IF fd >= @ THEN fd + 1 ELSE @]

install(x) ==
  LET d == thread[x].req.fds[1]
  IN  /\ At(x, "install")
      /\ \/ /\ d.ok /\ opened < MaxFiles
            /\ opened' = opened + 1
            /\ set_fd(thread[x].task, d.fd, opened')
            /\ thread' = [thread EXCEPT ![x].steps = Tail(@), ![x].req.fds = Tail(@)]
         \/ ~d.ok /\ Fails(x) /\ UNCHANGED <<opened, files, next>>
      /\ UNCHANGED <<taskVars, closed, hostVars, requests>>

started(x) ==
  /\ At(x, "started")
  /\ exit' = [exit EXCEPT ![thread[x].task] = "started"]
  /\ Goes(x)
  /\ UNCHANGED <<next_id, resources, aliases, named, alias, worker, fdVars, hostVars, requests>>

(* Mutant of upsert_port: the task a port is handed to is not noted. *)
UpsertUnnoted(p, owner, w, to) ==
  ports' = With(ports, p, [owner |-> owner, worker |-> w, targets |-> IF p \in DOMAIN ports THEN ports[p].targets ELSE {}])

(* upsert_port: the record of the port, with the tasks it was handed to. *)
upsert_port(p, owner, w, to) ==
  LET before == IF p \in DOMAIN ports THEN ports[p].targets ELSE {}
  IN  ports' = With(ports, p, [owner |-> owner, worker |-> w, targets |-> before \cup to])

port(x) ==
  LET r == thread[x].req
  IN  /\ \/ At(x, "upsert") /\ upsert_port(r.port, thread[x].task, r.worker, {})
         \/ At(x, "handoff") /\ upsert_port(r.port, r.target, r.worker, {r.target})
      /\ Goes(x)
      /\ UNCHANGED <<taskVars, fdVars, workers, messages, requests>>

(* post_message: the message is kept, and then acted upon.  A PortHandoff in it is       *)
(* served as the request it is, by the worker named in it.                               *)
push(x) ==
  LET r == thread[x].req
  IN  /\ At(x, "push")
      /\ messages' = [messages EXCEPT ![thread[x].task] = Append(@, r.value)]
      /\ IF r.value = "PortHandoff" THEN Serves(x, handoff_port(r.from.worker, r.from.name, r.target, r.port)) ELSE Goes(x)
      /\ UNCHANGED <<taskVars, fdVars, workers, ports, requests>>

set_exit(x) ==
  /\ At(x, "exit")
  /\ exit' = [exit EXCEPT ![thread[x].task] = thread[x].req.value]
  /\ Goes(x)
  /\ UNCHANGED <<next_id, resources, aliases, named, alias, worker, fdVars, hostVars, requests>>

(* write_task_fd: what is written is not modelled. *)
write_fd(x) ==
  /\ At(x, "write")
  /\ IF thread[x].req.fd \in DOMAIN files[thread[x].task] THEN Goes(x) ELSE Fails(x)
  /\ UNCHANGED <<taskVars, fdVars, hostVars, requests>>

(* set_field("alias"): the task's state, then, under another lock, the table of aliases. *)
swap_alias(x) ==
  /\ At(x, "alias")
  /\ alias' = [alias EXCEPT ![thread[x].task] = thread[x].req.alias]
  /\ thread' = [thread EXCEPT ![x].old = alias[thread[x].task], ![x].steps = Tail(@)]
  /\ UNCHANGED <<next_id, resources, aliases, named, worker, exit, fdVars, hostVars, requests>>

update_alias(x) ==
  LET without == IF thread[x].old = None THEN aliases ELSE Without(aliases, thread[x].old)
      new == thread[x].req.alias
  IN  /\ At(x, "update_alias")
      /\ aliases' = IF new = None THEN without ELSE With(without, new, thread[x].task)
      /\ named' = IF new = None THEN named ELSE named \cup {<<new, thread[x].task>>}
      /\ Goes(x)
      /\ UNCHANGED <<next_id, resources, alias, worker, exit, fdVars, hostVars, requests>>

-----------------------------------------------------------------------------
(* Descriptors.                                                             *)

(* open_fd, with a file opened through the task's namespace. *)
open_fd(t) ==
  /\ t \in resources /\ opened < MaxFiles
  /\ opened' = opened + 1
  /\ files' = [files EXCEPT ![t] = With(@, next[t], opened')]
  /\ next' = [next EXCEPT ![t] = @ + 1]
  /\ UNCHANGED <<taskVars, closed, hostVars, thread, requests>>

(* close_fd: the file is gone even if its close fails. *)
close_fd(t, fd) ==
  /\ fd \in DOMAIN files[t]
  /\ closed' = closed \cup {files[t][fd]}
  /\ files' = [files EXCEPT ![t] = Without(@, fd)]
  /\ UNCHANGED <<taskVars, next, opened, hostVars, thread, requests>>

(* Mutant of Renumbered: the descriptor it came from is kept. *)
RenumberedTwice(f, from, to) == With(f, to, f[from])

Renumbered(f, from, to) == With(Without(f, from), to, f[from])

(* renumber_fd: the target is closed and replaced.  A target that fails to close stays. *)
renumber_fd(t, from, to) ==
  /\ from # to /\ {from, to} \subseteq DOMAIN files[t]
  /\ closed' = closed \cup {files[t][to]}
  /\ files' = [files EXCEPT ![t] = Renumbered(@, from, to)]
  /\ UNCHANGED <<taskVars, next, opened, hostVars, thread, requests>>

(* clear_fds: the table is emptied under the lock, the files are closed after it; a close *)
(* that fails leaves the others to be dropped.                                            *)
take_fds(x) ==
  LET t == thread[x].task
  IN  /\ At(x, "take")
      /\ files' = [files EXCEPT ![t] = Empty]
      /\ thread' = [thread EXCEPT ![x].taken = {files[t][fd] : fd \in DOMAIN files[t]}, ![x].steps = Tail(@)]
      /\ UNCHANGED <<taskVars, next, opened, closed, hostVars, requests>>
close_taken(x, fails) ==
  /\ thread[x].steps = <<>> /\ thread[x].taken # {}
  /\ LET file == CHOOSE f \in thread[x].taken : \A g \in thread[x].taken : f <= g
     IN  /\ closed' = closed \cup {file}
         /\ thread' = [thread EXCEPT ![x].taken = IF fails THEN {} ELSE @ \ {file}]
  /\ UNCHANGED <<taskVars, files, next, opened, hostVars, requests>>

-----------------------------------------------------------------------------
Step(x) ==
  \/ \E r \in Requests : handle_request(x, r)
  \/ lookup(x) \/ lookup_alias(x) \/ check(x) \/ target(x) \/ target_alias(x)
  \/ record(x) \/ next_task(x) \/ insert(x) \/ set_worker(x) \/ running(x)
  \/ install(x) \/ started(x) \/ port(x)
  \/ push(x) \/ set_exit(x) \/ write_fd(x) \/ swap_alias(x) \/ update_alias(x)
  \/ take_fds(x) \/ \E fails \in BOOLEAN : close_taken(x, fails)

Next ==
  \/ \E x \in Threads : Step(x)
  \/ \E t \in Ids : open_fd(t)
  \/ \E t \in Ids : \E fd \in DOMAIN files[t] : close_fd(t, fd)
  \/ \E t \in Ids : \E from, to \in DOMAIN files[t] : renumber_fd(t, from, to)

Spec == Init /\ [][Next]_vars

-----------------------------------------------------------------------------
Records == [owner : Ids \cup Aliases, worker : Workers \cup {None}, targets : SUBSET (Ids \cup Aliases)]

StoodFor(n, t) == <<n, t>> \in named

(* Type correctness; and what the host has recorded can be looked up: an alias stands    *)
(* for a registered task, a worker recorded by id has a registered task (snapshot fails  *)
(* as a whole if one of its workers has none).                                           *)
TypeOK ==
  /\ next_id \in Ids /\ resources \subseteq 1..next_id
  /\ DOMAIN aliases \subseteq Aliases /\ \A al \in DOMAIN aliases : aliases[al] \in resources /\ StoodFor(al, aliases[al])
  /\ named \subseteq Names \X Ids /\ \A n \in resources : StoodFor(n, n)
  /\ alias \in [Ids -> Aliases \cup {None}] /\ worker \in [Ids -> Workers \cup {None}]
  /\ DOMAIN files = Ids /\ \A t \in Ids : \A fd \in DOMAIN files[t] : fd \in Nat /\ files[t][fd] \in 1..opened
  /\ next \in [Ids -> Nat] /\ opened \in 0..MaxFiles /\ closed \subseteq 1..opened
  /\ DOMAIN workers \subseteq Workers /\ \A w \in DOMAIN workers : workers[w] \in resources \cup Aliases
  /\ DOMAIN ports \subseteq Ports /\ \A p \in DOMAIN ports : ports[p] \in Records

(* A worker goes by one name for good: every task ever started for it was found under    *)
(* the name its first request recorded, though the check and the record of a start are   *)
(* two lock regions and other requests run between them.  So a name that only ever stood *)
(* for one task gives the worker one task.  (A name that stood for two can give it both: *)
(* an alias that looks like an id, then the id itself, or an alias moved to another      *)
(* task; record_worker compares names, not tasks.)  A port is owned by a task of that    *)
(* name, or by a task it was handed to.                                                  *)
WorkerHasOneName ==
  /\ \A t \in Ids : LET w == worker[t] IN w # None => w \in DOMAIN workers /\ StoodFor(workers[w], t)
  /\ \A p \in DOMAIN ports : LET r == ports[p] IN
       r.worker # None => /\ r.worker \in DOMAIN workers
                          /\ StoodFor(workers[r.worker], r.owner) \/ r.owner \in r.targets

(* An open file has one descriptor in one task, and none once it is closed, and the next *)
(* open_fd does not take a descriptor in use, whatever descriptors executions have       *)
(* installed and renumber_fd has moved: it would drop a file without closing it.         *)
FilesHaveOneOwner ==
  /\ \A t \in Ids : next[t] \notin DOMAIN files[t]
  /\ \A t, u \in Ids : \A fd \in DOMAIN files[t], gd \in DOMAIN files[u] :
       files[t][fd] = files[u][gd] => t = u /\ fd = gd
  /\ \A t \in Ids : \A fd \in DOMAIN files[t] : files[t][fd] \notin closed
=============================================================================
