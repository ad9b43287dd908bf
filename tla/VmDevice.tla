----------------------------- MODULE VmDevice -------------------------------
(***************************************************************************)
(* The #vm device (crates/star9-runtime/src/devices.rs): numbered machines *)
(* with files, a table of aliases by which they can be opened too, and a   *)
(* provider that starts and stops them.  Every file of a machine has its   *)
(* own mutex, the tables have theirs, and a command takes them one after   *)
(* the other: it is one action per locked region.  The provider is called  *)
(* with no lock held.                                                      *)
(*                                                                         *)
(* A name is a number: an id, or an alias, which may look like an id.  The *)
(* file config, which only the provider reads, and the guest are left out. *)
(***************************************************************************)
EXTENDS Naturals, Sequences

CONSTANTS
  VmUsers,    (* the tasks that use the device                    *)
  Aliases,    (* the aliases they set                             *)
  MaxVms,     (* bound: how many machines are allocated           *)
  MaxVmOps    (* bound: how many calls are made                   *)

VARIABLES
  next_id,    (* VmDeviceState.next_id                            *)
  resources,  (* VmDeviceState.resources, by id                   *)
  aliases,    (* VmDeviceState.aliases: the id an alias stands for *)
  provider,   (* VmDeviceState.provider                           *)
  vm_thread,  (* what each task is doing                          *)
  vm_ops,     (* how many calls were made                         *)
  overlapped, (* history: machines with overlapping commands      *)
  contested   (* history: aliases a machine took from another     *)

vm_vars == <<next_id, resources, aliases, provider, vm_thread, vm_ops, overlapped, contested>>

NoAlias == 0
VmIdle == [pc |-> "idle"]
Created == [alias |-> NoAlias, state |-> "created", console |-> <<>>]

VmInit ==
  /\ next_id = 0
  /\ resources = [i \in {} |-> Created] /\ aliases = [a \in {} |-> 0]
  /\ provider = "deterministic"
  /\ vm_thread = [u \in VmUsers |-> VmIdle]
  /\ vm_ops = 0 /\ overlapped = {} /\ contested = {}

VmGo(u, next) == vm_thread' = [vm_thread EXCEPT ![u] = next]
VmAt(u, pc) == vm_thread[u].pc = pc
Put(f, x, y) == [z \in DOMAIN f \cup {x} |-> IF z = x THEN y ELSE f[z]]
Drop(f, x) == [z \in DOMAIN f \ {x} |-> f[z]]

-----------------------------------------------------------------------------
(* VmDevice::alloc, in a read of #vm/new: the id first, then the machine. *)
alloc_id(u) ==
  /\ VmAt(u, "idle") /\ vm_ops < MaxVmOps /\ next_id < MaxVms
  /\ vm_ops' = vm_ops + 1
  /\ next_id' = next_id + 1
  /\ VmGo(u, [pc |-> "insert", id |-> next_id + 1])
  /\ UNCHANGED <<resources, aliases, provider, overlapped, contested>>

alloc_insert(u) ==
  /\ VmAt(u, "insert")
  /\ resources' = Put(resources, vm_thread[u].id, Created)
  /\ VmGo(u, VmIdle)
  /\ UNCHANGED <<next_id, aliases, provider, vm_ops, overlapped, contested>>

set_provider ==
  /\ vm_ops < MaxVmOps
  /\ vm_ops' = vm_ops + 1
  /\ provider' = IF provider = "failing" THEN "deterministic" ELSE "failing"
  /\ UNCHANGED <<next_id, resources, aliases, vm_thread, overlapped, contested>>

(* resolve: ids go before aliases, which are looked up under another lock. *)
(* The file that is opened stays with the machine that was found.          *)
resolve(u, name, cmd) ==
  /\ VmAt(u, "idle") /\ vm_ops < MaxVmOps
  /\ vm_ops' = vm_ops + 1
  /\ VmGo(u, IF name \in DOMAIN resources THEN [pc |-> "opened", id |-> name, cmd |-> cmd]
                                          ELSE [pc |-> "by_alias", name |-> name, cmd |-> cmd])
  /\ UNCHANGED <<next_id, resources, aliases, provider, overlapped, contested>>

resolve_alias(u) ==
  LET t == vm_thread[u]
  IN  /\ t.pc = "by_alias"
      /\ VmGo(u, IF t.name \in DOMAIN aliases /\ aliases[t.name] \in DOMAIN resources
                 THEN [pc |-> "opened", id |-> aliases[t.name], cmd |-> t.cmd] ELSE VmIdle)
      /\ UNCHANGED <<next_id, resources, aliases, provider, vm_ops, overlapped, contested>>

-----------------------------------------------------------------------------
(* A command begins when the file is closed. *)
Commanding == {"set", "update", "clear", "state", "append"}
Busy(i) == {u \in VmUsers : vm_thread[u].pc \in Commanding /\ vm_thread[u].id = i}
BeginCommand(u, next) ==
  /\ VmGo(u, next)
  /\ overlapped' = IF Busy(vm_thread[u].id) # {} THEN overlapped \cup {vm_thread[u].id} ELSE overlapped

(* set_alias: read the old alias, write the new one, update the table. *)
set_alias(u) ==
  LET t == vm_thread[u]
  IN  /\ t.pc = "opened" /\ t.cmd.op = "alias"
      /\ BeginCommand(u, [pc |-> "set", id |-> t.id, old |-> resources[t.id].alias, new |-> t.cmd.alias])
      /\ UNCHANGED <<next_id, resources, aliases, provider, vm_ops, contested>>

(* Another machine that has the alias, or whose command is about to give   *)
(* it up or to take it, changes its entry later, whoever it leads to then. *)
HeldElsewhere(i, a) ==
  \/ \E j \in DOMAIN resources \ {i} : resources[j].alias = a
  \/ \E u \in VmUsers : /\ vm_thread[u].pc \in {"set", "update"}
                        /\ vm_thread[u].id # i /\ a \in {vm_thread[u].old, vm_thread[u].new}

alias_set(u) ==
  LET t == vm_thread[u]
  IN  /\ t.pc = "set"
      /\ resources' = [resources EXCEPT ![t.id].alias = t.new]
      /\ contested' = IF HeldElsewhere(t.id, t.new) THEN contested \cup {t.new} ELSE contested
      /\ VmGo(u, [t EXCEPT !.pc = "update"])
      /\ UNCHANGED <<next_id, aliases, provider, vm_ops, overlapped>>

(* A bug to catch: the alias a machine had still leads to it. *)
AddAlias(id, old, new) == IF new = NoAlias THEN aliases ELSE Put(aliases, new, id)

update_alias(id, old, new) ==
  LET rest == Drop(aliases, old) IN IF new = NoAlias THEN rest ELSE Put(rest, new, id)

alias_update(u) ==
  LET t == vm_thread[u]
  IN  /\ t.pc = "update"
      /\ aliases' = update_alias(t.id, t.old, t.new)
      /\ VmGo(u, VmIdle)
      /\ UNCHANGED <<next_id, resources, provider, vm_ops, overlapped, contested>>

-----------------------------------------------------------------------------
(* start, stop and reset: call the provider, and apply the update it gave  *)
(* to the console and to the state, file by file.                          *)
Update(op) ==
  CASE op = "start" -> [state |-> "running", lines |-> <<"start">>, clear |-> FALSE]
    [] op = "stop"  -> [state |-> "stopped", lines |-> <<"stop">>, clear |-> FALSE]
    [] op = "reset" -> [state |-> "created", lines |-> <<>>, clear |-> TRUE]

control(u) ==
  LET t == vm_thread[u]
  IN  /\ t.pc = "opened" /\ t.cmd.op \in {"start", "stop", "reset"}
      /\ IF provider = "failing"
         THEN VmGo(u, VmIdle) /\ UNCHANGED overlapped
         ELSE BeginCommand(u, [pc |-> IF Update(t.cmd.op).clear THEN "clear" ELSE "state",
                               id |-> t.id, update |-> Update(t.cmd.op)])
      /\ UNCHANGED <<next_id, resources, aliases, provider, vm_ops, contested>>

apply_clear(u) ==
  LET t == vm_thread[u]
  IN  /\ t.pc = "clear"
      /\ resources' = [resources EXCEPT ![t.id].console = <<>>]
      /\ VmGo(u, [t EXCEPT !.pc = "state"])
      /\ UNCHANGED <<next_id, aliases, provider, vm_ops, overlapped, contested>>

apply_state(u) ==
  LET t == vm_thread[u]
  IN  /\ t.pc = "state"
      /\ resources' = [resources EXCEPT ![t.id].state = t.update.state]
      /\ VmGo(u, IF t.update.lines = <<>> THEN VmIdle ELSE [t EXCEPT !.pc = "append"])
      /\ UNCHANGED <<next_id, aliases, provider, vm_ops, overlapped, contested>>

apply_lines(u) ==
  LET t == vm_thread[u]
  IN  /\ t.pc = "append"
      /\ resources' = [resources EXCEPT ![t.id].console = @ \o t.update.lines]
      /\ VmGo(u, VmIdle)
      /\ UNCHANGED <<next_id, aliases, provider, vm_ops, overlapped, contested>>

(* A task writes a line on the console file itself. *)
console_write(u) ==
  LET t == vm_thread[u]
  IN  /\ t.pc = "opened" /\ t.cmd.op = "console"
      /\ resources' = [resources EXCEPT ![t.id].console = Append(@, "typed")]
      /\ VmGo(u, VmIdle)
      /\ UNCHANGED <<next_id, aliases, provider, vm_ops, overlapped, contested>>

Commands ==
  [op : {"alias"}, alias : Aliases \cup {NoAlias}] \cup [op : {"start", "stop", "reset", "console"}]

VmNext ==
  \/ set_provider
  \/ \E u \in VmUsers :
       \/ alloc_id(u) \/ alloc_insert(u)
       \/ \E name \in Aliases \cup 1..MaxVms, cmd \in Commands : resolve(u, name, cmd)
       \/ resolve_alias(u)
       \/ set_alias(u) \/ alias_set(u) \/ alias_update(u)
       \/ control(u) \/ apply_clear(u) \/ apply_state(u) \/ apply_lines(u) \/ console_write(u)

VmSpec == VmInit /\ [][VmNext]_vm_vars

-----------------------------------------------------------------------------
VmCalm(i) == i \notin overlapped /\ Busy(i) = {}

(* An alias leads to the machine whose alias file names it, and to no      *)
(* machine that has given it up; and the alias of a machine does lead to   *)
(* it unless another machine held it when it was set.                      *)
AliasesAreCurrent ==
  \A i \in DOMAIN resources : VmCalm(i) =>
    LET own == resources[i].alias
        leading == {a \in DOMAIN aliases : aliases[a] = i}
    IN  leading \subseteq {own} /\ (own \notin contested \cup {NoAlias} => own \in leading)

(* What the console shows last of the provider's doings is the state the   *)
(* machine is in, and a machine that was reset shows nothing of them.      *)
NothingDone(console) == \A n \in DOMAIN console : console[n] = "typed"
LastDone(console, line) ==
  \E n \in DOMAIN console : console[n] = line /\ \A m \in DOMAIN console : m > n => console[m] = "typed"
ConsoleTellsState ==
  \A i \in DOMAIN resources : VmCalm(i) =>
    \/ resources[i].state = "created" /\ NothingDone(resources[i].console)
    \/ resources[i].state = "running" /\ LastDone(resources[i].console, "start")
    \/ resources[i].state = "stopped" /\ LastDone(resources[i].console, "stop")

(* Once the commands on a machine have returned, and if no two overlapped, *)
(* its files, its console and the table of aliases tell the same of it,    *)
(* though a command writes each under a lock of its own.                   *)
MachinesAreCoherent == AliasesAreCurrent /\ ConsoleTellsState

=============================================================================
