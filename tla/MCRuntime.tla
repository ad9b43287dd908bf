----------------------------- MODULE MCRuntime ------------------------------
(***************************************************************************)
(* The tasks of a runtime and the devices of the root task.  They share no *)
(* state and a task is in one call at a time, so a behaviour uses one of   *)
(* them, whichever it is: two threads with MaxShort requests about a       *)
(* worker, a port and an alias, or with MaxRequests of those that tell     *)
(* whom a name stands for; or two users of a device.                       *)
(***************************************************************************)
EXTENDS TaskHost, NetDevice, TLC

CONSTANTS wk, al, p, x1, x2, u1, u2, MaxShort, Machines, MaxVms, MaxVmOps, MaxTerms, MaxTermOps
VARIABLES part,
          vm_next_id, vm_resources, vm_aliases, provider, vm_thread, vm_ops, overlapped, contested,
          terms, term_thread, term_ops

MCFds == <<[fd |-> 3, ok |-> TRUE], [fd |-> 4, ok |-> FALSE]>>
MCFrom == [worker |-> wk, name |-> 2]
MCRequests ==
  {spawn_worker(wk, 1), spawn_worker(wk, al),
   start_worker(wk, 1, MCFds), start_worker(wk, 2, <<>>), start_worker(wk, al, <<[fd |-> 4, ok |-> TRUE]>>),
   open_port(wk, 1, p), open_port(wk, 2, p), handoff_port(wk, 1, 2, p),
   post_message(wk, 2, "PortOpened", p, MCFrom, 1, 0), post_message(None, 1, "PortHandoff", p, MCFrom, al, 0),
   post_message(None, 1, "0", None, MCFrom, 1, 0), post_message(None, 1, "FdData", None, MCFrom, 1, 3),
   set_alias(1, al), set_alias(2, al), set_alias(1, 2), clear_fds(1)}

NameRequests == {spawn_worker(wk, 1), start_worker(wk, 2, <<>>), set_alias(1, 2), set_alias(2, al), open_port(wk, 2, p)}
MCThreads == {x1, x2}
AreShort == requests' <= MaxShort
AreAboutNames == opened' = 0 /\ \A x \in Threads : thread'[x] = NoThread \/ thread'[x].req \in NameRequests

MCUsers == {u1, u2}
MCTexts == {<<"x", "lf">>, <<"cr">>, <<"lf", "x">>}
Symmetry == Permutations(MCUsers) \cup Permutations(MCThreads)

Vm == INSTANCE VmDevice WITH VmUsers <- Users, Aliases <- Machines, next_id <- vm_next_id,
                             resources <- vm_resources, aliases <- vm_aliases
Term == INSTANCE Terminal WITH TermUsers <- Users, Texts <- MCTexts

vmVars == <<vm_next_id, vm_resources, vm_aliases, provider, vm_thread, vm_ops, overlapped, contested>>
termVars == <<terms, term_thread, term_ops>>

MCInit == part \in {"#task", "#names", "#net", "#vm", "#term"} /\ Init /\ NetInit /\ Vm!VmInit /\ Term!TermInit
MCNext ==
  /\ \/ part = "#task" /\ Next /\ AreShort /\ UNCHANGED <<net_vars, vmVars, termVars>>
     \/ part = "#names" /\ Next /\ AreAboutNames /\ UNCHANGED <<net_vars, vmVars, termVars>>
     \/ part = "#net" /\ NetNext /\ UNCHANGED <<vars, vmVars, termVars>>
     \/ part = "#vm" /\ Vm!VmNext /\ UNCHANGED <<vars, net_vars, termVars>>
     \/ part = "#term" /\ Term!TermNext /\ UNCHANGED <<vars, net_vars, vmVars>>
  /\ UNCHANGED part
MCSpec == MCInit /\ [][MCNext]_<<part, vars, net_vars, vmVars, termVars>>

(* Of a machine at rest, its files, its console and the table of aliases   *)
(* tell the same (VmResource's set_alias and apply_provider_update).  Of a *)
(* terminal at rest, the data queue ends the screen, and the program queue *)
(* has whole line ends (TerminalDataHandle and QueueFile::write).          *)
DevicesAreCoherent == Vm!MachinesAreCoherent /\ Term!TerminalsAreCoherent
=============================================================================
