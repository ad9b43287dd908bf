------------------------------- MODULE RcJobs -------------------------------
(***************************************************************************)
(* Process graphs of the rc shell (crates/star9-shell/src/rc.rs): jobs in  *)
(* the background, pipelines in the foreground, their files below          *)
(* .rc/graphs, notes, ctl commands and wait.                               *)
(*                                                                         *)
(* One thread runs the shell.  A job has a thread of its own, and every    *)
(* stage of a graph has one (crates/star9-runtime/src/execution.rs); a     *)
(* pipeline is driven by the shell thread itself.  They meet in the files  *)
(* of the graph, in the note of the job, in the exit files of the tasks    *)
(* and in blocking pipes (PipePort of crates/star9-fs/src/lib.rs).         *)
(*                                                                         *)
(* A file is written in one step.  The program of a stage is external: it  *)
(* reads, writes, and ends or fails.                                       *)
(*                                                                         *)
(* The shell keeps its namespace: rfork n and rfork N, which put it into   *)
(* another one than that of its jobs, are not commands of the model.       *)
(***************************************************************************)
EXTENDS Naturals, Sequences, FiniteSets

CONSTANTS
  Signals,    (* the notes that are sent                                   *)
  Specs,      (* the graphs that are asked for: sequences of stages, with  *)
              (* whether a program runs it, where it takes its input       *)
              (* ("default", a "file", or one that is "missing") and where *)
              (* it leaves its output ("default" or a "file")              *)
  MaxWrites,  (* bound: writes of one stage                                *)
  MaxGraphs,  (* bound: graphs that are made                               *)
  MaxCalls    (* bound: commands given to the shell                        *)

StageSpec == [program : BOOLEAN, in : {"default", "file", "missing"}, out : {"default", "file"}]
ASSUME SpecsAssumption == Specs \subseteq Seq(StageSpec)

VARIABLES
  graphs,     (* by number: the graph, its files, job control and stages   *)
  shell,      (* what the shell thread does                                *)
  note_group, (* Star9RcHost.note_group                                    *)
  no_mount,   (* RuntimeShellHost.no_mount                                 *)
  told,       (* history: by graph, what wait said of its job              *)
  calls       (* how many commands were given                              *)

job_vars == <<graphs, shell, note_group, no_mount, told, calls>>

None == <<"none">>
Code(c) == <<"exit", c>>
Signal(note) == <<"signal", note>>
ExitZero == Code("0")

Idle == [pc |-> "idle"]
NewStage == [pc |-> "new", exit |-> None, status |-> None, got |-> <<>>, put |-> 0,
             eof |-> FALSE, open |-> FALSE]
NewGraph(kind, spec) ==
  [kind |-> kind, spec |-> spec, bound |-> TRUE, state |-> "", status |-> None, notes |-> <<>>,
   listed |-> kind = "Background", group |-> note_group, note |-> <<>>, tasks |-> FALSE,
   run |-> [pc |-> "plan"], result |-> None, cancelled |-> FALSE,
   stages |-> [i \in DOMAIN spec |-> NewStage],
   pipes |-> [i \in DOMAIN spec |-> [data |-> <<>>, closed |-> FALSE]]]

JobsInit ==
  /\ graphs = <<>> /\ shell = Idle
  /\ note_group = 1 /\ no_mount = FALSE
  /\ told = [g \in {} |-> None] /\ calls = 0

-----------------------------------------------------------------------------
(* What descriptor 0 of stage i is bound to, in order: the pipe of the      *)
(* edge, the redirection of the stage, and nothing, if the stage before it *)
(* does not write that pipe.  The last binding counts (stream_for_fd).     *)
stage_writes_pipe(spec, i) == i < Len(spec) /\ spec[i].out = "default"
executable_stage(stage) == IF stage.in = "default" THEN <<>> ELSE <<stage.in>>
fd_bindings(spec, i) ==
  IF i > 1 /\ stage_writes_pipe(spec, i - 1) THEN <<"pipe">> \o executable_stage(spec[i])
  ELSE executable_stage(spec[i]) \o (IF i > 1 THEN <<"null">> ELSE <<>>)
Input(spec, i) ==
  LET bindings == fd_bindings(spec, i)
  IN  IF bindings = <<>> THEN "null" ELSE bindings[Len(bindings)]

(* Its standard output is returned unless a binding of fd 1 is writable. *)
IsReturned(spec, i) == i = Len(spec) /\ spec[i].out # "file"
Output(gr) == [i \in {j \in DOMAIN gr.spec : IsReturned(gr.spec, j)} |-> gr.stages[i].put]

-----------------------------------------------------------------------------
(* The thread that runs a graph: execute_external_graph.  A write of a     *)
(* file fails once the graph is unbound, and ends the graph with an error. *)
Running(g, pc) == graphs[g].run.pc = pc
Goto(pc) == [pc |-> pc]
ThenState(value, then) == [pc |-> "check", value |-> value, then |-> then]
SetGraph(g, gr) == graphs' = [graphs EXCEPT ![g] = gr]
Runner(g, gr) == SetGraph(g, gr) /\ UNCHANGED <<shell, note_group, no_mount, told, calls>>
Failed(gr) == [gr EXCEPT !.run = Goto("failed"), !.result = <<"failed">>]

(* write_graph_file: a change of the files, or the end. *)
Written(gr, new) == IF gr.bound THEN new ELSE Failed(gr)
Noted(gr) == gr.note # <<>>
signal_status(gr) == Signal(gr.note[1])

write_plan(g) ==
  LET gr == graphs[g]
  IN  /\ Running(g, "plan")
      /\ Runner(g, Written(gr, [gr EXCEPT !.run = ThenState("planned", Goto("notes"))]))

(* A bug to catch: the note is not looked up. *)
skip_check(g) ==
  Running(g, "check") /\ Runner(g, [graphs[g] EXCEPT !.run.pc = "put"])

(* write_graph_state: the note is looked up before the file is written. *)
check_note(g) ==
  LET gr == graphs[g]
  IN  /\ Running(g, "check")
      /\ Runner(g, [gr EXCEPT !.run.pc = IF Noted(gr) THEN "sig_status" ELSE "put"])

put_state(g) ==
  LET gr == graphs[g]
  IN  /\ Running(g, "put")
      /\ Runner(g, Written(gr, [gr EXCEPT !.state = gr.run.value, !.run = gr.run.then]))

put_signal_status(g) ==
  LET gr == graphs[g]
  IN  /\ Running(g, "sig_status")
      /\ Runner(g, Written(gr, [gr EXCEPT !.status = signal_status(gr), !.run.pc = "sig_state"]))

put_signal_state(g) ==
  LET gr == graphs[g]
  IN  /\ Running(g, "sig_state")
      /\ Runner(g, Written(gr, [gr EXCEPT !.state = "signaled", !.run = gr.run.then]))

clear_notes(g) ==
  LET gr == graphs[g]
  IN  /\ Running(g, "notes")
      /\ Runner(g, Written(gr, [gr EXCEPT !.notes = <<>>, !.run = [pc |-> "early", then |-> Goto("bind")]]))

(* maybe_finish_signaled_graph, called twice. *)
maybe_finish_signaled_graph(g) ==
  LET gr == graphs[g]
  IN  /\ Running(g, "early")
      /\ Runner(g, [gr EXCEPT !.run = IF Noted(gr) THEN [pc |-> "sig_status", then |-> Goto("signaled")]
                                                   ELSE gr.run.then])

finish_signaled(g) ==
  LET gr == graphs[g]
  IN  /\ Running(g, "signaled")
      /\ Runner(g, [gr EXCEPT !.run = Goto("done"), !.result = signal_status(gr)])

(* Pipes are bound, tasks allocated and made known to send_note. *)
bind_tasks(g) ==
  /\ Running(g, "bind")
  /\ Runner(g, [graphs[g] EXCEPT !.tasks = TRUE, !.run = Goto("tasks")])

write_tasks(g) ==
  LET gr == graphs[g]
  IN  /\ Running(g, "tasks")
      /\ Runner(g, Written(gr, [gr EXCEPT !.run = ThenState("running", [pc |-> "early", then |-> Goto("spawn")])]))

spawn_stages(g) ==
  LET gr == graphs[g]
  IN  /\ Running(g, "spawn")
      /\ Runner(g, [gr EXCEPT !.stages = [i \in DOMAIN gr.stages |-> [gr.stages[i] EXCEPT !.pc = "begin"]],
                              !.run = [pc |-> "join", next |-> 1]])

(* A bug to catch: the last stage is waited for first. *)
join_last_first(g) ==
  LET gr == graphs[g]
      stage == gr.stages[Len(gr.spec) + 1 - gr.run.next]
      last == gr.run.next = Len(gr.spec)
  IN  /\ Running(g, "join") /\ stage.pc = "done"
      /\ Runner(g, IF stage.status = <<"error">> THEN Failed(gr)
                   ELSE [gr EXCEPT !.run = IF last THEN Goto("collect") ELSE [pc |-> "join", next |-> gr.run.next + 1]])

(* The stages are joined in order; the first error is returned at once. *)
join_stage(g) ==
  LET gr == graphs[g]
      stage == gr.stages[gr.run.next]
      last == gr.run.next = Len(gr.spec)
  IN  /\ Running(g, "join") /\ stage.pc = "done"
      /\ Runner(g, IF stage.status = <<"error">> THEN Failed(gr)
                   ELSE [gr EXCEPT !.run = IF last THEN Goto("collect") ELSE [pc |-> "join", next |-> gr.run.next + 1]])

(* The ways a graph ends early besides: the input of a stage cannot be     *)
(* written because the graph is unbound (build_execution_spec), or the     *)
(* output of one cannot be read back, say because its program closed the   *)
(* descriptor (read_task_fd_string).                                       *)
graph_error(g) ==
  LET gr == graphs[g]
  IN  /\ (Running(g, "bind") /\ ~gr.bound) \/ Running(g, "collect")
      /\ Runner(g, Failed(gr))

(* RcStatus::pipeline: a success if every stage had one. *)
pipeline_status(gr) ==
  IF \A i \in DOMAIN gr.stages : gr.stages[i].status = ExitZero THEN ExitZero ELSE Code("1")
StateOf(status) ==
  IF status[1] = "signal" THEN "signaled" ELSE IF status = ExitZero THEN "exited" ELSE "failed"

collect(g) ==
  LET gr == graphs[g]
      status == IF Noted(gr) THEN signal_status(gr) ELSE pipeline_status(gr)
  IN  /\ Running(g, "collect")
      /\ Runner(g, [gr EXCEPT !.run = [pc |-> "status", status |-> status, out |-> Output(gr)]])

write_status(g) ==
  LET gr == graphs[g]
  IN  /\ Running(g, "status")
      /\ Runner(g, Written(gr, [gr EXCEPT !.status = gr.run.status,
           !.run = ThenState(StateOf(gr.run.status), [pc |-> "return", status |-> gr.run.status])]))

return_output(g) ==
  LET gr == graphs[g]
  IN  /\ Running(g, "return")
      /\ Runner(g, [gr EXCEPT !.run = Goto("done"), !.result = gr.run.status])

RunnerStep(g) ==
  \/ write_plan(g) \/ check_note(g) \/ put_state(g) \/ put_signal_status(g) \/ put_signal_state(g)
  \/ clear_notes(g) \/ maybe_finish_signaled_graph(g) \/ finish_signaled(g) \/ bind_tasks(g)
  \/ write_tasks(g) \/ spawn_stages(g) \/ join_stage(g) \/ collect(g) \/ write_status(g)
  \/ return_output(g) \/ graph_error(g)

Ended(gr) == gr.run.pc \in {"done", "failed"}

-----------------------------------------------------------------------------
(* The thread of a stage: ExecutionRegistry::execute and the closes after  *)
(* it.  apply_execution_spec opens descriptor 0 first, and stops there if  *)
(* it cannot; a note that comes in the middle is overwritten as before it. *)
StageStep(g, i, stage) ==
  /\ graphs' = [graphs EXCEPT ![g].stages[i] = stage]
  /\ UNCHANGED <<shell, note_group, no_mount, told, calls>>

apply_execution_spec(g, i) ==
  LET stage == graphs[g].stages[i]
  IN  /\ stage.pc = "begin"
      /\ StageStep(g, i, IF Input(graphs[g].spec, i) = "missing"
           THEN [stage EXCEPT !.pc = "close", !.exit = <<"running">>, !.status = <<"error">>]
           ELSE [stage EXCEPT !.pc = "program", !.exit = <<"started">>, !.open = TRUE])

(* PipePort::read waits for data or for the end. *)
program_reads(g, i) ==
  LET stage == graphs[g].stages[i]
  IN  /\ stage.pc = "program" /\ ~stage.eof /\ Input(graphs[g].spec, i) = "pipe"
      /\ StageStep(g, i, [stage EXCEPT !.pc = "reading"])

(* A bug to catch: the end is seen before the data that came before it. *)
end_at_close(g, i) ==
  LET gr == graphs[g]
      stage == gr.stages[i]
      pipe == gr.pipes[i - 1]
  IN  /\ stage.pc = "reading" /\ (pipe.data # <<>> \/ pipe.closed)
      /\ graphs' = [graphs EXCEPT
           ![g].pipes[i - 1].data = <<>>,
           ![g].stages[i] = IF pipe.closed THEN [stage EXCEPT !.pc = "program", !.eof = TRUE]
                            ELSE [stage EXCEPT !.pc = "program", !.got = @ \o pipe.data]]
      /\ UNCHANGED <<shell, note_group, no_mount, told, calls>>

pipe_read(g, i) ==
  LET gr == graphs[g]
      stage == gr.stages[i]
      pipe == gr.pipes[i - 1]
  IN  /\ stage.pc = "reading"
      /\ \/ \E n \in 1..Len(pipe.data) :
              graphs' = [graphs EXCEPT
                ![g].pipes[i - 1].data = SubSeq(pipe.data, n + 1, Len(pipe.data)),
                ![g].stages[i] = [stage EXCEPT !.pc = "program", !.got = @ \o SubSeq(pipe.data, 1, n)]]
         \/ /\ pipe.data = <<>> /\ pipe.closed
            /\ graphs' = [graphs EXCEPT ![g].stages[i] = [stage EXCEPT !.pc = "program", !.eof = TRUE]]
      /\ UNCHANGED <<shell, note_group, no_mount, told, calls>>

pipe_write(g, i) ==
  LET gr == graphs[g]
      stage == gr.stages[i]
  IN  /\ stage.pc = "program" /\ stage.put < MaxWrites
      /\ graphs' = [graphs EXCEPT
           ![g].stages[i].put = @ + 1,
           ![g].pipes[i].data = IF stage_writes_pipe(gr.spec, i) THEN Append(@, stage.put + 1) ELSE @]
      /\ UNCHANGED <<shell, note_group, no_mount, told, calls>>

program_ends(g, i) ==
  LET stage == graphs[g].stages[i]
  IN  /\ stage.pc = "program"
      /\ \/ \E c \in {"0", "1"} : StageStep(g, i, [stage EXCEPT !.pc = "exit", !.status = Code(c)])
         \/ StageStep(g, i, [stage EXCEPT !.pc = "close", !.status = <<"error">>])

set_exit(g, i) ==
  LET stage == graphs[g].stages[i]
  IN  /\ stage.pc = "exit"
      /\ StageStep(g, i, [stage EXCEPT !.pc = "close", !.exit = stage.status])

(* The writable descriptors are closed, after an error too, if they had    *)
(* been opened: PipePort::close ends the pipe.                             *)
close_fds(g, i) ==
  LET gr == graphs[g]
      stage == gr.stages[i]
  IN  /\ stage.pc = "close"
      /\ graphs' = [graphs EXCEPT
           ![g].stages[i] = [stage EXCEPT !.pc = "done", !.open = FALSE],
           ![g].pipes[i].closed = @ \/ (stage.open /\ stage_writes_pipe(gr.spec, i))]
      /\ UNCHANGED <<shell, note_group, no_mount, told, calls>>

StageThread(g, i) ==
  \/ apply_execution_spec(g, i) \/ program_reads(g, i) \/ pipe_read(g, i) \/ pipe_write(g, i)
  \/ program_ends(g, i) \/ set_exit(g, i) \/ close_fds(g, i)

-----------------------------------------------------------------------------
(* The shell thread: commands. *)
Command == shell = Idle /\ calls < MaxCalls /\ calls' = calls + 1
graph_root(n) == ~no_mount /\ Len(graphs) + n <= MaxGraphs

(* Of a command that no registered program runs there is no process graph. *)
can_execute(spec) == \A i \in DOMAIN spec : spec[i].program

start_process_graph_job(spec) ==
  /\ Command /\ Len(spec) = 1 /\ can_execute(spec) /\ graph_root(1)
  /\ graphs' = Append(graphs, NewGraph("Background", spec))
  /\ UNCHANGED <<shell, note_group, no_mount, told>>

execute_process_graph(spec) ==
  /\ Command /\ Len(spec) > 1 /\ can_execute(spec) /\ graph_root(2)
  /\ graphs' = Append(graphs, NewGraph("Pipeline", spec))
  /\ shell' = [pc |-> "pipeline", g |-> Len(graphs) + 1]
  /\ UNCHANGED <<note_group, no_mount, told>>

pipeline_returned ==
  /\ shell.pc = "pipeline" /\ Running(shell.g, "done")
  /\ shell' = Idle
  /\ UNCHANGED <<graphs, note_group, no_mount, told, calls>>

(* prepare_process_graph: the record of a graph the evaluator runs itself. *)
(* It has all the stages.  In the code a pipeline of more than two has one *)
(* record for each bar, and its left side is first tried as a graph of its *)
(* own; the runs have pipelines of two.                                    *)
Prepared(spec) ==
  [NewGraph("Evaluated", spec) EXCEPT
     !.state = "planned", !.status = <<"planned">>, !.run = Goto("evaluated"),
     !.stages = [i \in DOMAIN spec |-> [NewStage EXCEPT !.exit = <<"planned">>]]]
Prepare(spec) ==
  /\ graphs' = Append(graphs, Prepared(spec))
  /\ shell' = [pc |-> "evaluate", g |-> Len(graphs) + 1]
  /\ UNCHANGED <<note_group, no_mount, told>>
prepare_process_graph(spec) == Command /\ ~can_execute(spec) /\ graph_root(1) /\ Prepare(spec)

(* An error of the provider is no answer: the evaluator runs the pipeline  *)
(* once more, command by command.                                          *)
pipeline_failed ==
  /\ shell.pc = "pipeline" /\ Running(shell.g, "failed")
  /\ Prepare(graphs[shell.g].spec) /\ UNCHANGED calls

finish_process_graph ==
  /\ shell.pc = "evaluate"
  /\ \E c \in [DOMAIN graphs[shell.g].spec -> {"0", "1"}] :
       graphs' = [graphs EXCEPT ![shell.g].stages =
         [i \in DOMAIN c |-> [graphs[shell.g].stages[i] EXCEPT !.exit = Code(c[i])]]]
  /\ shell' = Idle
  /\ UNCHANGED <<note_group, no_mount, told, calls>>

rfork(flag) ==
  /\ Command
  /\ note_group' = IF flag = "s" THEN note_group + 1 ELSE note_group
  /\ no_mount' = (no_mount \/ flag = "m")
  /\ UNCHANGED <<graphs, shell, told>>

-----------------------------------------------------------------------------
(* JobControl::send_note, for each graph of a list, and then more.  A      *)
(* graph that has no job is marked through its files alone (cancel_graph). *)
(* The table of jobs is in the order of their numbers, so that a list of   *)
(* graphs is a set, and the next one is its least.                         *)
Sending(list, note, direct, then) ==
  IF list = {} THEN then
  ELSE [pc |-> IF direct THEN "n_state" ELSE "n_set", list |-> list, note |-> note,
        direct |-> direct, then |-> then]
Listed(test) == {g \in test : graphs[g].listed}

send_note_to_processes(note) ==
  /\ Command
  /\ shell' = Sending(Listed({g \in DOMAIN graphs : graphs[g].group = note_group}), note, FALSE, Idle)
  /\ UNCHANGED <<graphs, note_group, no_mount, told>>

cancel_graph(g, note) ==
  /\ Command
  /\ shell' = Sending({g}, note, ~graphs[g].listed, Idle)
  /\ UNCHANGED <<graphs, note_group, no_mount, told>>

Target == CHOOSE g \in shell.list : \A h \in shell.list : g <= h
Rest == shell.list \ {Target}
Sender(gr, pc) ==
  /\ SetGraph(Target, gr) /\ shell' = [shell EXCEPT !.pc = pc]
  /\ UNCHANGED <<note_group, no_mount, told, calls>>

set_note ==
  LET gr == graphs[Target]
  IN  /\ shell.pc = "n_set"
      /\ Sender([gr EXCEPT !.note = IF Noted(gr) THEN @ ELSE <<shell.note>>], "n_state")

note_state ==
  LET gr == graphs[Target]
  IN  /\ shell.pc = "n_state"
      /\ Sender([gr EXCEPT !.state = IF gr.bound THEN "signaled" ELSE @, !.cancelled = TRUE], "n_status")

note_status ==
  LET gr == graphs[Target]
  IN  /\ shell.pc = "n_status"
      /\ Sender([gr EXCEPT !.status = IF gr.bound THEN Signal(shell.note) ELSE @], "n_notes")

(* append_graph_file reads the file, and writes it back with the note. *)
note_read ==
  /\ shell.pc = "n_notes"
  /\ shell' = [pc |-> "n_append", list |-> shell.list, note |-> shell.note, direct |-> shell.direct,
               then |-> shell.then, notes |-> graphs[Target].notes]
  /\ UNCHANGED <<graphs, note_group, no_mount, told, calls>>

note_append ==
  LET gr == graphs[Target]
  IN  /\ shell.pc = "n_append"
      /\ Sender([gr EXCEPT !.notes = IF gr.bound THEN Append(shell.notes, shell.note) ELSE @], "n_exit")

note_exits ==
  LET gr == graphs[Target]
  IN  /\ shell.pc = "n_exit"
      /\ SetGraph(Target, [gr EXCEPT !.stages =
           IF gr.tasks /\ ~shell.direct
           THEN [i \in DOMAIN gr.stages |-> [gr.stages[i] EXCEPT !.exit = Signal(shell.note)]] ELSE @])
      /\ shell' = Sending(Rest, shell.note, shell.direct, shell.then)
      /\ UNCHANGED <<note_group, no_mount, told, calls>>

-----------------------------------------------------------------------------
(* wait_process_job: the jobs leave the table first.  One that has a note  *)
(* is sent it again and is not waited for.                                 *)
Waiting(list) == IF list = {} THEN Idle ELSE [pc |-> "wait", list |-> list]

wait_process_job(jobs) ==
  /\ Command /\ Listed(jobs) # {}
  /\ graphs' = [g \in DOMAIN graphs |-> [graphs[g] EXCEPT !.listed = @ /\ g \notin jobs]]
  /\ shell' = Waiting(Listed(jobs))
  /\ UNCHANGED <<note_group, no_mount, told>>

Tell(g, status) == told' = [h \in DOMAIN told \cup {g} |-> IF h = g THEN status ELSE told[h]]

(* A bug to catch: a job is waited for although it has a note. *)
receive_only ==
  /\ shell.pc = "wait" /\ graphs[Target].result # None
  /\ Tell(Target, graphs[Target].result)
  /\ shell' = Waiting(Rest)
  /\ UNCHANGED <<graphs, note_group, no_mount, calls>>

wait_next ==
  LET gr == graphs[Target]
  IN  /\ shell.pc = "wait" /\ (Noted(gr) \/ gr.result # None)
      /\ IF Noted(gr)
         THEN /\ Tell(Target, signal_status(gr))
              /\ shell' = Sending({Target}, gr.note[1], FALSE, Waiting(Rest))
         ELSE /\ Tell(Target, gr.result)
              /\ shell' = Waiting(Rest)
      /\ UNCHANGED <<graphs, note_group, no_mount, calls>>

(* cleanup_graph: read the state, then forget the job and unbind.  The     *)
(* commands status, hold and release touch no file that is read.           *)
cleanup_graph(g) ==
  /\ Command
  /\ shell' = IF graphs[g].bound /\ graphs[g].state = "running" THEN Idle
              ELSE [pc |-> "unbind", g |-> g]
  /\ UNCHANGED <<graphs, note_group, no_mount, told>>

cleanup_unbind ==
  /\ shell.pc = "unbind"
  /\ graphs' = [graphs EXCEPT ![shell.g].listed = FALSE, ![shell.g].bound = FALSE]
  /\ shell' = Idle
  /\ UNCHANGED <<note_group, no_mount, told, calls>>

ShellStep ==
  \/ pipeline_returned \/ pipeline_failed \/ finish_process_graph
  \/ set_note \/ note_state \/ note_status \/ note_read \/ note_append \/ note_exits
  \/ wait_next \/ cleanup_unbind

NewCommand ==
  \/ \E spec \in Specs :
       start_process_graph_job(spec) \/ execute_process_graph(spec) \/ prepare_process_graph(spec)
  \/ \E flag \in {"s", "m"} : rfork(flag)
  \/ \E note \in Signals : send_note_to_processes(note)
  \/ \E g \in DOMAIN graphs :
       cleanup_graph(g) \/ wait_process_job({g}) \/ \E note \in Signals : cancel_graph(g, note)
  \/ wait_process_job(DOMAIN graphs)

ThreadStep ==
  ShellStep \/ \E g \in DOMAIN graphs :
                 RunnerStep(g) \/ \E i \in DOMAIN graphs[g].stages : StageThread(g, i)

JobsNext == NewCommand \/ ThreadStep

(* While a thread can take a step, some thread does.  That is all that is  *)
(* asked of the scheduler and of the programs, which end unless they wait  *)
(* in a read; commands need not be given.                                  *)
JobsSpec == JobsInit /\ [][JobsNext]_job_vars /\ WF_job_vars(ThreadStep)

-----------------------------------------------------------------------------
(* What wait says of a job is the signal of the first note it got, if it   *)
(* got one, and what became of its stages otherwise: a failure of the      *)
(* graph, or their status (wait_process_job and the result of the thread). *)
WaitTellsTheTruth ==
  \A g \in DOMAIN told :
    LET gr == graphs[g]
    IN  told[g] = IF Noted(gr) THEN signal_status(gr)
                  ELSE IF gr.run.pc = "failed" THEN <<"failed">> ELSE pipeline_status(gr)

(* The files of a graph that has ended tell how: of one without notes, its *)
(* status, state and exits are the result; and the status of one that got  *)
(* a note tells the signal, wherever the note fell (write_graph_state).    *)
FilesTellTheEnd ==
  \A g \in DOMAIN graphs :
    LET gr == graphs[g]
    IN  Ended(gr) /\ gr.bound /\ shell = Idle =>
          /\ Noted(gr) => gr.status[1] = "signal"
          /\ ~gr.cancelled /\ gr.run.pc = "done" =>
               /\ gr.status = gr.result /\ gr.state = StateOf(gr.result)
               /\ \A i \in DOMAIN gr.stages : gr.stages[i].exit = gr.stages[i].status

(* A stage that has read its pipe to the end has read all that the stage   *)
(* before it wrote, in order and once, however they were scheduled.        *)
PipesAreWhole ==
  \A g \in DOMAIN graphs : \A i \in DOMAIN graphs[g].stages :
    LET stage == graphs[g].stages[i]
    IN  stage.eof => stage.got = [n \in 1..graphs[g].stages[i - 1].put |-> n]

HasEnded(g) == g \in DOMAIN graphs /\ (Ended(graphs[g]) \/ Running(g, "evaluated"))

(* Every command returns and every graph that was started ends: no join    *)
(* waits for a stage that waits for an end of file nobody will write.  The *)
(* commands are finitely many, so there is a time when nothing is left to  *)
(* return or to end.                                                       *)
Unfinished == shell # Idle \/ \E g \in DOMAIN graphs : ~HasEnded(g)
CommandsReturn == Unfinished ~> ~Unfinished

=============================================================================
