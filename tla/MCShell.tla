------------------------------- MODULE MCShell -------------------------------
(***************************************************************************)
(* The rc shell: its session, and the jobs a provider runs for it.  They   *)
(* share no state here, so a behaviour is one of them.  The session reads  *)
(* the lines of RcLines.  The shell starts graphs of one or two stages:    *)
(* plain programs, one with a missing input, one with its output in a      *)
(* file, and a builtin.                                                    *)
(***************************************************************************)
EXTENDS RcEval, RcLines, RcJobs

VARIABLE part

Plain == [program |-> TRUE, in |-> "default", out |-> "default"]
Lacking == [Plain EXCEPT !.in = "missing"]
ToFile == [Plain EXCEPT !.out = "file"]
Builtin == [Plain EXCEPT !.program = FALSE]
JobSpecs == {<<Plain>>, <<Builtin>>, <<Plain, Plain>>, <<Lacking, Plain>>, <<ToFile, Plain>>}

\* Bound: a stage that writes no pipe writes once.
OthersWriteOnce ==
  \A g \in DOMAIN graphs : \A i \in DOMAIN graphs[g].spec :
    stage_writes_pipe(graphs[g].spec, i) \/ graphs[g].stages[i].put <= 1

MCInit == part \in {"jobs", "session"} /\ Init /\ JobsInit
MCNext ==
  /\ \/ part = "jobs" /\ JobsNext /\ OthersWriteOnce' /\ UNCHANGED vars
     \/ part = "session" /\ Next /\ UNCHANGED job_vars
  /\ UNCHANGED part
MCSpec == MCInit /\ [][MCNext]_<<part, vars, job_vars>> /\ WF_job_vars(ThreadStep)
=============================================================================
