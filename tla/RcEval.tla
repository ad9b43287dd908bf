-------------------------------- MODULE RcEval --------------------------------
(***************************************************************************)
(* The rc session (crates/star9-rc/src/lib.rs, RcSession): what one line,  *)
(* or one note, does to its variables, functions, arguments and jobs, and  *)
(* to the environment it shares with the other tasks of its group.  Every  *)
(* session publishes its whole environment and reads it back: at the start *)
(* of a line, and after every command inside it.                           *)
(*                                                                         *)
(* The evaluator is the code's recursive one, from session to session.     *)
(* Text is a sequence of lines, a line a sequence of values and a value a  *)
(* sequence of atoms: <<>> is the empty string.  A status is the sequence  *)
(* of the parts the code joins with |.  Commands that a provider executes  *)
(* (pipelines and jobs of programs) are the subject of RcJobs: here every  *)
(* pipeline and job is run by the evaluator itself, as it is whenever one  *)
(* of its stages is a builtin, a function or a script.                     *)
(***************************************************************************)
EXTENDS RcSyntax, TLC

CONSTANTS
  Lines,        \* the lines typed: [text, sets], sets the variables it may change,
                \* with "fn" if it drops the functions
  Opening,      \* lines that are typed first, if at all
  Scripts,      \* path |-> text of the scripts on the host
  Parts,        \* raw word |-> its parts, for the words that are not literals
  Entries,      \* the names in the current directory
  Matched,      \* glob pattern |-> the names that match it
  Notes,        \* the notes delivered to the session
  Values,       \* what another task writes into the environment
  MaxSteps      \* bound on lines, notes and writes of others

VARIABLES
  rc,           \* the session and its host (struct RcSession, Star9RcHost)
  steps,        \* how many steps were made
  defined,      \* history: function |-> what the last step made of it
  may           \* history: the variables the last step was entitled to change

vars == <<rc, steps, defined, may>>

MaxLoop == 3    \* bound on while, for the code's 100_000

-----------------------------------------------------------------------------
(* Statuses, outputs and results. *)

Success == <<>>
is_success(status) == \A i \in DOMAIN status : status[i] \in {"", "0"}
Shown(status) == IF status = Success THEN <<"0">> ELSE status
pipeline(left, right) == Shown(left) \o Shown(right)
invert(status) == IF is_success(status) THEN <<"false">> ELSE Success

Complaint == <<<<<<"error">>>>>>
Out(status, stdout, stderr, exited) ==
  [status |-> status, stdout |-> stdout, stderr |-> stderr, exited |-> exited]
Quiet == Out(Success, <<>>, <<>>, FALSE)
Says(text) == Out(Success, text, <<>>, FALSE)
Silent(ok) == IF ok THEN Quiet ELSE Out(<<"false">>, <<>>, <<>>, FALSE)
Fails(status) == Out(<<status>>, <<>>, Complaint, FALSE)
appended(out, next) ==
  Out(next.status, out.stdout \o next.stdout, out.stderr \o next.stderr, next.exited)

\* The session after a step of the evaluator, and what the step put out.
Then(s, out) == [s |-> s, out |-> out]

-----------------------------------------------------------------------------
(* The environment. *)

With(f, name, value) == (name :> value) @@ f
Without(f, name) == [x \in DOMAIN f \ {name} |-> f[x]]

Env(s) == s.envs[s.group]

\* Values are joined by a zero byte: an empty list reads back as one empty value.
exported_values(values) == IF values = <<>> THEN <<<<>>>> ELSE values
export_environment(s) ==
  [vars |-> [x \in DOMAIN s.vars |-> exported_values(s.vars[x])],
   fns  |-> [f \in DOMAIN s.functions |-> render_node(s.functions[f])]]
publish_environment(s) == [s EXCEPT !.envs[s.group] = export_environment(s)]

refresh_arg_vars(s) == [s EXCEPT !.vars = With(@, "*", s.argv)]
set_args(s, args) == publish_environment(refresh_arg_vars([s EXCEPT !.argv = args]))

\* A function is read back by parsing its definition; one that does not parse
\* to a definition leaves the function the session has.
imported_function(f, text) ==
  LET Read(script) ==
        IF script.pos # 0 /\ script.node # <<>> /\ script.node[1].t = "Function"
        THEN script.node[1].body ELSE <<>>
  IN Read(parse(<<W("fn"), W(f)>> \o text))
import_environment(s, env) ==
  LET Parsed(fns) == [f \in {g \in DOMAIN fns : fns[g] # <<>>} |-> fns[f][1]]
  IN refresh_arg_vars(
       [s EXCEPT !.vars = env.vars @@ @,
                 !.functions = Parsed([f \in DOMAIN env.fns |->
                                         imported_function(f, env.fns[f])]) @@ @])
import_host_environment(s) == import_environment(s, Env(s))
replace_environment(s, env) ==
  import_environment([s EXCEPT !.vars = <<>>, !.functions = <<>>], env)

lookup_var(s, name) ==
  CASE name = "*"              -> s.argv
    [] name = "0"              -> <<s.argv0>>
    [] name = "1"              -> SubSeq(s.argv, 1, IF s.argv = <<>> THEN 0 ELSE 1)
    [] name = "status"         -> <<Shown(s.last_status)>>
    [] name \in DOMAIN s.vars  -> s.vars[name]
    [] OTHER                   -> <<>>

restore_var(s, name, old) ==
  [s EXCEPT !.vars = IF old = <<>> THEN Without(@, name) ELSE With(@, name, old[1])]
Saved(s, name) == IF name \in DOMAIN s.vars THEN <<s.vars[name]>> ELSE <<>>

-----------------------------------------------------------------------------
(* Expansion.  The evaluator recurs through eval_node only: run is the      *)
(* function [session, node, input] |-> result that it defines.              *)

\* Every value on the left with every value on the right; none if a side is empty.
concat_values(left, right) ==
  [i \in 1 .. Len(left) * Len(right) |->
     left[((i - 1) \div Len(right)) + 1] \o right[((i - 1) % Len(right)) + 1]]

split_ifs(text) == SelectSeq(FlattenSeq(text), LAMBDA value : value # <<>>)

\* The values of a variable part: a list, its length, or its values in one.
read_variable_expansion(values, how) ==
  CASE how = "list"  -> values
    [] how = "count" -> <<<<ToString(Len(values))>>>>
    [] how = "quote" -> <<FlattenSeq(values)>>

\* A script, from parsed text: its status becomes the session's.
set_last_status(s, status) ==
  [s EXCEPT !.last_status = status, !.vars = With(@, "status", <<Shown(status)>>)]
finish_script(ran) ==
  Then(publish_environment(set_last_status(ran.s, ran.out.status)), ran.out)
eval_script(run, s, nodes, input) == finish_script(run[s, Sequence(nodes), input])

\* A line: the environment is read, the text parsed, the script evaluated.
eval_parsed(run, s, script) ==
  IF script.pos = 0 THEN Then([s EXCEPT !.last_status = <<"false">>], Fails("parse"))
  ELSE eval_script(run, s, script.node, <<>>)
eval_source(run, s, text) == eval_parsed(run, import_host_environment(s), parse(text))

\* A word is its parts joined; a command part may change the session.
expand_part(run, r, part) ==
  LET Join(s, values) == [s |-> s, values |-> concat_values(r.values, values)]
      Output(ran) == Join(ran.s, split_ifs(ran.out.stdout))
  IN CASE part.t = "lit" -> Join(r.s, <<<<part.atom>>>>)
       [] part.t = "var" -> Join(r.s, read_variable_expansion(lookup_var(r.s, part.var), part.how))
       [] part.t = "cmd" -> Output(eval_source(run, r.s, part.text))
expand_word(run, s, raw) ==
  FoldLeft(LAMBDA r, part : expand_part(run, r, part), [s |-> s, values |-> <<<<>>>>],
           IF raw \in DOMAIN Parts THEN Parts[raw] ELSE <<[t |-> "lit", atom |-> raw]>>)

\* A pattern stands for the names it matches, if there are any.
pattern_match(pattern, value) ==
  IF Len(pattern) = 1 /\ pattern[1] \in DOMAIN Matched
  THEN Len(value) = 1 /\ value[1] \in Matched[pattern[1]]
  ELSE pattern = value
glob(value) == SetToSeq({<<e>> : e \in {n \in Entries : pattern_match(value, <<n>>)}})
expand_glob_or_literal(value) ==
  IF value = <<>> \/ value[1] \notin DOMAIN Matched \/ glob(value) = <<>> THEN <<value>>
  ELSE glob(value)

expand_words(run, s, words) ==
  LET Globbed(r, first) ==
        [s |-> first.s,
         values |-> r.values \o FlattenSeq([i \in DOMAIN first.values |->
                                              expand_glob_or_literal(first.values[i])])]
  IN FoldLeft(LAMBDA r, word : Globbed(r, expand_word(run, r.s, word)),
              [s |-> s, values |-> <<>>], words)

-----------------------------------------------------------------------------
(* Redirections.  A sink is where the output of a descriptor goes. *)

Sink(to) == [to |-> to]
IsNull(path) == path = <<"null">>
IsDenied(path) == path = <<"denied">>      \* a file the host will not write

\* The sink of a redirection of output to a path, and of a copied descriptor.
FileSink(path, append) ==
  IF IsNull(path) THEN Sink("Closed") ELSE [to |-> "File", path |-> path, append |-> append]
DupSink(sinks, from) ==
  CASE from = <<>>               -> Sink("Closed")
    [] from[1] \in DOMAIN sinks  -> sinks[from[1]]
    [] OTHER                     -> Sink("Closed")

\* [ok, s, input, sinks] after one redirection.
prepare_redirect(run, r, redirect) ==
  LET target == redirect.target
      Put(s, sink) == [r EXCEPT !.s = s, !.sinks = With(@, redirect.fd, sink)]
      Read(s, text) == [r EXCEPT !.s = s, !.input = text]
      Output(ran) == Read(ran.s, ran.out.stdout)
      At1(s, path) ==
        CASE redirect.mode # "Read"     -> Put(s, FileSink(path, redirect.mode = "Append"))
          [] redirect.mode = "Read" /\ IsNull(path) -> Read(s, <<>>)
          [] path \in DOMAIN s.files    -> Read(s, s.files[path])
          [] OTHER                      -> [r EXCEPT !.ok = FALSE, !.s = s]
      Word(w) == IF w.values = <<>> THEN [r EXCEPT !.ok = FALSE, !.s = w.s]
                 ELSE At1(w.s, w.values[1])
  IN CASE ~r.ok                   -> r
       [] redirect.mode = "Dup"   -> Put(r.s, DupSink(r.sinks, redirect.from))
       [] redirect.mode = "Here"  -> Read(r.s, <<<<<<target.w>>>>>>)
       [] redirect.mode = "Read" /\ target.t = "Process" ->
            Output(run[r.s, target.node, <<>>])
       [] target.t = "Process"    -> Put(r.s, [to |-> "Process", node |-> target.node])
       [] OTHER                   -> Word(expand_word(run, r.s, target.w))

\* Where the text of a descriptor goes: [ok, s, out].
apply_fd_sink(run, a, data, sink) ==
  LET Had(path) == IF sink.append /\ path \in DOMAIN a.s.files THEN a.s.files[path] ELSE <<>>
      Fed(next) ==
        [a EXCEPT !.s = next.s,
                  !.out = Out(next.out.status, @.stdout \o next.out.stdout,
                              @.stderr \o next.out.stderr, @.exited \/ next.out.exited)]
  IN CASE ~a.ok \/ data = <<>> -> a
       [] sink.to = "Stdout"   -> [a EXCEPT !.out.stdout = @ \o data]
       [] sink.to = "Stderr"   -> [a EXCEPT !.out.stderr = @ \o data]
       [] sink.to = "Closed"   -> a
       [] sink.to = "File" /\ IsDenied(sink.path) -> [a EXCEPT !.ok = FALSE]
       [] sink.to = "File"     -> [a EXCEPT !.s.files = With(@, sink.path, Had(sink.path) \o data)]
       [] sink.to = "Process"  -> Fed(run[a.s, sink.node, data])
apply_output_sinks(run, s, out, sinks) ==
  apply_fd_sink(run,
    apply_fd_sink(run, [ok |-> TRUE, s |-> s, out |-> [out EXCEPT !.stdout = <<>>, !.stderr = <<>>]],
                  out.stdout, sinks[1]),
    out.stderr, sinks[2])

-----------------------------------------------------------------------------
(* Commands. *)

\* A function call: its words are the arguments while it runs.
Returned(ran, argv) == Then(set_args(ran.s, argv), ran.out)
call_function(run, s, function, args, input) ==
  Returned(run[set_args(s, args), function, input], s.argv)

\* A script runs with its own $0 and arguments.  One that does not parse is
\* not run, and the session is left with the arguments it was to have: leaked
\* keeps, as history, what a step leaves behind in this way.
Leaks(s, names) == [s EXCEPT !.leaked = @ \cup names]
leave_script(ran, s) == [ok |-> TRUE, out |-> ran.out,
  s |-> set_args([ran.s EXCEPT !.argv0 = s.argv0], s.argv)]
enter_script(run, s, inside, script, input) ==
  IF script.pos = 0 THEN [ok |-> FALSE, s |-> Leaks(inside, {"*"})]
  ELSE leave_script(eval_script(run, inside, script.node, input), s)
run_rc_script(run, s, path, args, input) ==
  enter_script(run, s, set_args([s EXCEPT !.argv0 = path], args), parse(Scripts[path]), input)

\* The first directory of $path with a script of that name that can be run.
join_path(dir, leaf) == IF dir \in {<<>>, <<".">>} THEN leaf ELSE dir \o leaf
run_path_command(run, s, words, input) ==
  FoldLeft(LAMBDA r, dir :
             IF r.ok \/ join_path(dir, words[1]) \notin DOMAIN Scripts THEN r
             ELSE run_rc_script(run, r.s, join_path(dir, words[1]), Tail(words), input),
           [ok |-> FALSE, s |-> s], lookup_var(s, "path"))

\* The host's commands: one that writes the shared environment, and no other.
run_command(s, words) ==
  IF words[1] = <<"setx">>
  THEN Then([s EXCEPT !.envs[s.group].vars = With(@, "x", <<<<"b">>>>)], Quiet)
  ELSE Then(s, Fails("notfound"))

\* A script of $path, else a command of the host.
run_external(run, s, words, input) ==
  LET Else(found) == IF found.ok THEN Then(found.s, found.out) ELSE run_command(found.s, words)
  IN Else(run_path_command(run, s, words, input))

\* A note runs the function of its name, unless it is already running it.
run_note_function(run, s, name) ==
  LET Ended(ran) == Then([ran.s EXCEPT !.notes_in_progress = @ \ {name}], ran.out)
  IN IF name \in s.notes_in_progress \/ name \notin DOMAIN s.functions THEN Then(s, Quiet)
     ELSE Ended(call_function(run, [s EXCEPT !.notes_in_progress = @ \cup {name}],
                              s.functions[name], <<>>, <<>>))

\* Mutant: the jobs stay after they are answered.
answer_and_keep(s, jobs) ==
  Then([s EXCEPT !.waited = @ \o [i \in DOMAIN jobs |-> jobs[i].id]], Quiet)

\* wait answers the jobs asked for and forgets them.
Answer(s, jobs) ==
  LET bad  == SelectSeq(jobs, LAMBDA job : ~is_success(job.status))
      line(job) == job.stdout \o job.stderr \o <<<<<<ToString(job.id)>>, Shown(job.status)>>>>
  IN Then([s EXCEPT !.jobs = SelectSeq(@, LAMBDA job : job \notin Range(jobs)),
                    !.waited = @ \o [i \in DOMAIN jobs |-> jobs[i].id]],
          Out(IF bad = <<>> THEN Success ELSE Last(bad).status,
              FlattenSeq([i \in DOMAIN jobs |-> line(jobs[i])]), <<>>, FALSE))
IsJobId(arg) == \E n \in 0 .. 9 : arg = <<ToString(n)>>     \* the numbers the lines have
run_wait(s, args) ==
  LET Named(jobs) == IF jobs = <<>> THEN Then(s, Fails("wait")) ELSE Answer(s, jobs)
  IN CASE Len(args) > 1 \/ (Len(args) = 1 /\ ~IsJobId(args[1])) -> Then(s, Fails("usage"))
       [] Len(args) = 1 -> Named(SelectSeq(s.jobs, LAMBDA job : <<ToString(job.id)>> = args[1]))
       [] OTHER         -> Answer(s, s.jobs)

\* rfork e takes a copy of the environment group, rfork E an empty one.
rfork_environment(args) ==
  LET Kind(flags) ==
        CASE flags \ {"n", "N", "e", "E", "f", "F", "s", "m"} # {} -> "Error"
          [] \E two \in {{"n", "N"}, {"e", "E"}, {"f", "F"}} : two \subseteq flags -> "Error"
          [] "e" \in flags -> "Copy"
          [] "E" \in flags -> "Clean"
          [] OTHER -> "Shared"
  IN Kind(IF args = <<>> THEN {"e", "n", "s"} ELSE Range(FlattenSeq(args)))
NewGroup(s, env) == [s EXCEPT !.envs = Append(@, env), !.group = Len(s.envs) + 1]
run_rfork(s, args) ==
  CASE rfork_environment(args) = "Error"  -> Then(s, Fails("rfork"))
    [] rfork_environment(args) = "Shared" -> Then(s, Quiet)
    [] rfork_environment(args) = "Copy"   ->
         Then(replace_environment(NewGroup(s, Env(s)), Env(s)), Quiet)
    [] rfork_environment(args) = "Clean"  ->
         Then(refresh_arg_vars([NewGroup(s, [vars |-> <<>>, fns |-> <<>>])
                                  EXCEPT !.vars = <<>>, !.functions = <<>>]), Quiet)

Builtins == {".", "builtin", "echo", "eval", "exec", "exit", "false", "flag", "rfork",
             "shift", "status", "test", "true", "wait", "whatis", "~"}
IsBuiltin(words) ==
  Len(words[1]) = 1 /\ (words[1][1] \in Builtins \/ words = <<<<"cat">>>>)

\* What whatis knows a name as.
whatis(s, name) ==
  CASE name \in DOMAIN s.vars      -> <<<<name>>>> \o s.vars[name]
    [] name \in DOMAIN s.functions -> <<<<"fn">>, <<name>>>>
    [] name \in Builtins           -> <<<<"builtin">>, <<name>>>>
    [] OTHER                       -> <<<<name>>, <<"not">>, <<"found">>>>

run_test(s, args) ==
  Silent(CASE Len(args) = 1 -> args[1] # <<>>
           [] Len(args) = 2 -> /\ args[1] \in {<<"-e">>, <<"-f">>}
                               /\ args[2] \in DOMAIN s.files \cup DOMAIN Scripts
           [] Len(args) = 3 -> \/ args[2] = <<"=">> /\ args[1] = args[3]
                               \/ args[2] = <<"!=">> /\ args[1] # args[3]
           [] OTHER -> FALSE)
run_flag(args) ==
  CASE args = <<>> -> Says(<<<<>>>>)
    [] Len(args) = 1 /\ args[1][1] \in {"x", "e", "r", "i"} -> Quiet
    [] OTHER -> Fails("flag")

\* exec ends the script it is in; exit runs sigexit first.
run_exec(run, s, args, input) ==
  LET Ended(ran) == Then(ran.s, [ran.out EXCEPT !.exited = TRUE])
  IN IF args = <<>> THEN Then(s, Fails("usage")) ELSE Ended(run_external(run, s, args, input))
run_exit(run, s, args) ==
  LET Ended(ran) == Then(ran.s, [ran.out EXCEPT !.exited = TRUE,
                                   !.status = IF args = <<>> THEN s.last_status ELSE args[1]])
  IN Ended(run_note_function(run, s, "sigexit"))

RECURSIVE run_builtin(_, _, _, _)
run_builtin(run, s, words, input) ==
  LET name == words[1][1]
      args == Tail(words)
  IN CASE name = "echo"   -> Then(s, Says(<<args>>))
       [] name = "status" -> Then(s, Says(<<<<Shown(s.last_status)>>>>))
       [] name = "true"   -> Then(s, Quiet)
       [] name = "false"  -> Then(s, Silent(FALSE))
       [] name = "~" ->
            Then(s, IF Len(args) < 2 THEN Fails("usage")
                    ELSE Silent(\E i \in 2 .. Len(args) : pattern_match(args[i], args[1])))
       [] name = "eval"   -> eval_source(run, s, [i \in DOMAIN args |-> W(args[i][1])])
       [] name = "exec"   -> run_exec(run, s, args, input)
       [] name = "." ->
            IF args # <<>> /\ args[1] \in DOMAIN Scripts THEN eval_source(run, s, Scripts[args[1]])
            ELSE Then(s, Fails("source"))
       [] name = "shift"  ->
            Then(refresh_arg_vars([s EXCEPT !.argv = IF @ = <<>> THEN <<>> ELSE Tail(@)]), Quiet)
       [] name = "whatis" -> Then(s, Says([i \in DOMAIN args |-> whatis(s, args[i][1])]))
       [] name = "test"   -> Then(s, run_test(s, args))
       [] name = "exit"   -> run_exit(run, s, args)
       [] name = "wait"   -> run_wait(s, args)
       [] name = "rfork"  -> run_rfork(s, args)
       [] name = "flag"   -> Then(s, run_flag(args))
       [] name = "builtin" ->
            (CASE args = <<>> -> Then(s, Fails("usage"))
               [] args = <<<<"builtin">>>> -> Then(s, Quiet)
               [] args # <<>> /\ args[1][1] \in Builtins \ {"builtin"} ->
                    run_builtin(run, s, args, input)
               [] OTHER -> Then(s, Fails("builtin")))
       [] name = "cat"    -> Then(s, Says(input))

\* What the first word names, in the order the code looks.
run_words(run, s, words, input) ==
  CASE Len(words[1]) = 1 /\ words[1][1] \in DOMAIN s.functions ->
         call_function(run, s, s.functions[words[1][1]], Tail(words), input)
    [] IsBuiltin(words) -> run_builtin(run, s, words, input)
    [] OTHER            -> run_external(run, s, words, input)

\* The values of the assignments, expanded in order before any is made.
assignment_values(run, s, assigns) ==
  LET Valued(r, name, given) ==
        [s |-> given.s, values |-> Append(r.values, [name |-> name, values |-> given.values])]
  IN FoldLeft(LAMBDA r, a : Valued(r, a.name, expand_words(run, r.s, a.values)),
              [s |-> s, values |-> <<>>], assigns)

\* Making them, and what each variable had before it was assigned.
make_assignments(given) ==
  FoldLeft(LAMBDA r, v : [s |-> [r.s EXCEPT !.vars = With(@, v.name, v.values)],
                          restore |-> Append(r.restore, [name |-> v.name,
                                                         old |-> Saved(r.s, v.name)])],
           [s |-> given.s, restore |-> <<>>], given.values)
Restore(s, restore) == FoldLeft(LAMBDA r, o : restore_var(r, o.name, o.old), s, restore)

\* The end of a simple command: the status, the local assignments undone and
\* the environment published.
publish_then_restore(s, out, restore) ==
  Then(Restore(publish_environment(set_last_status(s, out.status)), restore), out)
finish_simple(s, out, restore) ==
  Then(publish_environment(Restore(set_last_status(s, out.status), restore)), out)
sunk(a, restore) ==
  finish_simple(a.s, IF a.ok THEN a.out
                     ELSE [a.out EXCEPT !.status = <<"false">>, !.stderr = @ \o Complaint],
                restore)

\* A command that has run: the environment is read and the output goes where
\* the redirections sent it.
ran_simple(run, ran, sinks, restore) ==
  sunk(apply_output_sinks(run, import_host_environment(ran.s), ran.out, sinks), restore)

\* Words that expand to nothing are no command.
call_simple(run, words, ready, restore) ==
  IF words.values = <<>> THEN Then(Restore(words.s, restore), Quiet)
  ELSE ran_simple(run, run_words(run, words.s, words.values, ready.input), ready.sinks, restore)
redirected(run, ready, cmd, restore) ==
  IF ~ready.ok THEN Then(Leaks(ready.s, {o.name : o \in Range(restore)}), Fails("redirect"))
  ELSE call_simple(run, expand_words(run, ready.s, cmd.words), ready, restore)

\* Assignments alone stay; in front of a command they last as long as it runs,
\* unless a redirection fails: then the command is not run and they stay.
assigned(run, local, cmd, input) ==
  IF cmd.words = <<>> THEN Then(publish_environment(local.s), Quiet)
  ELSE redirected(run, FoldLeft(LAMBDA r, redirect : prepare_redirect(run, r, redirect),
                                [ok |-> TRUE, s |-> local.s, input |-> input,
                                 sinks |-> (1 :> Sink("Stdout")) @@ (2 :> Sink("Stderr"))],
                                cmd.redirects), cmd, local.restore)
eval_simple(run, s, cmd, input) ==
  assigned(run, make_assignments(assignment_values(run, s, cmd.assigns)), cmd, input)

-----------------------------------------------------------------------------
(* Nodes. *)

\* Commands in order, the input going to the first, until one exits.
eval_nodes(run, s, nodes, input) ==
  LET Add(r, next) == Then(next.s, appended(r.out, next.out))
      Step(r, i) == IF r.out.exited THEN r
                    ELSE Add(r, run[r.s, nodes[i], IF i = 1 THEN input ELSE <<>>])
  IN FoldLeft(Step, Then(s, Quiet), [i \in DOMAIN nodes |-> i])

\* The body once for each value: an exit inside does not end the loop.
eval_for(run, s, node) ==
  LET Add(r, next) == Then(next.s, appended(r.out, next.out))
      Step(r, value) ==
        Add(r, run[[r.s EXCEPT !.vars = With(@, node.var, <<value>>)], node.body, <<>>])
      Ended(before, ran) == Then(restore_var(ran.s, node.var, Saved(before, node.var)), ran.out)
      Each(given) == Ended(given.s, FoldLeft(Step, Then(given.s, Quiet), given.values))
  IN Each(IF node.values = <<>> THEN [s |-> s, values |-> s.argv]
          ELSE expand_words(run, s, node.values))

RECURSIVE while_from(_, _, _, _, _)
while_from(run, s, node, turns, out) ==
  LET Turned(next) == while_from(run, next.s, node, turns + 1, appended(out, next.out))
      Tested(cond) == IF is_success(cond.out.status) THEN Turned(run[cond.s, node.body, <<>>])
                      ELSE Then(cond.s, out)
  IN IF turns = MaxLoop THEN Then(s, Fails("loop")) ELSE Tested(run[s, node.cond, <<>>])

\* The first case with a pattern that matches the first value.
RECURSIVE switch_from(_, _, _, _, _)
switch_from(run, s, cases, value, input) ==
  LET Tried(patterns) ==
        IF \E i \in DOMAIN patterns.values : pattern_match(patterns.values[i], value)
        THEN eval_nodes(run, patterns.s, Head(cases).body, input)
        ELSE switch_from(run, patterns.s, Tail(cases), value, input)
  IN IF cases = <<>> THEN Then(s, Quiet) ELSE Tried(expand_words(run, s, Head(cases).patterns))
eval_switch(run, s, node, input) ==
  LET On(value) == switch_from(run, value.s, node.cases,
                               IF value.values = <<>> THEN <<>> ELSE value.values[1], input)
  IN On(expand_word(run, s, node.value))

\* && goes on after success, || after failure.
eval_and_or(run, s, node, input) ==
  LET Right(left, right) == Then(right.s, [right.out EXCEPT !.stderr = left.out.stderr \o @])
      Left(left) == IF is_success(left.out.status) = (node.t = "And")
                    THEN Right(left, run[left.s, node.right, <<>>]) ELSE left
  IN Left(run[s, node.left, input])

\* A pipeline run here: the left side, then the right side on its output.
eval_pipe(run, s, node, input) ==
  LET from == IF node.spec = <<>> THEN 1 ELSE node.spec[1].from_fd
      to   == IF node.spec = <<>> THEN 0 ELSE node.spec[1].to_fd
      Piped(out) == IF from = 2 THEN out.stderr ELSE out.stdout
      Rest(out) == IF from = 2 THEN [out EXCEPT !.stderr = <<>>] ELSE [out EXCEPT !.stdout = <<>>]
      Both(left, right) ==
        Then(right.s, Out(pipeline(left.status, right.out.status),
                          left.stdout \o right.out.stdout,
                          left.stderr \o right.out.stderr, right.out.exited))
      Left(left) == Both(Rest(left.out),
                         run[left.s, node.right, IF to = 0 THEN Piped(left.out) ELSE <<>>])
  IN Left(run[s, node.left, input])

\* A job run here is over when its number is shown: wait answers it later.
eval_background(run, s, node, input) ==
  LET Job(ran) ==
        Then([ran.s EXCEPT !.jobs = Append(@, [id |-> s.next_job_id, status |-> ran.out.status,
                                               stdout |-> ran.out.stdout,
                                               stderr |-> ran.out.stderr])],
             Says(<<<<<<ToString(s.next_job_id)>>>>>>))
  IN Job(run[[s EXCEPT !.next_job_id = @ + 1], node.inner, input])

eval_if(run, s, node, input) ==
  LET Tested(cond) ==
        CASE is_success(cond.out.status) -> run[cond.s, node.then, <<>>]
          [] ~is_success(cond.out.status) /\ node.else # <<>> -> run[cond.s, node.else[1], <<>>]
          [] OTHER -> Then(cond.s, Out(Success, <<>>, cond.out.stderr, FALSE))
  IN Tested(run[s, node.cond, input])

eval_not(run, s, node, input) ==
  LET Inverted(ran) == Then(ran.s, [ran.out EXCEPT !.status = invert(@)])
  IN Inverted(run[s, node.inner, input])

\* fn adds a function or takes it away; the environment is not told here.
eval_function(s, node) ==
  Then([s EXCEPT !.functions = IF node.body = <<>> THEN Without(@, node.name)
                               ELSE With(@, node.name, node.body[1])], Quiet)

eval_node[s \in Any, node \in Any, input \in Any] ==
  CASE node.t = "Empty"                  -> Then(s, Quiet)
    [] node.t \in {"Block", "Sequence"}  -> eval_nodes(eval_node, s, node.nodes, input)
    [] node.t = "Simple"                 -> eval_simple(eval_node, s, node, input)
    [] node.t \in {"And", "Or"}          -> eval_and_or(eval_node, s, node, input)
    [] node.t = "Pipe"                   -> eval_pipe(eval_node, s, node, input)
    [] node.t = "Not"                    -> eval_not(eval_node, s, node, input)
    [] node.t = "Background"             -> eval_background(eval_node, s, node, input)
    [] node.t = "If"                     -> eval_if(eval_node, s, node, input)
    [] node.t = "For"                    -> eval_for(eval_node, s, node)
    [] node.t = "While"                  -> while_from(eval_node, s, node, 0, Quiet)
    [] node.t = "Switch"                 -> eval_switch(eval_node, s, node, input)
    [] node.t = "Function"               -> eval_function(s, node)

-----------------------------------------------------------------------------
(* The system. *)

\* A new session on a host with an empty environment.
NewSession ==
  LET fresh == [vars |-> ("path" :> <<<<".">>, <<"bin">>>>) @@ ("ifs" :> <<<<" ">>>>),
                functions |-> <<>>, last_status |-> Success, argv0 |-> <<"rc">>, argv |-> <<>>,
                jobs |-> <<>>, next_job_id |-> 1, notes_in_progress |-> {}, waited |-> <<>>, leaked |-> {},
                files |-> <<>>, envs |-> <<[vars |-> <<>>, fns |-> <<>>]>>, group |-> 1]
  IN publish_environment(import_host_environment(fresh))

Init == rc = NewSession /\ steps = 0 /\ defined = <<>> /\ may = {}

\* What a text does with each function: given are the bodies it had and is
\* given by the definitions at the top of the text, in order (<<>> is none);
\* ran says whether a command follows the last of them.
FunctionNames(nodes) == {n.name : n \in {m \in Range(nodes) : m.t = "Function"}}
Held(s, f) == IF f \in DOMAIN s.functions THEN <<s.functions[f]>> ELSE <<>>
Definitions(s, nodes) ==
  LET Defines(f, i) == nodes[i].t = "Function" /\ nodes[i].name = f
      Given(f) == SelectSeq(nodes, LAMBDA n : n.t = "Function" /\ n.name = f)
  IN [f \in DOMAIN s.functions \cup FunctionNames(nodes) |->
        [given |-> <<Held(s, f)>> \o [i \in DOMAIN Given(f) |-> Given(f)[i].body],
         ran |-> \E i, j \in DOMAIN nodes : i < j /\ Defines(f, i) /\ nodes[j].t # "Function"
                                           /\ \A k \in j .. Len(nodes) : ~Defines(f, k)]]

eval_line(line) ==
  LET script == parse(line.text)
  IN /\ rc' = eval_source(eval_node, [rc EXCEPT !.leaked = {}], line.text).s
     /\ may' = line.sets
     /\ defined' = IF "fn" \in line.sets THEN <<>>
                   ELSE Definitions(rc, IF script.pos = 0 THEN <<>> ELSE script.node)

\* A note is handled with the environment the last line left: what another
\* task has written or removed since is overwritten when the handler publishes.
Unread(x) == (x \in DOMAIN Env(rc).vars /\ x \in DOMAIN rc.vars)
             => Env(rc).vars[x] # exported_values(rc.vars[x])
deliver_note(note) ==
  /\ rc' = run_note_function(eval_node, [rc EXCEPT !.leaked = {}], note).s
  /\ may' = {x \in DOMAIN Env(rc).vars \cup DOMAIN rc.vars : Unread(x)}
  /\ defined' = Definitions(rc, <<>>)

\* Another task of the group writes a variable, or removes one.
EnvFile_close(name, value) ==
  /\ rc' = [rc EXCEPT !.envs[rc.group].vars = With(@, name, value)]
  /\ may' = {name}
  /\ defined' = Definitions(rc, <<>>)
EnvRegistry_remove(name) ==
  /\ name \in DOMAIN Env(rc).vars
  /\ rc' = [rc EXCEPT !.envs[rc.group].vars = Without(@, name)]
  /\ may' = {name}
  /\ defined' = Definitions(rc, <<>>)

Next ==
  /\ steps < MaxSteps
  /\ steps' = steps + 1
  /\ \/ \E line \in Lines : eval_line(line)
     \/ \E line \in Opening : steps = 0 /\ eval_line(line)
     \/ \E note \in Notes : deliver_note(note)
     \/ \E value \in Values : EnvFile_close("x", value)
     \/ EnvRegistry_remove("x")

Spec == Init /\ [][Next]_vars

-----------------------------------------------------------------------------
(* Properties. *)

\* A tree up to the braces a condition gains each time it is written and read.
RECURSIVE Meaning(_)
Meaning(n) ==
  LET each(nodes) == [i \in DOMAIN nodes |-> Meaning(nodes[i])]
      process(r) == IF r.target.t = "Process" THEN [r EXCEPT !.target.node = Meaning(@)] ELSE r
  IN CASE n.t = "Empty" -> n
       [] n.t = "Simple" ->
            [n EXCEPT !.redirects = [i \in DOMAIN n.redirects |-> process(n.redirects[i])]]
       [] n.t = "Sequence" /\ Len(n.nodes) = 1 /\ n.nodes[1].t = "Block" ->
            Meaning(Sequence(n.nodes[1].nodes))
       [] n.t \in {"Block", "Sequence"} -> [n EXCEPT !.nodes = each(n.nodes)]
       [] n.t \in {"And", "Or", "Pipe"} ->
            [n EXCEPT !.left = Meaning(n.left), !.right = Meaning(n.right)]
       [] n.t \in {"Not", "Background"} -> [n EXCEPT !.inner = Meaning(n.inner)]
       [] n.t = "If" -> [n EXCEPT !.cond = Meaning(n.cond), !.then = Meaning(n.then),
                                  !.else = each(n.else)]
       [] n.t = "For" -> [n EXCEPT !.body = Meaning(n.body)]
       [] n.t = "While" -> [n EXCEPT !.cond = Meaning(n.cond), !.body = Meaning(n.body)]
       [] n.t = "Switch" ->
            [n EXCEPT !.cases = [i \in DOMAIN n.cases |->
                                   [n.cases[i] EXCEPT !.body = each(@)]]]
       [] n.t = "Function" -> [n EXCEPT !.body = each(n.body)]

\* The nodes of a tree, itself included.
RECURSIVE Within(_)
Within(n) ==
  LET all(nodes) == UNION {Within(m) : m \in Range(nodes)}
      processes == {r \in (IF n.t = "Simple" THEN Range(n.redirects) ELSE {}) : r.target.t = "Process"}
  IN {n} \cup
     CASE n.t = "Empty" -> {}
       [] n.t = "Simple" -> UNION {Within(r.target.node) : r \in processes}
       [] n.t \in {"Block", "Sequence"} -> all(n.nodes)
       [] n.t \in {"And", "Or", "Pipe"} -> Within(n.left) \cup Within(n.right)
       [] n.t \in {"Not", "Background"} -> Within(n.inner)
       [] n.t = "If" -> Within(n.cond) \cup Within(n.then) \cup all(n.else)
       [] n.t = "For" -> Within(n.body)
       [] n.t = "While" -> Within(n.cond) \cup Within(n.body)
       [] n.t = "Switch" -> UNION {all(c.body) : c \in Range(n.cases)}
       [] n.t = "Function" -> all(n.body)

\* What render_node can write so that it is read back: an else comes after a
\* branch in braces, and a redirection to a file or from it is of the default
\* descriptor and not a here document.
IsWritable(body) ==
  \A n \in Within(body) :
    /\ n.t = "If" /\ n.else # <<>> => n.then.t = "Block"
    /\ n.t = "Simple" => \A r \in Range(n.redirects) :
         r.mode = "Dup" \/ r.mode = "Read" \/ (r.mode \in {"Write", "Append"} /\ r.fd = 1)

\* What a function may be after a step: its last definition; or, when a command
\* ran after that in the same text, a definition it had before, which the
\* command's import_environment brings back from the environment.
MayBe(d) == {Last(d.given)} \cup {b \in Range(d.given) : d.ran /\ b # <<>>}
AreWritable(d) == \A b \in Range(d.given) : b # <<>> => IsWritable(b[1])
Same(a, b) == Len(a) = Len(b) /\ (a # <<>> => Meaning(a[1]) = Meaning(b[1]))
Exported(s, f) == IF f \in DOMAIN Env(s).fns THEN imported_function(f, Env(s).fns[f]) ELSE <<>>

\* A function is what its last definition says (export_environment,
\* import_environment): both in the session that defined it, which reads it
\* back before every line and after every command, and in the environment,
\* from which another session of the group would take it.  Two exceptions,
\* both of the code: a definition or removal that a command follows in the
\* same text may be undone by it, but then for the session and the
\* environment alike; and nothing is said of the bodies that render_node
\* cannot write (IsWritable).
FunctionsSurvive ==
  /\ DOMAIN rc.functions \cup DOMAIN Env(rc).fns \subseteq DOMAIN defined
  /\ \A f \in DOMAIN defined : AreWritable(defined[f]) =>
       /\ \E body \in MayBe(defined[f]) : Same(Held(rc, f), body)
       /\ Same(Exported(rc, f), Held(rc, f))

\* What the next line will find in a variable: <<>> if nothing.
Seen(s, name) ==
  IF name \in DOMAIN Env(s).vars THEN Env(s).vars[name]
  ELSE IF name \in DOMAIN s.vars THEN exported_values(s.vars[name]) ELSE <<>>

\* A step that leaves every variable it is not entitled to change, and the
\* arguments.
Keeps(entitled) ==
  /\ \A name \in {"x", "y", "i", "path"} \ entitled : Seen(rc', name) = Seen(rc, name)
  /\ "*" \notin entitled => rc'.argv = rc.argv /\ rc'.argv0 = rc.argv0

\* A line changes only the variables it assigns, and a note none: an assignment
\* in front of a command, the variable of a loop and the arguments of a
\* function, a script or a note handler are gone after it, from the session
\* and from the environment it shares (eval_simple, restore_var, set_args).
\* Two early returns of the code leave them behind, and only they may (leaked):
\* an assignment in front of a command whose redirection fails stays, and so
\* do $0 and the arguments of a script that does not parse.
OthersAreKept == [][Keeps(may' \cup rc'.leaked)]_vars

\* Every job is answered by one wait, and by no other: what was started is
\* either still held or was answered once (Node::Background, run_wait).
JobsAreAnsweredOnce ==
  LET held == [i \in DOMAIN rc.jobs |-> rc.jobs[i].id]
      all  == rc.waited \o held
  IN Len(all) = rc.next_job_id - 1 /\ Range(all) = 1 .. (rc.next_job_id - 1)
=============================================================================
