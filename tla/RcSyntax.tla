------------------------------- MODULE RcSyntax -------------------------------
(***************************************************************************)
(* The grammar of the rc language (crates/star9-rc/src/lib.rs): the parser *)
(* and the renderer that turns a syntax tree back into text.  The two meet *)
(* in the environment: a session exports every function as the text of its *)
(* body and reads it back with the parser before each line.                *)
(*                                                                         *)
(* Text is a sequence of tokens.  A word is one raw string: which words    *)
(* have the form name=suffix is the table Heads.  A parser is given the    *)
(* text and a position and returns what it read and the position after it. *)
(* Position 0 stands for RcError: whatever is parsed from there fails too. *)
(* The grammar recurs through commands only: command is the function from  *)
(* positions to what parse_command reads there, given to every other rule. *)
(***************************************************************************)
EXTENDS RcTokens, Integers, Sequences, SequencesExt

CONSTANT Heads          \* raw word |-> [name, suffix], for words name=suffix

\* The numbers of a pipe: |[2] reads fd 2 of the left side, |[2=3] feeds fd 3.
parse_pipe_spec(br) ==
  CASE br = <<>>   -> <<>>
    [] Len(br) = 1 -> <<[from_fd |-> br[1], to_fd |-> 0]>>
    [] Len(br) = 2 -> <<[from_fd |-> br[1], to_fd |-> br[2]]>>

\* A redirection: which descriptor, and what is done to it.
parse_redirect(op, br) ==
  LET default == IF op \in {"<", "<<"} THEN 0 ELSE 1
      fd      == IF br = <<>> THEN default ELSE br[1]
      mode    == CASE op = "<" -> "Read" [] op = "<<" -> "Here"
                   [] op = ">" -> "Write" [] op = ">>" -> "Append"
  IN IF Len(br) = 2
     THEN [fd |-> fd, mode |-> "Dup", from |-> IF br[2] = Closing THEN <<>> ELSE <<br[2]>>]
     ELSE [fd |-> fd, mode |-> mode, from |-> <<>>]

(***************************************************************************)
(* The syntax tree (enum Node).  An optional part is a sequence of length  *)
(* zero or one.                                                            *)
(***************************************************************************)
Empty == [t |-> "Empty"]
Block(nodes) == [t |-> "Block", nodes |-> nodes]
Sequence(nodes) == [t |-> "Sequence", nodes |-> nodes]
Binary(kind, left, right) == [t |-> kind, left |-> left, right |-> right]
Pipe(left, right, spec) == [t |-> "Pipe", left |-> left, right |-> right, spec |-> spec]
Unary(kind, inner) == [t |-> kind, inner |-> inner]
If(cond, then, else) == [t |-> "If", cond |-> cond, then |-> then, else |-> else]
For(var, values, body) == [t |-> "For", var |-> var, values |-> values, body |-> body]
While(cond, body) == [t |-> "While", cond |-> cond, body |-> body]
Switch(value, cases) == [t |-> "Switch", value |-> value, cases |-> cases]
Function(name, body) == [t |-> "Function", name |-> name, body |-> body]
NoCommand == [t |-> "Simple", assigns |-> <<>>, words |-> <<>>, redirects |-> <<>>]
NoTarget == [t |-> "None"]

-----------------------------------------------------------------------------
(* Looking at the next token. *)

Got(node, pos) == [node |-> node, pos |-> pos]
peek_kind(s, p) == IF p \in DOMAIN s THEN s[p].k ELSE "End"
At(s, p, raw) == peek_kind(s, p) = "Word" /\ s[p].w = raw
expect_symbol(s, p, kind) == IF peek_kind(s, p) = kind THEN p + 1 ELSE 0
expect_word(s, p, raw) == IF At(s, p, raw) THEN p + 1 ELSE 0

RECURSIVE skip_separators(_, _)
skip_separators(s, p) ==
  IF peek_kind(s, p) \in {"Semi", "Newline"} THEN skip_separators(s, p + 1) ELSE p

\* The words up to a token of the kinds given; any other token is an error.
RECURSIVE expect_words(_, _, _, _)
expect_words(s, p, ends, words) ==
  CASE peek_kind(s, p) \in ends   -> Got(words, p)
    [] peek_kind(s, p) = "Word"   -> expect_words(s, p + 1, ends, Append(words, s[p].w))
    [] OTHER                      -> Got(words, 0)

\* ! applies to one command.
RECURSIVE parse_unary(_, _, _)
parse_unary(s, command, p) ==
  LET Negated(inner) == Got(Unary("Not", inner.node), inner.pos)
  IN IF peek_kind(s, p) = "Bang" THEN Negated(parse_unary(s, command, p + 1)) ELSE command[s, p]

\* Pipes bind to the left.
RECURSIVE pipeline_from(_, _, _)
pipeline_from(s, command, left) ==
  LET Joining(right) == Got(Pipe(left.node, right.node, parse_pipe_spec(s[left.pos].br)), right.pos)
  IN IF peek_kind(s, left.pos) = "Pipe"
     THEN pipeline_from(s, command, Joining(parse_unary(s, command, left.pos + 1)))
     ELSE left
parse_pipeline(s, command, p) == pipeline_from(s, command, parse_unary(s, command, p))

\* && and || bind equally, and to the left.
RECURSIVE and_or_from(_, _, _)
and_or_from(s, command, left) ==
  LET kind == IF peek_kind(s, left.pos) = "AndAnd" THEN "And" ELSE "Or"
      Joining(right) == Got(Binary(kind, left.node, right.node), right.pos)
  IN IF peek_kind(s, left.pos) \in {"AndAnd", "OrOr"}
     THEN and_or_from(s, command, Joining(parse_pipeline(s, command, left.pos + 1)))
     ELSE left
parse_and_or(s, command, p) == and_or_from(s, command, parse_pipeline(s, command, p))

\* Where a sequence ends: a closing token or, in a switch, the next case.
Stops(s, p, stop) == peek_kind(s, p) \in stop \/ ("case" \in stop /\ At(s, p, "case"))

\* Commands up to a stop, & after one puts it in the background; a command
\* that takes no token is an error.
RECURSIVE commands_from(_, _, _, _, _)
commands_from(s, command, p, stop, nodes) ==
  LET Item(next) == IF peek_kind(s, next.pos) = "Amp"
                    THEN Got(Unary("Background", next.node), next.pos + 1) ELSE next
      More(item) == IF item.pos \in {0, p} THEN Got(nodes, 0)
                    ELSE commands_from(s, command, skip_separators(s, item.pos), stop,
                                       Append(nodes, item.node))
  IN IF peek_kind(s, p) = "End" \/ Stops(s, p, stop) THEN Got(nodes, p)
     ELSE More(Item(parse_and_or(s, command, p)))
parse_sequence_until(s, command, p, stop) ==
  commands_from(s, command, skip_separators(s, p), stop, <<>>)

\* { ... } and ( ... ) are both blocks.
Enclosed(s, command, p, open, close) ==
  LET Closed(body) == Got(body.node, expect_symbol(s, body.pos, close))
  IN Closed(parse_sequence_until(s, command, expect_symbol(s, p, open), {close}))
Blocked(body) == Got(Block(body.node), body.pos)
parse_block(s, command, p) == Blocked(Enclosed(s, command, p, "LBrace", "RBrace"))
parse_paren_group(s, command, p) == Blocked(Enclosed(s, command, p, "LParen", "RParen"))

\* The condition of if and while, and the separators after it.
parse_condition(s, command, p) ==
  LET Condition(body) == Got(Sequence(body.node), skip_separators(s, body.pos))
  IN Condition(Enclosed(s, command, p, "LParen", "RParen"))

\* The else part may follow on a later line; without "not" nothing is taken.
parse_else(s, command, p) ==
  LET Else(node) == Got(<<node.node>>, node.pos)
      At2(after) == At(s, after, "if") /\ At(s, after + 1, "not")
  IN IF p # 0 /\ At2(skip_separators(s, p))
     THEN Else(command[s, skip_separators(s, skip_separators(s, p) + 2)]) ELSE Got(<<>>, p)
parse_if(s, command, p) ==
  LET Whole(cond, then, else) == Got(If(cond.node, then.node, else.node), else.pos)
      Branches(cond, then) == Whole(cond, then, parse_else(s, command, then.pos))
      Branch(cond) == Branches(cond, command[s, cond.pos])
  IN Branch(parse_condition(s, command, expect_word(s, p, "if")))

parse_while(s, command, p) ==
  LET Whole(cond, body) == Got(While(cond.node, body.node), body.pos)
      Loop(cond) == Whole(cond, command[s, cond.pos])
  IN Loop(parse_condition(s, command, expect_word(s, p, "while")))

\* The words in the parentheses of for and switch.
parse_header(s, p) ==
  LET Header(words) == Got(words.node, skip_separators(s, expect_symbol(s, words.pos, "RParen")))
  IN Header(expect_words(s, expect_symbol(s, p, "LParen"), {"RParen"}, <<>>))

parse_for(s, command, p) ==
  LET Whole(words, body) == Got(For(words[1], SubSeq(words, 3, Len(words)), body.node), body.pos)
      Loop(header) == IF Len(header.node) = 1 \/ (Len(header.node) > 1 /\ header.node[2] = "in")
                      THEN Whole(header.node, command[s, header.pos]) ELSE Got(Empty, 0)
  IN Loop(parse_header(s, expect_word(s, p, "for")))

parse_case(s, command, p) ==
  LET Whole(patterns, body) == Got([patterns |-> patterns, body |-> body.node], body.pos)
      Case(patterns) == Whole(patterns.node,
                              parse_sequence_until(s, command, patterns.pos, {"RBrace", "case"}))
  IN IF At(s, p, "case")
     THEN Case(expect_words(s, p + 1, {"Semi", "Newline", "RBrace", "End"}, <<>>))
     ELSE Got(Empty, 0)
RECURSIVE cases_from(_, _, _, _)
cases_from(s, command, p, cases) ==
  LET More(this) == IF this.pos = 0 THEN Got(cases, 0)
                    ELSE cases_from(s, command, skip_separators(s, this.pos),
                                    Append(cases, this.node))
  IN IF peek_kind(s, p) \in {"RBrace", "End"} THEN Got(cases, p)
     ELSE More(parse_case(s, command, p))
parse_switch(s, command, p) ==
  LET Whole(value, cases) == Got(Switch(value, cases.node), expect_symbol(s, cases.pos, "RBrace"))
      Open(q) == skip_separators(s, expect_symbol(s, q, "LBrace"))
      Cases(header) == IF Len(header.node) # 1 THEN Got(Empty, 0)
                       ELSE Whole(header.node[1], cases_from(s, command, Open(header.pos), <<>>))
  IN Cases(parse_header(s, expect_word(s, p, "switch")))

\* fn name { ... } defines, fn name alone removes.
parse_function(s, command, p) ==
  LET Whole(body) == Got(Function(s[p + 1].w, <<body.node>>), body.pos)
  IN CASE peek_kind(s, p + 1) # "Word"   -> Got(Empty, 0)
       [] peek_kind(s, p + 2) = "LBrace" -> Whole(parse_block(s, command, p + 2))
       [] OTHER                          -> Got(Function(s[p + 1].w, <<>>), p + 2)

\* name=(a b), name=a or name= at position p.
parse_assignment(s, p) ==
  LET head == Heads[s[p].w]
      Whole(values) == Got([name |-> head.name, values |-> values.node],
                           expect_symbol(s, values.pos, "RParen"))
      given == IF head.suffix = "" THEN <<>> ELSE <<head.suffix>>
  IN IF head.suffix = "" /\ peek_kind(s, p + 1) = "LParen"
     THEN Whole(expect_words(s, p + 2, {"RParen"}, <<>>))
     ELSE Got([name |-> head.name, values |-> given], p + 1)

\* The redirection at position p and what it points to: nothing, a process or a word.
parse_target(s, command, p) ==
  LET op == parse_redirect(s[p].op, s[p].br)
      To(target, pos) == Got([fd |-> op.fd, mode |-> op.mode, from |-> op.from,
                              target |-> target], pos)
      Process(block) == To([t |-> "Process", node |-> block.node], block.pos)
  IN CASE op.mode = "Dup" -> To(NoTarget, p + 1)
       [] op.mode # "Here" /\ peek_kind(s, p + 1) = "LBrace" -> Process(parse_block(s, command, p + 1))
       [] peek_kind(s, p + 1) = "Word" -> To([t |-> "WordTarget", w |-> s[p + 1].w], p + 2)
       [] OTHER -> To(NoTarget, 0)

\* Assignments before the first word, words and redirections, as far as they go.
RECURSIVE simple_from(_, _, _, _)
simple_from(s, command, p, cmd) ==
  LET kind == peek_kind(s, p)
      Assigning(a) == Got([cmd EXCEPT !.assigns = Append(@, a.node)], a.pos)
      Naming == Got([cmd EXCEPT !.words = Append(@, s[p].w)], p + 1)
      Directing(r) == Got([cmd EXCEPT !.redirects = Append(@, r.node)], r.pos)
      More(next) == simple_from(s, command, next.pos, next.node)
  IN IF kind \in {"Word", "Redirect"}
     THEN More(CASE kind = "Redirect" -> Directing(parse_target(s, command, p))
                 [] kind = "Word" /\ cmd.words = <<>> /\ s[p].w \in DOMAIN Heads ->
                      Assigning(parse_assignment(s, p))
                 [] OTHER -> Naming)
     ELSE Got(IF cmd = NoCommand THEN Empty ELSE cmd, p)
parse_simple(s, command, p) == simple_from(s, command, p, NoCommand)

\* The command at a position; Any is the set of all values TLC knows.
parse_command[s \in Any, p \in Any] ==
  CASE p = 0                        -> Got(Empty, 0)
    [] peek_kind(s, p) = "LBrace"   -> parse_block(s, parse_command, p)
    [] peek_kind(s, p) = "LParen"   -> parse_paren_group(s, parse_command, p)
    [] At(s, p, "if")               -> parse_if(s, parse_command, p)
    [] At(s, p, "while")            -> parse_while(s, parse_command, p)
    [] At(s, p, "for")              -> parse_for(s, parse_command, p)
    [] At(s, p, "switch")           -> parse_switch(s, parse_command, p)
    [] At(s, p, "fn")               -> parse_function(s, parse_command, p)
    [] OTHER                        -> parse_simple(s, parse_command, p)

\* A script: commands up to the end or to a closing token that opens nothing.
parse(s) == parse_sequence_until(s, parse_command, 1, {"RBrace", "RParen"})

-----------------------------------------------------------------------------
(* Rendering. *)

Joined(texts, separator) ==
  FlattenSeq([i \in DOMAIN texts |-> IF i = 1 THEN texts[1] ELSE separator \o texts[i]])
render_words(words) == [i \in DOMAIN words |-> W(words[i])]

RECURSIVE render_node(_)

\* Mutant: a copied descriptor is written as a redirection to the next word.
dup_as_write(r) ==
  IF r.mode = "Dup" THEN <<Arrow(">", <<r.fd>>)>>
  ELSE <<Arrow(CASE r.mode = "Read" -> "<" [] r.mode = "Append" -> ">>" [] OTHER -> ">", <<>>),
         W(r.target.w)>>

\* The descriptor of a redirection is written for Dup only.
render_redirect(r) ==
  LET op == CASE r.mode = "Read" -> Arrow("<", <<>>)
              [] r.mode = "Write" -> Arrow(">", <<>>)
              [] r.mode = "Append" -> Arrow(">>", <<>>)
              [] r.mode = "Here" -> Arrow("<<", <<>>)
              [] r.mode = "Dup" ->
                   Arrow(">", <<r.fd, IF r.from = <<>> THEN Closing ELSE r.from[1]>>)
  IN <<op>> \o CASE r.target.t = "WordTarget" -> <<W(r.target.w)>>
                 [] r.target.t = "Process" -> render_node(r.target.node)
                 [] r.target.t = "None" -> <<>>

\* An assignment is always written with its parentheses.
render_assignment(a) ==
  LET head == CHOOSE h \in DOMAIN Heads : Heads[h] = [name |-> a.name, suffix |-> ""]
  IN <<W(head), Sym("LParen")>> \o render_words(a.values) \o <<Sym("RParen")>>

render_case(c) ==
  <<W("case")>> \o render_words(c.patterns) \o <<Sym("Newline")>>
  \o Joined([i \in DOMAIN c.body |-> render_node(c.body[i])], <<Sym("Semi")>>)

render_node(n) ==
  LET each(f) == [i \in DOMAIN f |-> render_node(f[i])]
      infix(op) == render_node(n.left) \o <<op>> \o render_node(n.right)
      parens(text) == <<Sym("LParen")>> \o text \o <<Sym("RParen")>>
  IN CASE n.t = "Empty" -> <<>>
       [] n.t = "Simple" ->
            FlattenSeq([i \in DOMAIN n.assigns |-> render_assignment(n.assigns[i])])
            \o render_words(n.words)
            \o FlattenSeq([i \in DOMAIN n.redirects |-> render_redirect(n.redirects[i])])
       [] n.t \in {"Block", "Sequence"} ->
            <<Sym("LBrace")>> \o Joined(each(n.nodes), <<Sym("Semi")>>) \o <<Sym("RBrace")>>
       [] n.t = "And" -> infix(Sym("AndAnd"))
       [] n.t = "Or" -> infix(Sym("OrOr"))
       [] n.t = "Pipe" ->
            infix(Bar(IF n.spec = <<>> THEN <<>>
                      ELSE IF n.spec[1].to_fd = 0 THEN <<n.spec[1].from_fd>>
                      ELSE <<n.spec[1].from_fd, n.spec[1].to_fd>>))
       [] n.t = "Not" -> <<Sym("Bang")>> \o render_node(n.inner)
       [] n.t = "Background" -> render_node(n.inner) \o <<Sym("Amp")>>
       [] n.t = "If" ->
            <<W("if")>> \o parens(render_node(n.cond)) \o render_node(n.then)
            \o IF n.else = <<>> THEN <<>> ELSE <<W("if"), W("not")>> \o render_node(n.else[1])
       [] n.t = "For" ->
            <<W("for")>>
            \o parens(<<W(n.var)>> \o IF n.values = <<>> THEN <<>>
                                       ELSE <<W("in")>> \o render_words(n.values))
            \o render_node(n.body)
       [] n.t = "While" -> <<W("while")>> \o parens(render_node(n.cond)) \o render_node(n.body)
       [] n.t = "Switch" ->
            <<W("switch")>> \o parens(<<W(n.value)>>) \o <<Sym("LBrace"), Sym("Newline")>>
            \o Joined([i \in DOMAIN n.cases |-> render_case(n.cases[i])], <<Sym("Newline")>>)
            \o <<Sym("Newline"), Sym("RBrace")>>
       [] n.t = "Function" ->
            <<W("fn"), W(n.name)>> \o IF n.body = <<>> THEN <<>> ELSE render_node(n.body[1])
=============================================================================
