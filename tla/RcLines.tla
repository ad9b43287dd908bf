------------------------------- MODULE RcLines -------------------------------
(***************************************************************************)
(* The lines the rc session of the models is given: they use every         *)
(* construct of the language.  A function is first defined with any of the *)
(* bodies built below.                                                     *)
(***************************************************************************)
EXTENDS RcTokens, TLC, Sequences

LB == Sym("LBrace")
RB == Sym("RBrace")
LP == Sym("LParen")
RP == Sym("RParen")
NL == Sym("Newline")
SC == Sym("Semi")
Words(raw) == [i \in DOMAIN raw |-> W(raw[i])]
In(text) == <<LB>> \o text \o <<RB>>

MCHeads == [h \in {"x=", "y=", "x=a", "x=b"} |->
              CASE h = "x=" -> [name |-> "x", suffix |-> ""]
                [] h = "y=" -> [name |-> "y", suffix |-> ""]
                [] h = "x=a" -> [name |-> "x", suffix |-> "a"]
                [] h = "x=b" -> [name |-> "x", suffix |-> "b"]]

Var(name, how) == [t |-> "var", var |-> name, how |-> how]
\* echo-x stands for the command substitution of echo $x.
MCParts ==
  [w \in {"$x", "$y", "$i", "$1", "$none", "$#x", "$0", "p^$y", "bin^s", "echo-x"} |->
     CASE w = "$x" -> <<Var("x", "list")>>
       [] w = "$y" -> <<Var("y", "list")>>
       [] w = "$i" -> <<Var("i", "list")>>
       [] w = "$1" -> <<Var("1", "list")>>
       [] w = "$0" -> <<Var("0", "list")>>
       [] w = "$none" -> <<Var("none", "list")>>
       [] w = "$#x" -> <<Var("x", "count")>>
       [] w = "bin^s" -> <<[t |-> "lit", atom |-> "bin"], [t |-> "lit", atom |-> "s"]>>
       [] w = "p^$y" -> <<[t |-> "lit", atom |-> "p"], Var("y", "quote")>>
       [] w = "echo-x" -> <<[t |-> "cmd", text |-> Words(<<"echo", "$x">>)]>>]

MCScripts == (<<"bin", "s">> :> (<<W("shift"), NL>> \o Words(<<"echo", "$0", "$1">>)))
             @@ (<<"bad">> :> <<W("if"), LP>>)
MCMatched == "t*" :> {"tmp", "two"}
MCValues == {<<<<"c">>>>}

\* Bodies: simple commands, then everything that can be built around them,
\* with the ones that cannot be written back.
Simple == {Words(<<"echo", "$1">>), Words(<<"x=b", "echo", "$x">>),
           Words(<<"~", "$1", "a">>) \o <<Arrow(">", <<2, 1>>)>>,
           Words(<<"echo", "$x">>) \o <<Arrow(">", <<>>), W("f")>>,
           Words(<<"echo", "$x">>) \o <<Arrow(">", <<2>>), W("f")>>}
Test(word) == <<LP, W(word), RP>>
Around(b) ==
  {In(b), <<LP>> \o b \o <<SC>> \o b \o <<RP>>, <<Sym("Bang")>> \o b,
   b \o <<Sym("AndAnd")>> \o b, b \o <<Sym("OrOr")>> \o b, b \o <<Bar(<<2>>)>> \o b,
   b \o <<Sym("Amp")>> \o b,
   <<W("if")>> \o Test("true") \o b,
   <<W("if")>> \o Test("false") \o <<NL>> \o In(b) \o <<NL>> \o Words(<<"if", "not">>) \o b,
   <<W("if")>> \o Test("false") \o b \o <<NL>> \o Words(<<"if", "not">>) \o b,
   <<W("while")>> \o Test("false") \o b,
   <<W("for"), LP>> \o Words(<<"i", "in", "a", "b">>) \o <<RP>> \o b,
   <<W("for"), LP, W("i"), RP>> \o In(b),
   <<W("switch"), LP, W("$1"), RP, LB, NL>> \o Words(<<"case", "b">>) \o <<NL>> \o b
     \o <<NL>> \o Words(<<"case", "a", "t*">>) \o <<NL>> \o b \o <<SC>> \o b \o <<NL, RB>>}
Compound == UNION {Around(b) : b \in Simple}
Nested == UNION {Around(In(b)) : b \in UNION {Around(b) : b \in {Words(<<"echo", "$1">>)}}}

Line(text, sets) == [text |-> text, sets |-> sets]
Fn(name, body) == Words(<<"fn", name>>) \o In(body)
MCOpening == {Line(Fn("f", b), {}) : b \in Simple \cup Compound \cup Nested}

MCLines ==
  {Line(<<W("fn"), W("f")>>, {}),
   Line(<<W("fn"), W("f"), SC>> \o Words(<<"echo", "a">>), {}),
   Line(Fn("f", Words(<<"echo", "a">>)), {}),
   Line(Fn("f", Words(<<"echo", "b">>)) \o <<SC>> \o Words(<<"f">>), {}),
   Line(Fn("sigexit", Words(<<"x=a", "echo", "$x">>) \o <<SC, W("exit")>>), {}),
   Line(Words(<<"f", "a">>), {}),
   Line(Words(<<"x=b", "f", "a">>) \o <<Bar(<<>>), W("cat")>>, {}),
   Line(Words(<<"x=a">>), {"x"}),
   Line(Words(<<"y=">>) \o <<LP>> \o Words(<<"p^$y", "$#x">>) \o <<RP>>, {"y"}),
   Line(Words(<<"x=b", "$none">>), {}),
   Line(Words(<<"x=b", "cat">>) \o <<Arrow("<", <<>>), W("none")>>, {}),
   Line(<<W("for"), LP>> \o Words(<<"i", "in", "echo-x", "t*">>) \o <<RP>>
          \o Words(<<"x=a", "echo", "$i">>) \o <<Arrow(">>", <<>>), W("denied")>>, {}),
   Line(Words(<<"f", "a">>) \o <<Sym("Amp")>> \o Words(<<"false">>) \o <<Sym("Amp")>>, {}),
   Line(Words(<<"wait", "1">>), {}),
   Line(Words(<<"wait">>) \o <<SC>> \o Words(<<"s", "a", "b">>), {}),
   Line(Words(<<"rfork", "e">>) \o <<SC>> \o Words(<<"x=b">>), {"x"}),
   Line(Words(<<"rfork", "E">>), {"x", "y", "i", "path", "fn"}),
   Line(Words(<<"x=a", "setx">>), {"x"}),
   Line(Words(<<"bad">>), {}),
   Line(Words(<<"builtin", "test", "$x", "=", "a">>) \o <<Sym("AndAnd")>>
          \o Words(<<"whatis", "x", "f", "echo", "none">>) \o <<SC, W("status"), SC>>
          \o Words(<<"flag", "e">>) \o <<SC>> \o Words(<<"wait", "a">>) \o <<SC>> \o Words(<<".", "bin^s">>), {}),
   Line(<<W("while"), LP>> \o Words(<<"~", "$x", "a">>) \o <<RP>> \o Words(<<"x=b">>), {"x"}),
   Line(<<W("if"), LP>>, {}),
   Line(Words(<<"cat">>) \o <<Arrow("<", <<>>)>> \o In(Words(<<"eval", "echo", "a">>))
          \o <<Arrow(">", <<>>)>> \o In(Words(<<"exec", "s", "a">>)), {})}
=============================================================================
