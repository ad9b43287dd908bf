------------------------------- MODULE RcTokens -------------------------------
(***************************************************************************)
(* Tokens.  A redirection or a pipe carries the numbers in its brackets:   *)
(* >[2] is <<2>>, >[2=1] is <<2, 1>>, >[2=] is <<2, Closing>>.             *)
(***************************************************************************)
Closing == 99
W(raw) == [k |-> "Word", w |-> raw]
Sym(kind) == [k |-> kind]
Arrow(op, brackets) == [k |-> "Redirect", op |-> op, br |-> brackets]
Bar(brackets) == [k |-> "Pipe", br |-> brackets]
=============================================================================
