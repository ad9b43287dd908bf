------------------------------ MODULE MCHttpFs ------------------------------
(* Two threads, a directory with one file, bodies of one length (so that   *)
(* versions made in the same second have the same ETag).                   *)
EXTENDS HttpFs

CONSTANTS u1, u2, x, y

MCUsers == {u1, u2}
MCData == {x, y}
MCLength == [d \in MCData |-> 1]
MCPaths == {<<>>, <<1>>, <<1, 1>>, <<2>>}
MCInitTree == <<>> :> Dir @@ <<1>> :> Dir @@ <<1, 1>> :> x
MCLookups == {[op |-> "stat", path |-> <<1>>], [op |-> "open", path |-> <<1, 1>>],
              [op |-> "read_dir", path |-> <<1>>], [op |-> "open", path |-> <<1>>]}
MCChanges == {[op |-> "put", path |-> <<1, 1>>, data |-> y], [op |-> "mkdir", path |-> <<1>>],
              [op |-> "remove", path |-> <<1, 1>>], [op |-> "rename", path |-> <<1>>, to |-> <<2>>],
              [op |-> "patch", path |-> <<1, 1>>, data |-> y]}
Symmetry == Permutations(MCUsers)

=============================================================================
