--------------------------- MODULE MCMetaCacheFs ---------------------------
(* A directory 1 and a file 2 beside it; 1/1 is a second name of the file, or a  *)
(* symbolic link to it.  1/1 can be removed, made again and moved onto 2, and    *)
(* the directory can be moved to 3.                                              *)
EXTENDS MetaCacheFs, TLC

MCPaths == {<<1>>, <<1, 1>>, <<2>>, <<3>>, <<3, 1>>}
MCTrees == {<<1>> :> Dir @@ <<1, 1>> :> node @@ <<2>> :> "m" : node \in {"m", Link}}
Key(p, kind) == [path |-> p, kind |-> kind]
MCKeys == {Key(<<1, 1>>, "stat"), Key(<<>>, "read_dir")}

Change(op, p, q, node) == [op |-> op, path |-> p, path2 |-> q, node |-> node]
MCMutations ==
  {Change("chmod", <<1, 1>>, <<>>, "n"), Change("create", <<1, 1>>, <<>>, "n"),
   Change("remove", <<1, 1>>, <<>>, "m"), Change("rename", <<1>>, <<3>>, "m"),
   Change("rename", <<1, 1>>, <<2>>, "m"), Change("chmod", <<2>>, <<>>, "n"),
   Change("link", <<1, 1>>, <<2>>, "m")}
MCForeign == {Change("remove", <<1, 1>>, <<>>, "m")}
MCTarget == <<2>>
MCSymmetry == Permutations(Users)
=============================================================================
