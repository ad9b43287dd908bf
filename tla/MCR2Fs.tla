------------------------------- MODULE MCR2Fs -------------------------------
(* A directory 1 with a subdirectory 1/1 that holds a file, and room for a   *)
(* copy of it at 2; or a new bucket.                                         *)
EXTENDS R2Fs, TLC

MCPaths == {<<1>>, <<1, 1>>, <<1, 1, 1>>, <<1, 2>>, <<2>>, <<2, 1>>, <<2, 1, 1>>, <<2, 2>>}
MCStores == {<<>> :> Object(Dir),
  <<>> :> [kind |-> Dir, entries |-> 1 :> Dir]
  @@ <<1>> :> [kind |-> Dir, entries |-> 1 :> Dir]
  @@ <<1, 1>> :> [kind |-> Dir, entries |-> 1 :> "file"]
  @@ <<1, 1, 1>> :> Object("file")}

Op(name, p, q, kind) == [op |-> name, path |-> p, path2 |-> q, kind |-> kind]
MCOperations ==
  {Op("create", p, <<>>, "file") : p \in {<<1, 2>>, <<1, 1, 1>>, <<2>>, <<1>>}}
  \cup {Op("mkdir", p, <<>>, Dir) : p \in {<<1, 2>>, <<2>>, <<1>>}}
  \cup {Op("symlink", <<2>>, <<>>, "link")}
  \cup {Op("remove", p, <<>>, Absent) : p \in {<<>>, <<1, 1, 1>>, <<1, 1>>, <<2>>}}
  \cup {Op("rename", <<1>>, <<2>>, Absent), Op("rename", <<1, 1, 1>>, <<1, 2>>, Absent)}
=============================================================================
