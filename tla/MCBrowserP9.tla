---------------------------- MODULE MCBrowserP9 ----------------------------
(* Two calls of the mount at a time on a small tree, with a direct user of  *)
(* the client.                                                              *)
EXTENDS BrowserP9, TLC

CONSTANTS a, b

MCPaths == {<<1>>, <<2>>, <<1, 1>>, <<1, 2>>, <<3>>}
MCTree == [p \in {<<1>>, <<1, 1>>, <<1, 2>>} |-> IF p = <<1>> THEN Dir ELSE "file"]
MCBlocks == [p \in {<<1, 1>>, <<1, 2>>} |-> <<a>>]
MCCall(what, path, data) == [op |-> what, path |-> path, blocks |-> data]
MCCalls ==
  {MCCall("readFile", <<1, 1>>, <<>>), MCCall("readDir", <<1>>, <<>>),
   MCCall("writeFile", <<2>>, <<a, b>>), MCCall("mkdir", <<2>>, <<>>), MCCall("remove", <<1, 1>>, <<>>)}

=============================================================================
