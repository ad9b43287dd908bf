--------------------------- MODULE MCNinePClient ---------------------------
(* A directory 1 with the file 1/1, and a file 2 beside it.  A behaviour is  *)
(* one of the calls, whose requests and answers are records, or one of the   *)
(* frames that carry them: a request handler sees no bytes but the decoded.  *)
EXTENDS NinePClient, TLC

CONSTANTS t1, t2, Base, MaxCut
VARIABLES layer, phase, wire, sent, frame, damage, got

Codec == INSTANCE NinePCodec
codecVars == <<phase, wire, sent, frame, damage, got>>

MCThreads == {t1, t2}
Symmetry == Permutations(MCThreads)
MCPaths == {<<1>>, <<1, 1>>, <<2>>}
MCTree == <<1>> :> Dir @@ <<1, 1>> :> Unset @@ <<2>> :> Unset

On(op, p) == [op |-> op, path |-> p, path2 |-> <<>>, byte |-> Zero]
From(op, p, q) == [op |-> op, path |-> p, path2 |-> q, byte |-> Zero]
Attr(p, b) == [op |-> "set_xattr", path |-> p, path2 |-> <<>>, byte |-> b]

MCCalls ==
  {On("connect", <<>>), On("open", <<1, 1>>), On("open_trunc", <<2>>), On("create", <<2>>),
   On("file_read", <<>>), On("file_write", <<>>), On("file_sync", <<>>), On("close", <<>>),
   On("read_dir", <<>>), On("stat", <<2>>), On("set_attr", <<2>>), On("readlink", <<1, 1>>),
   On("mkdir", <<2>>), On("symlink", <<2>>), On("remove", <<2>>),
   From("rename", <<1, 1>>, <<2>>), From("link", <<2>>, <<1, 1>>),
   Attr(<<2>>, "x"), Attr(<<2>>, "y"), On("get_xattr", <<2>>)}

MCInit == layer \in {"calls", "frames"} /\ Init /\ Codec!CodecInit
MCNext ==
  /\ \/ layer = "calls" /\ Next /\ UNCHANGED codecVars
     \/ layer = "frames" /\ Codec!CodecNext /\ UNCHANGED vars
  /\ UNCHANGED layer
MCSpec == MCInit /\ [][MCNext]_<<layer, vars, codecVars>>

(* A frame is read by every program as the message that was written, and   *)
(* one with bytes missing or too many as no other (encode_request,         *)
(* decode_request, encode_response, decode_response and their JavaScript). *)
FramesAreExact == Codec!FramesAreExact
=============================================================================
