---------------------------- MODULE NinePCodec ------------------------------
(***************************************************************************)
(* The frames of 9P2000.L and the three programs that write and read them: *)
(* encode_request, decode_request and their siblings in Rust               *)
(* (crates/star9-protocol/src/p9.rs), the browser client                   *)
(* (crates/star9-web/js/p9-port.js) and the browser storage server         *)
(* (storage-p9.js).  Each has a layout of its own for every message it     *)
(* writes or reads, here a sequence of kinds of fields; nothing but the    *)
(* care of the authors makes the layouts agree.                            *)
(*                                                                         *)
(* Numbers are little-endian and lengths overflow as in the code, but a    *)
(* byte is a digit below Base, so that the limits are within reach.  The   *)
(* byte that holds the type of a message is kept as it is.                 *)
(***************************************************************************)
EXTENDS Naturals, Sequences, SequencesExt

CONSTANTS
  Base,      (* how many values a byte has                   *)
  MaxCut     (* bound: how many bytes a transport cuts off   *)

VARIABLES
  phase,     (* "idle", "sent" or "read"                     *)
  wire,      (* who writes and who reads                     *)
  sent,      (* the message                                  *)
  frame,     (* its bytes                                    *)
  damage,    (* what happened to them on the way             *)
  got        (* what was read                                *)

codecVars == <<phase, wire, sent, frame, damage, got>>

-----------------------------------------------------------------------------
(* The layouts in Rust.  A list is counted by a u16, bytes by a u32. *)
qid == <<"u8", "u32", "u64">>
attr == <<"u64">> \o qid \o <<"u32", "u32", "u32">> \o [i \in 1..15 |-> "u64"]
setattr == <<"u32", "u32", "u32", "u32">> \o [i \in 1..5 |-> "u64"]
dirent == qid \o <<"u64", "u8", "string">>

encode_request ==
  [version |-> <<"u32", "string">>, attach |-> <<"u32", "u32", "string", "string", "u32">>,
   walk |-> <<"u32", "u32", "names">>, lopen |-> <<"u32", "u32">>,
   lcreate |-> <<"u32", "string", "u32", "u32", "u32">>, getattr |-> <<"u32", "u64">>,
   setattr |-> <<"u32">> \o setattr, xattrwalk |-> <<"u32", "u32", "string">>,
   xattrcreate |-> <<"u32", "string", "u64", "u32">>, read |-> <<"u32", "u64", "u32">>,
   write |-> <<"u32", "u64", "data">>, clunk |-> <<"u32">>, remove |-> <<"u32">>,
   mkdir |-> <<"u32", "string", "u32", "u32">>, link |-> <<"u32", "u32", "string">>,
   readdir |-> <<"u32", "u64", "u32">>, renameat |-> <<"u32", "string", "u32", "string">>,
   unlinkat |-> <<"u32", "string", "u32">>, symlink |-> <<"u32", "string", "string", "u32">>,
   readlink |-> <<"u32">>, fsync |-> <<"u32">>, flush |-> <<"u16">>]

decode_request ==
  [version |-> <<"u32", "string">>, attach |-> <<"u32", "u32", "string", "string", "u32">>,
   walk |-> <<"u32", "u32", "names">>, lopen |-> <<"u32", "u32">>,
   lcreate |-> <<"u32", "string", "u32", "u32", "u32">>, getattr |-> <<"u32", "u64">>,
   setattr |-> <<"u32">> \o setattr, xattrwalk |-> <<"u32", "u32", "string">>,
   xattrcreate |-> <<"u32", "string", "u64", "u32">>, read |-> <<"u32", "u64", "u32">>,
   write |-> <<"u32", "u64", "data">>, clunk |-> <<"u32">>, remove |-> <<"u32">>,
   mkdir |-> <<"u32", "string", "u32", "u32">>, link |-> <<"u32", "u32", "string">>,
   readdir |-> <<"u32", "u64", "u32">>, renameat |-> <<"u32", "string", "u32", "string">>,
   unlinkat |-> <<"u32", "string", "u32">>, symlink |-> <<"u32", "string", "string", "u32">>,
   readlink |-> <<"u32">>, fsync |-> <<"u32">>, flush |-> <<"u16">>]

(* The data of a readdir is what encode_dirents makes of the entries. *)
encode_response ==
  [lerror |-> <<"u32">>, version |-> <<"u32", "string">>, attach |-> qid, walk |-> <<"qids">>,
   lopen |-> qid \o <<"u32">>, lcreate |-> qid \o <<"u32">>, getattr |-> attr, setattr |-> <<>>,
   xattrwalk |-> <<"u64">>, xattrcreate |-> <<>>, read |-> <<"data">>, write |-> <<"u32">>,
   clunk |-> <<>>, remove |-> <<>>, mkdir |-> qid, link |-> <<>>, readdir |-> <<"dirents">>,
   renameat |-> <<>>, unlinkat |-> <<>>, symlink |-> qid, readlink |-> <<"string">>,
   fsync |-> <<>>, flush |-> <<>>]

decode_response ==
  [lerror |-> <<"u32">>, version |-> <<"u32", "string">>, attach |-> qid, walk |-> <<"qids">>,
   lopen |-> qid \o <<"u32">>, lcreate |-> qid \o <<"u32">>, getattr |-> attr, setattr |-> <<>>,
   xattrwalk |-> <<"u64">>, xattrcreate |-> <<>>, read |-> <<"data">>, write |-> <<"u32">>,
   clunk |-> <<>>, remove |-> <<>>, mkdir |-> qid, link |-> <<>>, readdir |-> <<"dirents">>,
   renameat |-> <<>>, unlinkat |-> <<>>, symlink |-> qid, readlink |-> <<"string">>,
   fsync |-> <<>>, flush |-> <<>>]

(* The T numbers; those of the answers are one higher, and Rlerror is 7. *)
msg ==
  [lopen |-> 12, lcreate |-> 14, symlink |-> 16, readlink |-> 22, getattr |-> 24, setattr |-> 26,
   xattrwalk |-> 30, xattrcreate |-> 32, readdir |-> 40, fsync |-> 50, link |-> 70, mkdir |-> 72,
   renameat |-> 74, unlinkat |-> 76, version |-> 100, attach |-> 104, flush |-> 108, walk |-> 110,
   read |-> 116, write |-> 118, clunk |-> 120, remove |-> 122]

-----------------------------------------------------------------------------
(* The layouts in JavaScript.  The client does not read the answers that   *)
(* it only waits for; the storage server reads what it has no use for too. *)
clientRequests ==
  [version |-> <<"u32", "string">>, attach |-> <<"u32", "u32", "string", "string", "u32">>,
   walk |-> <<"u32", "u32", "names">>, lopen |-> <<"u32", "u32">>, flush |-> <<"u16">>,
   lcreate |-> <<"u32", "string", "u32", "u32", "u32">>, getattr |-> <<"u32", "u64">>,
   read |-> <<"u32", "u64", "u32">>, write |-> <<"u32", "u64", "data">>,
   readdir |-> <<"u32", "u64", "u32">>, mkdir |-> <<"u32", "string", "u32", "u32">>,
   unlinkat |-> <<"u32", "string", "u32">>, clunk |-> <<"u32">>]

clientResponses ==
  [lerror |-> <<"u32">>, version |-> <<"u32", "string">>, attach |-> <<>>, walk |-> <<"qids">>,
   lopen |-> <<>>, lcreate |-> <<>>, getattr |-> attr, read |-> <<"data">>, write |-> <<"u32">>,
   readdir |-> <<"dirents">>, mkdir |-> <<>>, unlinkat |-> <<>>, clunk |-> <<>>, flush |-> <<>>]

storageRequests ==
  [version |-> <<"u32", "string">>, attach |-> <<"u32", "u32", "string", "string", "u32">>,
   walk |-> <<"u32", "u32", "names">>, lopen |-> <<"u32", "u32">>, flush |-> <<"u16">>,
   lcreate |-> <<"u32", "string", "u32", "u32", "u32">>, getattr |-> <<"u32", "u64">>,
   read |-> <<"u32", "u64", "u32">>, write |-> <<"u32", "u64", "data">>,
   readdir |-> <<"u32", "u64", "u32">>, mkdir |-> <<"u32", "string", "u32", "u32">>,
   unlinkat |-> <<"u32", "string", "u32">>, clunk |-> <<"u32">>]

storageResponses ==
  [lerror |-> <<"u32">>, version |-> <<"u32", "string">>, attach |-> qid, walk |-> <<"qids">>,
   lopen |-> qid \o <<"u32">>, lcreate |-> qid \o <<"u32">>, getattr |-> attr, read |-> <<"data">>,
   write |-> <<"u32">>, readdir |-> <<"dirents">>, mkdir |-> qid, unlinkat |-> <<>>, clunk |-> <<>>,
   flush |-> <<>>]

MSG ==
  [lopen |-> 12, lcreate |-> 14, getattr |-> 24, readdir |-> 40, version |-> 100, attach |-> 104,
   flush |-> 108, walk |-> 110, read |-> 116, write |-> 118, clunk |-> 120, mkdir |-> 72, unlinkat |-> 76]

Links ==
  {[from |-> "rust", to |-> "rust", answer |-> FALSE], [from |-> "rust", to |-> "rust", answer |-> TRUE],
   [from |-> "client", to |-> "rust", answer |-> FALSE], [from |-> "rust", to |-> "client", answer |-> TRUE],
   [from |-> "client", to |-> "storage", answer |-> FALSE], [from |-> "storage", to |-> "client", answer |-> TRUE]}

Writing(l) == CASE l.from = "rust"    -> IF l.answer THEN encode_response ELSE encode_request
                [] l.from = "client"  -> clientRequests
                [] l.from = "storage" -> storageResponses
Reading(l) == CASE l.to = "rust"    -> IF l.answer THEN decode_response ELSE decode_request
                [] l.to = "client"  -> clientResponses
                [] l.to = "storage" -> storageRequests
Number(program, answer, type) ==
  IF type = "lerror" THEN 7
  ELSE (IF program = "rust" THEN msg[type] ELSE MSG[type]) + (IF answer THEN 1 ELSE 0)

-----------------------------------------------------------------------------
(* Writing. *)
Width == [u8 |-> 1, u16 |-> 2, u32 |-> 4, u64 |-> 8]
Word(w, x) == [i \in 1..w |-> (x \div Base ^ (i - 1)) % Base]
Fits(w, n) == n < Base ^ w

PutBasic(kind, x) ==
  CASE kind \in DOMAIN Width -> Word(Width[kind], x)
    [] kind = "string" -> Word(2, Len(x)) \o x
    [] kind = "data" -> Word(4, Len(x)) \o x
PutRecord(layout, xs) == FlattenSeq([i \in DOMAIN layout |-> PutBasic(layout[i], xs[i])])
PutAll(layout, records) == FlattenSeq([i \in DOMAIN records |-> PutRecord(layout, records[i])])
Put(kind, x) ==
  CASE kind = "names" -> Word(2, Len(x)) \o PutAll(<<"string">>, x)
    [] kind = "qids" -> Word(2, Len(x)) \o PutAll(qid, x)
    [] kind = "dirents" -> PutBasic("data", PutAll(dirent, x))
    [] OTHER -> PutBasic(kind, x)

Body(layout, fields) == FlattenSeq([i \in DOMAIN layout |-> Put(layout[i], fields[i])])
encode_frame(type, tag, body) == Word(4, 7 + Len(body)) \o <<type>> \o Word(2, tag) \o body

(* Lengths that do not fit.  Rust refuses them all, the client only those  *)
(* of strings and the storage server none: JavaScript is given what fits.  *)
LongStrings(layout, fields) ==
  \E i \in DOMAIN layout : \/ layout[i] = "string" /\ ~Fits(2, Len(fields[i]))
                           \/ layout[i] = "names" /\ \E j \in DOMAIN fields[i] : ~Fits(2, Len(fields[i][j][1]))
                           \/ layout[i] = "dirents" /\ \E j \in DOMAIN fields[i] : ~Fits(2, Len(fields[i][j][6]))
LongLists(layout, fields) ==
  \/ \E i \in DOMAIN layout : layout[i] \in {"names", "qids"} /\ ~Fits(2, Len(fields[i]))
  \/ ~Fits(4, 7 + Len(Body(layout, fields)))

Refused(l, m) ==
  LET layout == Writing(l)[m.type]
  IN  \/ l.from \in {"rust", "client"} /\ LongStrings(layout, m.fields)
      \/ l.from = "rust" /\ LongLists(layout, m.fields)
Overflows(l, m) ==
  LET layout == Writing(l)[m.type]
  IN  ~Refused(l, m) /\ (LongStrings(layout, m.fields) \/ LongLists(layout, m.fields))

encode(l, m) == encode_frame(Number(l.from, l.answer, m.type), m.tag, Body(Writing(l)[m.type], m.fields))

-----------------------------------------------------------------------------
(* Reading: the bytes, how many are used, what was read last and so far. *)
Decoder(bytes) == [bytes |-> bytes, offset |-> 0, ok |-> TRUE, value |-> <<>>, got |-> <<>>]

Take(d, n) ==
  IF d.ok /\ d.offset + n <= Len(d.bytes)
  THEN [d EXCEPT !.offset = @ + n, !.value = SubSeq(d.bytes, d.offset + 1, d.offset + n)]
  ELSE [d EXCEPT !.ok = FALSE, !.value = <<>>]

FromWord(bytes) == FoldRight(LAMBDA digit, n : digit + Base * n, bytes, 0)
TakeNumber(d, w) == LET r == Take(d, w) IN [r EXCEPT !.value = FromWord(@)]
TakeCounted(d, w) == LET r == TakeNumber(d, w) IN Take(r, r.value)
TakeBasic(d, kind) ==
  CASE kind \in DOMAIN Width -> TakeNumber(d, Width[kind])
    [] kind = "string" -> TakeCounted(d, 2)
    [] kind = "data" -> TakeCounted(d, 4)

Noted(r) == [r EXCEPT !.got = Append(@, r.value)]
Gathered(r, before) == [r EXCEPT !.value = r.got, !.got = before]
TakeRecord(d, layout) ==
  Gathered(FoldLeft(LAMBDA r, kind : Noted(TakeBasic(r, kind)), [d EXCEPT !.got = <<>>], layout), d.got)
TakeTimes(d, layout, n) ==
  Gathered(FoldLeft(LAMBDA r, i : Noted(TakeRecord(r, layout)), [d EXCEPT !.got = <<>>], [i \in 1..n |-> i]), d.got)

is_empty(d) == d.offset = Len(d.bytes)
decode_dirents(data) ==
  FoldLeft(LAMBDA r, i : IF ~r.ok \/ is_empty(r) THEN r ELSE Noted(TakeRecord(r, dirent)),
           Decoder(data), [i \in 1..Len(data) |-> i])
TakeDirents(d) ==
  LET r == TakeCounted(d, 4)
      entries == decode_dirents(r.value)
  IN  [r EXCEPT !.ok = @ /\ entries.ok, !.value = entries.got]

TakeField(d, kind) ==
  CASE kind \in {"names", "qids"} -> LET r == TakeNumber(d, 2)
                                     IN  TakeTimes(r, IF kind = "qids" THEN qid ELSE <<"string">>, r.value)
    [] kind = "dirents" -> TakeDirents(d)
    [] OTHER -> TakeBasic(d, kind)

(* Only some readers mind what follows. *)
Finishes(l, type) == l.to = "rust" \/ (l.to = "client" /\ type \in {"version", "walk", "getattr", "read", "readdir"})

(* A bug to catch: nobody does. *)
FinishAnyway(l, type, d) == TRUE

finish(l, type, d) == Finishes(l, type) => is_empty(d)

Unreadable == [ok |-> FALSE]
decode(l, f) ==
  LET types == {t \in DOMAIN Reading(l) : Number(l.to, l.answer, t) = f[5]}
      type == CHOOSE t \in types : TRUE
      d == FoldLeft(LAMBDA r, kind : Noted(TakeField(r, kind)), Decoder(SubSeq(f, 8, Len(f))), Reading(l)[type])
  IN  IF Len(f) < 7 \/ FromWord(SubSeq(f, 1, 4)) # Len(f) \/ types = {} THEN Unreadable
      ELSE IF d.ok /\ finish(l, type, d)
           THEN [ok |-> TRUE, type |-> type, tag |-> FromWord(SubSeq(f, 6, 7)), fields |-> d.got]
           ELSE Unreadable

-----------------------------------------------------------------------------
(* The messages: every type, with fields that are all empty or zero, all   *)
(* different, at their limits, or one beyond.  JavaScript reads a u64 as a *)
(* Number, which is exact below 2^53: a larger one, such as the path of a  *)
(* qid, a hash of 64 bits, is rounded.  The programs in JavaScript are     *)
(* given exact ones only, and what rounding does is outside this module.   *)
(* The client is answered only what it asks for.                           *)
Text(n, digit) == [i \in 1..n |-> digit % Base]
Most(kind, js) == IF kind = "u64" /\ js THEN Base ^ 6 - 1 ELSE Base ^ Width[kind] - 1

Sample(kind, i, v, js) ==
  CASE kind \in DOMAIN Width -> CASE v = "zero" -> 0 [] v = "apart" -> i % (Base ^ Width[kind])
                                  [] OTHER -> Most(kind, js)
    [] OTHER -> CASE v = "zero" -> <<>> [] v = "apart" -> Text(1 + (i % 3), i)
                  [] v = "most" -> Text(Base ^ 2 - 1, i) [] v = "over" -> Text(Base ^ 2, i)
Samples(layout, v, js) == [i \in DOMAIN layout |-> Sample(layout[i], i, v, js)]
Count(v) == CASE v = "zero" -> 0 [] v = "apart" -> 2 [] v = "most" -> 3 [] v = "over" -> Base ^ 2
Member(layout, i, v, js) ==
  [n \in DOMAIN layout |-> Sample(layout[n], i + n, IF v = "over" THEN "zero" ELSE v, js)]
List(layout, v, js) == [i \in 1..Count(v) |-> Member(layout, i, v, js)]
Field(kind, i, v, js) ==
  CASE kind = "names" -> List(<<"string">>, v, js)
    [] kind = "qids" -> List(qid, v, js)
    [] kind = "dirents" -> List(dirent, v, js)
    [] OTHER -> Sample(kind, i, v, js)

Messages(l) ==
  LET layouts == Writing(l) IN
  {[type |-> t, tag |-> IF v = "zero" THEN 0 ELSE Base ^ 2 - 2,
    fields |-> [i \in DOMAIN layouts[t] |-> Field(layouts[t][i], i, v, l.to # "rust")]] :
     t \in DOMAIN layouts \cap DOMAIN Reading(l), v \in {"zero", "apart", "most", "over"}}

CodecInit == phase = "idle" /\ wire = [to |-> ""] /\ sent = <<>> /\ frame = <<>> /\ damage = "none" /\ got = Unreadable

send(l, m) ==
  /\ phase = "idle" /\ ~Refused(l, m) /\ ~Overflows(l, m)
  /\ phase' = "sent" /\ wire' = l /\ sent' = m /\ frame' = encode(l, m)
  /\ UNCHANGED <<damage, got>>

(* A peer that counts otherwise: bytes are missing or too many, and the    *)
(* size of the frame is right or not.                                      *)
Resized(f) == Word(4, Len(f)) \o SubSeq(f, 5, Len(f))
harm(f, sized) ==
  /\ phase = "sent" /\ damage = "none"
  /\ damage' = IF sized THEN "body" ELSE "size"
  /\ frame' = IF sized THEN Resized(f) ELSE f
  /\ UNCHANGED <<phase, wire, sent, got>>

receive ==
  /\ phase = "sent"
  /\ phase' = "read" /\ got' = decode(wire, frame)
  /\ UNCHANGED <<wire, sent, frame, damage>>

again ==
  /\ phase = "read"
  /\ phase' = "idle" /\ wire' = [to |-> ""] /\ sent' = <<>> /\ frame' = <<>> /\ damage' = "none" /\ got' = Unreadable

CodecNext ==
  \/ \E l \in Links : \E m \in Messages(l) : send(l, m)
  \/ \E n \in 1..MaxCut, sized \in BOOLEAN :
       n <= Len(frame) /\ harm(SubSeq(frame, 1, Len(frame) - n), sized)
  \/ \E digit \in {0, Base - 1}, sized \in BOOLEAN : harm(Append(frame, digit), sized)
  \/ receive \/ again

-----------------------------------------------------------------------------
(* What one program writes, every program it talks to reads as the same    *)
(* message, up to the fields the reader wants; a frame with bytes missing  *)
(* or too many is never read as another message, whatever its size says,   *)
(* and Rust (decode_frame, finish) refuses it.                             *)
FramesAreExact ==
  phase = "read" =>
    /\ damage = "none" => got.ok
    /\ got.ok => got.type = sent.type /\ got.tag = sent.tag /\ IsPrefix(got.fields, sent.fields)
    /\ damage = "size" \/ (damage = "body" /\ wire.to = "rust") => ~got.ok

=============================================================================
