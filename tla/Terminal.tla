----------------------------- MODULE Terminal -------------------------------
(***************************************************************************)
(* A terminal of the #term device (crates/star9-runtime/src/devices.rs):   *)
(* the queues data, program and raw, each read by whoever comes first, and *)
(* the screen, a log of what was written to data.  The program queue gets  *)
(* CR LF for every line end, however the writes cut the text: it keeps the *)
(* last byte it saw, under a lock that is held until the bytes are queued. *)
(* A clear or reset takes the locks of all of these one after the other.   *)
(*                                                                         *)
(* The files size, state and winch, which no other file follows, are left  *)
(* out, and with them the end of a reset.                                  *)
(***************************************************************************)
EXTENDS Naturals, Sequences, SequencesExt

CONSTANTS
  TermUsers,   (* the tasks that use the device                     *)
  Texts,       (* what they write, as sequences of "x", "cr", "lf"  *)
  MaxTerms,    (* bound: how many terminals are allocated           *)
  MaxTermOps   (* bound: how many calls are made                    *)

VARIABLES
  terms,       (* DeviceAllocatorState.resources, by id             *)
  term_thread, (* what each task is doing                           *)
  term_ops     (* how many calls were made                          *)

TermIdle == [pc |-> "idle"]

(* written, output and overlap are history: what was written to the        *)
(* program queue and read from it since it was last cleared, and whether a *)
(* write met a clear or another write.                                     *)
Ready == [data |-> <<>>, screen |-> <<>>, program |-> <<>>, prev |-> "none", raw |-> <<>>,
          written |-> <<>>, output |-> <<>>, overlap |-> FALSE]

TermInit == terms = <<>> /\ term_thread = [u \in TermUsers |-> TermIdle] /\ term_ops = 0

TermAt(u, pc) == term_thread[u].pc = pc
TermGo(u, next) == term_thread' = [term_thread EXCEPT ![u] = next]
BusyOn(i) == {u \in TermUsers : term_thread[u] # TermIdle /\ term_thread[u].id = i}
Busied(term, i) == [term EXCEPT !.overlap = @ \/ BusyOn(i) # {}]

(* A call that does its work in one region of one terminal. *)
Calls(u) == TermAt(u, "idle") /\ term_ops < MaxTermOps /\ term_ops' = term_ops + 1
Does(u, i, term) == Calls(u) /\ terms' = [terms EXCEPT ![i] = term] /\ UNCHANGED term_thread

(* DeviceAllocator::alloc keeps the counter locked until the terminal is there. *)
term_alloc(u) ==
  /\ Calls(u) /\ Len(terms) < MaxTerms
  /\ terms' = Append(terms, Ready)
  /\ UNCHANGED term_thread

-----------------------------------------------------------------------------
(* The data file: the screen first, then the queue. *)
write_data(u, i, text) ==
  /\ Calls(u)
  /\ terms' = [terms EXCEPT ![i] = [Busied(@, i) EXCEPT !.screen = @ \o text]]
  /\ TermGo(u, [pc |-> "queue", id |-> i, text |-> text])

data_queued(u) ==
  LET t == term_thread[u]
  IN  /\ t.pc = "queue"
      /\ terms' = [terms EXCEPT ![t.id].data = @ \o t.text]
      /\ TermGo(u, TermIdle)
      /\ UNCHANGED term_ops

(* ByteQueue::read takes what is there, at most n bytes. *)
Taken(queue, n) == SubSeq(queue, 1, IF n < Len(queue) THEN n ELSE Len(queue))
Left(queue, n) == SubSeq(queue, Len(Taken(queue, n)) + 1, Len(queue))

read_data(u, i, n) == Does(u, i, [terms[i] EXCEPT !.data = Left(@, n)])

(* The screen file takes writes of its own, here of a byte nobody types. *)
write_screen(u, i) == Does(u, i, [terms[i] EXCEPT !.screen = Append(@, "drawn")])

write_raw(u, i, text) == Does(u, i, [terms[i] EXCEPT !.raw = @ \o text])
read_raw(u, i, n) == Does(u, i, [terms[i] EXCEPT !.raw = Left(@, n)])

-----------------------------------------------------------------------------
(* The program file.  Before is the byte ahead of the n-th of a text. *)
Before(prev, text, n) == IF n = 1 THEN prev ELSE text[n - 1]

(* A bug to catch: every write begins a new text. *)
NormalizeApart(prev, text) ==
  FlattenSeq([n \in DOMAIN text |->
    IF text[n] = "lf" /\ Before("none", text, n) # "cr" THEN <<"cr", "lf">> ELSE <<text[n]>>])

NormalizeLf(prev, text) ==
  FlattenSeq([n \in DOMAIN text |->
    IF text[n] = "lf" /\ Before(prev, text, n) # "cr" THEN <<"cr", "lf">> ELSE <<text[n]>>])

write_program(u, i, text) ==
  Does(u, i, [Busied(terms[i], i) EXCEPT
                !.program = @ \o NormalizeLf(terms[i].prev, text),
                !.prev    = IF text = <<>> THEN @ ELSE Last(text),
                !.written = @ \o text])

read_program(u, i, n) ==
  Does(u, i, [terms[i] EXCEPT !.program = Left(@, n), !.output = @ \o Taken(terms[i].program, n)])

-----------------------------------------------------------------------------
(* ctl clear and reset: the regions in their order. *)
Regions == <<"data", "screen", "program", "prev", "raw">>

clear(u, i) ==
  /\ Calls(u)
  /\ terms' = [terms EXCEPT ![i] = [Busied(@, i) EXCEPT !.data = <<>>]]
  /\ TermGo(u, [pc |-> "clear", id |-> i, at |-> 2])

Cleared(term, region) ==
  CASE region = "screen"  -> [term EXCEPT !.screen = <<>>]
    [] region = "program" -> [term EXCEPT !.program = <<>>, !.written = <<>>, !.output = <<>>]
    [] region = "prev"    -> [term EXCEPT !.prev = "none"]
    [] region = "raw"     -> [term EXCEPT !.raw = <<>>]

clear_next(u) ==
  LET t == term_thread[u]
  IN  /\ t.pc = "clear"
      /\ terms' = [terms EXCEPT ![t.id] = Cleared(@, Regions[t.at])]
      /\ TermGo(u, IF t.at = Len(Regions) THEN TermIdle ELSE [t EXCEPT !.at = @ + 1])
      /\ UNCHANGED term_ops

TermNext ==
  \E u \in TermUsers :
    \/ term_alloc(u) \/ data_queued(u) \/ clear_next(u)
    \/ \E i \in DOMAIN terms :
         \/ clear(u, i) \/ write_screen(u, i)
         \/ \E text \in Texts : write_data(u, i, text) \/ write_raw(u, i, text) \/ write_program(u, i, text)
         \/ \E n \in 1..2 : read_data(u, i, n) \/ read_raw(u, i, n) \/ read_program(u, i, n)

-----------------------------------------------------------------------------
(* What is still to be read from data is the end of what the screen shows  *)
(* of it: no byte is queued unseen or out of order.                        *)
DataIsOnScreen(term) ==
  IsSuffix(term.data, SelectSeq(term.screen, LAMBDA byte : byte # "drawn"))

(* Cutting a text into writes makes no difference: what was and will be    *)
(* read is the whole text with every line end made CR LF, once.            *)
WithCrLf(text) ==
  FlattenSeq([n \in DOMAIN text |->
    IF text[n] = "lf" /\ (n = 1 \/ text[n - 1] # "cr") THEN <<"cr", "lf">> ELSE <<text[n]>>])
LineEndsAreWhole(term) == term.output \o term.program = WithCrLf(term.written)

(* Both hold of a terminal at rest on which no write met a clear or a      *)
(* write of another task; a clear leaves nothing of the text before it.    *)
TerminalsAreCoherent ==
  \A i \in DOMAIN terms : BusyOn(i) = {} /\ ~terms[i].overlap =>
    DataIsOnScreen(terms[i]) /\ LineEndsAreWhole(terms[i])

=============================================================================
