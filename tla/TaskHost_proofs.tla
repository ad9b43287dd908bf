--------------------------- MODULE TaskHost_proofs ---------------------------
(***************************************************************************)
(* Proofs of the safety properties of module TaskHost for any number of    *)
(* threads, workers, tasks, ports, requests and files.                     *)
(*                                                                         *)
(* A request is a sequence of steps between which other threads run, so    *)
(* what a thread has learnt must still hold when it uses it.  Program says *)
(* which steps may follow which in what a request has left to do; it is    *)
(* closed under dropping the first step. ThreadInv says what the steps     *)
(* already done guarantee: the task looked up stays registered, the name   *)
(* in the request stood for that task, and the worker stays recorded under *)
(* a name that did.  That is kept while other threads run because the      *)
(* tables only grow (Grows): no id is withdrawn, an entry of the worker    *)
(* table never changes, and what a name once stood for is not forgotten,   *)
(* though an alias may since stand for another task.  FileInv adds to FilesHaveOneOwner that descriptors in   *)
(* use are below the next one and that no file taken by clear_fds is still *)
(* in a table.                                                             *)
(***************************************************************************)
EXTENDS TaskHost, TLAPS, NaturalsInduction, WellFoundedInduction, SequenceTheorems

(* The names of the steps, the payloads posted, and the types of requests and threads. *)
StepNames ==
  {"lookup", "aliases", "check", "target", "target_alias", "record", "record_id", "next", "insert", "worker", "running", "install", "started", "upsert",
   "handoff", "push", "exit", "write", "alias", "update_alias", "take"}
Values == {"none"} \cup {r.value : r \in Requests}
RequestType ==
  [name : Names, worker : Workers \cup {None}, target : Names, port : Ports \cup {None}, fds : Descriptors,
   alias : Aliases \cup {None}, fd : Nat, value : Values, from : Handles, steps : Seq(StepNames)]
ThreadType ==
  [req : RequestType, steps : Seq(StepNames), task : Nat, old : Aliases \cup {None}, taken : SUBSET Nat]

(* The two halves of a lookup; the steps still to do. *)
Lookups == {"lookup", "aliases"}
Left(s) == {s[i] : i \in 1..Len(s)}

(* The shape of the steps s that a request r has to go. *)
Program(r, s) ==
  \A i \in 1..Len(s) :
    /\ s[i] \in {"upsert", "handoff"} => r.port \in Ports
    /\ s[i] \in {"record", "record_id", "handoff", "worker"} => r.worker \in Workers
    /\ s[i] = "install" => i < Len(s) /\ Len(s) - i <= Len(r.fds)
    /\ s[i] = "next" => i < Len(s) /\ s[i + 1] = "insert" /\ Left(s) \cap {"worker", "upsert", "record"} = {}
    /\ s[i] = "push" /\ r.value = "PortHandoff" => r.port \in Ports /\ r.from.worker \in Workers
    /\ s[i] = "record" => \A j \in i..Len(s) : s[j] \notin Lookups
    /\ s[i] \in {"worker", "upsert", "handoff"} => \A j \in i..Len(s) : s[j] \notin Lookups \cup {"record", "record_id"}
    /\ s[i] \in Lookups =>
         \/ r.worker = None
         \/ Left(s) \cap {"worker", "upsert"} = {}
         \/ \E k \in i..Len(s) : s[k] \in {"record", "record_id"}

(* Ids are numbers; None is neither a worker nor an alias. *)
LEMMA NameFacts ==
  /\ None \notin Workers /\ None \notin Aliases /\ Ids \subseteq Nat /\ 1 \in Ids
BY NoneIsNoName, TaskBounds DEF Ids

(* Doing the first step leaves the others. *)
LEMMA TailFacts ==
  ASSUME NEW s \in Seq(StepNames), s # <<>>
  PROVE  /\ Tail(s) \in Seq(StepNames) /\ Len(Tail(s)) = Len(s) - 1 /\ Len(s) \in Nat /\ Len(s) > 0
         /\ \A i \in 1..Len(s) - 1 : Tail(s)[i] = s[i + 1]
         /\ Head(s) = s[1] /\ Head(s) \in Left(s)
         /\ Left(s) = {Head(s)} \cup Left(Tail(s))
<1>1. /\ Tail(s) \in Seq(StepNames) /\ Len(Tail(s)) = Len(s) - 1 /\ Len(s) \in Nat /\ Len(s) > 0
      /\ \A i \in 1..Len(s) - 1 : Tail(s)[i] = s[i + 1]
      /\ Head(s) = s[1]
  BY HeadTailProperties, EmptySeq, LenProperties
<1>2. Head(s) \in Left(s)
  BY <1>1 DEF Left
<1>3. ASSUME NEW e \in Left(Tail(s)) PROVE e \in Left(s)
  <2>1. PICK i \in 1..Len(Tail(s)) : e = Tail(s)[i]
    BY DEF Left
  <2>2. i + 1 \in 1..Len(s) /\ e = s[i + 1]
    BY <1>1, <2>1
  <2> QED BY <2>2 DEF Left
<1>4. ASSUME NEW e \in Left(s), e # Head(s) PROVE e \in Left(Tail(s))
  <2>1. PICK i \in 1..Len(s) : e = s[i]
    BY DEF Left
  <2>2. i - 1 \in 1..Len(Tail(s)) /\ e = Tail(s)[i - 1]
    BY <1>1, <1>4, <2>1
  <2> QED BY <2>2 DEF Left
<1> QED BY <1>1, <1>2, <1>3, <1>4

(* Program is kept by doing the first step; installing a descriptor also drops it from *)
(* the request.                                                                        *)
LEMMA ProgramTail ==
  ASSUME NEW r, NEW q, NEW s \in Seq(StepNames), s # <<>>, Program(r, s),
         q.port = r.port, q.worker = r.worker, q.value = r.value, q.from = r.from,
         Len(r.fds) \in Nat,
         IF s[1] = "install" THEN Len(q.fds) = Len(r.fds) - 1 ELSE q.fds = r.fds
  PROVE  Program(q, Tail(s))
<1> DEFINE u == Tail(s)
<1> SUFFICES ASSUME NEW i \in 1..Len(u)
             PROVE  /\ u[i] \in {"upsert", "handoff"} => q.port \in Ports
                    /\ u[i] \in {"record", "record_id", "handoff", "worker"} => q.worker \in Workers
                    /\ u[i] = "install" => i < Len(u) /\ Len(u) - i <= Len(q.fds)
                    /\ u[i] = "next" => i < Len(u) /\ u[i + 1] = "insert" /\ Left(u) \cap {"worker", "upsert", "record"} = {}
                    /\ u[i] = "push" /\ q.value = "PortHandoff" => q.port \in Ports /\ q.from.worker \in Workers
                    /\ u[i] = "record" => \A j \in i..Len(u) : u[j] \notin Lookups
                    /\ u[i] \in {"worker", "upsert", "handoff"}
                         => \A j \in i..Len(u) : u[j] \notin Lookups \cup {"record", "record_id"}
                    /\ u[i] \in Lookups => \/ q.worker = None
                                           \/ Left(u) \cap {"worker", "upsert"} = {}
                                           \/ \E k \in i..Len(u) : u[k] \in {"record", "record_id"}
  BY DEF Program
<1>1. /\ Len(u) = Len(s) - 1 /\ Len(s) \in Nat /\ Len(s) > 0 /\ u[i] = s[i + 1] /\ i + 1 \in 1..Len(s) /\ 1 \in 1..Len(s)
      /\ \A j \in 1..Len(s) - 1 : u[j] = s[j + 1]
      /\ Left(u) \subseteq Left(s)
  BY TailFacts
<1> HIDE DEF u
<1>2. /\ u[i] \in {"upsert", "handoff"} => q.port \in Ports
      /\ u[i] \in {"record", "record_id", "handoff", "worker"} => q.worker \in Workers
      /\ u[i] = "push" /\ q.value = "PortHandoff" => q.port \in Ports /\ q.from.worker \in Workers
  BY <1>1 DEF Program
<1>3. u[i] = "install" => i < Len(u) /\ Len(u) - i <= Len(q.fds)
  <2> SUFFICES ASSUME u[i] = "install" PROVE i < Len(u) /\ Len(u) - i <= Len(q.fds)
    OBVIOUS
  <2>1. i + 1 < Len(s) /\ Len(s) - (i + 1) <= Len(r.fds)
    BY <1>1 DEF Program
  <2>2. CASE s[1] = "install"
    <3>1. Len(s) - 1 <= Len(r.fds)
      BY <1>1, <2>2 DEF Program
    <3> QED BY <1>1, <2>1, <2>2, <3>1
  <2>3. CASE s[1] # "install"
    BY <1>1, <2>1, <2>3
  <2> QED BY <2>2, <2>3
<1>4. u[i] = "next" => i < Len(u) /\ u[i + 1] = "insert" /\ Left(u) \cap {"worker", "upsert", "record"} = {}
  <2> SUFFICES ASSUME u[i] = "next" PROVE i < Len(u) /\ u[i + 1] = "insert" /\ Left(u) \cap {"worker", "upsert", "record"} = {}
    OBVIOUS
  <2>1. i + 1 < Len(s) /\ s[i + 1 + 1] = "insert" /\ Left(s) \cap {"worker", "upsert", "record"} = {}
    BY <1>1 DEF Program
  <2>2. i < Len(u) /\ u[i + 1] = s[i + 1 + 1]
    BY <1>1, <2>1
  <2> QED BY <1>1, <2>1, <2>2
<1>5. ASSUME u[i] = "record", NEW j \in i..Len(u) PROVE u[j] \notin Lookups
  <2>1. j + 1 \in (i + 1)..Len(s) /\ u[j] = s[j + 1]
    BY <1>1, SMTT(30)
  <2> QED BY <1>1, <1>5, <2>1 DEF Program
<1>6. u[i] \in Lookups => \/ q.worker = None
                          \/ Left(u) \cap {"worker", "upsert"} = {}
                          \/ \E k \in i..Len(u) : u[k] \in {"record", "record_id"}
  <2> SUFFICES ASSUME u[i] \in Lookups, NEW k \in (i + 1)..Len(s), s[k] \in {"record", "record_id"}
               PROVE  \E m \in i..Len(u) : u[m] \in {"record", "record_id"}
    BY <1>1 DEF Program
  <2>1. k - 1 \in i..Len(u) /\ u[k - 1] = s[k]
    BY <1>1, SMTT(30)
  <2> QED BY <2>1
<1>7. ASSUME u[i] \in {"worker", "upsert", "handoff"}, NEW j \in i..Len(u)
      PROVE  u[j] \notin Lookups \cup {"record", "record_id"}
  <2>1. j + 1 \in (i + 1)..Len(s) /\ u[j] = s[j + 1]
    BY <1>1, SMTT(30)
  <2> QED BY <1>1, <1>7, <2>1 DEF Program
<1> QED BY <1>2, <1>3, <1>4, <1>5, <1>6, <1>7

(* A lookup that does not find an id tries the aliases: the rest of the program is as it *)
(* was.                                                                                  *)
LEMMA ProgramTries ==
  ASSUME NEW r, NEW s \in Seq(StepNames), s # <<>>, Program(r, s), NEW e,
         \/ s[1] = "lookup" /\ e = "aliases"
         \/ s[1] = "target" /\ e = "target_alias"
  PROVE  /\ [s EXCEPT ![1] = e] \in Seq(StepNames) /\ [s EXCEPT ![1] = e] # <<>>
         /\ [s EXCEPT ![1] = e][1] = e
         /\ Left([s EXCEPT ![1] = e]) = {e} \cup Left(Tail(s))
         /\ Program(r, [s EXCEPT ![1] = e])
<1> DEFINE u == [s EXCEPT ![1] = e]
<1>1. e \in StepNames /\ Len(s) \in Nat /\ Len(s) > 0 /\ s \in [1..Len(s) -> StepNames]
  BY TailFacts, LenProperties DEF StepNames
<1>2. u \in [1..Len(s) -> StepNames] /\ u[1] = e /\ \A i \in 2..Len(s) : u[i] = s[i]
  BY <1>1
<1>3. u \in Seq(StepNames) /\ Len(u) = Len(s) /\ u # <<>>
  <2> HIDE DEF u
  <2>1. u \in Seq(StepNames) /\ Len(u) = Len(s)
    BY <1>1, <1>2
  <2> QED BY <1>1, <2>1
<1> HIDE DEF u
<1>4. Left(u) = {e} \cup Left(Tail(s))
  <2>1. /\ Len(Tail(s)) = Len(s) - 1 /\ \A i \in 1..Len(s) - 1 : Tail(s)[i] = s[i + 1]
    BY TailFacts
  <2>2. ASSUME NEW f \in Left(u), f # e PROVE f \in Left(Tail(s))
    <3>1. PICK i \in 1..Len(u) : f = u[i]
      BY DEF Left
    <3>2. i - 1 \in 1..Len(Tail(s)) /\ f = Tail(s)[i - 1]
      BY <1>1, <1>2, <1>3, <2>1, <2>2, <3>1
    <3> QED BY <3>2 DEF Left
  <2>3. ASSUME NEW f \in Left(Tail(s)) PROVE f \in Left(u)
    <3>1. PICK i \in 1..Len(Tail(s)) : f = Tail(s)[i]
      BY DEF Left
    <3>2. i + 1 \in 1..Len(u) /\ f = u[i + 1]
      BY <1>1, <1>2, <1>3, <2>1, <3>1
    <3> QED BY <3>2 DEF Left
  <2>4. e \in Left(u)
    BY <1>1, <1>2, <1>3 DEF Left
  <2> QED BY <2>2, <2>3, <2>4
<1>5. Program(r, u)
  <2> SUFFICES ASSUME NEW i \in 1..Len(s)
               PROVE  /\ u[i] \in {"upsert", "handoff"} => r.port \in Ports
                      /\ u[i] \in {"record", "record_id", "handoff", "worker"} => r.worker \in Workers
                      /\ u[i] = "install" => i < Len(s) /\ Len(s) - i <= Len(r.fds)
                      /\ u[i] = "next" => i < Len(s) /\ u[i + 1] = "insert" /\ Left(u) \cap {"worker", "upsert", "record"} = {}
                      /\ u[i] = "push" /\ r.value = "PortHandoff" => r.port \in Ports /\ r.from.worker \in Workers
                      /\ u[i] = "record" => \A j \in i..Len(s) : u[j] \notin Lookups
                      /\ u[i] \in {"worker", "upsert", "handoff"}
                           => \A j \in i..Len(s) : u[j] \notin Lookups \cup {"record", "record_id"}
                      /\ u[i] \in Lookups => \/ r.worker = None
                                             \/ Left(u) \cap {"worker", "upsert"} = {}
                                             \/ \E k \in i..Len(s) : u[k] \in {"record", "record_id"}
    BY <1>3 DEF Program
  <2>1. Left(s) = {s[1]} \cup Left(Tail(s))
    BY TailFacts
  <2>2. \A f \in {"worker", "upsert", "record"} : f \in Left(u) <=> f \in Left(s)
    BY <1>4, <2>1
  <2>3. CASE i = 1
    <3>1. u[1] \notin {"upsert", "handoff", "record", "record_id", "worker", "install", "next", "push"}
      BY <1>2
    <3>2. u[1] \in Lookups => \/ r.worker = None
                             \/ Left(u) \cap {"worker", "upsert"} = {}
                             \/ \E k \in 1..Len(s) : u[k] \in {"record", "record_id"}
      <4> SUFFICES ASSUME u[1] \in Lookups, r.worker # None, Left(u) \cap {"worker", "upsert"} # {}
                   PROVE  \E k \in 1..Len(s) : u[k] \in {"record", "record_id"}
        OBVIOUS
      <4>1. s[1] = "lookup" /\ 1 \in 1..Len(s) /\ Left(s) \cap {"worker", "upsert"} # {}
        BY <1>1, <1>2, <2>2 DEF Lookups
      <4>2. PICK k \in 1..Len(s) : s[k] \in {"record", "record_id"}
        BY <4>1 DEF Program, Lookups
      <4>3. k \in 2..Len(s)
        BY <4>1, <4>2
      <4> QED BY <1>2, <4>2, <4>3
    <3> QED BY <2>3, <3>1, <3>2
  <2>4. CASE i # 1
    <3>1. i \in 2..Len(s) /\ u[i] = s[i] /\ \A j \in i..Len(s) : j \in 2..Len(s) /\ u[j] = s[j]
      BY <1>1, <1>2, <2>4
    <3>2. u[i] = "next" => i < Len(s) /\ u[i + 1] = "insert" /\ Left(u) \cap {"worker", "upsert", "record"} = {}
      <4> SUFFICES ASSUME s[i] = "next" PROVE i < Len(s) /\ u[i + 1] = "insert" /\ Left(u) \cap {"worker", "upsert", "record"} = {}
        BY <3>1
      <4>1. i < Len(s) /\ s[i + 1] = "insert" /\ Left(s) \cap {"worker", "upsert", "record"} = {}
        BY DEF Program
      <4>2. i + 1 \in i..Len(s)
        BY <1>1, <4>1
      <4> QED BY <2>2, <3>1, <4>1, <4>2
    <3>3. s[i] \in Lookups => \/ r.worker = None
                             \/ Left(u) \cap {"worker", "upsert"} = {}
                             \/ \E k \in i..Len(s) : u[k] \in {"record", "record_id"}
      BY <2>2, <3>1 DEF Program
    <3>4. s[i] = "record" => \A j \in i..Len(s) : u[j] \notin Lookups
      BY <3>1 DEF Program
    <3>5. s[i] \in {"worker", "upsert", "handoff"} => \A j \in i..Len(s) : u[j] \notin Lookups \cup {"record", "record_id"}
      BY <3>1 DEF Program
    <3>6. /\ s[i] \in {"upsert", "handoff"} => r.port \in Ports
          /\ s[i] \in {"record", "record_id", "handoff", "worker"} => r.worker \in Workers
          /\ s[i] = "install" => i < Len(s) /\ Len(s) - i <= Len(r.fds)
          /\ s[i] = "push" /\ r.value = "PortHandoff" => r.port \in Ports /\ r.from.worker \in Workers
      BY DEF Program
    <3> QED BY <3>1, <3>2, <3>3, <3>4, <3>5, <3>6
  <2> QED BY <2>3, <2>4
<1> QED BY <1>2, <1>3, <1>4, <1>5 DEF u

(* A request is typed, has a program, begins with a lookup, and records its worker before *)
(* it hands a port over.                                                                  *)
RequestOK(r) ==
  /\ r \in RequestType /\ Program(r, r.steps) /\ r.steps # <<>> /\ r.steps[1] = "lookup"
  /\ "handoff" \in Left(r.steps) => "record" \in Left(r.steps)

(* The request of no thread is typed. *)
LEMMA NoRequestTyped == NoRequest \in RequestType
<1>1. <<>> \in Descriptors /\ <<>> \in Seq(StepNames)
  BY EmptySeq DEF Descriptors
<1>2. 1 \in Names /\ [worker |-> None, name |-> 1] \in Handles
  BY NameFacts DEF Names, Handles
<1> QED BY <1>1, <1>2 DEF NoRequest, RequestType, Values

(* A port is handed over by a request of that kind, made as such or in a message. *)
LEMMA HandoffFacts ==
  ASSUME NEW w \in Workers, NEW n \in Names, NEW p \in Ports, NEW to \in Names, NEW r, r = handoff_port(w, n, to, p)
  PROVE  RequestOK(r)
<1> USE NameFacts
<1>1. r.steps = <<"lookup", "check", "target", "record", "handoff">> /\ r.worker = w /\ r.port = p
  BY DEF handoff_port, NoRequest
<1>2. r \in RequestType
  <2>1. <<"lookup", "check", "target", "record", "handoff">> \in Seq(StepNames)
    BY DEF StepNames
  <2> QED BY NoRequestTyped, <2>1 DEF handoff_port, RequestType
<1> QED BY <1>1, <1>2 DEF RequestOK, Program, Left, Lookups

(* Every request the host accepts is of that kind. *)
LEMMA RequestFacts ==
  ASSUME NEW r \in Requests
  PROVE  RequestOK(r)
<1> USE NameFacts
<1>0. NoRequest \in RequestType
  BY NoRequestTyped
<1>1. ASSUME NEW w \in Workers, NEW n \in Names, r = spawn_worker(w, n) PROVE RequestOK(r)
  <2>1. r.steps = <<"lookup", "next", "insert", "record_id">> /\ r.worker = w
    BY <1>1 DEF spawn_worker, NoRequest
  <2>2. r \in RequestType
    <3>1. <<"lookup", "next", "insert", "record_id">> \in Seq(StepNames)
      BY DEF StepNames
    <3> QED BY <1>0, <1>1, <3>1 DEF spawn_worker, RequestType
  <2> QED BY <2>1, <2>2 DEF RequestOK, Program, Left, Lookups
<1>2. ASSUME NEW w \in Workers, NEW n \in Names, r.fds \in Descriptors, r = start_worker(w, n, r.fds) PROVE RequestOK(r)
  <2> DEFINE k == Len(r.fds)
             a == <<"lookup", "check", "record", "worker", "running">>
             b == [i \in 1..k |-> "install"]
             s == a \o b \o <<"started">>
  <2>1. k \in Nat /\ a \in Seq(StepNames) /\ b \in Seq(StepNames) /\ <<"started">> \in Seq(StepNames) /\ Len(b) = k
    <3>1. k \in Nat
      BY <1>2, LenProperties DEF Descriptors
    <3>2. b \in Seq(StepNames) /\ Len(b) = k
      <4>1. b \in [1..k -> StepNames]
        BY DEF StepNames
      <4> HIDE DEF b, k
      <4> QED BY <3>1, <4>1 DEF b
    <3> QED BY <3>1, <3>2 DEF StepNames
  <2>2. /\ s \in Seq(StepNames) /\ Len(s) = k + 6
        /\ s[1] = "lookup" /\ s[2] = "check" /\ s[3] = "record" /\ s[4] = "worker" /\ s[5] = "running"
        /\ \A i \in 6..k + 5 : s[i] = "install"
        /\ s[k + 6] = "started"
    <3> DEFINE c == a \o b
    <3>1. c \in Seq(StepNames) /\ Len(c) = k + 5 /\ \A i \in 1..k + 5 : c[i] = IF i <= 5 THEN a[i] ELSE b[i - 5]
      BY <2>1, ConcatProperties
    <3> HIDE DEF c, b, k
    <3>2. s \in Seq(StepNames) /\ Len(s) = k + 6 /\ \A i \in 1..k + 6 : s[i] = IF i <= k + 5 THEN c[i] ELSE <<"started">>[i - (k + 5)]
      BY <2>1, <3>1, ConcatProperties DEF c
    <3>3. \A i \in 6..k + 5 : s[i] = b[i - 5]
      BY <2>1, <3>1, <3>2
    <3>4. \A i \in 1..k : b[i] = "install"
      BY DEF b
    <3>5. ASSUME NEW i \in 6..k + 5 PROVE s[i] = "install"
      BY <2>1, <3>3, <3>4
    <3>6. s[1] = "lookup" /\ s[2] = "check" /\ s[3] = "record" /\ s[4] = "worker" /\ s[5] = "running" /\ s[k + 6] = "started"
      BY <2>1, <3>1, <3>2
    <3> QED BY <3>2, <3>5, <3>6
  <2>3. r.steps = s /\ r.worker = w
    BY <1>2 DEF start_worker, NoRequest
  <2>4. r \in RequestType
    <3>1. r = [NoRequest EXCEPT !.worker = w, !.name = n, !.fds = r.fds, !.steps = s]
      BY <1>2 DEF start_worker
    <3> HIDE DEF s
    <3> QED BY <1>0, <1>2, <2>2, <3>1, ZenonT(40) DEF RequestType
  <2> HIDE DEF s, b, k
  <2>5. \A i \in 1..Len(s) : s[i] \in {"lookup", "check", "record", "worker", "running", "install", "started"}
    BY <2>1, <2>2
  <2>6. /\ \A i \in 1..Len(s) : s[i] = "install" => i < Len(s) /\ Len(s) - i <= k
        /\ \A i \in 1..Len(s) : s[i] = "record" => i = 3
        /\ \A i \in 1..Len(s) : s[i] = "lookup" => i = 1
        /\ \A i \in 1..Len(s) : s[i] = "worker" => i = 4
    BY <2>1, <2>2
  <2>7. Program(r, s)
    <3>1. \A i \in 1..Len(s) : \A j \in i..Len(s) : s[i] = "record" => s[j] \notin Lookups
      BY <2>1, <2>2, <2>5, <2>6 DEF Lookups
    <3>2. \A i \in 1..Len(s) : \A j \in i..Len(s) : s[i] = "worker" => s[j] \notin Lookups \cup {"record", "record_id"}
      BY <2>1, <2>2, <2>5, <2>6 DEF Lookups
    <3>3. \A i \in 1..Len(s) : s[i] = "lookup" => \E m \in i..Len(s) : s[m] \in {"record", "record_id"}
      BY <2>1, <2>2, <2>6
    <3> QED BY <2>1, <2>3, <2>5, <2>6, <3>1, <3>2, <3>3 DEF Program, Lookups, k
  <2>8. "handoff" \notin Left(s)
    BY <2>5 DEF Left
  <2> QED BY <2>1, <2>2, <2>3, <2>4, <2>7, <2>8 DEF RequestOK
<1>3. ASSUME NEW w \in Workers, NEW n \in Names, NEW p \in Ports, NEW to \in Names, r = open_port(w, n, p) PROVE RequestOK(r)
  <2>1. r.steps = <<"lookup", "check", "record", "upsert">> /\ r.worker = w /\ r.port = p
    BY <1>3 DEF open_port, NoRequest
  <2>2. r \in RequestType
    <3>1. <<"lookup", "check", "record", "upsert">> \in Seq(StepNames)
      BY DEF StepNames
    <3> QED BY <1>0, <1>3, <3>1 DEF open_port, RequestType
  <2> QED BY <2>1, <2>2 DEF RequestOK, Program, Left, Lookups
<1>4. ASSUME NEW w \in Workers, NEW n \in Names, NEW p \in Ports, NEW to \in Names, r = handoff_port(w, n, to, p) PROVE RequestOK(r)
  BY <1>4, HandoffFacts
<1>5. ASSUME NEW w \in Workers \cup {None}, NEW n \in Names, NEW to \in Names, NEW p \in Ports \cup {None},
             r.value \in STRING, r.fd \in Nat, r.from \in Handles,
             PostsAboutPort(r) => p \in Ports,
             r.value = "PortHandoff" => r.from.worker \in Workers,
             r = post_message(w, n, r.value, p, r.from, to, r.fd)
      PROVE RequestOK(r)
  <2> DEFINE a == IF w = None THEN <<>> ELSE <<"record_id">>
             b == CASE r.value = "PortOpened" -> <<"upsert">>
                    [] r.value \in {"Ready", "PortHandoff"} -> <<>>
                    [] r.value = "FdData" -> <<"write">>
                    [] OTHER -> <<"exit">>
             s == <<"lookup">> \o a \o <<"push">> \o b
  <2>1. r = [NoRequest EXCEPT !.worker = w, !.name = n, !.value = r.value, !.port = p, !.from = r.from, !.target = to, !.fd = r.fd, !.steps = s]
    BY <1>5 DEF post_message
  <2>2. a \in Seq(StepNames) /\ b \in Seq(StepNames)
    <3>1. \A e \in StepNames : <<e>> \in Seq(StepNames)
      BY DEF StepNames
    <3>2. {"record_id", "upsert", "write", "exit"} \subseteq StepNames /\ <<>> \in Seq(StepNames)
      BY DEF StepNames
    <3> HIDE DEF StepNames
    <3>3. a \in Seq(StepNames)
      BY <3>1, <3>2
    <3>4. b \in Seq(StepNames)
      BY <3>1, <3>2
    <3> QED BY <3>3, <3>4
  <2>3. (w = None /\ Len(a) = 0 /\ a = <<>>) \/ (w \in Workers /\ Len(a) = 1 /\ a[1] = "record_id" /\ a # <<>>)
    <3>1. CASE w = None
      <4>1. a = <<>>
        BY <3>1
      <4> HIDE DEF a
      <4> QED BY <3>1, <4>1
    <3>2. CASE w # None
      <4>1. a = <<"record_id">>
        BY <3>2
      <4> HIDE DEF a
      <4> QED BY <3>2, <4>1
    <3> QED BY <3>1, <3>2
  <2>4. /\ s \in Seq(StepNames) /\ Len(s) = 2 + Len(a) + Len(b)
        /\ s[1] = "lookup" /\ s[2 + Len(a)] = "push" /\ (a # <<>> => s[2] = "record_id")
        /\ \A i \in 1..Len(b) : s[2 + Len(a) + i] = b[i]
    <3> DEFINE h == <<"lookup">>
               m == <<"push">>
    <3>1. h \in Seq(StepNames) /\ Len(h) = 1 /\ h[1] = "lookup" /\ m \in Seq(StepNames) /\ Len(m) = 1 /\ m[1] = "push"
      BY DEF StepNames
    <3>2. Len(a) \in Nat /\ Len(b) \in Nat /\ (a # <<>> => Len(a) = 1 /\ a[1] = "record_id")
      BY <2>2, <2>3
    <3> HIDE DEF a, b, h, m
    <3> DEFINE c == h \o a
               d == c \o m
    <3>3. /\ c \in Seq(StepNames) /\ Len(c) = 1 + Len(a)
          /\ c[1] = "lookup" /\ (a # <<>> => c[2] = "record_id")
      <4>1. c \in Seq(StepNames) /\ Len(c) = Len(h) + Len(a) /\ \A i \in 1..Len(h) + Len(a) : c[i] = IF i <= Len(h) THEN h[i] ELSE a[i - Len(h)]
        BY <2>2, <3>1, ConcatProperties
      <4> HIDE DEF c
      <4>2. \A i \in 1..1 + Len(a) : c[i] = IF i <= 1 THEN h[i] ELSE a[i - 1]
        BY <3>1, <4>1
      <4> QED BY <3>1, <3>2, <4>1, <4>2
    <3> HIDE DEF c
    <3>4. /\ d \in Seq(StepNames) /\ Len(d) = 2 + Len(a) /\ d[2 + Len(a)] = "push"
          /\ d[1] = "lookup" /\ (a # <<>> => d[2] = "record_id")
      <4>1. d \in Seq(StepNames) /\ Len(d) = Len(c) + Len(m) /\ \A i \in 1..Len(c) + Len(m) : d[i] = IF i <= Len(c) THEN c[i] ELSE m[i - Len(c)]
        BY <3>1, <3>3, ConcatProperties
      <4> HIDE DEF d
      <4>2. \A i \in 1..2 + Len(a) : d[i] = IF i <= 1 + Len(a) THEN c[i] ELSE m[i - (1 + Len(a))]
        BY <3>1, <3>2, <3>3, <4>1
      <4> QED BY <3>1, <3>2, <3>3, <4>1, <4>2
    <3> HIDE DEF d
    <3>5. s = d \o b
      BY DEF s, d, c, h, m
    <3> QED BY <2>2, <3>2, <3>4, <3>5, ConcatProperties
  <2>5. r.worker = w /\ r.port = p /\ r.steps = s
    <3> HIDE DEF s
    <3> QED BY <2>1 DEF NoRequest
  <2>6. r \in RequestType
    <3> HIDE DEF s
    <3>1. r.value \in Values
      BY DEF Values
    <3> QED BY <1>0, <1>5, <2>1, <2>4, <3>1, ZenonT(40) DEF RequestType
  <2> HIDE DEF a, s
  <2>7. /\ w = None => /\ Len(s) = 2 + Len(b) /\ s[1] = "lookup" /\ s[2] = "push"
                       /\ 1 \in 1..Len(b) => s[3] = b[1]
        /\ w # None => /\ Len(s) = 3 + Len(b) /\ s[1] = "lookup" /\ s[2] = "record_id" /\ s[3] = "push"
                       /\ \A i \in 1..Len(b) : s[3 + i] = b[i]
    <3>1. Len(b) \in Nat
      BY <2>2, LenProperties
    <3> HIDE DEF b
    <3>2. CASE w = None
      <4>1. Len(a) = 0
        BY <2>3, <3>2, NameFacts
      <4> QED BY <2>4, <3>1, <3>2, <4>1
    <3>3. CASE w # None
      <4>1. Len(a) = 1 /\ a # <<>>
        BY <2>3, <3>3
      <4> QED BY <2>4, <3>1, <3>3, <4>1
    <3> QED BY <3>2, <3>3
  <2>8. CASE r.value = "PortOpened"
    <3>0. b = <<"upsert">>
      BY <2>8
    <3> HIDE DEF b
    <3>1. p \in Ports /\ Len(b) = 1 /\ b[1] = "upsert"
      BY <1>5, <2>8, <3>0 DEF PostsAboutPort
    <3>2. CASE w = None
      <4>1. Len(s) = 3 /\ s[1] = "lookup" /\ s[2] = "push" /\ s[3] = "upsert"
        BY <2>7, <3>1, <3>2
      <4>2. Left(s) = {"lookup", "push", "upsert"}
        BY <4>1 DEF Left
      <4>3. Program(r, s)
        BY <2>5, <2>8, <3>1, <3>2, <4>1, <4>2 DEF Program, Lookups
      <4> QED BY <2>4, <2>5, <2>6, <4>1, <4>2, <4>3 DEF RequestOK
    <3>3. CASE w # None
      <4>1. Len(s) = 4 /\ s[1] = "lookup" /\ s[2] = "record_id" /\ s[3] = "push" /\ s[4] = "upsert"
        BY <2>7, <3>1, <3>3
      <4>2. Left(s) = {"lookup", "record_id", "push", "upsert"}
        BY <4>1 DEF Left
      <4>3. \A i \in 1..Len(s) : s[i] = "lookup" => \E k \in i..Len(s) : s[k] \in {"record", "record_id"}
        BY <4>1
      <4>4. Program(r, s)
        BY <2>5, <2>8, <3>1, <3>3, <4>1, <4>2, <4>3 DEF Program, Lookups
      <4> QED BY <2>4, <2>5, <2>6, <4>1, <4>2, <4>4 DEF RequestOK
    <3> QED BY <3>2, <3>3
  <2>9. CASE r.value # "PortOpened"
    <3>0. b = <<>> \/ b = <<"write">> \/ b = <<"exit">>
      BY <2>9
    <3>p. r.value = "PortHandoff" => p \in Ports /\ r.from.worker \in Workers
      BY <1>5 DEF PostsAboutPort
    <3> HIDE DEF b
    <3>1. Len(b) = 0 \/ (Len(b) = 1 /\ b[1] \in {"write", "exit"})
      <4>1. CASE b = <<>>
        <5>1. Len(b) = 0
          BY <4>1
        <5> QED BY <5>1
      <4>2. CASE b = <<"write">>
        BY <4>2
      <4>3. CASE b = <<"exit">>
        BY <4>3
      <4> QED BY <3>0, <4>1, <4>2, <4>3
    <3>2. CASE w = None
      <4>1. CASE Len(b) = 0
        <5>1. Len(s) = 2 /\ s[1] = "lookup" /\ s[2] = "push"
          BY <2>7, <3>2, <4>1
        <5>2. Left(s) = {"lookup", "push"}
          BY <5>1 DEF Left
        <5>3. Program(r, s)
          BY <2>5, <3>2, <3>p, <5>1, <5>2 DEF Program, Lookups
        <5> QED BY <2>4, <2>5, <2>6, <5>1, <5>2, <5>3 DEF RequestOK
      <4>2. CASE Len(b) = 1 /\ b[1] \in {"write", "exit"}
        <5>1. Len(s) = 3 /\ s[1] = "lookup" /\ s[2] = "push" /\ s[3] \in {"write", "exit"}
          BY <2>7, <3>2, <4>2
        <5>2. Left(s) \subseteq {"lookup", "push", "write", "exit"}
          BY <5>1 DEF Left
        <5>3. Program(r, s)
          BY <2>5, <3>2, <3>p, <5>1, <5>2 DEF Program, Lookups
        <5> QED BY <2>4, <2>5, <2>6, <5>1, <5>2, <5>3 DEF RequestOK
      <4> QED BY <3>1, <4>1, <4>2
    <3>3. CASE w # None
      <4>1. CASE Len(b) = 0
        <5>1. Len(s) = 3 /\ s[1] = "lookup" /\ s[2] = "record_id" /\ s[3] = "push"
          BY <2>7, <3>3, <4>1
        <5>2. Left(s) = {"lookup", "record_id", "push"}
          BY <5>1 DEF Left
        <5>3. Program(r, s)
          BY <2>5, <3>3, <3>p, <5>1, <5>2 DEF Program, Lookups
        <5> QED BY <2>4, <2>5, <2>6, <5>1, <5>2, <5>3 DEF RequestOK
      <4>2. CASE Len(b) = 1 /\ b[1] \in {"write", "exit"}
        <5>1. Len(s) = 4 /\ s[1] = "lookup" /\ s[2] = "record_id" /\ s[3] = "push" /\ s[4] \in {"write", "exit"}
          BY <2>7, <3>3, <4>2
        <5>2. Left(s) \subseteq {"lookup", "record_id", "push", "write", "exit"}
          BY <5>1 DEF Left
        <5>3. Program(r, s)
          BY <2>5, <3>3, <3>p, <5>1, <5>2 DEF Program, Lookups
        <5> QED BY <2>4, <2>5, <2>6, <5>1, <5>2, <5>3 DEF RequestOK
      <4> QED BY <3>1, <4>1, <4>2
    <3> QED BY <3>2, <3>3
  <2> QED BY <2>8, <2>9
<1>6. ASSUME NEW n \in Names, NEW al \in Aliases \cup {None}, r = set_alias(n, al) \/ r = clear_fds(n) PROVE RequestOK(r)
  <2>1. r.steps \in {<<"lookup", "alias", "update_alias">>, <<"lookup", "take">>}
    BY <1>6 DEF set_alias, clear_fds, NoRequest
  <2>2. r \in RequestType
    <3>1. <<"lookup", "alias", "update_alias">> \in Seq(StepNames) /\ <<"lookup", "take">> \in Seq(StepNames)
      BY DEF StepNames
    <3> QED BY <1>0, <1>6, <3>1 DEF set_alias, clear_fds, RequestType
  <2> QED BY <2>1, <2>2 DEF RequestOK, Program, Left, Lookups
<1> QED BY <1>1, <1>2, <1>3, <1>4, <1>5, <1>6, RequestsAreBuilt DEF Names

-----------------------------------------------------------------------------
(* What is known of a thread between two of its steps, where id, R, W and N are next_id, *)
(* resources, workers and named.                                                         *)
Belongs(th, W, N) == th.req.worker \in DOMAIN W /\ <<W[th.req.worker], th.task>> \in N
ThreadInv(th, id, R, W, N) ==
  /\ Program(th.req, th.steps)
  /\ (th.steps # <<>> /\ th.steps[1] \notin Lookups) => (th.task \in 1..id /\ (th.task \in R \/ th.steps[1] = "insert"))
  /\ ("record" \in Left(th.steps) /\ Left(th.steps) \cap Lookups = {})
       => (th.req.name \in R \cup Aliases /\ <<th.req.name, th.task>> \in N)
  /\ (Left(th.steps) \cap {"worker", "upsert"} # {} /\ Left(th.steps) \cap (Lookups \cup {"record", "record_id"}) = {})
       => (th.req.worker = None \/ Belongs(th, W, N))
  /\ ("handoff" \in Left(th.steps) /\ "record" \notin Left(th.steps)) => th.req.worker \in DOMAIN W

(* The tables grow: ids, tasks and what names stood for are added, and a worker's entry *)
(* is never changed.                                                                    *)
Grows(id, R, W, N, id2, R2, W2, N2) ==
  /\ id \in Nat /\ id2 \in Nat /\ id <= id2
  /\ R \subseteq R2 /\ N \subseteq N2
  /\ \A w \in DOMAIN W : w \in DOMAIN W2 /\ W2[w] = W[w]

(* What a thread relies on is kept while other threads make the tables grow. *)
LEMMA ThreadKeeps ==
  ASSUME NEW th, NEW id, NEW R, NEW W, NEW N, NEW id2, NEW R2, NEW W2, NEW N2,
         Grows(id, R, W, N, id2, R2, W2, N2), ThreadInv(th, id, R, W, N)
  PROVE  ThreadInv(th, id2, R2, W2, N2)
BY DEF Grows, ThreadInv, Belongs

(* A thread with nothing left to do relies on nothing. *)
LEMMA IdleThread ==
  ASSUME NEW th, NEW id, NEW R, NEW W, NEW N, th.steps = <<>>
  PROVE  ThreadInv(th, id, R, W, N)
<1>1. Len(th.steps) = 0 /\ Left(th.steps) = {}
  BY DEF Left
<1> QED BY <1>1 DEF ThreadInv, Program

(* A step other than lookup and next. *)
LEMMA ThreadAdvances ==
  ASSUME NEW th \in ThreadType, NEW th2, NEW id, NEW R, NEW W, NEW N, NEW id2, NEW R2, NEW W2, NEW N2,
         Grows(id, R, W, N, id2, R2, W2, N2), ThreadInv(th, id, R, W, N),
         th.steps # <<>>, th2.steps = Tail(th.steps), th2.task = th.task,
         th2.req.name = th.req.name, th2.req.worker = th.req.worker, th2.req.port = th.req.port,
         th2.req.value = th.req.value, th2.req.from = th.req.from,
         IF th.steps[1] = "install" THEN Len(th2.req.fds) = Len(th.req.fds) - 1 ELSE th2.req.fds = th.req.fds,
         th.steps[1] \notin {"lookup", "aliases", "next"},
         th.steps[1] = "insert" => th.task \in R2,
         th.steps[1] \in {"record", "record_id"} => Belongs(th, W2, N2)
  PROVE  ThreadInv(th2, id2, R2, W2, N2)
<1> DEFINE s == th.steps
           u == th2.steps
<1>1. s \in Seq(StepNames) /\ Len(th.req.fds) \in Nat
  BY LenProperties DEF ThreadType, RequestType, Descriptors
<1>2. Program(th2.req, u)
  BY <1>1, ProgramTail DEF ThreadInv
<1>3. /\ Len(u) = Len(s) - 1 /\ Len(s) \in Nat /\ Len(s) > 0 /\ Len(u) \in Nat /\ u \in Seq(StepNames)
      /\ s[1] \in Left(s) /\ Left(s) = {s[1]} \cup Left(u) /\ \A i \in 1..Len(u) : u[i] = s[i + 1]
  BY <1>1, TailFacts
<1>4. ThreadInv(th, id2, R2, W2, N2)
  BY ThreadKeeps
<1> HIDE DEF s, u
<1>5. (u # <<>> /\ u[1] \notin Lookups) => (th2.task \in 1..id2 /\ (th2.task \in R2 \/ u[1] = "insert"))
  BY <1>4 DEF ThreadInv, Lookups, s, u
<1>6. ("record" \in Left(u) /\ Left(u) \cap Lookups = {})
        => (th2.req.name \in R2 \cup Aliases /\ <<th2.req.name, th2.task>> \in N2)
  BY <1>3, <1>4 DEF ThreadInv, Lookups, s, u
<1>7. (Left(u) \cap {"worker", "upsert"} # {} /\ Left(u) \cap (Lookups \cup {"record", "record_id"}) = {})
        => (th2.req.worker = None \/ Belongs(th2, W2, N2))
  <2>1. CASE s[1] \in {"record", "record_id"}
    BY <2>1 DEF Belongs, s
  <2>2. CASE s[1] \notin {"record", "record_id"}
    BY <1>3, <1>4, <2>2 DEF ThreadInv, Belongs, Lookups, s, u
  <2> QED BY <2>1, <2>2
<1>8. ("handoff" \in Left(u) /\ "record" \notin Left(u)) => th2.req.worker \in DOMAIN W2
  <2>1. CASE s[1] \in {"record", "record_id"}
    BY <2>1 DEF Belongs, s
  <2>2. CASE s[1] \notin {"record", "record_id"}
    BY <1>3, <1>4, <2>2 DEF ThreadInv, s, u
  <2> QED BY <2>1, <2>2
<1> QED BY <1>2, <1>5, <1>6, <1>7, <1>8 DEF ThreadInv, u

-----------------------------------------------------------------------------
(* A descriptor in use is below next, and a file taken by clear_fds has no descriptor. *)
FileInv ==
  /\ \A t \in Ids : \A fd \in DOMAIN files[t] : fd < next[t]
  /\ \A x \in Threads : thread[x].taken \subseteq 1..opened
  /\ \A x \in Threads : \A t \in Ids : \A fd \in DOMAIN files[t] : files[t][fd] \notin thread[x].taken
  /\ FilesHaveOneOwner

ThreadsInv == \A x \in Threads : ThreadInv(thread[x], next_id, resources, workers, named)
(* The inductive invariant. *)
Typed == TypeOK /\ thread \in [Threads -> ThreadType]
IInv == Typed /\ ThreadsInv /\ WorkerHasOneName /\ FileInv

(* The thread of no request. *)
LEMMA NoThreadFacts == NoThread \in ThreadType /\ NoThread.steps = <<>> /\ NoThread.taken = {}
BY NameFacts, NoRequestTyped, EmptySeq DEF NoThread, ThreadType

(* The initial state satisfies the invariant. *)
LEMMA InitIInv == Init => IInv
<1> SUFFICES ASSUME Init PROVE IInv
  OBVIOUS
<1> USE NameFacts, NoThreadFacts
<1>1. TypeOK
  BY TaskBounds DEF Init, TypeOK, StoodFor, Empty, Ids, Names
<1>2. thread \in [Threads -> ThreadType]
  BY DEF Init
<1>3. ThreadsInv
  BY IdleThread DEF Init, ThreadsInv
<1>4. WorkerHasOneName
  BY DEF Init, WorkerHasOneName, Empty
<1>5. FileInv
  BY DEF Init, FileInv, FilesHaveOneOwner, Empty
<1> QED BY <1>1, <1>2, <1>3, <1>4, <1>5 DEF IInv, Typed

-----------------------------------------------------------------------------
(* What a thread that goes on to its next step looks like. *)
LEMMA GoesFacts ==
  ASSUME Typed, NEW x \in Threads, thread[x].steps # <<>>, Goes(x)
  PROVE  /\ thread' \in [Threads -> ThreadType]
         /\ thread'[x].steps = Tail(thread[x].steps)
         /\ thread'[x].req = thread[x].req /\ thread'[x].task = thread[x].task /\ thread'[x].taken = thread[x].taken
         /\ \A y \in Threads \ {x} : thread'[y] = thread[y]
<1>1. thread[x] \in ThreadType /\ Tail(thread[x].steps) \in Seq(StepNames)
  BY TailFacts DEF Typed, ThreadType
<1> QED BY <1>1 DEF Goes, Typed, ThreadType

(* What a thread whose request failed looks like. *)
LEMMA FailsFacts ==
  ASSUME Typed, NEW x \in Threads, Fails(x)
  PROVE  /\ thread' \in [Threads -> ThreadType]
         /\ thread'[x].steps = <<>> /\ thread'[x].taken = {}
         /\ \A y \in Threads \ {x} : thread'[y] = thread[y]
BY NoThreadFacts DEF Fails, Typed

(* A thread past its lookup has a task, registered unless it is being inserted. *)
LEMMA AtFacts ==
  ASSUME IInv, NEW x \in Threads, NEW e, e \notin {"lookup", "aliases"}, At(x, e)
  PROVE  /\ thread[x].steps # <<>> /\ thread[x].steps[1] = e /\ e \in Left(thread[x].steps)
         /\ thread[x].steps \in Seq(StepNames) /\ thread[x] \in ThreadType /\ 1 \in 1..Len(thread[x].steps)
         /\ thread[x].task \in Ids /\ (e # "insert" => thread[x].task \in resources)
         /\ thread[x].req \in RequestType
<1>1. thread[x] \in ThreadType /\ thread[x].steps \in Seq(StepNames) /\ thread[x].steps # <<>> /\ thread[x].req \in RequestType
  BY DEF At, IInv, Typed, ThreadType
<1>2. thread[x].steps[1] = e /\ e \in Left(thread[x].steps) /\ 1 \in 1..Len(thread[x].steps)
  BY <1>1, TailFacts DEF At
<1>3. thread[x].task \in 1..next_id /\ (thread[x].task \in resources \/ e = "insert")
  BY <1>1, <1>2 DEF IInv, ThreadsInv, ThreadInv, Lookups
<1>4. 1..next_id \subseteq Ids
  BY TaskBounds DEF IInv, Typed, TypeOK, Ids
<1> QED BY <1>1, <1>2, <1>3, <1>4

(* A step of one thread keeps the invariant of all when it keeps its own. *)
LEMMA OthersKeep ==
  ASSUME IInv, NEW x \in Threads, Grows(next_id, resources, workers, named, next_id', resources', workers', named'),
         \A y \in Threads \ {x} : thread'[y] = thread[y],
         ThreadInv(thread'[x], next_id', resources', workers', named')
  PROVE  ThreadsInv'
BY ThreadKeeps DEF IInv, ThreadsInv

(* A step that leaves the tables alone lets them grow. *)
LEMMA SameTables ==
  ASSUME IInv, UNCHANGED <<next_id, resources, workers, named>>
  PROVE  Grows(next_id, resources, workers, named, next_id', resources', workers', named')
BY NameFacts DEF Grows, IInv, Typed, TypeOK

(* A step that ends in going on or failing keeps the threads' invariant, under what the *)
(* step itself must establish: insert registers the task, record makes the worker the   *)
(* task's.                                                                              *)
LEMMA GoesOrFails ==
  ASSUME IInv, NEW x \in Threads, NEW e, e \notin {"lookup", "aliases", "next", "install"}, At(x, e),
         \/ Goes(x) /\ (e \in {"record", "record_id"} => Belongs(thread[x], workers', named'))
         \/ Fails(x),
         Grows(next_id, resources, workers, named, next_id', resources', workers', named'),
         e = "insert" => thread[x].task \in resources'
  PROVE  ThreadsInv' /\ thread' \in [Threads -> ThreadType] /\ \A y \in Threads : thread'[y].taken \subseteq thread[y].taken
<1>0. /\ thread[x].steps # <<>> /\ thread[x].steps[1] = e /\ thread[x] \in ThreadType /\ Typed
      /\ ThreadInv(thread[x], next_id, resources, workers, named)
  BY AtFacts DEF IInv, ThreadsInv
<1>1. CASE Goes(x) /\ (e \in {"record", "record_id"} => Belongs(thread[x], workers', named'))
  <2>1. /\ thread'[x].steps = Tail(thread[x].steps) /\ thread'[x].req = thread[x].req /\ thread'[x].task = thread[x].task
        /\ thread'[x].taken = thread[x].taken
        /\ thread' \in [Threads -> ThreadType]
        /\ \A y \in Threads \ {x} : thread'[y] = thread[y]
    BY <1>0, <1>1, GoesFacts
  <2>2. ThreadInv(thread'[x], next_id', resources', workers', named')
    BY <1>0, <1>1, <2>1, ThreadAdvances
  <2> QED BY <2>1, <2>2, OthersKeep
<1>2. CASE Fails(x)
  <2>1. /\ thread'[x].steps = <<>> /\ thread'[x].taken = {}
        /\ thread' \in [Threads -> ThreadType]
        /\ \A y \in Threads \ {x} : thread'[y] = thread[y]
    BY <1>0, <1>2, FailsFacts
  <2>2. ThreadInv(thread'[x], next_id', resources', workers', named')
    BY <2>1, IdleThread
  <2> QED BY <2>1, <2>2, OthersKeep
<1> QED BY <1>1, <1>2

(* A step that leaves the descriptors alone keeps their invariant. *)
LEMMA FilesKeep ==
  ASSUME IInv, UNCHANGED fdVars, \A y \in Threads : thread'[y].taken \subseteq thread[y].taken
  PROVE  FileInv'
BY DEF IInv, FileInv, FilesHaveOneOwner, fdVars

(* A step that leaves the tables of workers and ports and the tasks' workers alone keeps *)
(* WorkerHasOneName.                                                                     *)
LEMMA WorkersKeep ==
  ASSUME IInv, UNCHANGED <<worker, workers, ports>>, named \subseteq named'
  PROVE  WorkerHasOneName'
BY DEF IInv, WorkerHasOneName, StoodFor

(* A thread that starts on a request, one it takes or one found in a message. *)
LEMMA ServesStep ==
  ASSUME IInv, NEW x \in Threads, NEW r, RequestOK(r), Serves(x, r),
         UNCHANGED <<next_id, resources, aliases, named, alias, worker, workers, ports, fdVars>>
  PROVE  IInv'
<1> USE NameFacts
<1>1. Typed /\ TypeOK /\ thread \in [Threads -> ThreadType]
  BY DEF IInv, Typed
<1> DEFINE th == [NoThread EXCEPT !.req = r, !.steps = r.steps]
<1>3. /\ th.req = r /\ th.steps = r.steps /\ th.taken = {} /\ th \in ThreadType
      /\ r.steps \in Seq(StepNames)
  BY NoThreadFacts DEF NoThread, ThreadType, RequestOK, RequestType
<1>4. thread' = [thread EXCEPT ![x] = th]
  BY DEF Serves
<1> HIDE DEF th
<1>5. thread' \in [Threads -> ThreadType] /\ thread'[x] = th /\ \A y \in Threads \ {x} : thread'[y] = thread[y]
  BY <1>1, <1>3, <1>4
<1>6. "lookup" \in Left(r.steps)
  BY <1>3, TailFacts DEF RequestOK
<1>7. ThreadInv(th, next_id, resources, workers, named)
  BY <1>3, <1>6 DEF ThreadInv, RequestOK, Lookups
<1>8. Grows(next_id, resources, workers, named, next_id', resources', workers', named')
  BY SameTables
<1>9. ThreadsInv'
  BY <1>5, <1>7, <1>8, OthersKeep
<1>10. TypeOK'
  BY <1>1 DEF TypeOK, StoodFor, fdVars
<1>11. FileInv' /\ WorkerHasOneName'
  BY <1>3, <1>5, FilesKeep, WorkersKeep
<1> QED BY <1>5, <1>9, <1>10, <1>11 DEF IInv, Typed

(* A thread that does not find a name among the ids and tries the aliases. *)
LEMMA TriesStep ==
  ASSUME IInv, NEW x \in Threads, NEW d, NEW e, At(x, d), TriesAliases(x, e),
         (d = "lookup" /\ e = "aliases") \/ (d = "target" /\ e = "target_alias"),
         UNCHANGED <<next_id, resources, aliases, named, alias, worker, workers, ports, fdVars>>
  PROVE  IInv'
<1> USE NameFacts
<1> DEFINE s == thread[x].steps
           u == [s EXCEPT ![1] = e]
           th == thread'[x]
<1>1. /\ Typed /\ TypeOK /\ thread \in [Threads -> ThreadType] /\ thread[x] \in ThreadType
      /\ ThreadInv(thread[x], next_id, resources, workers, named)
  BY DEF IInv, Typed, ThreadsInv
<1>2. s \in Seq(StepNames) /\ s # <<>> /\ s[1] = d /\ Left(s) = {d} \cup Left(Tail(s))
  <2>1. s \in Seq(StepNames) /\ s # <<>>
    BY <1>1 DEF At, ThreadType
  <2> QED BY <2>1, TailFacts DEF At
<1>3. /\ u \in Seq(StepNames) /\ u # <<>> /\ u[1] = e /\ Left(u) = {e} \cup Left(Tail(s))
      /\ Program(thread[x].req, u)
  BY <1>1, <1>2, ProgramTries DEF ThreadInv
<1>4. thread' = [thread EXCEPT ![x] = [thread[x] EXCEPT !.steps = u]]
  BY <1>1 DEF TriesAliases, ThreadType
<1> HIDE DEF u
<1>5. /\ thread' \in [Threads -> ThreadType] /\ \A y \in Threads \ {x} : thread'[y] = thread[y]
      /\ th.req = thread[x].req /\ th.task = thread[x].task /\ th.steps = u /\ th.taken = thread[x].taken
  <2>1. [thread[x] EXCEPT !.steps = u] \in ThreadType
    BY <1>1, <1>3 DEF ThreadType
  <2>2. th = [thread[x] EXCEPT !.steps = u] /\ thread' \in [Threads -> ThreadType] /\ \A y \in Threads \ {x} : thread'[y] = thread[y]
    BY <1>1, <1>4, <2>1
  <2> QED BY <1>1, <2>2 DEF ThreadType
<1> HIDE DEF th, s
<1>6. ThreadInv(th, next_id, resources, workers, named)
  BY <1>1, <1>2, <1>3, <1>5 DEF ThreadInv, Belongs, Lookups, s
<1>7. Grows(next_id, resources, workers, named, next_id', resources', workers', named')
  BY SameTables
<1>8. ThreadsInv'
  BY <1>5, <1>6, <1>7, OthersKeep DEF th
<1>9. TypeOK'
  BY <1>1 DEF TypeOK, StoodFor, fdVars
<1>10. FileInv' /\ WorkerHasOneName'
  BY <1>5, FilesKeep, WorkersKeep DEF th
<1> QED BY <1>5, <1>8, <1>9, <1>10 DEF IInv, Typed

-----------------------------------------------------------------------------
(* The steps on the tables keep the invariant; record and port are the ones that could *)
(* break WorkerHasOneName.                                                             *)
LEMMA TableSteps ==
  ASSUME IInv, NEW x \in Threads,
         \/ check(x) \/ target(x) \/ target_alias(x) \/ record(x) \/ insert(x) \/ set_worker(x)
         \/ running(x) \/ started(x) \/ port(x)
         \/ push(x) \/ set_exit(x) \/ write_fd(x) \/ update_alias(x)
  PROVE  IInv'
<1> USE NameFacts
<1>1. Typed /\ TypeOK /\ thread[x] \in ThreadType /\ ThreadInv(thread[x], next_id, resources, workers, named) /\ next_id \in Nat
  BY DEF IInv, Typed, ThreadsInv, TypeOK
<1>0. ASSUME UNCHANGED <<next_id, resources, aliases, named, alias, worker, workers, ports, fdVars>>,
             NEW e, e \notin {"lookup", "aliases", "next", "install", "insert", "record", "record_id"},
             At(x, e), Goes(x) \/ Fails(x)
      PROVE  IInv'
  <2>1. Grows(next_id, resources, workers, named, next_id', resources', workers', named')
    BY <1>0, SameTables
  <2>2. ThreadsInv' /\ thread' \in [Threads -> ThreadType] /\ \A y \in Threads : thread'[y].taken \subseteq thread[y].taken
    BY <1>0, <2>1, GoesOrFails
  <2>3. TypeOK'
    BY <1>0, <1>1 DEF TypeOK, StoodFor, fdVars
  <2>4. FileInv' /\ WorkerHasOneName'
    BY <1>0, <2>2, FilesKeep, WorkersKeep
  <2> QED BY <2>2, <2>3, <2>4 DEF IInv, Typed
<1>2. CASE \/ check(x) \/ target(x) \/ target_alias(x) \/ push(x) \/ set_exit(x) \/ write_fd(x) \/ running(x) \/ started(x)
  <2>1. UNCHANGED <<next_id, resources, aliases, named, alias, worker, workers, ports, fdVars>>
    BY <1>2 DEF check, target, target_alias, push, set_exit, write_fd, running, started, taskVars, hostVars
  <2>2. CASE check(x)
    BY <1>0, <2>1, <2>2 DEF check
  <2>3. CASE target(x)
    BY <1>0, <2>1, <2>3, TriesStep DEF target
  <2>4. CASE target_alias(x)
    BY <1>0, <2>1, <2>4 DEF target_alias
  <2>5. CASE push(x)
    <3> DEFINE r == thread[x].req
    <3>1. CASE r.value # "PortHandoff"
      BY <1>0, <2>1, <2>5, <3>1 DEF push
    <3>2. CASE r.value = "PortHandoff"
      <4>1. At(x, "push") /\ Serves(x, handoff_port(r.from.worker, r.from.name, r.target, r.port))
        BY <2>5, <3>2 DEF push
      <4>2. /\ thread[x].steps[1] = "push" /\ r \in RequestType /\ 1 \in 1..Len(thread[x].steps)
        BY <4>1, AtFacts
      <4>3. r.port \in Ports /\ r.from.worker \in Workers
        BY <1>1, <3>2, <4>2 DEF ThreadInv, Program
      <4>4. r.from.name \in Names /\ r.target \in Names
        BY <4>2 DEF RequestType, Handles
      <4> HIDE DEF r
      <4>5. RequestOK(handoff_port(r.from.worker, r.from.name, r.target, r.port))
        BY <4>3, <4>4, HandoffFacts
      <4> QED BY <2>1, <4>1, <4>5, ServesStep
    <3> QED BY <3>1, <3>2
  <2>6. CASE set_exit(x)
    BY <1>0, <2>1, <2>6 DEF set_exit
  <2>7. CASE write_fd(x)
    BY <1>0, <2>1, <2>7 DEF write_fd
  <2>8. CASE running(x)
    BY <1>0, <2>1, <2>8 DEF running
  <2>9. CASE started(x)
    BY <1>0, <2>1, <2>9 DEF started
  <2> QED BY <1>2, <2>2, <2>3, <2>4, <2>5, <2>6, <2>7, <2>8, <2>9
<1>3. CASE record(x)
  <2>1. UNCHANGED <<next_id, resources, aliases, named, alias, worker, ports, fdVars>>
    BY <1>3 DEF record, taskVars
  <2> DEFINE w == thread[x].req.worker
  <2>2. PICK e \in {"record", "record_id"}, n \in {thread[x].req.name, thread[x].task} :
          /\ At(x, e) /\ Recorded(x, w, n)
          /\ n = IF e = "record" THEN thread[x].req.name ELSE thread[x].task
    BY <1>3 DEF record
  <2>3. /\ thread[x].steps[1] = e /\ thread[x].task \in resources /\ thread[x].task \in Ids /\ e \in Left(thread[x].steps)
        /\ 1 \in 1..Len(thread[x].steps) /\ thread[x].steps \in Seq(StepNames) /\ thread[x].steps # <<>>
    BY <2>2, AtFacts
  <2>4. w \in Workers
    BY <1>1, <2>2, <2>3 DEF ThreadInv, Program
  <2>5. n \in resources \cup Aliases /\ <<n, thread[x].task>> \in named
    <3>1. CASE e = "record"
      <4>1. \A j \in 1..Len(thread[x].steps) : thread[x].steps[j] \notin Lookups
        BY <1>1, <2>3, <3>1 DEF ThreadInv, Program
      <4>2. Left(thread[x].steps) \cap Lookups = {}
        BY <4>1 DEF Left
      <4> QED BY <1>1, <2>2, <2>3, <3>1, <4>2 DEF ThreadInv
    <3>2. CASE e = "record_id"
      BY <1>1, <2>2, <2>3, <3>2 DEF TypeOK, StoodFor
    <3> QED BY <3>1, <3>2
  <2>6. CASE IsOthers(w, n)
    <3>1. Fails(x) /\ UNCHANGED workers
      BY <2>2, <2>6 DEF Recorded
    <3>2. Grows(next_id, resources, workers, named, next_id', resources', workers', named')
      BY <2>1, <3>1, SameTables
    <3>3. ThreadsInv' /\ thread' \in [Threads -> ThreadType] /\ \A y \in Threads : thread'[y].taken \subseteq thread[y].taken
      BY <2>2, <3>1, <3>2, GoesOrFails
    <3>4. TypeOK'
      BY <1>1, <2>1, <3>1 DEF TypeOK, StoodFor, fdVars
    <3>5. FileInv' /\ WorkerHasOneName'
      BY <2>1, <3>1, <3>3, FilesKeep, WorkersKeep
    <3> QED BY <3>3, <3>4, <3>5 DEF IInv, Typed
  <2>7. CASE ~IsOthers(w, n)
    <3>1. workers' = With(workers, w, n) /\ Goes(x)
      BY <2>2, <2>7 DEF Recorded
    <3>2. /\ DOMAIN workers' = DOMAIN workers \cup {w} /\ workers'[w] = n
          /\ \A v \in DOMAIN workers : workers'[v] = workers[v]
      BY <2>7, <3>1 DEF With, IsOthers
    <3>3. Grows(next_id, resources, workers, named, next_id', resources', workers', named')
      BY <1>1, <2>1, <3>2 DEF Grows
    <3>4. Belongs(thread[x], workers', named')
      BY <2>1, <2>5, <3>2 DEF Belongs
    <3>5. ThreadsInv' /\ thread' \in [Threads -> ThreadType] /\ \A y \in Threads : thread'[y].taken \subseteq thread[y].taken
      BY <2>2, <3>1, <3>3, <3>4, GoesOrFails
    <3>6. TypeOK'
      <4>1. DOMAIN workers' \subseteq Workers /\ \A v \in DOMAIN workers' : workers'[v] \in resources' \cup Aliases
        BY <1>1, <2>1, <2>4, <2>5, <3>2 DEF TypeOK
      <4> QED BY <1>1, <2>1, <4>1 DEF TypeOK, StoodFor, fdVars
    <3>7. WorkerHasOneName'
      BY <2>1, <3>2 DEF IInv, WorkerHasOneName, StoodFor
    <3>8. FileInv'
      BY <2>1, <3>5, FilesKeep
    <3> QED BY <3>5, <3>6, <3>7, <3>8 DEF IInv, Typed
  <2> QED BY <2>6, <2>7
<1>4. CASE insert(x)
  <2>1. /\ UNCHANGED <<next_id, aliases, alias, worker, fdVars, workers, ports>>
        /\ resources' = resources \cup {thread[x].task} /\ named' = named \cup {<<thread[x].task, thread[x].task>>}
        /\ At(x, "insert") /\ Goes(x)
    BY <1>4 DEF insert, hostVars
  <2>2. thread[x].task \in 1..next_id /\ thread[x].task \in Ids
    <3>1. thread[x].steps # <<>> /\ thread[x].steps[1] = "insert" /\ thread[x].task \in Ids
      BY <2>1, AtFacts
    <3> QED BY <1>1, <3>1 DEF ThreadInv, Lookups
  <2>3. Grows(next_id, resources, workers, named, next_id', resources', workers', named')
    BY <1>1, <2>1 DEF Grows
  <2>4. ThreadsInv' /\ thread' \in [Threads -> ThreadType] /\ \A y \in Threads : thread'[y].taken \subseteq thread[y].taken
    BY <2>1, <2>3, GoesOrFails
  <2>5. TypeOK'
    <3>1. named' \subseteq Names \X Ids
      BY <1>1, <2>1, <2>2 DEF TypeOK, Names
    <3>2. \A n \in resources' : <<n, n>> \in named'
      BY <1>1, <2>1 DEF TypeOK, StoodFor
    <3>3. \A al \in DOMAIN aliases : aliases[al] \in resources' /\ <<al, aliases[al]>> \in named'
      BY <1>1, <2>1 DEF TypeOK, StoodFor
    <3> QED BY <1>1, <2>1, <2>2, <3>1, <3>2, <3>3 DEF TypeOK, StoodFor, fdVars
  <2>6. FileInv' /\ WorkerHasOneName'
    BY <2>1, <2>4, FilesKeep, WorkersKeep
  <2> QED BY <2>4, <2>5, <2>6 DEF IInv, Typed
<1>5. CASE set_worker(x)
  <2>1. /\ UNCHANGED <<next_id, resources, aliases, named, alias, fdVars, workers, ports>>
        /\ worker' = [worker EXCEPT ![thread[x].task] = thread[x].req.worker] /\ At(x, "worker") /\ Goes(x)
    BY <1>5 DEF set_worker, hostVars
  <2>2. /\ thread[x].steps[1] = "worker" /\ "worker" \in Left(thread[x].steps) /\ thread[x].task \in Ids
        /\ thread[x].steps \in Seq(StepNames) /\ thread[x].steps # <<>> /\ 1 \in 1..Len(thread[x].steps)
    BY <2>1, AtFacts
  <2>3. thread[x].req.worker \in Workers /\ Belongs(thread[x], workers, named)
    <3>1. \A j \in 1..Len(thread[x].steps) : thread[x].steps[j] \notin Lookups \cup {"record", "record_id"}
      BY <1>1, <2>2 DEF ThreadInv, Program
    <3>2. Left(thread[x].steps) \cap (Lookups \cup {"record", "record_id"}) = {}
      BY <3>1 DEF Left
    <3>3. thread[x].req.worker \in Workers
      BY <1>1, <2>2 DEF ThreadInv, Program
    <3> QED BY <1>1, <2>2, <3>2, <3>3 DEF ThreadInv, Lookups
  <2>4. Grows(next_id, resources, workers, named, next_id', resources', workers', named')
    BY <2>1, SameTables
  <2>5. ThreadsInv' /\ thread' \in [Threads -> ThreadType] /\ \A y \in Threads : thread'[y].taken \subseteq thread[y].taken
    BY <2>1, <2>4, GoesOrFails
  <2>6. TypeOK'
    <3>1. worker' \in [Ids -> Workers \cup {None}]
      BY <1>1, <2>1, <2>3 DEF TypeOK
    <3> QED BY <1>1, <2>1, <3>1 DEF TypeOK, StoodFor, fdVars
  <2>7. WorkerHasOneName'
    <3>1. \A t \in Ids : worker'[t] = IF t = thread[x].task THEN thread[x].req.worker ELSE worker[t]
      BY <1>1, <2>1 DEF TypeOK
    <3> QED BY <2>1, <2>3, <3>1 DEF IInv, WorkerHasOneName, StoodFor, Belongs
  <2>8. FileInv'
    BY <2>1, <2>5, FilesKeep
  <2> QED BY <2>5, <2>6, <2>7, <2>8 DEF IInv, Typed
<1>6. CASE port(x)
  <2> DEFINE r == thread[x].req
             p == r.port
             before == IF p \in DOMAIN ports THEN ports[p].targets ELSE {}
  <2>1. UNCHANGED <<next_id, resources, aliases, named, alias, worker, fdVars, workers>> /\ Goes(x)
    BY <1>6 DEF port, taskVars
  <2>2. PICK e \in {"upsert", "handoff"}, owner \in {thread[x].task, r.target}, to \in {{}, {r.target}} :
          /\ At(x, e)
          /\ ports' = With(ports, p, [owner |-> owner, worker |-> r.worker, targets |-> before \cup to])
          /\ e = "upsert" => (owner = thread[x].task /\ to = {})
          /\ e = "handoff" => (owner = r.target /\ to = {r.target})
    BY <1>6 DEF port, upsert_port
  <2>3. /\ thread[x].steps[1] = e /\ e \in Left(thread[x].steps) /\ thread[x].task \in Ids
        /\ thread[x].steps \in Seq(StepNames) /\ thread[x].steps # <<>> /\ 1 \in 1..Len(thread[x].steps)
        /\ r \in RequestType
    BY <2>2, AtFacts
  <2>4. p \in Ports /\ Left(thread[x].steps) \cap (Lookups \cup {"record", "record_id"}) = {} /\ (e = "handoff" => r.worker \in Workers)
    <3>1. \A j \in 1..Len(thread[x].steps) : thread[x].steps[j] \notin Lookups \cup {"record", "record_id"}
      BY <1>1, <2>3 DEF ThreadInv, Program
    <3>2. Left(thread[x].steps) \cap (Lookups \cup {"record", "record_id"}) = {}
      BY <3>1 DEF Left
    <3>3. p \in Ports /\ (e = "handoff" => r.worker \in Workers)
      BY <1>1, <2>3 DEF ThreadInv, Program
    <3> QED BY <3>2, <3>3
  <2>5. /\ e = "upsert" => (r.worker = None \/ Belongs(thread[x], workers, named))
        /\ e = "handoff" => r.worker \in DOMAIN workers
    BY <1>1, <2>3, <2>4 DEF ThreadInv, Lookups
  <2>6. Grows(next_id, resources, workers, named, next_id', resources', workers', named')
    BY <2>1, SameTables
  <2>7. ThreadsInv' /\ thread' \in [Threads -> ThreadType] /\ \A y \in Threads : thread'[y].taken \subseteq thread[y].taken
    BY <2>1, <2>2, <2>6, GoesOrFails
  <2>8. before \subseteq Names /\ owner \in Names /\ to \subseteq Names /\ r.worker \in Workers \cup {None}
    <3>1. r.target \in Names /\ r.worker \in Workers \cup {None} /\ Ids \subseteq Names
      BY <2>3 DEF RequestType, Names
    <3>2. \A q \in DOMAIN ports : ports[q].targets \subseteq Names
      BY <1>1 DEF TypeOK, Records, Names
    <3> QED BY <2>2, <2>3, <3>1, <3>2
  <2>9. /\ DOMAIN ports' = DOMAIN ports \cup {p}
        /\ ports'[p] = [owner |-> owner, worker |-> r.worker, targets |-> before \cup to]
        /\ \A q \in DOMAIN ports \ {p} : ports'[q] = ports[q]
    <3> HIDE DEF before
    <3> QED BY <2>2 DEF With
  <2> HIDE DEF before
  <2>10. TypeOK'
    <3>0. Records = [owner : Names, worker : Workers \cup {None}, targets : SUBSET Names] /\ before \cup to \in SUBSET Names
      BY <2>8 DEF Records, Names
    <3>1. ports'[p] \in Records
      BY <2>8, <2>9, <3>0
    <3>2. DOMAIN ports' \subseteq Ports /\ \A q \in DOMAIN ports' : ports'[q] \in Records
      BY <1>1, <2>4, <2>9, <3>1 DEF TypeOK
    <3> QED BY <1>1, <2>1, <3>2 DEF TypeOK, StoodFor, fdVars
  <2>11. WorkerHasOneName'
    <3>1. ports'[p].worker # None => /\ ports'[p].worker \in DOMAIN workers
                                     /\ \/ <<workers[ports'[p].worker], ports'[p].owner>> \in named
                                        \/ ports'[p].owner \in ports'[p].targets
      <4>1. ports'[p].worker = r.worker /\ ports'[p].owner = owner /\ ports'[p].targets = before \cup to
        BY <2>9
      <4>2. CASE e = "upsert"
        BY <2>2, <2>5, <4>1, <4>2 DEF Belongs
      <4>3. CASE e = "handoff"
        BY <2>2, <2>5, <4>1, <4>3
      <4> QED BY <2>2, <4>2, <4>3
    <3> HIDE DEF p
    <3>2. ASSUME NEW q \in DOMAIN ports'
          PROVE  ports'[q].worker # None => /\ ports'[q].worker \in DOMAIN workers
                                            /\ \/ <<workers[ports'[q].worker], ports'[q].owner>> \in named
                                               \/ ports'[q].owner \in ports'[q].targets
      <4>1. CASE q = p
        BY <3>1, <4>1
      <4>2. CASE q # p
        <5>1. q \in DOMAIN ports /\ ports'[q] = ports[q]
          BY <2>9, <4>2
        <5> QED BY <5>1 DEF IInv, WorkerHasOneName, StoodFor
      <4> QED BY <4>1, <4>2
    <3> QED BY <2>1, <3>2 DEF IInv, WorkerHasOneName, StoodFor
  <2>12. FileInv'
    BY <2>1, <2>7, FilesKeep
  <2> QED BY <2>7, <2>10, <2>11, <2>12 DEF IInv, Typed
<1>7. CASE update_alias(x)
  <2> DEFINE old == thread[x].old
             new == thread[x].req.alias
             without == IF old = None THEN aliases ELSE Without(aliases, old)
  <2>1. /\ UNCHANGED <<next_id, resources, alias, worker, fdVars, workers, ports>> /\ Goes(x) /\ At(x, "update_alias")
        /\ aliases' = IF new = None THEN without ELSE With(without, new, thread[x].task)
        /\ named' = IF new = None THEN named ELSE named \cup {<<new, thread[x].task>>}
    BY <1>7 DEF update_alias, hostVars
  <2>2. thread[x].task \in resources /\ thread[x].task \in Ids /\ new \in Aliases \cup {None}
    <3>1. thread[x].task \in resources /\ thread[x].task \in Ids /\ thread[x].req \in RequestType
      BY <2>1, AtFacts
    <3> QED BY <3>1 DEF RequestType
  <2>3. named \subseteq named' /\ Grows(next_id, resources, workers, named, next_id', resources', workers', named')
    BY <1>1, <2>1 DEF Grows
  <2>4. ThreadsInv' /\ thread' \in [Threads -> ThreadType] /\ \A y \in Threads : thread'[y].taken \subseteq thread[y].taken
    BY <2>1, <2>3, GoesOrFails
  <2>5. DOMAIN without \subseteq Aliases /\ \A al \in DOMAIN without : without[al] \in resources /\ <<al, without[al]>> \in named
    BY <1>1 DEF TypeOK, StoodFor, Without
  <2>6. DOMAIN aliases' \subseteq Aliases /\ \A al \in DOMAIN aliases' : aliases'[al] \in resources /\ <<al, aliases'[al]>> \in named'
    <3> HIDE DEF without, new
    <3>1. CASE new = None
      BY <2>1, <2>5, <3>1
    <3>2. CASE new # None
      BY <2>1, <2>2, <2>5, <3>2 DEF With
    <3> QED BY <3>1, <3>2
  <2>7. TypeOK'
    <3> HIDE DEF without, new
    <3>1. named' \subseteq Names \X Ids /\ \A n \in resources : <<n, n>> \in named'
      BY <1>1, <2>1, <2>2, <2>3 DEF TypeOK, StoodFor, Names
    <3> QED BY <1>1, <2>1, <2>6, <3>1 DEF TypeOK, StoodFor, fdVars
  <2>8. FileInv' /\ WorkerHasOneName'
    BY <2>1, <2>3, <2>4, FilesKeep, WorkersKeep
  <2> QED BY <2>4, <2>7, <2>8 DEF IInv, Typed
<1> QED BY <1>2, <1>3, <1>4, <1>5, <1>6, <1>7

(* The types of the descriptor tables. *)
LEMMA FilesOfTasks ==
  ASSUME IInv
  PROVE  /\ DOMAIN files = Ids /\ next \in [Ids -> Nat] /\ opened \in Nat /\ closed \subseteq 1..opened
         /\ \A t \in Ids : \A fd \in DOMAIN files[t] : fd \in Nat /\ files[t][fd] \in 1..opened
BY TaskBounds DEF IInv, Typed, TypeOK

(* A file opened at a descriptor, free or in use, keeps the invariant of files. *)
LEMMA OpensFile ==
  ASSUME IInv, NEW t \in Ids, NEW fd \in Nat, opened < MaxFiles, opened' = opened + 1,
         files' = [files EXCEPT ![t] = With(@, fd, opened')],
         next' \in [Ids -> Nat], \A u \in Ids : next'[u] >= next[u], next'[t] > fd,
         closed' = closed, \A y \in Threads : thread'[y].taken = thread[y].taken
  PROVE  /\ FileInv'
         /\ DOMAIN files' = Ids /\ \A u \in Ids : \A g \in DOMAIN files'[u] : g \in Nat /\ files'[u][g] \in 1..opened'
         /\ opened' \in 0..MaxFiles /\ closed' \subseteq 1..opened'
<1> USE FilesOfTasks
<1>1. /\ DOMAIN files' = Ids
      /\ \A u \in Ids \ {t} : files'[u] = files[u]
      /\ DOMAIN files'[t] = DOMAIN files[t] \cup {fd} /\ files'[t][fd] = opened + 1
      /\ \A g \in DOMAIN files[t] \ {fd} : files'[t][g] = files[t][g]
  BY DEF With
<1>2. \A u \in Ids : \A g \in DOMAIN files'[u] :
        \/ u = t /\ g = fd /\ files'[u][g] = opened + 1
        \/ g \in DOMAIN files[u] /\ files'[u][g] = files[u][g] /\ (u # t \/ g # fd)
  BY <1>1
<1>3. \A u \in Ids : \A g \in DOMAIN files'[u] : g \in Nat /\ files'[u][g] \in 1..opened'
  BY <1>2
<1>4. opened' \in 0..MaxFiles /\ closed' \subseteq 1..opened'
  BY TaskBounds
<1>5. \A u \in Ids : \A g \in DOMAIN files'[u] : g < next'[u]
  BY <1>2 DEF IInv, FileInv
<1>6. \A y \in Threads : thread[y].taken \subseteq 1..opened /\ thread'[y].taken = thread[y].taken
  BY DEF IInv, FileInv
<1>7. \A y \in Threads : \A u \in Ids : \A g \in DOMAIN files'[u] : files'[u][g] \notin thread'[y].taken
  BY <1>2, <1>6 DEF IInv, FileInv
<1>8. \A u \in Ids : next'[u] \notin DOMAIN files'[u]
  BY <1>3, <1>5
<1>9. \A u, v \in Ids : \A g \in DOMAIN files'[u], h \in DOMAIN files'[v] : files'[u][g] = files'[v][h] => u = v /\ g = h
  BY <1>2 DEF IInv, FileInv, FilesHaveOneOwner
<1>10. \A u \in Ids : \A g \in DOMAIN files'[u] : files'[u][g] \notin closed'
  BY <1>2 DEF IInv, FileInv, FilesHaveOneOwner
<1>11. \A y \in Threads : thread'[y].taken \subseteq 1..opened'
  BY <1>6
<1> QED BY <1>1, <1>3, <1>4, <1>5, <1>7, <1>8, <1>9, <1>10, <1>11 DEF FileInv, FilesHaveOneOwner

(* Descriptors dropped from or moved inside one table keep the invariant of files: origin *)
(* says where the file of a descriptor comes from.                                        *)
LEMMA MovesFiles ==
  ASSUME IInv, NEW t \in Ids, NEW table,
         files' = [files EXCEPT ![t] = table],
         UNCHANGED <<next, opened>>,
         NEW origin,
         DOMAIN table \subseteq DOMAIN files[t],
         \A g \in DOMAIN table : origin[g] \in DOMAIN files[t] /\ table[g] = files[t][origin[g]],
         \A g, h \in DOMAIN table : origin[g] = origin[h] => g = h,
         closed' \subseteq 1..opened,
         \A g \in DOMAIN table : table[g] \notin closed',
         \A u \in Ids \ {t} : \A g \in DOMAIN files[u] : files[u][g] \notin closed',
         \A y \in Threads : thread'[y].taken \subseteq 1..opened,
         \A y \in Threads : \A g \in DOMAIN table : table[g] \notin thread'[y].taken,
         \A y \in Threads : \A u \in Ids \ {t} : \A g \in DOMAIN files[u] : files[u][g] \notin thread'[y].taken
  PROVE  /\ FileInv'
         /\ DOMAIN files' = Ids /\ \A u \in Ids : \A g \in DOMAIN files'[u] : g \in Nat /\ files'[u][g] \in 1..opened'
<1> USE FilesOfTasks
<1>1. DOMAIN files' = Ids /\ files'[t] = table /\ \A u \in Ids \ {t} : files'[u] = files[u]
  OBVIOUS
<1>2. \A u \in Ids : \A g \in DOMAIN files'[u] : g \in DOMAIN files[u]
  BY <1>1
<1>3. \A u \in Ids : \A g \in DOMAIN files'[u] : g \in Nat /\ files'[u][g] \in 1..opened'
  BY <1>1, <1>2
<1>4. \A u \in Ids : \A g \in DOMAIN files'[u] : g < next'[u]
  BY <1>2 DEF IInv, FileInv
<1>5. \A u \in Ids : next'[u] \notin DOMAIN files'[u]
  BY <1>3, <1>4
<1>6. \A u, v \in Ids : \A g \in DOMAIN files'[u], h \in DOMAIN files'[v] : files'[u][g] = files'[v][h] => u = v /\ g = h
  <2> SUFFICES ASSUME NEW u \in Ids, NEW v \in Ids, NEW g \in DOMAIN files'[u], NEW h \in DOMAIN files'[v],
                      files'[u][g] = files'[v][h]
               PROVE  u = v /\ g = h
    OBVIOUS
  <2>1. CASE u = t /\ v = t
    BY <1>1, <2>1 DEF IInv, FileInv, FilesHaveOneOwner
  <2>2. CASE u = t /\ v # t
    BY <1>1, <2>2 DEF IInv, FileInv, FilesHaveOneOwner
  <2>3. CASE u # t /\ v = t
    BY <1>1, <2>3 DEF IInv, FileInv, FilesHaveOneOwner
  <2>4. CASE u # t /\ v # t
    BY <1>1, <2>4 DEF IInv, FileInv, FilesHaveOneOwner
  <2> QED BY <2>1, <2>2, <2>3, <2>4
<1>7. \A u \in Ids : \A g \in DOMAIN files'[u] : files'[u][g] \notin closed'
  BY <1>1
<1>8. \A y \in Threads : \A u \in Ids : \A g \in DOMAIN files'[u] : files'[u][g] \notin thread'[y].taken
  BY <1>1
<1> QED BY <1>1, <1>3, <1>4, <1>5, <1>6, <1>7, <1>8 DEF FileInv, FilesHaveOneOwner

(* A thread that takes a request, looks a task up, is given an id, or swaps an alias. *)
LEMMA LookupSteps ==
  ASSUME IInv, NEW x \in Threads,
         (\E r \in Requests : handle_request(x, r)) \/ lookup(x) \/ lookup_alias(x) \/ next_task(x) \/ swap_alias(x)
  PROVE  IInv'
<1> USE NameFacts
<1>1. /\ Typed /\ TypeOK /\ thread[x] \in ThreadType /\ ThreadInv(thread[x], next_id, resources, workers, named) /\ next_id \in Nat
      /\ thread \in [Threads -> ThreadType]
  BY DEF IInv, Typed, ThreadsInv, TypeOK
<1>2. ASSUME NEW r \in Requests, handle_request(x, r) PROVE IInv'
  <2>1. UNCHANGED <<next_id, resources, aliases, named, alias, worker, workers, ports, fdVars>> /\ Serves(x, r)
    BY <1>2 DEF handle_request, taskVars, hostVars
  <2> QED BY <2>1, RequestFacts, ServesStep
<1>3. CASE lookup(x) \/ lookup_alias(x)
  <2> DEFINE n == thread[x].req.name
             s == thread[x].steps
  <2>1. UNCHANGED <<next_id, resources, aliases, named, alias, worker, workers, ports, fdVars>>
    BY <1>3 DEF lookup, lookup_alias, taskVars, hostVars
  <2>2. PICK e \in Lookups : At(x, e) /\ (lookup(x) => e = "lookup")
    BY <1>3 DEF lookup, lookup_alias, Lookups
  <2>3. s \in Seq(StepNames) /\ s # <<>> /\ s[1] = e /\ n \in Names /\ 1 \in 1..Len(s) /\ Len(thread[x].req.fds) \in Nat
    <3>1. s \in Seq(StepNames) /\ s # <<>> /\ n \in Names /\ thread[x].req.fds \in Descriptors
      BY <1>1, <2>2 DEF At, ThreadType, RequestType
    <3> QED BY <2>2, <3>1, TailFacts, LenProperties DEF At, Descriptors
  <2>4. Grows(next_id, resources, workers, named, next_id', resources', workers', named') /\ TypeOK'
    BY <1>1, <2>1, SameTables DEF TypeOK, StoodFor, fdVars
  <2>5. CASE Fails(x)
    <3>1. /\ thread'[x].steps = <<>> /\ thread'[x].taken = {} /\ thread' \in [Threads -> ThreadType]
          /\ \A y \in Threads \ {x} : thread'[y] = thread[y]
      BY <1>1, <2>5, FailsFacts
    <3>2. ThreadsInv'
      BY <2>4, <3>1, IdleThread, OthersKeep
    <3>3. FileInv' /\ WorkerHasOneName'
      BY <2>1, <3>1, FilesKeep, WorkersKeep
    <3> QED BY <2>4, <3>1, <3>2, <3>3 DEF IInv, Typed
  <2>6. ASSUME NEW t \in resources, <<n, t>> \in named, n \in resources \cup Aliases, Finds(x, t) PROVE IInv'
    <3>1. Tail(s) \in Seq(StepNames) /\ t \in Nat /\ t \in 1..next_id
      BY <1>1, <2>3, TailFacts DEF TypeOK
    <3> DEFINE th == thread'[x]
    <3>2. thread' = [thread EXCEPT ![x].task = t, ![x].steps = Tail(@)]
      BY <2>6 DEF Finds
    <3>3. /\ thread' \in [Threads -> ThreadType] /\ \A y \in Threads \ {x} : thread'[y] = thread[y]
          /\ th.req = thread[x].req /\ th.task = t /\ th.steps = Tail(s) /\ th.taken = thread[x].taken
      BY <1>1, <3>1, <3>2 DEF ThreadType
    <3> HIDE DEF th
    <3>4. Program(th.req, th.steps)
      BY <1>1, <2>2, <2>3, <3>3, ProgramTail DEF ThreadInv, Lookups
    <3>5. Left(s) = {s[1]} \cup Left(th.steps) /\ s[1] \in Left(s)
      BY <2>3, <3>3, TailFacts
    <3>6. (Left(th.steps) \cap {"worker", "upsert"} # {} /\ Left(th.steps) \cap (Lookups \cup {"record", "record_id"}) = {})
            => th.req.worker = None
      <4> SUFFICES ASSUME Left(th.steps) \cap {"worker", "upsert"} # {}, th.req.worker # None
                   PROVE  Left(th.steps) \cap {"record", "record_id"} # {}
        OBVIOUS
      <4>1. PICK k \in 1..Len(s) : s[k] \in {"record", "record_id"}
        BY <1>1, <2>2, <2>3, <3>3, <3>5 DEF ThreadInv, Program
      <4>2. s[k] \in Left(s) /\ s[k] # s[1]
        BY <2>2, <2>3, <4>1 DEF Left, Lookups
      <4> QED BY <3>5, <4>1, <4>2
    <3>7. ("handoff" \in Left(th.steps) /\ "record" \notin Left(th.steps)) => th.req.worker \in DOMAIN workers
      BY <1>1, <2>2, <2>3, <3>3, <3>5 DEF ThreadInv, Lookups
    <3>8. ThreadInv(th, next_id, resources, workers, named)
      BY <2>6, <3>1, <3>3, <3>4, <3>6, <3>7 DEF ThreadInv
    <3>9. ThreadsInv'
      BY <2>1, <2>4, <3>3, <3>8, OthersKeep DEF th
    <3>10. FileInv' /\ WorkerHasOneName'
      BY <2>1, <3>3, FilesKeep, WorkersKeep DEF th
    <3> QED BY <2>4, <3>3, <3>9, <3>10 DEF IInv, Typed
  <2>7. CASE lookup(x)
    <3>1. CASE n \in resources
      <4>1. Finds(x, n) /\ <<n, n>> \in named
        BY <1>1, <2>7, <3>1 DEF lookup, TypeOK, StoodFor
      <4> QED BY <2>6, <3>1, <4>1
    <3>2. CASE n \notin resources
      <4>1. TriesAliases(x, "aliases") /\ At(x, "lookup")
        BY <2>7, <3>2 DEF lookup
      <4> QED BY <2>1, <4>1, TriesStep
    <3> QED BY <3>1, <3>2
  <2>8. CASE lookup_alias(x)
    <3>1. CASE n \in DOMAIN aliases
      <4>1. Finds(x, aliases[n]) /\ <<n, aliases[n]>> \in named /\ aliases[n] \in resources /\ n \in Aliases
        BY <1>1, <2>8, <3>1 DEF lookup_alias, TypeOK, StoodFor
      <4> QED BY <2>6, <4>1
    <3>2. CASE n \notin DOMAIN aliases
      BY <2>5, <2>8, <3>2 DEF lookup_alias
    <3> QED BY <3>1, <3>2
  <2> QED BY <1>3, <2>7, <2>8
<1>4. CASE next_task(x)
  <2> DEFINE s == thread[x].steps
             id == next_id + 1
  <2>1. /\ UNCHANGED <<resources, aliases, named, alias, worker, workers, ports, fdVars>> /\ At(x, "next")
        /\ next_id < MaxTasks /\ next_id' = id
        /\ thread' = [thread EXCEPT ![x].task = id, ![x].steps = Tail(@)]
    BY <1>4 DEF next_task, NextId, hostVars
  <2>2. s \in Seq(StepNames) /\ s # <<>> /\ s[1] = "next" /\ 1 \in 1..Len(s) /\ "next" \in Left(s) /\ Len(thread[x].req.fds) \in Nat
    <3>1. thread[x].req \in RequestType
      BY <2>1, AtFacts
    <3>2. thread[x].req.fds \in Descriptors
      BY <3>1 DEF RequestType
    <3> QED BY <2>1, <3>2, AtFacts, LenProperties DEF Descriptors
  <2>3. Tail(s) \in Seq(StepNames) /\ Tail(s)[1] = "insert" /\ Left(s) \cap {"worker", "upsert", "record"} = {}
    <3>1. 1 < Len(s) /\ s[2] = "insert" /\ Left(s) \cap {"worker", "upsert", "record"} = {}
      BY <1>1, <2>2 DEF ThreadInv, Program
    <3> QED BY <2>2, <3>1, TailFacts
  <2>4. id \in Ids /\ id \in Nat
    BY <1>1, <2>1, TaskBounds DEF Ids, TypeOK
  <2>5. Grows(next_id, resources, workers, named, next_id', resources', workers', named')
    BY <1>1, <2>1 DEF Grows
  <2> DEFINE th == thread'[x]
  <2>6. /\ thread' \in [Threads -> ThreadType] /\ \A y \in Threads \ {x} : thread'[y] = thread[y]
        /\ th.req = thread[x].req /\ th.task = id /\ th.steps = Tail(s) /\ th.taken = thread[x].taken
    <3> HIDE DEF id
    <3> QED BY <1>1, <2>1, <2>3, <2>4 DEF ThreadType
  <2> HIDE DEF th
  <2>7. Program(th.req, th.steps)
    BY <1>1, <2>2, <2>6, ProgramTail DEF ThreadInv
  <2>8. Left(s) = {s[1]} \cup Left(th.steps)
    BY <2>2, <2>6, TailFacts
  <2>9. ThreadInv(th, next_id', resources', workers', named')
    <3>0. next_id + 1 \in 1..(next_id + 1)
      BY <1>1
    <3>1. th.task \in 1..next_id' /\ th.steps[1] = "insert"
      BY <2>1, <2>3, <2>6, <3>0
    <3>2. "record" \notin Left(th.steps) /\ Left(th.steps) \cap {"worker", "upsert"} = {}
      BY <2>3, <2>8
    <3>3. "handoff" \in Left(th.steps) => th.req.worker \in DOMAIN workers'
      BY <1>1, <2>1, <2>3, <2>6, <2>8 DEF ThreadInv
    <3> QED BY <2>7, <3>1, <3>2, <3>3 DEF ThreadInv
  <2>10. ThreadsInv'
    BY <2>5, <2>6, <2>9, OthersKeep DEF th
  <2>11. TypeOK'
    <3>1. next_id' \in Ids /\ resources' \subseteq 1..next_id'
      BY <1>1, <2>1, <2>4 DEF TypeOK
    <3> QED BY <1>1, <2>1, <3>1 DEF TypeOK, StoodFor, fdVars
  <2>12. FileInv' /\ WorkerHasOneName'
    BY <2>1, <2>6, FilesKeep, WorkersKeep DEF th
  <2> QED BY <2>6, <2>10, <2>11, <2>12 DEF IInv, Typed
<1>5. CASE swap_alias(x)
  <2> DEFINE s == thread[x].steps
             t == thread[x].task
             th == thread'[x]
  <2>1. /\ UNCHANGED <<next_id, resources, aliases, named, worker, workers, ports, fdVars>> /\ At(x, "alias")
        /\ alias' = [alias EXCEPT ![t] = thread[x].req.alias]
        /\ thread' = [thread EXCEPT ![x].old = alias[t], ![x].steps = Tail(@)]
    BY <1>5 DEF swap_alias, hostVars
  <2>2. /\ s \in Seq(StepNames) /\ s # <<>> /\ s[1] = "alias" /\ t \in Ids /\ thread[x].req.alias \in Aliases \cup {None}
        /\ alias[t] \in Aliases \cup {None}
    <3>1. thread[x].req \in RequestType /\ t \in Ids
      BY <2>1, AtFacts
    <3>2. alias[t] \in Aliases \cup {None}
      BY <1>1, <3>1 DEF TypeOK
    <3> QED BY <2>1, <3>1, <3>2, AtFacts DEF RequestType
  <2>3. /\ thread' \in [Threads -> ThreadType] /\ \A y \in Threads \ {x} : thread'[y] = thread[y]
        /\ th.req = thread[x].req /\ th.task = t /\ th.steps = Tail(s) /\ th.taken = thread[x].taken
    <3>1. Tail(s) \in Seq(StepNames)
      BY <2>2, TailFacts
    <3> QED BY <1>1, <2>1, <2>2, <3>1 DEF ThreadType
  <2> HIDE DEF th
  <2>4. Grows(next_id, resources, workers, named, next_id', resources', workers', named')
    BY <2>1, SameTables
  <2>5. ThreadInv(th, next_id', resources', workers', named')
    BY <1>1, <2>2, <2>3, <2>4, ThreadAdvances
  <2>6. ThreadsInv'
    BY <2>3, <2>4, <2>5, OthersKeep DEF th
  <2>7. TypeOK'
    <3>1. alias' \in [Ids -> Aliases \cup {None}]
      BY <1>1, <2>1, <2>2 DEF TypeOK
    <3> QED BY <1>1, <2>1, <3>1 DEF TypeOK, StoodFor, fdVars
  <2>8. FileInv' /\ WorkerHasOneName'
    BY <2>1, <2>3, FilesKeep, WorkersKeep DEF th
  <2> QED BY <2>3, <2>6, <2>7, <2>8 DEF IInv, Typed
<1> QED BY <1>2, <1>3, <1>4, <1>5

(* clear_fds closes one of the files it has taken. *)
LEMMA FirstTaken ==
  ASSUME NEW S \in SUBSET Nat, S # {}
  PROVE  LET file == CHOOSE f \in S : \A g \in S : f <= g IN file \in S
<1>1. \E f \in S : \A g \in S : f <= g
  <2> DEFINE Less == {p \in Nat \X Nat : p[1] < p[2]}
  <2>1. IsWellFoundedOn(Less, Nat)
    BY NatLessThanWellFounded DEF OpToRel
  <2> HIDE DEF Less
  <2>2. PICK f \in S : \A g \in S : ~(<<g, f>> \in Less)
    BY <2>1, WFMin
  <2>3. \A g \in S : f <= g
    <3> SUFFICES ASSUME NEW g \in S PROVE f <= g
      OBVIOUS
    <3>1. f \in Nat /\ g \in Nat
      OBVIOUS
    <3>2. ~(g < f)
      <4> SUFFICES ASSUME g < f PROVE <<g, f>> \in Less
        BY <2>2
      <4> QED BY <3>1 DEF Less
    <3> QED BY <3>1, <3>2
  <2> QED BY <2>3
<1> QED BY <1>1

(* Types of a step that changes descriptors only. *)
LEMMA TypeKeeps ==
  ASSUME IInv, UNCHANGED <<next_id, resources, aliases, named, alias, worker, workers, ports>>,
         next' \in [Ids -> Nat], opened' \in 0..MaxFiles, closed' \subseteq 1..opened',
         DOMAIN files' = Ids, \A u \in Ids : \A g \in DOMAIN files'[u] : g \in Nat /\ files'[u][g] \in 1..opened'
  PROVE  TypeOK'
BY DEF IInv, Typed, TypeOK, StoodFor

(* Installing a descriptor of an execution. *)
LEMMA InstallStep ==
  ASSUME IInv, NEW x \in Threads, install(x)
  PROVE  IInv'
<1> USE NameFacts
<1> DEFINE s == thread[x].steps
           r == thread[x].req
           t == thread[x].task
           d == r.fds[1]
           th == thread'[x]
<1>1. /\ Typed /\ thread[x] \in ThreadType /\ ThreadInv(thread[x], next_id, resources, workers, named)
      /\ thread \in [Threads -> ThreadType]
  BY DEF IInv, Typed, ThreadsInv
<1>2. At(x, "install") /\ UNCHANGED <<next_id, resources, aliases, named, alias, worker, workers, ports, closed>>
  BY DEF install, taskVars, hostVars
<1>3. s \in Seq(StepNames) /\ s # <<>> /\ s[1] = "install" /\ 1 \in 1..Len(s) /\ t \in Ids /\ r \in RequestType
  BY <1>2, AtFacts
<1>4. r.fds \in Seq([fd : Nat, ok : BOOLEAN]) /\ Len(r.fds) \in Nat /\ Len(r.fds) >= 1
  <2>1. r.fds \in Seq([fd : Nat, ok : BOOLEAN])
    BY <1>3 DEF RequestType, Descriptors
  <2>2. Len(r.fds) \in Nat /\ Len(s) \in Nat
    BY <1>3, <2>1, LenProperties
  <2>3. 1 < Len(s) /\ Len(s) - 1 <= Len(r.fds)
    BY <1>1, <1>3 DEF ThreadInv, Program
  <2> QED BY <2>1, <2>2, <2>3
<1>5. d \in [fd : Nat, ok : BOOLEAN] /\ r.fds # <<>> /\ Tail(r.fds) \in Descriptors /\ Len(Tail(r.fds)) = Len(r.fds) - 1
  <2>1. r.fds # <<>>
    BY <1>4
  <2>2. d \in [fd : Nat, ok : BOOLEAN]
    <3> DEFINE S == [fd : Nat, ok : BOOLEAN]
    <3>1. 1 \in 1..Len(r.fds) /\ r.fds \in Seq(S)
      BY <1>4
    <3> HIDE DEF S
    <3>2. r.fds[1] \in S
      BY <3>1, ElementOfSeq
    <3> QED BY <3>2 DEF S
  <2>3. Tail(r.fds) \in Descriptors /\ Len(Tail(r.fds)) = Len(r.fds) - 1
    BY <1>4, <2>1, HeadTailProperties DEF Descriptors
  <2> QED BY <2>1, <2>2, <2>3
<1>6. Grows(next_id, resources, workers, named, next_id', resources', workers', named')
  BY <1>2, SameTables
<1>7. WorkerHasOneName'
  BY <1>2, WorkersKeep
<1>8. CASE ~d.ok /\ Fails(x) /\ UNCHANGED <<opened, files, next>>
  <2>1. /\ th.steps = <<>> /\ th.taken = {} /\ thread' \in [Threads -> ThreadType]
        /\ \A y \in Threads \ {x} : thread'[y] = thread[y]
    BY <1>1, <1>8, FailsFacts
  <2>2. ThreadsInv'
    BY <1>6, <2>1, IdleThread, OthersKeep
  <2>3. FileInv'
    BY <1>2, <1>8, <2>1, FilesKeep DEF fdVars
  <2>4. TypeOK'
    BY <1>2, <1>8 DEF IInv, Typed, TypeOK, StoodFor
  <2> QED BY <1>7, <2>1, <2>2, <2>3, <2>4 DEF IInv, Typed
<1>9. CASE /\ d.ok /\ opened < MaxFiles /\ opened' = opened + 1
           /\ set_fd(t, d.fd, opened')
           /\ thread' = [thread EXCEPT ![x].steps = Tail(@), ![x].req.fds = Tail(@)]
  <2>1. /\ thread' \in [Threads -> ThreadType] /\ \A y \in Threads \ {x} : thread'[y] = thread[y]
        /\ th.steps = Tail(s) /\ th.task = t /\ th.taken = thread[x].taken
        /\ th.req.name = r.name /\ th.req.worker = r.worker /\ th.req.port = r.port /\ th.req.fds = Tail(r.fds)
        /\ th.req.value = r.value /\ th.req.from = r.from
    <3>1. Tail(s) \in Seq(StepNames)
      BY <1>3, TailFacts
    <3>2. [r EXCEPT !.fds = Tail(@)] \in RequestType
      BY <1>3, <1>5 DEF RequestType
    <3>3. thread' = [thread EXCEPT ![x] = [thread[x] EXCEPT !.steps = Tail(s), !.req = [r EXCEPT !.fds = Tail(@)]]]
      BY <1>1, <1>9 DEF ThreadType, RequestType
    <3>4. th = [thread[x] EXCEPT !.steps = Tail(s), !.req = [r EXCEPT !.fds = Tail(@)]]
      BY <1>1, <3>3
    <3>5. th \in ThreadType
      BY <1>1, <3>1, <3>2, <3>4 DEF ThreadType
    <3>6. thread' \in [Threads -> ThreadType] /\ \A y \in Threads \ {x} : thread'[y] = thread[y]
      BY <1>1, <3>3, <3>4, <3>5
    <3> QED BY <1>1, <1>3, <3>4, <3>6, ZenonT(40) DEF ThreadType, RequestType
  <2> HIDE DEF th
  <2>2. ThreadInv(th, next_id', resources', workers', named')
    BY <1>1, <1>3, <1>5, <1>6, <2>1, ThreadAdvances
  <2>3. ThreadsInv'
    BY <1>6, <2>1, <2>2, OthersKeep DEF th
  <2>4. /\ next' \in [Ids -> Nat] /\ (\A u \in Ids : next'[u] >= next[u]) /\ next'[t] > d.fd /\ d.fd \in Nat
        /\ files' = [files EXCEPT ![t] = With(@, d.fd, opened')]
    <3>1. d.fd \in Nat /\ next \in [Ids -> Nat] /\ next' = [next EXCEPT ![t] = IF d.fd >= @ THEN d.fd + 1 ELSE @]
      BY <1>5, <1>9, FilesOfTasks DEF set_fd
    <3> HIDE DEF d, t
    <3>2. next' \in [Ids -> Nat] /\ (\A u \in Ids : next'[u] >= next[u]) /\ next'[t] > d.fd
      <4>1. t \in Ids
        BY <1>3
      <4>2. \A u \in Ids : next'[u] = IF u # t THEN next[u] ELSE IF d.fd >= next[t] THEN d.fd + 1 ELSE next[t]
        BY <3>1, <4>1
      <4>3. next' \in [Ids -> Nat]
        BY <3>1, <4>1
      <4> QED BY <3>1, <4>1, <4>2, <4>3
    <3> QED BY <1>9, <3>1, <3>2 DEF set_fd
  <2>5. \A y \in Threads : thread'[y].taken = thread[y].taken
    BY <2>1 DEF th
  <2> HIDE DEF d, t
  <2>6. /\ FileInv' /\ DOMAIN files' = Ids
        /\ \A u \in Ids : \A g \in DOMAIN files'[u] : g \in Nat /\ files'[u][g] \in 1..opened'
        /\ opened' \in 0..MaxFiles /\ closed' \subseteq 1..opened'
    BY <1>2, <1>3, <1>9, <2>4, <2>5, OpensFile
  <2>7. TypeOK'
    BY <1>2, <2>4, <2>6, TypeKeeps
  <2> QED BY <1>7, <2>1, <2>3, <2>6, <2>7 DEF IInv, Typed
<1> QED BY <1>8, <1>9 DEF install

(* open_fd, close_fd and renumber_fd. *)
LEMMA DescriptorSteps ==
  ASSUME IInv,
         \/ \E t \in Ids : open_fd(t)
         \/ \E t \in Ids : \E fd \in DOMAIN files[t] : close_fd(t, fd)
         \/ \E t \in Ids : \E from, to \in DOMAIN files[t] : renumber_fd(t, from, to)
  PROVE  IInv'
<1> USE NameFacts, FilesOfTasks
<1>1. UNCHANGED <<next_id, resources, aliases, named, alias, worker, workers, ports, thread>>
  BY DEF open_fd, close_fd, renumber_fd, taskVars, hostVars
<1>2. ThreadsInv' /\ WorkerHasOneName' /\ thread' \in [Threads -> ThreadType]
  BY <1>1, WorkersKeep DEF IInv, ThreadsInv, Typed
<1>3. \A y \in Threads : thread'[y].taken \subseteq 1..opened
  BY <1>1 DEF IInv, FileInv
<1>4. ASSUME NEW t \in Ids, open_fd(t) PROVE IInv'
  <2>1. /\ opened < MaxFiles /\ opened' = opened + 1 /\ closed' = closed
        /\ files' = [files EXCEPT ![t] = With(@, next[t], opened')] /\ next' = [next EXCEPT ![t] = @ + 1]
    BY <1>4 DEF open_fd
  <2>2. next[t] \in Nat /\ next' \in [Ids -> Nat] /\ (\A u \in Ids : next'[u] >= next[u]) /\ next'[t] > next[t]
    BY <2>1
  <2>3. /\ FileInv' /\ DOMAIN files' = Ids
        /\ \A u \in Ids : \A g \in DOMAIN files'[u] : g \in Nat /\ files'[u][g] \in 1..opened'
        /\ opened' \in 0..MaxFiles /\ closed' \subseteq 1..opened'
    BY <1>1, <2>1, <2>2, OpensFile
  <2>4. TypeOK'
    BY <1>1, <2>2, <2>3, TypeKeeps
  <2> QED BY <1>2, <2>3, <2>4 DEF IInv, Typed
<1>5. ASSUME NEW t \in Ids, NEW fd \in DOMAIN files[t], close_fd(t, fd) PROVE IInv'
  <2> DEFINE table == Without(files[t], fd)
             origin == [g \in DOMAIN table |-> g]
  <2>1. closed' = closed \cup {files[t][fd]} /\ files' = [files EXCEPT ![t] = table] /\ UNCHANGED <<next, opened>>
    BY <1>5 DEF close_fd
  <2>2. DOMAIN table = DOMAIN files[t] \ {fd} /\ \A g \in DOMAIN table : table[g] = files[t][g] /\ table[g] # files[t][fd]
    BY DEF Without, IInv, FileInv, FilesHaveOneOwner
  <2>3. \A g \in DOMAIN table : origin[g] = g
    OBVIOUS
  <2> HIDE DEF table, origin
  <2>4. \A u \in Ids \ {t} : \A g \in DOMAIN files[u] : files[u][g] # files[t][fd]
    BY DEF IInv, FileInv, FilesHaveOneOwner
  <2>5. /\ \A u \in Ids : \A g \in DOMAIN files[u] : files[u][g] \notin closed
        /\ \A y \in Threads : \A u \in Ids : \A g \in DOMAIN files[u] : files[u][g] \notin thread[y].taken
    BY DEF IInv, FileInv, FilesHaveOneOwner
  <2>6. closed' \subseteq 1..opened /\ opened' \in 0..MaxFiles
    BY <2>1 DEF IInv, Typed, TypeOK
  <2>7. /\ FileInv' /\ DOMAIN files' = Ids
        /\ \A u \in Ids : \A g \in DOMAIN files'[u] : g \in Nat /\ files'[u][g] \in 1..opened'
    <3>1. /\ DOMAIN table \subseteq DOMAIN files[t]
          /\ \A g \in DOMAIN table : origin[g] \in DOMAIN files[t] /\ table[g] = files[t][origin[g]]
          /\ \A g, h \in DOMAIN table : origin[g] = origin[h] => g = h
      BY <2>2, <2>3
    <3>2. /\ \A g \in DOMAIN table : table[g] \notin closed'
          /\ \A u \in Ids \ {t} : \A g \in DOMAIN files[u] : files[u][g] \notin closed'
      BY <2>1, <2>2, <2>4, <2>5, <3>1
    <3>3. /\ \A y \in Threads : \A g \in DOMAIN table : table[g] \notin thread'[y].taken
          /\ \A y \in Threads : \A u \in Ids \ {t} : \A g \in DOMAIN files[u] : files[u][g] \notin thread'[y].taken
      BY <1>1, <2>5, <3>1
    <3> QED BY <1>3, <2>1, <2>6, <3>1, <3>2, <3>3, MovesFiles, ZenonT(40)
  <2>8. TypeOK'
    BY <1>1, <2>1, <2>6, <2>7, TypeKeeps
  <2> QED BY <1>2, <2>7, <2>8 DEF IInv, Typed
<1>6. ASSUME NEW t \in Ids, NEW from \in DOMAIN files[t], NEW to \in DOMAIN files[t], renumber_fd(t, from, to) PROVE IInv'
  <2> DEFINE table == Renumbered(files[t], from, to)
             origin == [g \in DOMAIN table |-> IF g = to THEN from ELSE g]
  <2>1. /\ closed' = closed \cup {files[t][to]} /\ files' = [files EXCEPT ![t] = table] /\ UNCHANGED <<next, opened>>
        /\ from # to
    BY <1>6 DEF renumber_fd
  <2>2. /\ DOMAIN table = DOMAIN files[t] \ {from}
        /\ \A g \in DOMAIN table : origin[g] = (IF g = to THEN from ELSE g) /\ table[g] = files[t][origin[g]]
    BY <2>1 DEF Renumbered, With, Without
  <2> HIDE DEF table, origin
  <2>3. /\ \A g \in DOMAIN table : origin[g] \in DOMAIN files[t] /\ origin[g] # to
        /\ \A g, h \in DOMAIN table : origin[g] = origin[h] => g = h
    BY <2>1, <2>2
  <2>4. /\ \A g \in DOMAIN table : table[g] # files[t][to]
        /\ \A u \in Ids \ {t} : \A g \in DOMAIN files[u] : files[u][g] # files[t][to]
    BY <2>2, <2>3 DEF IInv, FileInv, FilesHaveOneOwner
  <2>5. /\ \A u \in Ids : \A g \in DOMAIN files[u] : files[u][g] \notin closed
        /\ \A y \in Threads : \A u \in Ids : \A g \in DOMAIN files[u] : files[u][g] \notin thread[y].taken
    BY DEF IInv, FileInv, FilesHaveOneOwner
  <2>6. closed' \subseteq 1..opened /\ opened' \in 0..MaxFiles
    BY <2>1 DEF IInv, Typed, TypeOK
  <2>7. /\ FileInv' /\ DOMAIN files' = Ids
        /\ \A u \in Ids : \A g \in DOMAIN files'[u] : g \in Nat /\ files'[u][g] \in 1..opened'
    <3>1. /\ DOMAIN table \subseteq DOMAIN files[t]
          /\ \A g \in DOMAIN table : origin[g] \in DOMAIN files[t] /\ table[g] = files[t][origin[g]]
          /\ \A g, h \in DOMAIN table : origin[g] = origin[h] => g = h
      BY <2>2, <2>3
    <3>2. /\ \A g \in DOMAIN table : table[g] \notin closed'
          /\ \A u \in Ids \ {t} : \A g \in DOMAIN files[u] : files[u][g] \notin closed'
      <4>1. \A g \in DOMAIN table : table[g] \notin closed
        BY <2>5, <3>1
      <4> QED BY <2>1, <2>4, <2>5, <4>1
    <3>3. /\ \A y \in Threads : \A g \in DOMAIN table : table[g] \notin thread'[y].taken
          /\ \A y \in Threads : \A u \in Ids \ {t} : \A g \in DOMAIN files[u] : files[u][g] \notin thread'[y].taken
      <4>1. ASSUME NEW y \in Threads, NEW g \in DOMAIN table PROVE table[g] \notin thread[y].taken
        <5>1. origin[g] \in DOMAIN files[t] /\ table[g] = files[t][origin[g]]
          BY <3>1
        <5> QED BY <2>5, <5>1
      <4> QED BY <1>1, <2>5, <4>1
    <3> QED BY <1>3, <2>1, <2>6, <3>1, <3>2, <3>3, MovesFiles, ZenonT(40)
  <2>8. TypeOK'
    BY <1>1, <2>1, <2>6, <2>7, TypeKeeps
  <2> QED BY <1>2, <2>7, <2>8 DEF IInv, Typed
<1> QED BY <1>4, <1>5, <1>6

(* clear_fds: taking the table, then closing the files taken. *)
LEMMA ClearSteps ==
  ASSUME IInv, NEW x \in Threads, take_fds(x) \/ \E fails \in BOOLEAN : close_taken(x, fails)
  PROVE  IInv'
<1> USE NameFacts, FilesOfTasks
<1> DEFINE t == thread[x].task
           th == thread'[x]
<1>1. UNCHANGED <<next_id, resources, aliases, named, alias, worker, workers, ports, next, opened>>
  BY DEF take_fds, close_taken, taskVars, hostVars
<1>2. WorkerHasOneName' /\ Grows(next_id, resources, workers, named, next_id', resources', workers', named')
  BY <1>1, WorkersKeep, SameTables
<1>3. /\ Typed /\ thread[x] \in ThreadType /\ ThreadInv(thread[x], next_id, resources, workers, named)
      /\ thread \in [Threads -> ThreadType] /\ opened \in 0..MaxFiles
  BY DEF IInv, Typed, ThreadsInv, TypeOK
<1>4. CASE take_fds(x)
  <2> DEFINE taken == {files[t][fd] : fd \in DOMAIN files[t]}
  <2>1. /\ At(x, "take") /\ closed' = closed
        /\ files' = [files EXCEPT ![t] = Empty]
        /\ thread' = [thread EXCEPT ![x].taken = taken, ![x].steps = Tail(@)]
    BY <1>4 DEF take_fds
  <2>2. /\ thread[x].steps \in Seq(StepNames) /\ thread[x].steps # <<>> /\ thread[x].steps[1] = "take" /\ t \in Ids
    BY <2>1, AtFacts
  <2>3. taken \subseteq 1..opened /\ taken \in SUBSET Nat
    <3>1. \A fd \in DOMAIN files[t] : files[t][fd] \in 1..opened
      BY <2>2
    <3>2. 1..opened \subseteq Nat
      BY FilesOfTasks
    <3> HIDE DEF t
    <3> QED BY <3>1, <3>2
  <2>4. /\ \A u \in Ids \ {t} : \A g \in DOMAIN files[u] : files[u][g] \notin taken
        /\ \A u \in Ids : \A g \in DOMAIN files[u] : files[u][g] \notin closed
        /\ \A y \in Threads : \A u \in Ids : \A g \in DOMAIN files[u] : files[u][g] \notin thread[y].taken
        /\ \A y \in Threads : thread[y].taken \subseteq 1..opened
    <3>1. ASSUME NEW u \in Ids \ {t}, NEW g \in DOMAIN files[u], files[u][g] \in taken PROVE FALSE
      <4>1. PICK fd \in DOMAIN files[t] : files[u][g] = files[t][fd]
        BY <3>1
      <4>2. u \in Ids /\ u # t
        OBVIOUS
      <4>3. \A v, z \in Ids : \A a \in DOMAIN files[v], b \in DOMAIN files[z] : files[v][a] = files[z][b] => v = z
        BY DEF IInv, FileInv, FilesHaveOneOwner
      <4> HIDE DEF t, taken
      <4> QED BY <2>2, <4>1, <4>2, <4>3
    <3>2. /\ \A u \in Ids : \A g \in DOMAIN files[u] : files[u][g] \notin closed
          /\ \A y \in Threads : \A u \in Ids : \A g \in DOMAIN files[u] : files[u][g] \notin thread[y].taken
          /\ \A y \in Threads : thread[y].taken \subseteq 1..opened
      BY DEF IInv, FileInv, FilesHaveOneOwner
    <3> QED BY <3>1, <3>2
  <2> HIDE DEF taken
  <2>5. /\ thread' \in [Threads -> ThreadType] /\ \A y \in Threads \ {x} : thread'[y] = thread[y]
        /\ th.req = thread[x].req /\ th.task = t /\ th.steps = Tail(thread[x].steps) /\ th.taken = taken
    <3>1. Tail(thread[x].steps) \in Seq(StepNames)
      BY <2>2, TailFacts
    <3> QED BY <1>3, <2>1, <2>3, <3>1 DEF ThreadType
  <2> HIDE DEF th
  <2>6. ThreadInv(th, next_id', resources', workers', named')
    BY <1>2, <1>3, <2>2, <2>5, ThreadAdvances
  <2>7. ThreadsInv'
    BY <1>2, <2>5, <2>6, OthersKeep DEF th
  <2>8. \A y \in Threads : thread'[y].taken \in {taken, thread[y].taken}
    BY <2>5 DEF th
  <2> HIDE DEF t
  <2>9. DOMAIN Empty = {}
    BY DEF Empty
  <2>10. /\ FileInv' /\ DOMAIN files' = Ids
         /\ \A u \in Ids : \A g \in DOMAIN files'[u] : g \in Nat /\ files'[u][g] \in 1..opened'
    <3>1. \A y \in Threads : thread'[y].taken \subseteq 1..opened
      BY <2>3, <2>4, <2>8
    <3>2. \A y \in Threads : \A u \in Ids \ {t} : \A g \in DOMAIN files[u] : files[u][g] \notin thread'[y].taken
      BY <2>4, <2>8
    <3> QED BY <1>1, <2>1, <2>2, <2>4, <2>9, <3>1, <3>2, MovesFiles
  <2>11. TypeOK'
    BY <1>1, <1>3, <2>1, <2>10, TypeKeeps
  <2> QED BY <1>2, <2>5, <2>7, <2>10, <2>11 DEF IInv, Typed
<1>5. ASSUME NEW fails \in BOOLEAN, close_taken(x, fails) PROVE IInv'
  <2> DEFINE file == CHOOSE f \in thread[x].taken : \A g \in thread[x].taken : f <= g
             rest == IF fails THEN {} ELSE thread[x].taken \ {file}
  <2>1. /\ thread[x].steps = <<>> /\ thread[x].taken # {} /\ closed' = closed \cup {file}
        /\ thread' = [thread EXCEPT ![x].taken = rest] /\ UNCHANGED files
    BY <1>5 DEF close_taken
  <2>2. thread[x].taken \subseteq 1..opened /\ thread[x].taken \in SUBSET Nat
    BY <1>3 DEF IInv, FileInv, ThreadType
  <2>3. file \in thread[x].taken
    BY <2>1, <2>2, FirstTaken
  <2>4. rest \subseteq thread[x].taken
    OBVIOUS
  <2> HIDE DEF file, rest
  <2>5. /\ thread' \in [Threads -> ThreadType] /\ \A y \in Threads \ {x} : thread'[y] = thread[y]
        /\ th.steps = <<>> /\ th.taken = rest
    BY <1>3, <2>1, <2>2, <2>4 DEF ThreadType
  <2>6. ThreadsInv'
    BY <1>2, <2>5, IdleThread, OthersKeep
  <2>7. closed' \subseteq 1..opened'
    BY <1>1, <2>1, <2>2, <2>3
  <2>8. \A y \in Threads : thread'[y].taken \subseteq thread[y].taken
    BY <2>4, <2>5
  <2>9. \A u \in Ids : \A g \in DOMAIN files[u] : files[u][g] \notin closed'
    BY <2>1, <2>3 DEF IInv, FileInv, FilesHaveOneOwner
  <2>10. FileInv'
    BY <1>1, <2>1, <2>8, <2>9 DEF IInv, FileInv, FilesHaveOneOwner
  <2>11. TypeOK'
    BY <1>1, <1>3, <2>1, <2>7, TypeKeeps
  <2> QED BY <1>2, <2>5, <2>6, <2>10, <2>11 DEF IInv, Typed
<1> QED BY <1>4, <1>5

(* The invariant is inductive. *)
LEMMA NextIInv == IInv /\ [Next]_vars => IInv'
<1> SUFFICES ASSUME IInv, [Next]_vars PROVE IInv'
  OBVIOUS
<1>1. ASSUME NEW x \in Threads, Step(x) PROVE IInv'
  BY <1>1, TableSteps, LookupSteps, InstallStep, ClearSteps DEF Step
<1>2. CASE UNCHANGED vars
  BY <1>2 DEF vars, taskVars, fdVars, hostVars, IInv, Typed, TypeOK, StoodFor, ThreadsInv, WorkerHasOneName, FileInv, FilesHaveOneOwner
<1>3. QED BY <1>1, <1>2, DescriptorSteps DEF Next

(* Every state satisfies the invariant. *)
THEOREM Invariance == Spec => []IInv
BY InitIInv, NextIInv, PTL DEF Spec

(* The tables are typed, and what the host has recorded can be looked up. *)
THEOREM TypeCorrect == Spec => []TypeOK
<1>1. IInv => TypeOK
  BY DEF IInv, Typed
<1> QED BY <1>1, Invariance, PTL

(* A worker goes by one name for good, and every task started for it was found under     *)
(* that name, whatever requests interleave between the lookup, the check and the record  *)
(* of a start and whatever the aliases look like.                                        *)
THEOREM WorkersHaveOneName == Spec => []WorkerHasOneName
<1>1. IInv => WorkerHasOneName
  BY DEF IInv
<1> QED BY <1>1, Invariance, PTL

(* An open file has one descriptor in one task, none once it is closed, and open_fd never *)
(* takes a descriptor in use.                                                             *)
THEOREM DescriptorsOwnTheirFiles == Spec => []FilesHaveOneOwner
<1>1. IInv => FilesHaveOneOwner
  BY DEF IInv, FileInv
<1> QED BY <1>1, Invariance, PTL
=============================================================================
