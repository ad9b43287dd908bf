--------------------------- MODULE Runtime_proofs ---------------------------
(***************************************************************************)
(* What the network and virtual machine devices and the jobs of the shell  *)
(* keep: for any number of users, connections, addresses, machines and     *)
(* aliases, while the commands of different users interleave between the   *)
(* locks they take (devices.rs), and for any number of jobs, pipelines of  *)
(* any length and notes, while the threads of the shell, of the jobs and   *)
(* of their stages interleave (rc.rs of star9-shell).                      *)
(*                                                                         *)
(* The network device. A link has two ends, and an end is a capability:    *)
(* whoever holds it reads and writes that side of the link. NetInv is the  *)
(* inductive invariant. HeldOK and OnePlace follow an end from the connect *)
(* that makes it, through the thread that carries it and the queue of the  *)
(* listener it waits in, to the connection that accept installs it in: it  *)
(* is in one of those places at a time. Coherent says what every program   *)
(* counter of a command may assume of the listener table and of the links  *)
(* its connection gave up, for the connections that no two commands were   *)
(* ever on at once; those are Alone, which is what lets a command rely on  *)
(* what it read before it released a lock.                                 *)
(*                                                                         *)
(* The virtual machine device. VmInv says that an allocated id is nobody   *)
(* else's until it is inserted (IdsAreFresh), that an alias nobody         *)
(* disputed belongs to one machine and is named by no other machine's      *)
(* pending command (Exclusive), and what each program counter of a command *)
(* may assume of its machine, the alias table and the console (Machines).  *)
(*                                                                         *)
(* The jobs. JobsInv has a part for each graph by itself (GraphOK: what is *)
(* in a pipe and what was read from it are all that was written; the       *)
(* stages that were joined have ended; the status the runner carries is    *)
(* that of the stages; the files hold it) and three that relate the        *)
(* threads: a note has left its marks in the files or its sender is still  *)
(* writing them (NotesOK), what the shell thread relies on at each step of *)
(* a command (ShellOK), and that a job wait has answered for is out of the *)
(* table, so that no first note can reach it later (ToldOK).               *)
(***************************************************************************)
EXTENDS NetDevice, VmDevice, RcJobs, SequenceTheorems, WellFoundedInduction, TLAPS

(* The states a connection goes through, what an address and a waiting connection are, *)
(* and a connection.                                                                   *)
Phases == {"idle", "bound", "listening", "connected", "closed"}
Address == Addrs \cup Nat
PendingType == [remote : Address, endpoint : Nat \X Nat]
ConnType == [phase : Phases, local : Address, remote : Address,
             endpoint : Nat \X Nat, pending : Seq(PendingType)]

(* The steps of a command in which the listener table and the links it gave up are as its *)
(* connection says, and those in which a step is still owed to them.                      *)
Quiet == {"connect", "enqueue", "alloc", "check", "push", "read"}
Unquiet == {"register", "listening", "unregister", "close"}

(* What a user's thread holds at each step of a command: its connection exists, and so do *)
(* the listener and the end it carries.                                                   *)
ThreadOK(t, ids, ends) ==
  t = NetIdle \/
  /\ t.conn \in ids /\ t.new \in Nat
  /\ t.pc \in Quiet \cup Unquiet \cup {"install"}
  /\ t.pc # "install" => t.new = 0
  /\ t.pc = "install" => t.new \in ids
  /\ t.pc = "register" => t.addr \in Address
  /\ t.pc = "connect" => t.addr \in Address /\ t.listener \in ids
  /\ t.pc = "enqueue" => t.listener \in ids
  /\ t.pc \in {"enqueue", "alloc", "install"} => t.pending \in PendingType /\ t.pending.endpoint \in ends
  /\ t.pc \in {"alloc", "install"} => t.local \in Address
  /\ t.pc \in {"unregister", "close"} => t.endpoint \in ends \cup {NoEnd}
  /\ t.pc \in {"check", "push", "read"} => t.endpoint \in ends

(* The types of the device's tables: every registered listener and every end in use *)
(* exists, and each link has two ends.                                              *)
TypeOK ==
  /\ conn \in Seq(ConnType)
  /\ \A a \in DOMAIN listeners : listeners[a] \in Conns
  /\ next_port \in Nat
  /\ link_closed \in Seq(BOOLEAN)
  /\ Ends = (1..Len(link_closed)) \X {1, 2}
  /\ \A e \in Ends : queue[e] \in Seq(Nat)
  /\ DOMAIN net_thread = Users
  /\ \A u \in Users : ThreadOK(net_thread[u], Conns, Ends)
  /\ installed \subseteq Conns \X Ends

(* A connection holds an existing end exactly while it is connected, and every connection *)
(* that waits in a listener's queue carries one.                                          *)
HeldOK ==
  /\ \A c \in Conns : conn[c].endpoint \in Ends \cup {NoEnd}
  /\ \A c \in Conns : conn[c].phase = "connected" <=> conn[c].endpoint # NoEnd
  /\ \A c \in Conns : \A i \in DOMAIN conn[c].pending : conn[c].pending[i].endpoint \in Ends

(* No end is in two places: two connections, two queue slots, two threads on their way, *)
(* or any two of these.                                                                 *)
OnePlace ==
  /\ \A c, d \in Conns : conn[c].endpoint = conn[d].endpoint /\ conn[c].endpoint # NoEnd => c = d
  /\ \A c, d \in Conns : \A i \in DOMAIN conn[c].pending, j \in DOMAIN conn[d].pending :
       conn[c].pending[i].endpoint = conn[d].pending[j].endpoint => c = d /\ i = j
  /\ \A u, v \in Carrying : net_thread[u].pending.endpoint = net_thread[v].pending.endpoint => u = v
  /\ \A c, d \in Conns : \A i \in DOMAIN conn[d].pending : conn[c].endpoint # conn[d].pending[i].endpoint
  /\ \A c \in Conns, u \in Carrying : conn[c].endpoint # net_thread[u].pending.endpoint
  /\ \A d \in Conns, u \in Carrying : \A i \in DOMAIN conn[d].pending :
       net_thread[u].pending.endpoint # conn[d].pending[i].endpoint

(* The addresses the listener table gives to a connection, and a connection that neither *)
(* listens nor is connected.                                                             *)
Registered(c) == {a \in DOMAIN listeners : listeners[a] = c}
Resting(c) == conn[c].phase \notin {"listening", "connected"}

(* At most one command is on the connection. *)
Alone(c) == \A u, v \in On(c) : u = v

(* The connection is in the listener table under its own address while it listens and not *)
(* otherwise; a command between its lock of the connection and its lock of the table owes *)
(* exactly the missing step.                                                              *)
ListenerOK(c) ==
  /\ (\A u \in On(c) : net_thread[u].pc \notin Unquiet) =>
       Registered(c) = IF conn[c].phase = "listening" THEN {conn[c].local} ELSE {}
  /\ \A u \in On(c) :
       /\ net_thread[u].pc = "register" => Registered(c) = {} /\ Resting(c) /\ conn[c].local = net_thread[u].addr
       /\ net_thread[u].pc = "listening" => Registered(c) = {conn[c].local} /\ Resting(c)
       /\ net_thread[u].pc = "unregister" => Registered(c) \subseteq {net_thread[u].addr} /\ Resting(c)
       /\ net_thread[u].pc = "close" => Registered(c) = {} /\ Resting(c)
       /\ net_thread[u].pc = "install" /\ net_thread[u].new = c => Resting(c)

(* An end the connection once held and holds no more belongs to a closed link, or a *)
(* hangup that still has to close it carries it.                                    *)
GivenUpOK(c) ==
  \A e \in Ends : <<c, e>> \in installed =>
    \/ conn[c].endpoint = e
    \/ link_closed[e[1]]
    \/ \E u \in On(c) : net_thread[u].pc \in {"unregister", "close"} /\ net_thread[u].endpoint = e

(* What holds of a connection no two commands were ever on at once, and that it holds of *)
(* all of them.                                                                          *)
CoherentAt(c) == Alone(c) /\ ListenerOK(c) /\ GivenUpOK(c)
Coherent == \A c \in Conns \ raced : CoherentAt(c)

(* The inductive invariant of the network device. *)
NetInv == TypeOK /\ HeldOK /\ OnePlace /\ Coherent

-----------------------------------------------------------------------------
(* The step changes at most one connection and makes none. *)
Only(c) ==
  /\ conn' \in Seq(ConnType) /\ Conns' = Conns
  /\ \A d \in Conns : d # c => conn'[d] = conn[d]

(* The step moves no other user's thread. *)
Moves(u) ==
  /\ DOMAIN net_thread' = Users
  /\ \A v \in Users : v # u => net_thread'[v] = net_thread[v]

(* The ids of connections are positive numbers and each names a connection. *)
LEMMA IdsAreNat ==
  ASSUME conn \in Seq(ConnType)
  PROVE  Conns = 1..Len(conn) /\ Len(conn) \in Nat /\ \A c \in Conns : c \in Nat /\ c # 0 /\ conn[c] \in ConnType
BY DEF Conns

(* Writing back one connection, as with_connection does, changes no other. *)
LEMMA PutConn ==
  ASSUME conn \in Seq(ConnType), NEW c \in Conns, NEW r \in ConnType, conn' = [conn EXCEPT ![c] = r]
  PROVE  Only(c) /\ conn'[c] = r
BY DEF Only, Conns

(* NetDevice::alloc adds one unused connection under a new id. *)
LEMMA AddConn ==
  ASSUME conn \in Seq(ConnType), conn' = Append(conn, Unused)
  PROVE  /\ conn' \in Seq(ConnType) /\ Len(conn') = Len(conn) + 1 /\ Conns' = Conns \cup {Len(conn) + 1}
         /\ Len(conn) + 1 \notin Conns
         /\ \A c \in Conns : conn'[c] = conn[c]
         /\ conn'[Len(conn) + 1] = Unused
<1>1. Unused \in ConnType
  BY DEF Unused, ConnType, Phases, Address, NoAddr, NoEnd
<1> QED BY <1>1, AppendProperties DEF Conns

(* Setting one user's thread moves only that user. *)
LEMMA Moved ==
  ASSUME DOMAIN net_thread = Users, NEW u \in Users, NEW STATE next, net_thread' = [net_thread EXCEPT ![u] = next]
  PROVE  Moves(u) /\ net_thread'[u] = next
BY DEF Moves

(* A thread stays well formed when connections and links are added: neither is ever *)
(* removed.                                                                         *)
LEMMA ThreadMono ==
  ASSUME NEW t, NEW I, NEW J, NEW E, NEW F, I \subseteq J, E \subseteq F, ThreadOK(t, I, E)
  PROVE  ThreadOK(t, J, F)
BY DEF ThreadOK

(* The mark for 'no endpoint' is not an end of a link. *)
LEMMA NoEndIsNone ==
  ASSUME TypeOK
  PROVE  NoEnd \notin Ends
BY DEF TypeOK, NoEnd

-----------------------------------------------------------------------------
(* A command begins: its user was idle, and its connection is one of the raced ones if *)
(* another command is on it.                                                           *)
Begins(u, c) ==
  /\ net_thread[u] = NetIdle /\ Moves(u)
  /\ raced \subseteq raced' /\ (c \notin raced' => On(c) = {})

(* A command in flight takes its next step, which races with nothing new. *)
Continues(u) == Moves(u) /\ raced' = raced

(* What Begin does, for the commands that start with it. *)
LEMMA BeginFacts ==
  ASSUME DOMAIN net_thread = Users, NEW u \in Users, NEW c, NEW STATE next, Begin(u, c, next)
  PROVE  Begins(u, c) /\ net_thread'[u] = next
BY DEF Begin, Begins, Moves

(* What Go does, for the steps that continue a command. *)
LEMMA GoFacts ==
  ASSUME DOMAIN net_thread = Users, NEW u \in Users, NEW STATE next, Go(u, next)
  PROVE  Continues(u) /\ net_thread'[u] = next
BY DEF Go, Continues, Moves

(* The step leaves a connection's phase, address and end; only its queue may change. *)
Same(c, d) ==
  /\ conn'[c].phase = conn[d].phase /\ conn'[c].local = conn[d].local
  /\ conn'[c].endpoint = conn[d].endpoint

(* Opening the clone file adds an unused connection and changes nothing else. *)
LEMMA allocFacts ==
  ASSUME TypeOK, NEW u \in Users, alloc(u)
  PROVE  /\ Moves(u) /\ net_thread' [u] = net_thread[u] /\ raced \subseteq raced'
         /\ conn' = Append(conn, Unused)
         /\ UNCHANGED <<listeners, next_port, queue, link_closed, installed>>
<1>1. Begins(u, 0) /\ net_thread'[u] = NetIdle
  BY BeginFacts DEF alloc, TypeOK
<1> QED BY <1>1 DEF Begins, alloc

(* A bind succeeds on an unused connection, gives it its address and leaves no end in it. *)
LEMMA bindFacts ==
  ASSUME TypeOK, NEW u \in Users, NEW c \in Conns, NEW a \in Addrs, bind(u, c, a)
  PROVE  /\ Begins(u, c) /\ net_thread'[u] = NetIdle
         /\ Only(c) /\ conn[c].phase \in {"idle", "closed"}
         /\ conn'[c].phase = "bound" /\ conn'[c].endpoint = NoEnd /\ conn'[c].pending = conn[c].pending
         /\ UNCHANGED <<listeners, next_port, queue, link_closed, installed>>
<1>1. Begins(u, c) /\ net_thread'[u] = NetIdle
  BY BeginFacts DEF bind, TypeOK
<1> DEFINE r == [conn[c] EXCEPT !.phase = "bound", !.local = a, !.remote = NoAddr, !.endpoint = NoEnd]
<1>2. /\ r \in ConnType /\ r.phase = "bound" /\ r.endpoint = NoEnd /\ r.pending = conn[c].pending
  BY IdsAreNat DEF TypeOK, ConnType, Phases, Address, NoAddr, NoEnd
<1>3. conn' = [conn EXCEPT ![c] = r]
  BY DEF bind
<1>4. Only(c) /\ conn'[c] = r
  BY <1>2, <1>3, PutConn DEF TypeOK
<1> QED BY <1>1, <1>2, <1>4 DEF bind

(* The first half of announce writes the address into the connection and goes on to the *)
(* listener table.                                                                      *)
LEMMA announceFacts ==
  ASSUME TypeOK, NEW u \in Users, NEW c \in Conns, NEW a \in Addrs, announce(u, c, a)
  PROVE  /\ Begins(u, c) /\ net_thread'[u] = [pc |-> "register", conn |-> c, new |-> 0, addr |-> a]
         /\ Only(c) /\ conn[c].phase \in {"idle", "bound", "closed"}
         /\ conn'[c].phase = conn[c].phase /\ conn'[c].endpoint = conn[c].endpoint
         /\ conn'[c].pending = conn[c].pending /\ conn'[c].local = a
         /\ UNCHANGED <<listeners, next_port, queue, link_closed, installed>>
<1>1. Begins(u, c) /\ net_thread'[u] = [pc |-> "register", conn |-> c, new |-> 0, addr |-> a]
  BY BeginFacts DEF announce, TypeOK
<1> DEFINE r == [conn[c] EXCEPT !.local = a]
<1>2. /\ r \in ConnType /\ r.phase = conn[c].phase /\ r.endpoint = conn[c].endpoint
      /\ r.pending = conn[c].pending /\ r.local = a
  BY IdsAreNat DEF TypeOK, ConnType, Phases, Address, NoAddr, NoEnd
<1>3. conn' = [conn EXCEPT ![c] = r]
  BY DEF announce
<1>4. Only(c) /\ conn'[c] = r
  BY <1>2, <1>3, PutConn DEF TypeOK
<1> QED BY <1>1, <1>2, <1>4 DEF announce

(* register_listener refuses an address in use and otherwise enters the connection under *)
(* it.                                                                                   *)
LEMMA registerFacts ==
  ASSUME TypeOK, NEW u \in Users, register_listener(u)
  PROVE  /\ Continues(u) /\ net_thread[u].pc = "register"
         /\ \/ /\ net_thread[u].addr \in DOMAIN listeners /\ net_thread'[u] = NetIdle
               /\ UNCHANGED listeners
            \/ /\ net_thread[u].addr \notin DOMAIN listeners
               /\ net_thread'[u] = [pc |-> "listening", conn |-> net_thread[u].conn, new |-> 0]
               /\ DOMAIN listeners' = DOMAIN listeners \cup {net_thread[u].addr}
               /\ listeners'[net_thread[u].addr] = net_thread[u].conn
               /\ \A b \in DOMAIN listeners : listeners'[b] = listeners[b]
         /\ UNCHANGED <<conn, next_port, queue, link_closed, installed>>
<1>1. CASE net_thread[u].addr \in DOMAIN listeners
  <2>1. Continues(u) /\ net_thread'[u] = NetIdle
    BY <1>1, GoFacts DEF register_listener, TypeOK
  <2> QED BY <1>1, <2>1 DEF register_listener, NetAt
<1>2. CASE net_thread[u].addr \notin DOMAIN listeners
  <2>1. Continues(u) /\ net_thread'[u] = [pc |-> "listening", conn |-> net_thread[u].conn, new |-> 0]
    BY <1>2, GoFacts DEF register_listener, TypeOK
  <2>2. /\ DOMAIN listeners' = DOMAIN listeners \cup {net_thread[u].addr}
        /\ listeners'[net_thread[u].addr] = net_thread[u].conn
        /\ \A b \in DOMAIN listeners : listeners'[b] = listeners[b]
    BY <1>2 DEF register_listener
  <2> QED BY <1>2, <2>1, <2>2 DEF register_listener, NetAt
<1> QED BY <1>1, <1>2

(* The last step of announce makes the connection a listener without an end. *)
LEMMA announcedFacts ==
  ASSUME TypeOK, NEW u \in Users, announced(u), NEW c \in Conns, c = net_thread[u].conn
  PROVE  /\ Continues(u) /\ net_thread[u].pc = "listening" /\ net_thread'[u] = NetIdle
         /\ Only(c) /\ conn'[c].phase = "listening" /\ conn'[c].endpoint = NoEnd
         /\ conn'[c].pending = conn[c].pending /\ conn'[c].local = conn[c].local
         /\ UNCHANGED <<listeners, next_port, queue, link_closed, installed>>
<1>1. Continues(u) /\ net_thread'[u] = NetIdle
  BY GoFacts DEF announced, TypeOK
<1> DEFINE r == [conn[c] EXCEPT !.phase = "listening", !.remote = NoAddr, !.endpoint = NoEnd]
<1>2. /\ r \in ConnType /\ r.phase = "listening" /\ r.endpoint = NoEnd
      /\ r.pending = conn[c].pending /\ r.local = conn[c].local
  BY IdsAreNat DEF TypeOK, ConnType, Phases, Address, NoAddr, NoEnd
<1>3. conn' = [conn EXCEPT ![c] = r]
  BY DEF announced, Listening
<1>4. Only(c) /\ conn'[c] = r
  BY <1>2, <1>3, PutConn DEF TypeOK
<1> QED BY <1>1, <1>2, <1>4 DEF announced, NetAt

(* A dial looks its listener up and keeps the id it found. *)
LEMMA dialFacts ==
  ASSUME TypeOK, NEW u \in Users, NEW c \in Conns, NEW a \in Addrs, dial(u, c, a)
  PROVE  /\ Begins(u, c) /\ listeners[a] \in Conns
         /\ net_thread'[u] = [pc |-> "connect", conn |-> c, new |-> 0, addr |-> a, listener |-> listeners[a]]
         /\ UNCHANGED <<conn, listeners, next_port, queue, link_closed, installed>>
<1>1. Begins(u, c) /\ net_thread'[u] = [pc |-> "connect", conn |-> c, new |-> 0, addr |-> a, listener |-> listeners[a]]
  BY BeginFacts DEF dial, TypeOK
<1> QED BY <1>1 DEF dial, TypeOK

(* A new link: open, with two fresh ends and empty queues. *)
LinkAdded ==
  LET l == Len(link_closed) + 1 IN
  /\ link_closed' \in Seq(BOOLEAN) /\ Len(link_closed') = l
  /\ \A k \in 1..Len(link_closed) : link_closed'[k] = link_closed[k]
  /\ Ends' = Ends \cup {<<l, 1>>, <<l, 2>>} /\ Ends' = (1..Len(link_closed')) \X {1, 2}
  /\ <<l, 1>> \notin Ends /\ <<l, 2>> \notin Ends
  /\ \A e \in Ends' : queue'[e] \in Seq(Nat)

(* The dialling connection takes the first end of a new link and carries the second to *)
(* the listener.                                                                       *)
Connected(u, c) ==
  LET l == Len(link_closed) + 1 IN
  /\ conn[c].phase \in {"idle", "bound", "closed"}
  /\ Only(c) /\ conn'[c].phase = "connected" /\ conn'[c].endpoint = <<l, 1>>
  /\ conn'[c].pending = conn[c].pending
  /\ next_port' \in Nat
  /\ LinkAdded
  /\ installed' = installed \cup {<<c, <<l, 1>>>>}
  /\ net_thread'[u].pc = "enqueue" /\ net_thread'[u].conn = c /\ net_thread'[u].new = 0
  /\ net_thread'[u].listener = net_thread[u].listener
  /\ net_thread'[u].pending \in PendingType /\ net_thread'[u].pending.endpoint = <<l, 2>>

(* Making a link as connect does adds exactly that link. *)
LEMMA LinkFacts ==
  ASSUME TypeOK, NEW l, l = Len(link_closed) + 1, pair(l)
  PROVE  LinkAdded
<1>0. /\ link_closed' = Append(link_closed, FALSE)
      /\ queue' = [e \in Ends \cup {<<l, 1>>, <<l, 2>>} |-> IF e \in Ends THEN queue[e] ELSE <<>>]
  BY DEF pair
<1>1. /\ link_closed' \in Seq(BOOLEAN) /\ Len(link_closed') = l /\ Len(link_closed) \in Nat
      /\ \A k \in 1..Len(link_closed) : link_closed'[k] = link_closed[k]
  BY <1>0, AppendProperties DEF TypeOK
<1>2. Ends' = Ends \cup {<<l, 1>>, <<l, 2>>} /\ \A e \in Ends' : queue'[e] \in Seq(Nat)
  BY <1>0 DEF TypeOK, Ends
<1>3. Ends = (1..Len(link_closed)) \X {1, 2}
  BY DEF TypeOK
<1>4. <<l, 1>> \notin Ends /\ <<l, 2>> \notin Ends
  BY ONLY <1>1, <1>3, l = Len(link_closed) + 1
<1>5. Ends' = (1..l) \X {1, 2}
  BY ONLY <1>1, <1>2, <1>3, l = Len(link_closed) + 1
<1> QED BY <1>1, <1>2, <1>4, <1>5 DEF LinkAdded

(* connect gives up and changes nothing, or makes a link and installs its first end. *)
LEMMA connectFacts ==
  ASSUME TypeOK, NEW u \in Users, connect(u), NEW c \in Conns, c = net_thread[u].conn
  PROVE  /\ Continues(u) /\ net_thread[u].pc = "connect" /\ UNCHANGED listeners
         /\ \/ net_thread'[u] = NetIdle /\ UNCHANGED <<conn, next_port, queue, link_closed, installed>>
            \/ Connected(u, c)
<1>1. CASE conn[c].phase \notin {"idle", "bound", "closed"}
  <2>1. Continues(u) /\ net_thread'[u] = NetIdle
    BY <1>1, GoFacts DEF connect, TypeOK
  <2> QED BY <1>1, <2>1 DEF connect, NetAt
<1>2. CASE conn[c].phase \in {"idle", "bound", "closed"}
  <2> DEFINE l == Len(link_closed) + 1
             auto == conn[c].local = NoAddr
             local == IF auto THEN 10000 + next_port + 1 ELSE conn[c].local
             next == [pc |-> "enqueue", conn |-> c, new |-> 0, listener |-> net_thread[u].listener,
                      pending |-> [remote |-> local, endpoint |-> <<l, 2>>]]
             r == [conn[c] EXCEPT !.phase = "connected", !.local = local,
                                  !.remote = net_thread[u].addr, !.endpoint = <<l, 1>>]
  <2>0. net_thread[u].pc = "connect" /\ UNCHANGED listeners
    BY DEF connect, NetAt
  <2>1. Continues(u) /\ net_thread'[u] = next
    BY <1>2, GoFacts DEF connect, TypeOK
  <2>2. net_thread[u].addr \in Address /\ l \in Nat /\ local \in Address /\ conn[c] \in ConnType
    <3>1. ThreadOK(net_thread[u], Conns, Ends) /\ next_port \in Nat /\ link_closed \in Seq(BOOLEAN)
      BY DEF TypeOK
    <3>2. conn[c] \in ConnType
      BY IdsAreNat DEF TypeOK
    <3>3. net_thread[u].addr \in Address
      BY <2>0, <3>1 DEF ThreadOK, NetIdle
    <3> QED BY <3>1, <3>2, <3>3 DEF Address, ConnType
  <2>3. /\ r \in ConnType /\ r.phase = "connected" /\ r.endpoint = <<l, 1>> /\ r.pending = conn[c].pending
    <3> HIDE DEF l, local
    <3> QED BY <2>2 DEF ConnType, Phases
  <2>4. conn' = [conn EXCEPT ![c] = r]
    BY <1>2 DEF connect
  <2>5. Only(c) /\ conn'[c] = r
    <3> HIDE DEF r
    <3> QED BY <2>3, <2>4, PutConn DEF TypeOK
  <2>6. LinkAdded
    <3>1. pair(l)
      BY <1>2 DEF connect
    <3> HIDE DEF l
    <3>2. l = Len(link_closed) + 1
      BY DEF l
    <3> QED BY <3>1, <3>2, LinkFacts
  <2>7. next_port' \in Nat /\ installed' = installed \cup {<<c, <<l, 1>>>>}
    BY <1>2 DEF connect, Install, TypeOK
  <2>8. /\ net_thread'[u].pc = "enqueue" /\ net_thread'[u].conn = c /\ net_thread'[u].new = 0
        /\ net_thread'[u].listener = net_thread[u].listener
        /\ net_thread'[u].pending \in PendingType /\ net_thread'[u].pending.endpoint = <<l, 2>>
    BY <2>1, <2>2 DEF PendingType
  <2>9. Connected(u, c)
    BY <1>2, <2>3, <2>5, <2>6, <2>7, <2>8 DEF Connected
  <2> QED BY <2>0, <2>1, <2>9
<1> QED BY <1>1, <1>2

(* enqueue_accept puts the carried end at the back of the listener's queue, or drops it *)
(* when the listener no longer listens.                                                 *)
LEMMA enqueueFacts ==
  ASSUME TypeOK, NEW u \in Users, enqueue_accept(u), NEW s \in Conns, s = net_thread[u].listener
  PROVE  /\ Continues(u) /\ net_thread[u].pc = "enqueue" /\ net_thread'[u] = NetIdle
         /\ \/ UNCHANGED conn
            \/ /\ Only(s) /\ Same(s, s)
               /\ conn'[s].pending = Append(conn[s].pending, net_thread[u].pending)
         /\ UNCHANGED <<listeners, next_port, queue, link_closed, installed>>
<1>1. Continues(u) /\ net_thread'[u] = NetIdle /\ net_thread[u].pc = "enqueue"
  BY GoFacts DEF enqueue_accept, TypeOK, NetAt
<1>2. net_thread[u].pending \in PendingType
  BY <1>1 DEF TypeOK, ThreadOK, NetIdle
<1> DEFINE r == [conn[s] EXCEPT !.pending = Append(conn[s].pending, net_thread[u].pending)]
<1>3. conn[s] \in ConnType
  BY IdsAreNat DEF TypeOK
<1>4. conn[s].pending \in Seq(PendingType)
  BY <1>3 DEF ConnType
<1>5. Append(conn[s].pending, net_thread[u].pending) \in Seq(PendingType)
  BY <1>2, <1>4, AppendProperties
<1>6. /\ r \in ConnType /\ r.phase = conn[s].phase /\ r.local = conn[s].local /\ r.endpoint = conn[s].endpoint
      /\ r.pending = Append(conn[s].pending, net_thread[u].pending)
  BY <1>3, <1>5 DEF ConnType
<1>7. CASE conn[s].phase = "listening"
  <2>1. conn' = [conn EXCEPT ![s] = r]
    BY <1>7 DEF enqueue_accept
  <2>2. Only(s) /\ conn'[s] = r
    BY <1>6, <2>1, PutConn DEF TypeOK
  <2> QED BY <1>1, <1>6, <2>2 DEF enqueue_accept, Same
<1>8. CASE conn[s].phase # "listening"
  BY <1>1, <1>8 DEF enqueue_accept
<1> QED BY <1>7, <1>8

(* accept_one takes the front of the queue away and carries it off; the listener is *)
(* otherwise untouched.                                                             *)
LEMMA acceptFacts ==
  ASSUME TypeOK, NEW u \in Users, NEW c \in Conns, accept_one(u, c)
  PROVE  /\ Begins(u, c) /\ Only(c) /\ Same(c, c)
         /\ conn[c].pending \in Seq(PendingType) /\ conn[c].pending # <<>>
         /\ conn'[c].pending = Tail(conn[c].pending)
         /\ net_thread'[u].pc = "alloc" /\ net_thread'[u].conn = c /\ net_thread'[u].new = 0
         /\ net_thread'[u].local \in Address /\ net_thread'[u].pending = Head(conn[c].pending)
         /\ net_thread'[u].pending \in PendingType
         /\ UNCHANGED <<listeners, next_port, queue, link_closed, installed>>
<1> DEFINE next == [pc |-> "alloc", conn |-> c, new |-> 0, local |-> conn[c].local, pending |-> Head(conn[c].pending)]
           r == [conn[c] EXCEPT !.pending = Tail(conn[c].pending)]
<1>1. Begins(u, c) /\ net_thread'[u] = next
  BY BeginFacts DEF accept_one, TypeOK
<1>2. conn[c] \in ConnType /\ conn[c].pending # <<>>
  BY IdsAreNat DEF TypeOK, accept_one
<1>3. conn[c].pending \in Seq(PendingType) /\ conn[c].local \in Address
  BY <1>2 DEF ConnType
<1>4. Head(conn[c].pending) \in PendingType /\ Tail(conn[c].pending) \in Seq(PendingType)
  BY <1>2, <1>3, HeadTailProperties
<1>5. /\ r \in ConnType /\ r.phase = conn[c].phase /\ r.local = conn[c].local /\ r.endpoint = conn[c].endpoint
      /\ r.pending = Tail(conn[c].pending)
  BY <1>2, <1>4 DEF ConnType
<1>6. conn' = [conn EXCEPT ![c] = r]
  BY DEF accept_one, pop_front
<1>7. Only(c) /\ conn'[c] = r
  BY <1>5, <1>6, PutConn DEF TypeOK
<1>8. /\ net_thread'[u].pc = "alloc" /\ net_thread'[u].conn = c /\ net_thread'[u].new = 0
      /\ net_thread'[u].local \in Address /\ net_thread'[u].pending = Head(conn[c].pending)
      /\ net_thread'[u].pending \in PendingType
  BY <1>1, <1>3, <1>4
<1> QED BY <1>1, <1>2, <1>3, <1>5, <1>7, <1>8 DEF Same, accept_one

(* The accepted connection is allocated under a new id while its end is still carried. *)
LEMMA allocConnectedFacts ==
  ASSUME TypeOK, NEW u \in Users, alloc_connected(u)
  PROVE  /\ Continues(u) /\ conn' = Append(conn, Unused)
         /\ net_thread[u].pc = "alloc" /\ net_thread'[u].pc = "install" /\ net_thread'[u].new = Len(conn) + 1
         /\ net_thread'[u].conn = net_thread[u].conn /\ net_thread'[u].local = net_thread[u].local
         /\ net_thread'[u].pending = net_thread[u].pending
         /\ UNCHANGED <<listeners, next_port, queue, link_closed, installed>>
<1>1. Continues(u) /\ net_thread'[u] = [net_thread[u] EXCEPT !.pc = "install", !.new = Len(conn) + 1] /\ net_thread[u].pc = "alloc"
  BY GoFacts DEF alloc_connected, TypeOK, NetAt
<1> QED BY <1>1 DEF alloc_connected

(* The carried end is installed in the new connection, which is then connected. *)
LEMMA installFacts ==
  ASSUME TypeOK, NEW u \in Users, install_accepted(u), NEW n \in Conns, n = net_thread[u].new
  PROVE  /\ Continues(u) /\ net_thread[u].pc = "install" /\ net_thread'[u] = NetIdle
         /\ Only(n) /\ conn'[n].phase = "connected" /\ conn'[n].endpoint = net_thread[u].pending.endpoint
         /\ conn'[n].pending = conn[n].pending
         /\ installed' = installed \cup {<<n, net_thread[u].pending.endpoint>>}
         /\ UNCHANGED <<listeners, next_port, queue, link_closed>>
<1>1. Continues(u) /\ net_thread'[u] = NetIdle /\ net_thread[u].pc = "install"
  BY GoFacts DEF install_accepted, TypeOK, NetAt
<1>2. net_thread[u].pending \in PendingType /\ net_thread[u].local \in Address
  BY <1>1 DEF TypeOK, ThreadOK, NetIdle
<1>3. conn[n] \in ConnType
  BY IdsAreNat DEF TypeOK
<1>4. net_thread[u].pending.remote \in Address /\ net_thread[u].pending.endpoint \in Nat \X Nat
  BY <1>2 DEF PendingType
<1> DEFINE r == [conn[n] EXCEPT !.phase = "connected", !.local = net_thread[u].local,
                                !.remote = net_thread[u].pending.remote, !.endpoint = net_thread[u].pending.endpoint]
<1>5. r \in ConnType /\ r.phase = "connected" /\ r.endpoint = net_thread[u].pending.endpoint /\ r.pending = conn[n].pending
  BY <1>2, <1>3, <1>4 DEF ConnType, Phases
<1>6. conn' = [conn EXCEPT ![n] = r]
  BY DEF install_accepted
<1>7. Only(n) /\ conn'[n] = r
  BY <1>5, <1>6, PutConn DEF TypeOK
<1> QED BY <1>1, <1>5, <1>7 DEF install_accepted, Install

(* Clearing a connection leaves it no end and an empty queue. *)
LEMMA HungFacts ==
  ASSUME TypeOK, NEW c \in Conns, NEW phase \in {"idle", "closed"}, NEW STATE local, NEW STATE remote,
         local \in Address, remote \in Address, conn' = Hung(c, phase, local, remote)
  PROVE  Only(c) /\ conn'[c].phase = phase /\ conn'[c].endpoint = NoEnd /\ conn'[c].pending = <<>>
<1> DEFINE r == [conn[c] EXCEPT !.phase = phase, !.local = local, !.remote = remote,
                                !.endpoint = NoEnd, !.pending = <<>>]
<1>1. conn[c] \in ConnType /\ NoEnd \in Nat \X Nat /\ phase \in Phases /\ <<>> \in Seq(PendingType)
  BY IdsAreNat DEF TypeOK, NoEnd, Phases
<1>2. r \in ConnType /\ r.phase = phase /\ r.endpoint = NoEnd /\ r.pending = <<>>
  BY <1>1 DEF ConnType
<1>3. conn' = [conn EXCEPT ![c] = r]
  BY DEF Hung
<1>4. Only(c) /\ conn'[c] = r
  BY <1>2, <1>3, PutConn DEF TypeOK
<1> QED BY <1>2, <1>4

(* A hangup or a reset clears the connection and carries away the end and the address it *)
(* had.                                                                                  *)
Ending(u, c) ==
  /\ net_thread'[u].conn = c /\ net_thread'[u].new = 0
  /\ net_thread'[u].addr = conn[c].local /\ net_thread'[u].endpoint = conn[c].endpoint
  /\ Only(c) /\ conn'[c].phase \in {"idle", "closed"} /\ conn'[c].endpoint = NoEnd /\ conn'[c].pending = <<>>

(* A hangup clears the connection and skips the listener table only when it was not *)
(* listening.                                                                       *)
LEMMA hangupFacts ==
  ASSUME TypeOK, NEW u \in Users, NEW c \in Conns, hangup(u, c)
  PROVE  /\ Begins(u, c) /\ Ending(u, c)
         /\ net_thread'[u].pc \in {"unregister", "close"}
         /\ net_thread'[u].pc = "close" => conn[c].phase # "listening"
         /\ UNCHANGED <<listeners, next_port, queue, link_closed, installed>>
<1> DEFINE next == [pc |-> IF conn[c].phase = "listening" THEN "unregister" ELSE "close",
                    conn |-> c, new |-> 0, addr |-> conn[c].local, endpoint |-> conn[c].endpoint]
<1>1. Begins(u, c) /\ net_thread'[u] = next
  BY BeginFacts DEF hangup, TypeOK
<1>2. conn[c].local \in Address /\ conn[c].remote \in Address
  BY IdsAreNat DEF TypeOK, ConnType
<1>3. Only(c) /\ conn'[c].phase = "closed" /\ conn'[c].endpoint = NoEnd /\ conn'[c].pending = <<>>
  BY <1>2, HungFacts DEF hangup
<1>4. /\ net_thread'[u].conn = c /\ net_thread'[u].new = 0
      /\ net_thread'[u].addr = conn[c].local /\ net_thread'[u].endpoint = conn[c].endpoint
      /\ net_thread'[u].pc \in {"unregister", "close"}
      /\ net_thread'[u].pc = "close" => conn[c].phase # "listening"
  BY <1>1
<1> QED BY <1>1, <1>3, <1>4 DEF hangup, Ending

(* A reset clears the connection and always visits the listener table. *)
LEMMA resetFacts ==
  ASSUME TypeOK, NEW u \in Users, NEW c \in Conns, reset(u, c)
  PROVE  /\ Begins(u, c) /\ Ending(u, c) /\ net_thread'[u].pc = "unregister"
         /\ UNCHANGED <<listeners, next_port, queue, link_closed, installed>>
<1> DEFINE next == [pc |-> "unregister", conn |-> c, new |-> 0, addr |-> conn[c].local, endpoint |-> conn[c].endpoint]
<1>1. Begins(u, c) /\ net_thread'[u] = next
  BY BeginFacts DEF reset, TypeOK
<1>2. NoAddr \in Address
  BY DEF NoAddr, Address
<1>3. Only(c) /\ conn'[c].phase = "idle" /\ conn'[c].endpoint = NoEnd /\ conn'[c].pending = <<>>
  BY <1>2, HungFacts DEF reset
<1>4. /\ net_thread'[u].conn = c /\ net_thread'[u].new = 0
      /\ net_thread'[u].addr = conn[c].local /\ net_thread'[u].endpoint = conn[c].endpoint
      /\ net_thread'[u].pc = "unregister"
  BY <1>1
<1> QED BY <1>1, <1>3, <1>4 DEF reset, Ending

(* unregister_listener removes the address only where it still names this connection. *)
LEMMA unregisterFacts ==
  ASSUME TypeOK, NEW u \in Users, unregister(u)
  PROVE  /\ Continues(u) /\ net_thread[u].pc = "unregister" /\ net_thread'[u].pc = "close"
         /\ net_thread'[u].conn = net_thread[u].conn /\ net_thread'[u].new = net_thread[u].new
         /\ net_thread'[u].addr = net_thread[u].addr /\ net_thread'[u].endpoint = net_thread[u].endpoint
         /\ DOMAIN listeners' = {d \in DOMAIN listeners : d # net_thread[u].addr \/ listeners[d] # net_thread[u].conn}
         /\ \A d \in DOMAIN listeners' : listeners'[d] = listeners[d]
         /\ UNCHANGED <<conn, next_port, queue, link_closed, installed>>
<1>1. Continues(u) /\ net_thread'[u] = [net_thread[u] EXCEPT !.pc = "close"] /\ net_thread[u].pc = "unregister"
  BY GoFacts DEF unregister, TypeOK, NetAt
<1> QED BY <1>1 DEF unregister, unregister_listener

(* Closing the end that was carried away closes its link; no link opens again. *)
LEMMA closeFacts ==
  ASSUME TypeOK, NEW u \in Users, close(u)
  PROVE  /\ Continues(u) /\ net_thread[u].pc = "close" /\ net_thread'[u] = NetIdle
         /\ link_closed' \in Seq(BOOLEAN) /\ Len(link_closed') = Len(link_closed)
         /\ \A l \in 1..Len(link_closed) : link_closed[l] => link_closed'[l]
         /\ net_thread[u].endpoint # NoEnd => link_closed'[net_thread[u].endpoint[1]]
         /\ UNCHANGED <<conn, listeners, next_port, queue, installed>>
<1>1. Continues(u) /\ net_thread'[u] = NetIdle /\ net_thread[u].pc = "close"
  BY GoFacts DEF close, TypeOK, NetAt
<1>2. net_thread[u].endpoint \in Ends \cup {NoEnd}
  BY <1>1 DEF TypeOK, ThreadOK, NetIdle
<1>3. Ends = (1..Len(link_closed)) \X {1, 2} /\ link_closed \in Seq(BOOLEAN)
  BY DEF TypeOK
<1>4. CASE net_thread[u].endpoint = NoEnd
  BY <1>1, <1>3, <1>4 DEF close, Closed
<1>5. CASE net_thread[u].endpoint # NoEnd
  <2>1. PICK l : l = net_thread[u].endpoint[1]
    OBVIOUS
  <2>2. l \in 1..Len(link_closed)
    BY <1>2, <1>3, <1>5, <2>1
  <2>3. link_closed' = [link_closed EXCEPT ![l] = TRUE]
    BY <1>5, <2>1 DEF close, Closed
  <2>4. link_closed' \in Seq(BOOLEAN) /\ Len(link_closed') = Len(link_closed)
    <3>1. TRUE \in BOOLEAN
      OBVIOUS
    <3> QED BY <3>1, <1>3, <2>2, <2>3, ExceptSeq
  <2>5. link_closed'[l] /\ \A k \in 1..Len(link_closed) : link_closed[k] => link_closed'[k]
    <3>1. l \in DOMAIN link_closed /\ 1..Len(link_closed) = DOMAIN link_closed
      BY <1>3, <2>2
    <3> QED BY <2>3, <3>1
  <2> QED BY <1>1, <2>1, <2>4, <2>5 DEF close
<1> QED BY <1>4, <1>5

(* A read or a write copies the end out of a connected connection before it goes to the *)
(* link.                                                                                *)
LEMMA writeFacts ==
  ASSUME TypeOK, NEW u \in Users, NEW c \in Conns, write(u, c) \/ read(u, c)
  PROVE  /\ Begins(u, c) /\ conn[c].phase = "connected"
         /\ net_thread'[u].pc \in {"check", "read"} /\ net_thread'[u].conn = c /\ net_thread'[u].new = 0
         /\ net_thread'[u].endpoint = conn[c].endpoint
         /\ UNCHANGED <<conn, listeners, next_port, queue, link_closed, installed>>
<1>1. CASE write(u, c)
  <2>1. Begins(u, c) /\ net_thread'[u] = [pc |-> "check", conn |-> c, new |-> 0, endpoint |-> conn[c].endpoint]
    BY <1>1, BeginFacts DEF write, TypeOK
  <2> QED BY <1>1, <2>1 DEF write
<1>2. CASE read(u, c)
  <2>1. Begins(u, c) /\ net_thread'[u] = [pc |-> "read", conn |-> c, new |-> 0, endpoint |-> conn[c].endpoint]
    BY <1>2, BeginFacts DEF read, TypeOK
  <2> QED BY <1>2, <2>1 DEF read
<1> QED BY <1>1, <1>2

(* A write checks that the link is open and either fails or goes on to the queue. *)
LEMMA writeOpenFacts ==
  ASSUME TypeOK, NEW u \in Users, write_open(u)
  PROVE  /\ Continues(u) /\ net_thread[u].pc = "check"
         /\ \/ net_thread'[u] = NetIdle
            \/ /\ net_thread'[u].pc = "push" /\ net_thread'[u].conn = net_thread[u].conn /\ net_thread'[u].new = net_thread[u].new
               /\ net_thread'[u].endpoint = net_thread[u].endpoint
         /\ UNCHANGED <<conn, listeners, next_port, queue, link_closed, installed>>
<1>1. /\ Continues(u) /\ net_thread[u].pc = "check"
      /\ net_thread'[u] = IF link_closed[net_thread[u].endpoint[1]] THEN NetIdle ELSE [net_thread[u] EXCEPT !.pc = "push"]
  BY GoFacts DEF write_open, TypeOK, NetAt
<1> QED BY <1>1 DEF write_open

(* Moving a message through a queue changes no connection, table or link state. *)
LEMMA ioFacts ==
  ASSUME TypeOK, NEW u \in Users, write_push(u) \/ read_pop(u)
  PROVE  /\ Continues(u) /\ net_thread[u].pc \in {"push", "read"} /\ net_thread'[u] = NetIdle
         /\ Ends' = Ends /\ \A e \in Ends : queue'[e] \in Seq(Nat)
         /\ UNCHANGED <<conn, listeners, next_port, link_closed, installed>>
<1>0. Ends = (1..Len(link_closed)) \X {1, 2} /\ \A e \in Ends : queue[e] \in Seq(Nat)
  BY DEF TypeOK
<1>1. CASE write_push(u)
  <2>1. Continues(u) /\ net_thread'[u] = NetIdle /\ net_thread[u].pc = "push"
    BY <1>1, GoFacts DEF write_push, TypeOK, NetAt
  <2>2. net_thread[u].endpoint \in Ends /\ net_thread[u].conn \in Conns
    BY <2>1 DEF TypeOK, ThreadOK, NetIdle
  <2>3. PICK e : e = Other(net_thread[u].endpoint)
    OBVIOUS
  <2>5. net_thread[u].conn \in Nat
    BY <2>2, IdsAreNat DEF TypeOK
  <2>6. queue' = [queue EXCEPT ![e] = Append(queue[e], net_thread[u].conn)]
    BY <1>1, <2>3 DEF write_push
  <2>7. \A f \in Ends : queue[f] \in Seq(Nat) => Append(queue[f], net_thread[u].conn) \in Seq(Nat)
    BY <2>5, AppendProperties
  <2>8. Ends' = Ends /\ \A f \in Ends : queue'[f] \in Seq(Nat)
    BY <1>0, <2>6, <2>7 DEF Ends
  <2> QED BY <1>1, <2>1, <2>8 DEF write_push
<1>2. CASE read_pop(u)
  <2>1. Continues(u) /\ net_thread'[u] = NetIdle /\ net_thread[u].pc = "read"
    BY <1>2, GoFacts DEF read_pop, TypeOK, NetAt
  <2>2. PICK e : e = net_thread[u].endpoint
    OBVIOUS
  <2>3. queue' = IF queue[e] = <<>> THEN queue ELSE [queue EXCEPT ![e] = Tail(queue[e])]
    BY <1>2, <2>2 DEF read_pop
  <2>4. \A f \in Ends : queue[f] \in Seq(Nat) /\ queue[f] # <<>> => Tail(queue[f]) \in Seq(Nat)
    BY HeadTailProperties
  <2>5. Ends' = Ends /\ \A f \in Ends : queue'[f] \in Seq(Nat)
    BY <1>0, <2>3, <2>4 DEF Ends
  <2> QED BY <1>2, <2>1, <2>5 DEF read_pop
<1> QED BY <1>1, <1>2

-----------------------------------------------------------------------------
(* The types of the links' tables. *)
LinksOK ==
  /\ link_closed \in Seq(BOOLEAN)
  /\ Ends = (1..Len(link_closed)) \X {1, 2}
  /\ \A e \in Ends : queue[e] \in Seq(Nat)

(* What a step has to show to keep the types when it adds connections or links. *)
LEMMA KeepType ==
  ASSUME TypeOK, NEW u \in Users, Moves(u), Conns \subseteq Conns', Ends \subseteq Ends',
         conn' \in Seq(ConnType), next_port' \in Nat, LinksOK',
         installed' \subseteq Conns' \X Ends',
         \A a \in DOMAIN listeners' : listeners'[a] \in Conns',
         ThreadOK(net_thread'[u], Conns', Ends')
  PROVE  TypeOK'
<1>1. \A v \in Users : ThreadOK(net_thread'[v], Conns', Ends')
  <2> SUFFICES ASSUME NEW v \in Users, v # u PROVE ThreadOK(net_thread'[v], Conns', Ends')
    OBVIOUS
  <2>1. ThreadOK(net_thread[v], Conns, Ends)
    BY DEF TypeOK
  <2>2. ThreadOK(net_thread[v], Conns', Ends')
    BY <2>1, ThreadMono
  <2> QED BY <2>2 DEF Moves
<1> QED BY <1>1 DEF TypeOK, LinksOK, Moves

(* A step that leaves the links leaves their types. *)
LEMMA SameLinks ==
  ASSUME TypeOK, UNCHANGED <<queue, link_closed>>
  PROVE  LinksOK' /\ Ends' = Ends
BY DEF TypeOK, LinksOK, Ends

(* An idle thread needs nothing to exist. *)
LEMMA IdleOK == \A I, E : ThreadOK(NetIdle, I, E)
BY DEF ThreadOK

(* What remains to show of types for a step that leaves the listeners and the links *)
(* alone.                                                                           *)
LEMMA KeepTypeOnly ==
  ASSUME TypeOK, NEW u \in Users, Moves(u), conn' \in Seq(ConnType), Conns \subseteq Conns',
         UNCHANGED <<listeners, next_port, queue, link_closed, installed>>,
         ThreadOK(net_thread'[u], Conns', Ends)
  PROVE  TypeOK'
<1>1. LinksOK' /\ Ends' = Ends
  BY SameLinks
<1>2. installed' \subseteq Conns' \X Ends' /\ next_port' \in Nat
      /\ \A a \in DOMAIN listeners' : listeners'[a] \in Conns'
  BY <1>1 DEF TypeOK
<1> QED BY <1>1, <1>2, KeepType

(* The end a connected connection gives out exists. *)
LEMMA HoldersTyped ==
  ASSUME TypeOK, HeldOK, NEW c \in Conns
  PROVE  /\ conn[c].local \in Address
         /\ conn[c].phase = "connected" => conn[c].endpoint \in Ends
         /\ conn[c].endpoint \in Ends \cup {NoEnd}
BY IdsAreNat DEF TypeOK, HeldOK, ConnType

(* The connections a command in flight refers to exist. *)
LEMMA OnTyped ==
  ASSUME TypeOK, NEW u \in Users, net_thread[u].pc # "idle"
  PROVE  /\ net_thread[u] # NetIdle /\ net_thread[u].conn \in Conns /\ net_thread[u].new \in Nat
         /\ net_thread[u].pc # "install" => net_thread[u].new = 0
         /\ net_thread[u].pc = "install" => net_thread[u].new \in Conns
         /\ net_thread[u].pc \in {"connect", "enqueue"} => net_thread[u].listener \in Conns
<1>1. net_thread[u] # NetIdle
  BY DEF NetIdle
<1>2. ThreadOK(net_thread[u], Conns, Ends)
  BY DEF TypeOK
<1> QED BY <1>1, <1>2 DEF ThreadOK

(* Every call of a user keeps the types. *)
LEMMA CallType ==
  ASSUME TypeOK, HeldOK, NEW u \in Users, Call(u)
  PROVE  TypeOK'
<1>1. CASE alloc(u)
  <2>1. ThreadOK(net_thread[u], Conns, Ends) /\ conn \in Seq(ConnType)
    BY DEF TypeOK
  <2>2. conn' \in Seq(ConnType) /\ Conns \subseteq Conns'
    BY <1>1, <2>1, allocFacts, AddConn
  <2>3. Moves(u) /\ net_thread'[u] = net_thread[u] /\ UNCHANGED <<listeners, next_port, queue, link_closed, installed>>
    BY <1>1, allocFacts
  <2>4. ThreadOK(net_thread'[u], Conns', Ends)
    BY <2>1, <2>2, <2>3, ThreadMono
  <2> QED BY <2>2, <2>3, <2>4, KeepTypeOnly
<1>2. ASSUME NEW c \in Conns, NEW a \in Addrs, bind(u, c, a) PROVE TypeOK'
  <2>1. /\ Moves(u) /\ net_thread'[u] = NetIdle /\ conn' \in Seq(ConnType) /\ Conns' = Conns
        /\ UNCHANGED <<listeners, next_port, queue, link_closed, installed>>
    BY <1>2, bindFacts DEF Begins, Only
  <2> QED BY <2>1, IdleOK, KeepTypeOnly
<1>3. ASSUME NEW c \in Conns, NEW a \in Addrs, announce(u, c, a) PROVE TypeOK'
  <2>1. /\ Moves(u) /\ conn' \in Seq(ConnType) /\ Conns' = Conns
        /\ net_thread'[u] = [pc |-> "register", conn |-> c, new |-> 0, addr |-> a]
        /\ UNCHANGED <<listeners, next_port, queue, link_closed, installed>>
    BY <1>3, announceFacts DEF Begins, Only
  <2>2. ThreadOK(net_thread'[u], Conns', Ends)
    BY <2>1 DEF ThreadOK, Address, Quiet, Unquiet
  <2> QED BY <2>1, <2>2, KeepTypeOnly
<1>4. ASSUME NEW c \in Conns, NEW a \in Addrs, dial(u, c, a) PROVE TypeOK'
  <2>1. /\ Moves(u) /\ listeners[a] \in Conns
        /\ net_thread'[u] = [pc |-> "connect", conn |-> c, new |-> 0, addr |-> a, listener |-> listeners[a]]
        /\ UNCHANGED <<conn, listeners, next_port, queue, link_closed, installed>>
    BY <1>4, dialFacts DEF Begins
  <2>2. conn' \in Seq(ConnType) /\ Conns' = Conns
    BY <2>1 DEF TypeOK, Conns
  <2>3. ThreadOK(net_thread'[u], Conns', Ends)
    BY <2>1, <2>2 DEF ThreadOK, Address, Quiet, Unquiet
  <2> QED BY <2>1, <2>2, <2>3, KeepTypeOnly
<1>5. ASSUME NEW c \in Conns, accept_one(u, c) PROVE TypeOK'
  <2>1. /\ Moves(u) /\ conn' \in Seq(ConnType) /\ Conns' = Conns
        /\ net_thread'[u].pc = "alloc" /\ net_thread'[u].conn = c /\ net_thread'[u].new = 0
        /\ net_thread'[u].local \in Address /\ net_thread'[u].pending \in PendingType
        /\ UNCHANGED <<listeners, next_port, queue, link_closed, installed>>
    BY <1>5, acceptFacts DEF Begins, Only
  <2>2. net_thread'[u].pending = conn[c].pending[1] /\ 1 \in DOMAIN conn[c].pending
    BY <1>5, acceptFacts
  <2>3. net_thread'[u].pending.endpoint \in Ends
    BY <2>2 DEF HeldOK
  <2>4. ThreadOK(net_thread'[u], Conns', Ends)
    BY <2>1, <2>3 DEF ThreadOK, Quiet, Unquiet
  <2> QED BY <2>1, <2>4, KeepTypeOnly
<1>6. ASSUME NEW c \in Conns, hangup(u, c) \/ reset(u, c) PROVE TypeOK'
  <2>1. /\ Moves(u) /\ conn' \in Seq(ConnType) /\ Conns' = Conns
        /\ net_thread'[u].pc \in {"unregister", "close"} /\ net_thread'[u].conn = c /\ net_thread'[u].new = 0
        /\ net_thread'[u].endpoint = conn[c].endpoint
        /\ UNCHANGED <<listeners, next_port, queue, link_closed, installed>>
    BY <1>6, hangupFacts, resetFacts DEF Begins, Only, Ending
  <2>2. net_thread'[u].endpoint \in Ends \cup {NoEnd}
    BY <2>1, HoldersTyped
  <2>3. ThreadOK(net_thread'[u], Conns', Ends)
    BY <2>1, <2>2 DEF ThreadOK, Quiet, Unquiet
  <2> QED BY <2>1, <2>3, KeepTypeOnly
<1>7. ASSUME NEW c \in Conns, write(u, c) \/ read(u, c) PROVE TypeOK'
  <2>1. /\ Moves(u) /\ net_thread'[u].pc \in {"check", "read"} /\ net_thread'[u].conn = c /\ net_thread'[u].new = 0
        /\ net_thread'[u].endpoint = conn[c].endpoint /\ conn[c].phase = "connected"
        /\ UNCHANGED <<conn, listeners, next_port, queue, link_closed, installed>>
    BY <1>7, writeFacts DEF Begins
  <2>2. conn' \in Seq(ConnType) /\ Conns' = Conns
    BY <2>1 DEF TypeOK, Conns
  <2>3. net_thread'[u].endpoint \in Ends
    BY <2>1, HoldersTyped
  <2>4. ThreadOK(net_thread'[u], Conns', Ends)
    BY <2>1, <2>2, <2>3 DEF ThreadOK, Quiet, Unquiet
  <2> QED BY <2>1, <2>2, <2>4, KeepTypeOnly
<1> QED BY <1>1, <1>2, <1>3, <1>4, <1>5, <1>6, <1>7 DEF Call

(* Every later step of a command keeps the types. *)
LEMMA ContinueType ==
  ASSUME TypeOK, NEW u \in Users, Continue(u)
  PROVE  TypeOK'
<1>0. conn \in Seq(ConnType)
  BY DEF TypeOK
<1>1. CASE register_listener(u)
  <2>1. /\ Moves(u) /\ net_thread[u].pc = "register"
        /\ UNCHANGED <<conn, next_port, queue, link_closed, installed>>
    BY <1>1, registerFacts DEF Continues
  <2>2. conn' \in Seq(ConnType) /\ Conns' = Conns /\ LinksOK' /\ Ends' = Ends
    BY <1>0, <2>1, SameLinks DEF Conns
  <2>3. net_thread[u].conn \in Conns
    BY <2>1, OnTyped
  <2>4. \A a \in DOMAIN listeners' : listeners'[a] \in Conns'
    <3>1. \A a \in DOMAIN listeners : listeners[a] \in Conns
      BY DEF TypeOK
    <3>2. CASE UNCHANGED listeners
      BY <2>2, <3>1, <3>2
    <3>3. CASE /\ DOMAIN listeners' = DOMAIN listeners \cup {net_thread[u].addr}
               /\ listeners'[net_thread[u].addr] = net_thread[u].conn
               /\ \A b \in DOMAIN listeners : listeners'[b] = listeners[b]
      BY <2>2, <2>3, <3>1, <3>3
    <3> QED BY <1>1, <3>2, <3>3, registerFacts
  <2>5. ThreadOK(net_thread'[u], Conns', Ends')
    <3>1. CASE net_thread'[u] = NetIdle
      BY <3>1, IdleOK
    <3>2. CASE net_thread'[u] = [pc |-> "listening", conn |-> net_thread[u].conn, new |-> 0]
      BY <2>2, <2>3, <3>2 DEF ThreadOK, Quiet, Unquiet
    <3> QED BY <1>1, <3>1, <3>2, registerFacts
  <2>6. installed' \subseteq Conns' \X Ends' /\ next_port' \in Nat
    BY <2>1, <2>2 DEF TypeOK
  <2> QED BY <2>1, <2>2, <2>4, <2>5, <2>6, KeepType
<1>2. CASE announced(u)
  <2>1. PICK c \in Conns : c = net_thread[u].conn
    BY <1>2, OnTyped DEF announced, NetAt
  <2>2. /\ Moves(u) /\ net_thread'[u] = NetIdle /\ conn' \in Seq(ConnType) /\ Conns' = Conns
        /\ UNCHANGED <<listeners, next_port, queue, link_closed, installed>>
    BY <1>2, <2>1, announcedFacts DEF Continues, Only
  <2> QED BY <2>2, IdleOK, KeepTypeOnly
<1>3. CASE connect(u)
  <2>1. PICK c \in Conns : c = net_thread[u].conn
    BY <1>3, OnTyped DEF connect, NetAt
  <2>2. Moves(u) /\ UNCHANGED listeners /\ net_thread[u].pc = "connect"
    BY <1>3, <2>1, connectFacts DEF Continues
  <2>3. CASE net_thread'[u] = NetIdle /\ UNCHANGED <<conn, next_port, queue, link_closed, installed>>
    <3>1. conn' \in Seq(ConnType) /\ Conns' = Conns
      BY <1>0, <2>3 DEF Conns
    <3> QED BY <2>2, <2>3, <3>1, IdleOK, KeepTypeOnly
  <2>4. CASE Connected(u, c)
    <3>1. /\ conn' \in Seq(ConnType) /\ Conns' = Conns /\ next_port' \in Nat /\ LinkAdded
          /\ installed' = installed \cup {<<c, <<Len(link_closed) + 1, 1>>>>}
          /\ net_thread'[u].pc = "enqueue" /\ net_thread'[u].conn = c /\ net_thread'[u].new = 0
          /\ net_thread'[u].listener = net_thread[u].listener
          /\ net_thread'[u].pending \in PendingType /\ net_thread'[u].pending.endpoint = <<Len(link_closed) + 1, 2>>
      BY <2>4 DEF Connected, Only
    <3>2. /\ LinksOK' /\ Ends \subseteq Ends'
          /\ <<Len(link_closed) + 1, 1>> \in Ends' /\ <<Len(link_closed) + 1, 2>> \in Ends'
      BY <3>1 DEF LinkAdded, LinksOK
    <3>3. net_thread[u].listener \in Conns
      BY <2>2, OnTyped
    <3>4. ThreadOK(net_thread'[u], Conns', Ends')
      BY <3>1, <3>2, <3>3, SMTT(30) DEF ThreadOK, Quiet, Unquiet
    <3>5. installed' \subseteq Conns' \X Ends'
      <4> DEFINE e == <<Len(link_closed) + 1, 1>>
      <4>1. installed \subseteq Conns \X Ends
        BY DEF TypeOK
      <4>2. Conns' = Conns /\ Ends \subseteq Ends' /\ c \in Conns /\ e \in Ends'
        BY <2>1, <3>1, <3>2
      <4>3. installed' = installed \cup {<<c, e>>}
        BY <3>1
      <4> HIDE DEF e
      <4>4. Conns \X Ends \subseteq Conns' \X Ends' /\ <<c, e>> \in Conns' \X Ends'
        BY <4>2
      <4> QED BY <4>1, <4>3, <4>4
    <3>6. \A a \in DOMAIN listeners' : listeners'[a] \in Conns'
      BY <2>2, <3>1 DEF TypeOK
    <3> QED BY <2>2, <3>1, <3>2, <3>4, <3>5, <3>6, KeepType
  <2> QED BY <1>3, <2>1, <2>3, <2>4, connectFacts
<1>4. CASE enqueue_accept(u)
  <2>1. PICK s \in Conns : s = net_thread[u].listener
    BY <1>4, OnTyped DEF enqueue_accept, NetAt
  <2>2. /\ Moves(u) /\ net_thread'[u] = NetIdle /\ conn' \in Seq(ConnType) /\ Conns' = Conns
        /\ UNCHANGED <<listeners, next_port, queue, link_closed, installed>>
    BY <1>0, <1>4, <2>1, enqueueFacts DEF Continues, Only, Conns
  <2> QED BY <2>2, IdleOK, KeepTypeOnly
<1>5. CASE alloc_connected(u)
  <2>1. /\ Moves(u) /\ conn' = Append(conn, Unused)
        /\ net_thread[u].pc = "alloc" /\ net_thread'[u].pc = "install" /\ net_thread'[u].new = Len(conn) + 1
        /\ net_thread'[u].conn = net_thread[u].conn /\ net_thread'[u].local = net_thread[u].local
        /\ net_thread'[u].pending = net_thread[u].pending
        /\ UNCHANGED <<listeners, next_port, queue, link_closed, installed>>
    BY <1>5, allocConnectedFacts DEF Continues
  <2>2. conn' \in Seq(ConnType) /\ Conns' = Conns \cup {Len(conn) + 1} /\ Len(conn) + 1 \in Nat
    BY <1>0, <2>1, AddConn, IdsAreNat
  <2>3. net_thread[u].conn \in Conns
    BY <2>1, OnTyped
  <2>4. net_thread[u].local \in Address /\ net_thread[u].pending \in PendingType /\ net_thread[u].pending.endpoint \in Ends
    BY <2>1 DEF TypeOK, ThreadOK, NetIdle
  <2>5. ThreadOK(net_thread'[u], Conns', Ends)
    BY <2>1, <2>2, <2>3, <2>4 DEF ThreadOK, Quiet, Unquiet
  <2> QED BY <2>1, <2>2, <2>5, KeepTypeOnly
<1>6. CASE install_accepted(u)
  <2>1. PICK n \in Conns : n = net_thread[u].new
    BY <1>6, OnTyped DEF install_accepted, NetAt
  <2>2. /\ Moves(u) /\ net_thread[u].pc = "install" /\ net_thread'[u] = NetIdle /\ conn' \in Seq(ConnType) /\ Conns' = Conns
        /\ installed' = installed \cup {<<n, net_thread[u].pending.endpoint>>}
        /\ UNCHANGED <<listeners, next_port, queue, link_closed>>
    BY <1>6, <2>1, installFacts DEF Continues, Only
  <2>3. LinksOK' /\ Ends' = Ends
    BY <2>2, SameLinks
  <2>4. net_thread[u].pending.endpoint \in Ends
    BY <2>2 DEF TypeOK, ThreadOK, NetIdle
  <2>5. installed' \subseteq Conns' \X Ends' /\ \A a \in DOMAIN listeners' : listeners'[a] \in Conns'
    BY <2>2, <2>3, <2>4 DEF TypeOK
  <2>6. next_port' \in Nat
    BY <2>2 DEF TypeOK
  <2> QED BY <2>2, <2>3, <2>5, <2>6, IdleOK, KeepType
<1>7. CASE unregister(u)
  <2>1. /\ Moves(u) /\ net_thread[u].pc = "unregister" /\ net_thread'[u].pc = "close"
        /\ net_thread'[u].conn = net_thread[u].conn /\ net_thread'[u].new = net_thread[u].new
        /\ net_thread'[u].endpoint = net_thread[u].endpoint
        /\ \A d \in DOMAIN listeners' : d \in DOMAIN listeners /\ listeners'[d] = listeners[d]
        /\ UNCHANGED <<conn, next_port, queue, link_closed, installed>>
    BY <1>7, unregisterFacts DEF Continues
  <2>2. conn' \in Seq(ConnType) /\ Conns' = Conns /\ LinksOK' /\ Ends' = Ends
    BY <1>0, <2>1, SameLinks DEF Conns
  <2>3. net_thread[u].conn \in Conns /\ net_thread[u].new = 0
    BY <2>1, OnTyped
  <2>4. net_thread[u].endpoint \in Ends \cup {NoEnd}
    BY <2>1 DEF TypeOK, ThreadOK, NetIdle
  <2>5. ThreadOK(net_thread'[u], Conns', Ends')
    BY <2>1, <2>2, <2>3, <2>4 DEF ThreadOK, Quiet, Unquiet
  <2>6. installed' \subseteq Conns' \X Ends' /\ next_port' \in Nat
        /\ \A a \in DOMAIN listeners' : listeners'[a] \in Conns'
    BY <2>1, <2>2 DEF TypeOK
  <2> QED BY <2>1, <2>2, <2>5, <2>6, KeepType
<1>8. CASE close(u)
  <2>1. /\ Moves(u) /\ net_thread'[u] = NetIdle /\ link_closed' \in Seq(BOOLEAN) /\ Len(link_closed') = Len(link_closed)
        /\ UNCHANGED <<conn, listeners, next_port, queue, installed>>
    BY <1>8, closeFacts DEF Continues
  <2>2. conn' \in Seq(ConnType) /\ Conns' = Conns /\ Ends' = Ends
    BY <1>0, <2>1 DEF Conns, Ends
  <2>3. LinksOK'
    BY <2>1, <2>2 DEF TypeOK, LinksOK
  <2>4. installed' \subseteq Conns' \X Ends' /\ next_port' \in Nat
        /\ \A a \in DOMAIN listeners' : listeners'[a] \in Conns'
    BY <2>1, <2>2 DEF TypeOK
  <2> QED BY <2>1, <2>2, <2>3, <2>4, IdleOK, KeepType
<1>9. CASE write_open(u)
  <2>1. /\ Moves(u) /\ net_thread[u].pc = "check"
        /\ UNCHANGED <<conn, listeners, next_port, queue, link_closed, installed>>
    BY <1>9, writeOpenFacts DEF Continues
  <2>2. conn' \in Seq(ConnType) /\ Conns' = Conns
    BY <1>0, <2>1 DEF Conns
  <2>3. net_thread[u].conn \in Conns /\ net_thread[u].new = 0
    BY <2>1, OnTyped
  <2>4. net_thread[u].endpoint \in Ends
    BY <2>1 DEF TypeOK, ThreadOK, NetIdle
  <2>5. ThreadOK(net_thread'[u], Conns', Ends)
    <3>1. CASE net_thread'[u] = NetIdle
      BY <3>1, IdleOK
    <3>2. CASE net_thread'[u] # NetIdle
      <4>1. /\ net_thread'[u].pc = "push" /\ net_thread'[u].conn = net_thread[u].conn /\ net_thread'[u].new = net_thread[u].new
            /\ net_thread'[u].endpoint = net_thread[u].endpoint
        BY <1>9, <3>2, writeOpenFacts
      <4> QED BY <2>2, <2>3, <2>4, <4>1 DEF ThreadOK, Quiet, Unquiet
    <3> QED BY <3>1, <3>2
  <2> QED BY <2>1, <2>2, <2>5, KeepTypeOnly
<1>10. CASE write_push(u) \/ read_pop(u)
  <2>1. /\ Moves(u) /\ net_thread'[u] = NetIdle /\ Ends' = Ends /\ \A e \in Ends : queue'[e] \in Seq(Nat)
        /\ UNCHANGED <<conn, listeners, next_port, link_closed, installed>>
    BY <1>10, ioFacts DEF Continues
  <2>2. conn' \in Seq(ConnType) /\ Conns' = Conns
    BY <1>0, <2>1 DEF Conns
  <2>3. LinksOK'
    BY <2>1 DEF TypeOK, LinksOK
  <2>4. installed' \subseteq Conns' \X Ends' /\ next_port' \in Nat
        /\ \A a \in DOMAIN listeners' : listeners'[a] \in Conns'
    BY <2>1, <2>2 DEF TypeOK
  <2> QED BY <2>1, <2>2, <2>3, <2>4, IdleOK, KeepType
<1> QED BY <1>1, <1>2, <1>3, <1>4, <1>5, <1>6, <1>7, <1>8, <1>9, <1>10 DEF Continue

-----------------------------------------------------------------------------
(* The connection keeps its end or loses it, and keeps its queue or empties it. *)
Released(c) ==
  /\ \/ conn'[c].endpoint = NoEnd /\ conn'[c].phase # "connected"
     \/ c \in Conns /\ conn'[c].endpoint = conn[c].endpoint /\ conn'[c].phase = conn[c].phase
  /\ \/ conn'[c].pending = <<>>
     \/ c \in Conns /\ conn'[c].pending = conn[c].pending

(* A step in which ends are only given up keeps each end in one place. *)
LEMMA Release ==
  ASSUME TypeOK, TypeOK', HeldOK, OnePlace, Ends' = Ends,
         \A c \in Conns' : Released(c),
         \A u \in Carrying' : u \in Carrying /\ net_thread'[u].pending = net_thread[u].pending
  PROVE  HeldOK' /\ OnePlace'
<1>0. NoEnd \notin Ends
  BY NoEndIsNone
<1>1. HeldOK'
  BY DEF HeldOK, Released
<1>2. \A c \in Conns' : \A i \in DOMAIN conn'[c].pending :
        c \in Conns /\ i \in DOMAIN conn[c].pending /\ conn'[c].pending[i].endpoint = conn[c].pending[i].endpoint
  BY DEF Released
<1>3. \A c \in Conns' : conn'[c].endpoint = NoEnd \/ (c \in Conns /\ conn'[c].endpoint = conn[c].endpoint)
  BY DEF Released
<1>4. \A u \in Carrying : net_thread[u].pending.endpoint \in Ends
  BY DEF Carrying, TypeOK, ThreadOK, NetIdle
<1>5. \A c \in Conns : \A i \in DOMAIN conn[c].pending : conn[c].pending[i].endpoint \in Ends
  BY DEF HeldOK
<1>6. (\A c, d \in Conns : conn[c].endpoint = conn[d].endpoint /\ conn[c].endpoint # NoEnd => c = d)'
  BY <1>3 DEF OnePlace
<1>7. (\A c, d \in Conns : \A i \in DOMAIN conn[c].pending, j \in DOMAIN conn[d].pending :
         conn[c].pending[i].endpoint = conn[d].pending[j].endpoint => c = d /\ i = j)'
  BY <1>2 DEF OnePlace
<1>8. (\A u, v \in Carrying : net_thread[u].pending.endpoint = net_thread[v].pending.endpoint => u = v)'
  BY DEF OnePlace
<1>9. (\A c, d \in Conns : \A i \in DOMAIN conn[d].pending : conn[c].endpoint # conn[d].pending[i].endpoint)'
  BY <1>0, <1>2, <1>3, <1>5 DEF OnePlace
<1>10. (\A c \in Conns, u \in Carrying : conn[c].endpoint # net_thread[u].pending.endpoint)'
  BY <1>0, <1>3, <1>4 DEF OnePlace
<1>11. (\A d \in Conns, u \in Carrying : \A i \in DOMAIN conn[d].pending :
          net_thread[u].pending.endpoint # conn[d].pending[i].endpoint)'
  BY <1>2 DEF OnePlace
<1> QED BY <1>1, <1>6, <1>7, <1>8, <1>9, <1>10, <1>11 DEF OnePlace

(* A user who stops carrying an end adds no carrier. *)
LEMMA CarryingMoves ==
  ASSUME NEW u \in Users, Moves(u), net_thread'[u].pc \notin {"enqueue", "alloc", "install"}
  PROVE  \A v \in Carrying' : v \in Carrying /\ net_thread'[v].pending = net_thread[v].pending
BY DEF Carrying, Moves

(* An idle thread carries nothing. *)
LEMMA IdleCarriesNot == NetIdle.pc = "idle"
BY DEF NetIdle

(* Every call except accept only gives ends up. *)
LEMMA CallReleases ==
  ASSUME TypeOK, TypeOK', HeldOK, OnePlace, NEW u \in Users, Call(u),
         \A c \in Conns : ~accept_one(u, c)
  PROVE  HeldOK' /\ OnePlace'
<1>1. CASE alloc(u)
  <2>1. Moves(u) /\ net_thread'[u] = net_thread[u] /\ conn' = Append(conn, Unused) /\ UNCHANGED <<queue, link_closed>>
    BY <1>1, allocFacts
  <2>2. Ends' = Ends
    BY <2>1, SameLinks
  <2>3. \A c \in Conns' : Released(c)
    <3>1. /\ Conns' = Conns \cup {Len(conn) + 1} /\ \A c \in Conns : conn'[c] = conn[c]
          /\ conn'[Len(conn) + 1] = Unused
      BY <2>1, AddConn DEF TypeOK
    <3>2. Unused.endpoint = NoEnd /\ Unused.phase # "connected" /\ Unused.pending = <<>>
      BY DEF Unused
    <3> QED BY <3>1, <3>2 DEF Released
  <2>4. \A v \in Carrying' : v \in Carrying /\ net_thread'[v].pending = net_thread[v].pending
    BY <2>1 DEF Carrying, Moves
  <2> QED BY <2>2, <2>3, <2>4, Release
<1>2. ASSUME NEW c \in Conns, NEW a \in Addrs, bind(u, c, a) \/ announce(u, c, a) PROVE HeldOK' /\ OnePlace'
  <2>1. Moves(u) /\ net_thread'[u].pc \in {"idle", "register"} /\ Only(c) /\ UNCHANGED <<queue, link_closed>>
        /\ Released(c)
    <3>1. CASE bind(u, c, a)
      <4>1. /\ Begins(u, c) /\ net_thread'[u] = NetIdle /\ Only(c) /\ conn'[c].phase = "bound"
            /\ conn'[c].endpoint = NoEnd /\ conn'[c].pending = conn[c].pending /\ UNCHANGED <<queue, link_closed>>
        BY <3>1, bindFacts
      <4> QED BY <4>1, IdleCarriesNot DEF Begins, Released
    <3>2. CASE announce(u, c, a)
      <4>1. /\ Begins(u, c) /\ net_thread'[u] = [pc |-> "register", conn |-> c, new |-> 0, addr |-> a] /\ Only(c)
            /\ conn'[c].phase = conn[c].phase /\ conn'[c].endpoint = conn[c].endpoint
            /\ conn'[c].pending = conn[c].pending /\ UNCHANGED <<queue, link_closed>>
        BY <3>2, announceFacts
      <4>2. net_thread'[u].pc = "register"
        BY <4>1
      <4> QED BY <4>1, <4>2 DEF Begins, Released
    <3> QED BY <1>2, <3>1, <3>2
  <2>2. Ends' = Ends
    BY <2>1, SameLinks
  <2>3. \A d \in Conns' : Released(d)
    BY <2>1 DEF Only, Released
  <2> QED BY <2>1, <2>2, <2>3, CarryingMoves, Release
<1>3. ASSUME NEW c \in Conns, hangup(u, c) \/ reset(u, c) PROVE HeldOK' /\ OnePlace'
  <2>1. Moves(u) /\ net_thread'[u].pc \in {"unregister", "close"} /\ Only(c) /\ UNCHANGED <<queue, link_closed>>
        /\ Released(c)
    BY <1>3, hangupFacts, resetFacts DEF Begins, Released, Ending
  <2>2. Ends' = Ends
    BY <2>1, SameLinks
  <2>3. \A d \in Conns' : Released(d)
    BY <2>1 DEF Only, Released
  <2> QED BY <2>1, <2>2, <2>3, CarryingMoves, Release
<1>4. ASSUME NEW c \in Conns, (\E a \in Addrs : dial(u, c, a)) \/ write(u, c) \/ read(u, c)
      PROVE  HeldOK' /\ OnePlace'
  <2>1. Moves(u) /\ net_thread'[u].pc \in {"connect", "check", "read"} /\ UNCHANGED <<conn, queue, link_closed>>
    <3>1. ASSUME NEW a \in Addrs, dial(u, c, a)
          PROVE  Begins(u, c) /\ net_thread'[u].pc = "connect" /\ UNCHANGED <<conn, queue, link_closed>>
      <4>1. /\ Begins(u, c) /\ UNCHANGED <<conn, queue, link_closed>>
            /\ net_thread'[u] = [pc |-> "connect", conn |-> c, new |-> 0, addr |-> a, listener |-> listeners[a]]
        BY <3>1, dialFacts
      <4> QED BY <4>1
    <3>2. CASE write(u, c) \/ read(u, c)
      BY <3>2, writeFacts DEF Begins
    <3> QED BY <1>4, <3>1, <3>2 DEF Begins
  <2>2. Ends' = Ends
    BY <2>1, SameLinks
  <2>3. \A d \in Conns' : Released(d)
    BY <2>1 DEF Conns, Released
  <2> QED BY <2>1, <2>2, <2>3, CarryingMoves, Release
<1> QED BY <1>1, <1>2, <1>3, <1>4 DEF Call

(* accept_one moves the front end from the queue to the thread: it is in the thread *)
(* because it is no longer in the queue.                                            *)
LEMMA AcceptKeepsEnds ==
  ASSUME TypeOK, TypeOK', HeldOK, OnePlace, NEW u \in Users, NEW c \in Conns, accept_one(u, c)
  PROVE  HeldOK' /\ OnePlace'
<1>1. /\ Moves(u) /\ Only(c) /\ Same(c, c) /\ net_thread[u] = NetIdle
      /\ conn[c].pending \in Seq(PendingType) /\ conn[c].pending # <<>>
      /\ conn'[c].pending = Tail(conn[c].pending)
      /\ net_thread'[u].pc = "alloc" /\ net_thread'[u].pending = Head(conn[c].pending)
      /\ UNCHANGED <<queue, link_closed>>
  BY acceptFacts DEF Begins
<1>2. Ends' = Ends
  BY <1>1, SameLinks
<1>3. /\ net_thread'[u].pending = conn[c].pending[1] /\ 1 \in DOMAIN conn[c].pending
      /\ \A i \in DOMAIN conn'[c].pending : i + 1 \in DOMAIN conn[c].pending /\ i \in Nat /\ i # 0
                                            /\ conn'[c].pending[i] = conn[c].pending[i + 1]
  <2>1. /\ Len(Tail(conn[c].pending)) = Len(conn[c].pending) - 1 /\ Tail(conn[c].pending) \in Seq(PendingType)
        /\ \A i \in 1..Len(Tail(conn[c].pending)) : Tail(conn[c].pending)[i] = conn[c].pending[i + 1]
    BY <1>1, HeadTailProperties
  <2> QED BY <1>1, <2>1
<1>4. \A d \in Conns' : d \in Conns /\ conn'[d].endpoint = conn[d].endpoint /\ conn'[d].phase = conn[d].phase
  BY <1>1 DEF Only, Same
<1>5. \A d \in Conns' : d # c => conn'[d].pending = conn[d].pending
  BY <1>1 DEF Only
<1>6. \A v \in Carrying' : v # u => v \in Carrying /\ net_thread'[v] = net_thread[v]
  BY <1>1 DEF Carrying, Moves
<1>7. HeldOK'
  BY <1>2, <1>3, <1>4, <1>5 DEF HeldOK
<1>8. (\A d, e \in Conns : conn[d].endpoint = conn[e].endpoint /\ conn[d].endpoint # NoEnd => d = e)'
  BY <1>4 DEF OnePlace
<1>9. (\A d, e \in Conns : \A i \in DOMAIN conn[d].pending, j \in DOMAIN conn[e].pending :
         conn[d].pending[i].endpoint = conn[e].pending[j].endpoint => d = e /\ i = j)'
  <2> SUFFICES ASSUME NEW d \in Conns', NEW e \in Conns', NEW i \in DOMAIN conn'[d].pending, NEW j \in DOMAIN conn'[e].pending,
                      conn'[d].pending[i].endpoint = conn'[e].pending[j].endpoint
               PROVE  d = e /\ i = j
    OBVIOUS
  <2>1. \A x, y \in Conns : \A k \in DOMAIN conn[x].pending, l \in DOMAIN conn[y].pending :
         conn[x].pending[k].endpoint = conn[y].pending[l].endpoint => x = y /\ k = l
    BY DEF OnePlace
  <2>2. CASE d # c /\ e # c
    BY <2>1, <2>2, <1>4, <1>5
  <2>3. CASE d = c /\ e # c
    BY <2>1, <2>3, <1>3, <1>4, <1>5
  <2>4. CASE d # c /\ e = c
    BY <2>1, <2>4, <1>3, <1>4, <1>5
  <2>5. CASE d = c /\ e = c
    BY <2>1, <2>5, <1>3, <1>4
  <2> QED BY <2>2, <2>3, <2>4, <2>5
<1>10. (\A v, w \in Carrying : net_thread[v].pending.endpoint = net_thread[w].pending.endpoint => v = w)'
  BY <1>3, <1>6 DEF OnePlace
<1>11. (\A d, e \in Conns : \A i \in DOMAIN conn[e].pending : conn[d].endpoint # conn[e].pending[i].endpoint)'
  BY <1>3, <1>4, <1>5 DEF OnePlace
<1>12. (\A d \in Conns, v \in Carrying : conn[d].endpoint # net_thread[v].pending.endpoint)'
  BY <1>3, <1>4, <1>6 DEF OnePlace
<1>13. (\A d \in Conns, v \in Carrying : \A i \in DOMAIN conn[d].pending :
          net_thread[v].pending.endpoint # conn[d].pending[i].endpoint)'
  <2> SUFFICES ASSUME NEW d \in Conns', NEW v \in Carrying', NEW i \in DOMAIN conn'[d].pending
               PROVE  net_thread'[v].pending.endpoint # conn'[d].pending[i].endpoint
    OBVIOUS
  <2>1. PICK k \in DOMAIN conn[d].pending : d \in Conns /\ conn'[d].pending[i] = conn[d].pending[k] /\ (d = c => k # 1)
    BY <1>3, <1>4, <1>5
  <2>2. CASE v = u
    BY <1>3, <2>1, <2>2 DEF OnePlace
  <2>3. CASE v # u
    BY <1>6, <2>1, <2>3 DEF OnePlace
  <2> QED BY <2>2, <2>3
<1> QED BY <1>7, <1>8, <1>9, <1>10, <1>11, <1>12, <1>13 DEF OnePlace

(* A step that changes no connection releases none and hands out none. *)
LEMMA SameConnReleases ==
  ASSUME UNCHANGED conn
  PROVE  \A d \in Conns' : Released(d)
BY DEF Conns, Released

(* The later steps that install and queue nothing only give ends up. *)
LEMMA ContinueReleases ==
  ASSUME TypeOK, TypeOK', HeldOK, OnePlace, NEW u \in Users,
         register_listener(u) \/ announced(u) \/ alloc_connected(u) \/ unregister(u) \/ close(u)
           \/ write_open(u) \/ write_push(u) \/ read_pop(u)
  PROVE  HeldOK' /\ OnePlace'
<1>1. CASE register_listener(u)
  <2>1. /\ Moves(u) /\ UNCHANGED <<conn, queue, link_closed>>
        /\ net_thread'[u] = NetIdle \/ net_thread'[u] = [pc |-> "listening", conn |-> net_thread[u].conn, new |-> 0]
    BY <1>1, registerFacts DEF Continues
  <2>2. net_thread'[u].pc \notin {"enqueue", "alloc", "install"}
    BY <2>1, IdleCarriesNot
  <2>3. Ends' = Ends
    BY <2>1, SameLinks
  <2> QED BY <2>1, <2>2, <2>3, SameConnReleases, CarryingMoves, Release
<1>2. CASE announced(u)
  <2>1. PICK c \in Conns : c = net_thread[u].conn
    BY <1>2, OnTyped DEF announced, NetAt
  <2>2. /\ Moves(u) /\ net_thread'[u] = NetIdle /\ Only(c) /\ conn'[c].phase = "listening" /\ conn'[c].endpoint = NoEnd
        /\ conn'[c].pending = conn[c].pending /\ UNCHANGED <<queue, link_closed>>
    BY <1>2, <2>1, announcedFacts DEF Continues
  <2>3. Ends' = Ends /\ net_thread'[u].pc = "idle"
    BY <2>2, SameLinks, IdleCarriesNot
  <2>4. \A d \in Conns' : Released(d)
    BY <2>2 DEF Only, Released
  <2> QED BY <2>2, <2>3, <2>4, CarryingMoves, Release
<1>3. CASE alloc_connected(u)
  <2>1. /\ Moves(u) /\ conn' = Append(conn, Unused) /\ net_thread[u].pc = "alloc"
        /\ net_thread'[u].pending = net_thread[u].pending /\ UNCHANGED <<queue, link_closed>>
    BY <1>3, allocConnectedFacts DEF Continues
  <2>2. Ends' = Ends
    BY <2>1, SameLinks
  <2>3. \A c \in Conns' : Released(c)
    <3>1. /\ Conns' = Conns \cup {Len(conn) + 1} /\ \A c \in Conns : conn'[c] = conn[c]
          /\ conn'[Len(conn) + 1] = Unused
      BY <2>1, AddConn DEF TypeOK
    <3>2. Unused.endpoint = NoEnd /\ Unused.phase # "connected" /\ Unused.pending = <<>>
      BY DEF Unused
    <3> QED BY <3>1, <3>2 DEF Released
  <2>4. \A v \in Carrying' : v \in Carrying /\ net_thread'[v].pending = net_thread[v].pending
    BY <2>1 DEF Carrying, Moves
  <2> QED BY <2>2, <2>3, <2>4, Release
<1>4. CASE unregister(u)
  <2>1. Moves(u) /\ net_thread'[u].pc = "close" /\ UNCHANGED <<conn, queue, link_closed>>
    BY <1>4, unregisterFacts DEF Continues
  <2>2. Ends' = Ends
    BY <2>1, SameLinks
  <2> QED BY <2>1, <2>2, SameConnReleases, CarryingMoves, Release
<1>5. CASE close(u)
  <2>1. Moves(u) /\ net_thread'[u] = NetIdle /\ UNCHANGED <<conn, queue>>
    BY <1>5, closeFacts DEF Continues
  <2>2. Ends' = Ends /\ net_thread'[u].pc = "idle"
    BY <2>1, IdleCarriesNot DEF Ends
  <2> QED BY <2>1, <2>2, SameConnReleases, CarryingMoves, Release
<1>6. CASE write_open(u)
  <2>1. Moves(u) /\ (net_thread'[u] = NetIdle \/ net_thread'[u].pc = "push") /\ UNCHANGED <<conn, queue, link_closed>>
    BY <1>6, writeOpenFacts DEF Continues
  <2>2. Ends' = Ends /\ net_thread'[u].pc \in {"idle", "push"}
    BY <2>1, SameLinks, IdleCarriesNot
  <2> QED BY <2>1, <2>2, SameConnReleases, CarryingMoves, Release
<1>7. CASE write_push(u) \/ read_pop(u)
  <2>1. Moves(u) /\ net_thread'[u] = NetIdle /\ Ends' = Ends /\ UNCHANGED conn
    BY <1>7, ioFacts DEF Continues
  <2>2. net_thread'[u].pc = "idle"
    BY <2>1, IdleCarriesNot
  <2> QED BY <2>1, <2>2, SameConnReleases, CarryingMoves, Release
<1> QED BY <1>1, <1>2, <1>3, <1>4, <1>5, <1>6, <1>7

(* The two ends connect makes are new, so the connection and the thread that get them *)
(* hold what nobody held.                                                             *)
LEMMA ConnectKeepsEnds ==
  ASSUME TypeOK, TypeOK', HeldOK, OnePlace, NEW u \in Users, connect(u)
  PROVE  HeldOK' /\ OnePlace'
<1>1. PICK c \in Conns : c = net_thread[u].conn
  BY OnTyped DEF connect, NetAt
<1>2. Moves(u)
  BY <1>1, connectFacts DEF Continues
<1>3. CASE net_thread'[u] = NetIdle /\ UNCHANGED <<conn, next_port, queue, link_closed, installed>>
  <2>1. Ends' = Ends /\ net_thread'[u].pc = "idle"
    BY <1>3, SameLinks, IdleCarriesNot
  <2> QED BY <1>2, <1>3, <2>1, SameConnReleases, CarryingMoves, Release
<1>4. CASE Connected(u, c)
  <2>1. PICK l : l = Len(link_closed) + 1
    OBVIOUS
  <2>2. /\ Only(c) /\ conn'[c].phase = "connected" /\ conn'[c].endpoint = <<l, 1>>
        /\ conn'[c].pending = conn[c].pending
        /\ net_thread'[u].pc = "enqueue" /\ net_thread'[u].pending.endpoint = <<l, 2>>
    BY <1>4, <2>1 DEF Connected
  <2>3. /\ Ends' = Ends \cup {<<l, 1>>, <<l, 2>>} /\ <<l, 1>> \notin Ends /\ <<l, 2>> \notin Ends
    BY <1>4, <2>1 DEF Connected, LinkAdded
  <2>4. NoEnd \notin Ends' /\ <<l, 1>> # <<l, 2>>
    BY NoEndIsNone DEF TypeOK, NoEnd
  <2>5. \A d \in Conns' : d \in Conns /\ conn'[d].pending = conn[d].pending /\ (d # c => conn'[d] = conn[d])
    BY <2>2 DEF Only
  <2>6. \A v \in Carrying' : v # u => v \in Carrying /\ net_thread'[v] = net_thread[v]
    BY <1>2 DEF Carrying, Moves
  <2>7. \A v \in Carrying : net_thread[v].pending.endpoint \in Ends
    BY DEF Carrying, TypeOK, ThreadOK, NetIdle
  <2>8. HeldOK'
    BY <2>2, <2>3, <2>4, <2>5 DEF HeldOK
  <2>9. (\A d, e \in Conns : conn[d].endpoint = conn[e].endpoint /\ conn[d].endpoint # NoEnd => d = e)'
    BY <2>2, <2>3, <2>4, <2>5 DEF OnePlace, HeldOK
  <2>10. (\A d, e \in Conns : \A i \in DOMAIN conn[d].pending, j \in DOMAIN conn[e].pending :
           conn[d].pending[i].endpoint = conn[e].pending[j].endpoint => d = e /\ i = j)'
    BY <2>5 DEF OnePlace
  <2>11. (\A v, w \in Carrying : net_thread[v].pending.endpoint = net_thread[w].pending.endpoint => v = w)'
    BY <2>2, <2>3, <2>6, <2>7 DEF OnePlace
  <2>12. (\A d, e \in Conns : \A i \in DOMAIN conn[e].pending : conn[d].endpoint # conn[e].pending[i].endpoint)'
    BY <2>2, <2>3, <2>5 DEF OnePlace, HeldOK
  <2>13. (\A d \in Conns, v \in Carrying : conn[d].endpoint # net_thread[v].pending.endpoint)'
    <3> SUFFICES ASSUME NEW d \in Conns', NEW v \in Carrying' PROVE conn'[d].endpoint # net_thread'[v].pending.endpoint
      OBVIOUS
    <3>1. d \in Conns /\ (d # c => conn'[d].endpoint = conn[d].endpoint /\ conn[d].endpoint \in Ends \cup {NoEnd})
      BY <2>5 DEF HeldOK
    <3>2. v # u => v \in Carrying /\ net_thread'[v].pending.endpoint = net_thread[v].pending.endpoint
                   /\ net_thread[v].pending.endpoint \in Ends
      BY <2>6, <2>7
    <3>3. d # c /\ v # u => conn[d].endpoint # net_thread[v].pending.endpoint
      BY <3>1, <3>2 DEF OnePlace
    <3> QED BY <2>2, <2>3, <2>4, <3>1, <3>2, <3>3
  <2>14. (\A d \in Conns, v \in Carrying : \A i \in DOMAIN conn[d].pending :
            net_thread[v].pending.endpoint # conn[d].pending[i].endpoint)'
    <3> SUFFICES ASSUME NEW d \in Conns', NEW v \in Carrying', NEW i \in DOMAIN conn'[d].pending
                 PROVE  net_thread'[v].pending.endpoint # conn'[d].pending[i].endpoint
      OBVIOUS
    <3>1. d \in Conns /\ i \in DOMAIN conn[d].pending /\ conn'[d].pending[i].endpoint = conn[d].pending[i].endpoint
          /\ conn[d].pending[i].endpoint \in Ends
      BY <2>5 DEF HeldOK
    <3>2. v # u => v \in Carrying /\ net_thread'[v].pending.endpoint = net_thread[v].pending.endpoint
      BY <2>6
    <3>3. v # u => net_thread[v].pending.endpoint # conn[d].pending[i].endpoint
      BY <3>1, <3>2 DEF OnePlace
    <3> QED BY <2>2, <2>3, <3>1, <3>2, <3>3
  <2> QED BY <2>8, <2>9, <2>10, <2>11, <2>12, <2>13, <2>14 DEF OnePlace
<1> QED BY <1>1, <1>3, <1>4, connectFacts

(* The end moves from the thread into the listener's queue, or is lost with the refused *)
(* connection.                                                                          *)
LEMMA EnqueueKeepsEnds ==
  ASSUME TypeOK, TypeOK', HeldOK, OnePlace, NEW u \in Users, enqueue_accept(u)
  PROVE  HeldOK' /\ OnePlace'
<1>1. PICK s \in Conns : s = net_thread[u].listener
  BY OnTyped DEF enqueue_accept, NetAt
<1>2. Moves(u) /\ net_thread[u].pc = "enqueue" /\ net_thread'[u] = NetIdle /\ UNCHANGED <<queue, link_closed>>
  BY <1>1, enqueueFacts DEF Continues
<1>3. Ends' = Ends /\ net_thread'[u].pc = "idle"
  BY <1>2, SameLinks, IdleCarriesNot
<1>4. CASE UNCHANGED conn
  BY <1>2, <1>3, <1>4, SameConnReleases, CarryingMoves, Release
<1>5. CASE Only(s) /\ Same(s, s) /\ conn'[s].pending = Append(conn[s].pending, net_thread[u].pending)
  <2>0. PICK n : n = Len(conn[s].pending) + 1
    OBVIOUS
  <2>1. conn[s].pending \in Seq(PendingType) /\ net_thread[u].pending \in PendingType /\ net_thread[u].pending.endpoint \in Ends
    <3>1. conn[s].pending \in Seq(PendingType)
      BY IdsAreNat DEF TypeOK, ConnType
    <3> QED BY <1>2, <3>1 DEF TypeOK, ThreadOK, NetIdle
  <2>2. /\ DOMAIN conn'[s].pending = DOMAIN conn[s].pending \cup {n} /\ n \notin DOMAIN conn[s].pending
        /\ conn'[s].pending[n] = net_thread[u].pending
        /\ \A i \in DOMAIN conn[s].pending : conn'[s].pending[i] = conn[s].pending[i]
    BY <1>5, <2>0, <2>1, AppendProperties
  <2>3. \A d \in Conns' : d \in Conns /\ conn'[d].endpoint = conn[d].endpoint /\ conn'[d].phase = conn[d].phase
                        /\ (d # s => conn'[d].pending = conn[d].pending)
    BY <1>5 DEF Only, Same
  <2>4. u \in Carrying /\ \A v \in Carrying' : v # u /\ v \in Carrying /\ net_thread'[v] = net_thread[v]
    BY <1>2, <1>3 DEF Carrying, Moves
  <2>5. \A d \in Conns' : \A i \in DOMAIN conn'[d].pending :
          \/ d = s /\ i = n /\ conn'[d].pending[i].endpoint = net_thread[u].pending.endpoint
          \/ d \in Conns /\ i \in DOMAIN conn[d].pending /\ conn'[d].pending[i].endpoint = conn[d].pending[i].endpoint
    BY <2>2, <2>3
  <2>6. HeldOK'
    BY <1>3, <2>1, <2>3, <2>5 DEF HeldOK
  <2>7. (\A d, e \in Conns : conn[d].endpoint = conn[e].endpoint /\ conn[d].endpoint # NoEnd => d = e)'
    BY <2>3 DEF OnePlace
  <2>8. (\A d, e \in Conns : \A i \in DOMAIN conn[d].pending, j \in DOMAIN conn[e].pending :
           conn[d].pending[i].endpoint = conn[e].pending[j].endpoint => d = e /\ i = j)'
    <3> SUFFICES ASSUME NEW d \in Conns', NEW e \in Conns', NEW i \in DOMAIN conn'[d].pending, NEW j \in DOMAIN conn'[e].pending,
                        conn'[d].pending[i].endpoint = conn'[e].pending[j].endpoint
                 PROVE  d = e /\ i = j
      OBVIOUS
    <3>1. \A x \in Conns : \A k \in DOMAIN conn[x].pending : net_thread[u].pending.endpoint # conn[x].pending[k].endpoint
      BY <2>4 DEF OnePlace
    <3>2. \A x, y \in Conns : \A k \in DOMAIN conn[x].pending, l \in DOMAIN conn[y].pending :
           conn[x].pending[k].endpoint = conn[y].pending[l].endpoint => x = y /\ k = l
      BY DEF OnePlace
    <3> QED BY <2>5, <3>1, <3>2
  <2>9. (\A v, w \in Carrying : net_thread[v].pending.endpoint = net_thread[w].pending.endpoint => v = w)'
    BY <2>4 DEF OnePlace
  <2>10. (\A d, e \in Conns : \A i \in DOMAIN conn[e].pending : conn[d].endpoint # conn[e].pending[i].endpoint)'
    BY <2>3, <2>4, <2>5 DEF OnePlace
  <2>11. (\A d \in Conns, v \in Carrying : conn[d].endpoint # net_thread[v].pending.endpoint)'
    BY <2>3, <2>4 DEF OnePlace
  <2>12. (\A d \in Conns, v \in Carrying : \A i \in DOMAIN conn[d].pending :
            net_thread[v].pending.endpoint # conn[d].pending[i].endpoint)'
    BY <2>4, <2>5 DEF OnePlace
  <2> QED BY <2>6, <2>7, <2>8, <2>9, <2>10, <2>11, <2>12 DEF OnePlace
<1> QED BY <1>1, <1>4, <1>5, enqueueFacts

(* The end moves from the thread into the accepted connection. *)
LEMMA InstallKeepsEnds ==
  ASSUME TypeOK, TypeOK', HeldOK, OnePlace, NEW u \in Users, install_accepted(u)
  PROVE  HeldOK' /\ OnePlace'
<1>1. PICK n \in Conns : n = net_thread[u].new
  BY OnTyped DEF install_accepted, NetAt
<1>2. /\ Moves(u) /\ net_thread[u].pc = "install" /\ net_thread'[u] = NetIdle
      /\ Only(n) /\ conn'[n].phase = "connected" /\ conn'[n].endpoint = net_thread[u].pending.endpoint
      /\ conn'[n].pending = conn[n].pending /\ UNCHANGED <<queue, link_closed>>
  BY <1>1, installFacts DEF Continues
<1>3. Ends' = Ends /\ net_thread'[u].pc = "idle" /\ NoEnd \notin Ends
  BY <1>2, SameLinks, IdleCarriesNot, NoEndIsNone
<1>4. u \in Carrying /\ \A v \in Carrying' : v # u /\ v \in Carrying /\ net_thread'[v] = net_thread[v]
  BY <1>2, <1>3 DEF Carrying, Moves
<1>5. \A d \in Conns' : d \in Conns /\ conn'[d].pending = conn[d].pending /\ (d # n => conn'[d] = conn[d])
  BY <1>2 DEF Only
<1>6. net_thread[u].pending.endpoint \in Ends
  BY <1>2 DEF TypeOK, ThreadOK, NetIdle
<1>7. HeldOK'
  BY <1>2, <1>3, <1>5, <1>6 DEF HeldOK
<1>8. (\A d, e \in Conns : conn[d].endpoint = conn[e].endpoint /\ conn[d].endpoint # NoEnd => d = e)'
  BY <1>2, <1>4, <1>5 DEF OnePlace
<1>9. (\A d, e \in Conns : \A i \in DOMAIN conn[d].pending, j \in DOMAIN conn[e].pending :
         conn[d].pending[i].endpoint = conn[e].pending[j].endpoint => d = e /\ i = j)'
  BY <1>5 DEF OnePlace
<1>10. (\A v, w \in Carrying : net_thread[v].pending.endpoint = net_thread[w].pending.endpoint => v = w)'
  BY <1>4 DEF OnePlace
<1>11. (\A d, e \in Conns : \A i \in DOMAIN conn[e].pending : conn[d].endpoint # conn[e].pending[i].endpoint)'
  BY <1>2, <1>4, <1>5 DEF OnePlace
<1>12. (\A d \in Conns, v \in Carrying : conn[d].endpoint # net_thread[v].pending.endpoint)'
  BY <1>2, <1>4, <1>5 DEF OnePlace
<1>13. (\A d \in Conns, v \in Carrying : \A i \in DOMAIN conn[d].pending :
          net_thread[v].pending.endpoint # conn[d].pending[i].endpoint)'
  BY <1>4, <1>5 DEF OnePlace
<1> QED BY <1>7, <1>8, <1>9, <1>10, <1>11, <1>12, <1>13 DEF OnePlace

(* Every step of the device keeps each end in one place. *)
LEMMA NextEnds ==
  ASSUME TypeOK, TypeOK', HeldOK, OnePlace, NEW u \in Users, Call(u) \/ Continue(u)
  PROVE  HeldOK' /\ OnePlace'
<1>1. CASE Call(u)
  BY <1>1, CallReleases, AcceptKeepsEnds
<1>2. CASE Continue(u)
  BY <1>2, ContinueReleases, ConnectKeepsEnds, EnqueueKeepsEnds, InstallKeepsEnds DEF Continue
<1> QED BY <1>1, <1>2

(* An end that is in one place is shared by no two. *)
LEMMA EndsFollow ==
  ASSUME TypeOK, HeldOK, OnePlace
  PROVE  EndsAreUnshared
<1>1. ASSUME NEW e \in Ends, NEW p \in Places(e), NEW q \in Places(e) PROVE p = q
  <2>0. e # NoEnd
    BY NoEndIsNone
  <2>1. ASSUME NEW x \in Places(e)
        PROVE  \/ \E c \in Conns : x = <<"connection", c, 0>> /\ conn[c].endpoint = e
               \/ \E c \in Conns : \E i \in DOMAIN conn[c].pending : x = <<"pending", c, i>> /\ conn[c].pending[i].endpoint = e
               \/ \E u \in Carrying : x = <<"task", u, 0>> /\ net_thread[u].pending.endpoint = e
    <3> DEFINE Held == {<<"connection", c, 0>> : c \in {d \in Conns : conn[d].endpoint = e}}
               Of(c) == {<<"pending", c, i>> : i \in {j \in DOMAIN conn[c].pending : conn[c].pending[j].endpoint = e}}
               Pending == UNION {Of(c) : c \in Conns}
               Carried == {<<"task", u, 0>> : u \in {v \in Carrying : net_thread[v].pending.endpoint = e}}
    <3>0. Places(e) = Held \cup Pending \cup Carried
      BY DEF Places
    <3>1. x \in Held => \E c \in Conns : x = <<"connection", c, 0>> /\ conn[c].endpoint = e
      OBVIOUS
    <3>2. ASSUME NEW c \in Conns, x \in Of(c)
          PROVE  \E i \in DOMAIN conn[c].pending : x = <<"pending", c, i>> /\ conn[c].pending[i].endpoint = e
      BY <3>2
    <3>3. x \in Carried => \E u \in Carrying : x = <<"task", u, 0>> /\ net_thread[u].pending.endpoint = e
      OBVIOUS
    <3>4. x \in Pending => \E c \in Conns : x \in Of(c)
      OBVIOUS
    <3>5. x \in Held \/ x \in Pending \/ x \in Carried
      <4> HIDE DEF Held, Pending, Carried
      <4> QED BY <3>0
    <3> HIDE DEF Held, Of, Pending, Carried
    <3> QED BY <3>1, <3>2, <3>3, <3>4, <3>5
  <2>2. ASSUME NEW c \in Conns, p = <<"connection", c, 0>>, conn[c].endpoint = e PROVE p = q
    BY <2>0, <2>1, <2>2 DEF OnePlace
  <2>3. ASSUME NEW c \in Conns, NEW i \in DOMAIN conn[c].pending, p = <<"pending", c, i>>, conn[c].pending[i].endpoint = e PROVE p = q
    BY <2>1, <2>3 DEF OnePlace
  <2>4. ASSUME NEW u \in Carrying, p = <<"task", u, 0>>, net_thread[u].pending.endpoint = e PROVE p = q
    BY <2>1, <2>4 DEF OnePlace
  <2> QED BY <2>1, <2>2, <2>3, <2>4
<1> QED BY <1>1 DEF EndsAreUnshared, HeldOK

-----------------------------------------------------------------------------
(* Who is on a connection, before and after a step. *)
LEMMA OnFacts ==
  ASSUME NEW u \in Users, NEW c
  PROVE  /\ u \in On(c) <=> net_thread[u] # NetIdle /\ (c = net_thread[u].conn \/ c = net_thread[u].new)
         /\ u \in On(c)' <=> net_thread'[u] # NetIdle /\ (c = net_thread'[u].conn \/ c = net_thread'[u].new)
BY DEF On

(* A user's step leaves who else is on a connection. *)
LEMMA OnMoves ==
  ASSUME NEW u \in Users, NEW c, Moves(u)
  PROVE  /\ \A v \in Users : v # u => (v \in On(c)' <=> v \in On(c))
         /\ On(c) \subseteq Users /\ On(c)' \subseteq Users
BY DEF On, Moves

(* A connection that a step does not concern stays coherent. *)
LEMMA Frame ==
  ASSUME NEW u \in Users, NEW c \in Conns, Moves(u), CoherentAt(c), u \notin On(c), u \notin On(c)',
         Ends \subseteq Ends', \A e \in Ends' : <<c, e>> \in installed' => e \in Ends /\ <<c, e>> \in installed,
         Registered(c)' = Registered(c), Same(c, c),
         \A e \in Ends : link_closed[e[1]] => link_closed'[e[1]]
  PROVE  CoherentAt(c)'
<1>1. On(c)' = On(c) /\ \A v \in On(c) : net_thread'[v] = net_thread[v]
  BY OnMoves DEF Moves
<1>2. Alone(c)'
  BY <1>1 DEF Alone, CoherentAt
<1>3. Resting(c)' <=> Resting(c)
  BY DEF Resting, Same
<1>4. ListenerOK(c)'
  BY <1>1, <1>3 DEF ListenerOK, CoherentAt, Same
<1>5. GivenUpOK(c)'
  BY <1>1 DEF GivenUpOK, CoherentAt, Same
<1> QED BY <1>2, <1>4, <1>5 DEF CoherentAt

(* The listener table and the given-up ends of a connection that no command is in the *)
(* middle of changing.                                                                *)
AtRest(c) ==
  /\ Registered(c) = IF conn[c].phase = "listening" THEN {conn[c].local} ELSE {}
  /\ \A e \in Ends : <<c, e>> \in installed => conn[c].endpoint = e \/ link_closed[e[1]]

(* With nobody but u on it, who is in a command that changes neither table, a connection *)
(* is as it is at rest.                                                                  *)
LEMMA RestFromQuiet ==
  ASSUME NEW u \in Users, NEW c, CoherentAt(c), On(c) \subseteq {u}, u \in On(c) => net_thread[u].pc \notin Unquiet
  PROVE  AtRest(c)
BY DEF AtRest, CoherentAt, ListenerOK, GivenUpOK, Unquiet

(* A connection that is as it is at rest is coherent when whoever is on it changes *)
(* neither table.                                                                  *)
LEMMA QuietFromRest ==
  ASSUME NEW u \in Users, NEW c, AtRest(c)', On(c)' \subseteq {u},
         u \in On(c)' => net_thread'[u].pc \notin Unquiet /\ (net_thread'[u].pc = "install" /\ net_thread'[u].new = c => Resting(c)')
  PROVE  CoherentAt(c)'
<1>1. Alone(c)'
  BY DEF Alone
<1>2. ListenerOK(c)'
  BY DEF AtRest, ListenerOK, Unquiet
<1>3. GivenUpOK(c)'
  BY DEF AtRest, GivenUpOK
<1> QED BY <1>1, <1>2, <1>3 DEF CoherentAt

(* A call that begins on a connection nobody raced on finds it at rest. *)
LEMMA BeginsAtRest ==
  ASSUME NetInv, NEW u \in Users, NEW c \in Conns, Begins(u, c), c \notin raced'
  PROVE  c \notin raced /\ AtRest(c) /\ On(c) = {} /\ On(c)' \subseteq {u}
<1>1. c \notin raced /\ On(c) = {} /\ Moves(u)
  BY DEF Begins
<1>2. CoherentAt(c)
  BY <1>1 DEF NetInv, Coherent
<1> QED BY <1>1, <1>2, RestFromQuiet, OnMoves

(* A command that continues on a connection nobody raced on is alone there. *)
LEMMA ContinuesAlone ==
  ASSUME NetInv, NEW u \in Users, NEW c \in Conns, Continues(u), c \notin raced', u \in On(c)
  PROVE  c \notin raced /\ CoherentAt(c) /\ On(c) = {u} /\ On(c)' \subseteq {u}
<1>1. c \notin raced /\ Moves(u)
  BY DEF Continues
<1>2. CoherentAt(c)
  BY <1>1 DEF NetInv, Coherent
<1>3. On(c) = {u}
  BY <1>2 DEF CoherentAt, Alone
<1> QED BY <1>1, <1>2, <1>3, OnMoves

(* The command ends or stays on its connection. *)
Stays(u, c) == net_thread'[u] = NetIdle \/ (net_thread'[u].conn = c /\ net_thread'[u].new = 0)

(* A call that begins puts its user on its own connection only. *)
LEMMA WhoBegins ==
  ASSUME NetInv, NEW u \in Users, NEW b \in Conns, Begins(u, b), Stays(u, b)
  PROVE  \A c \in Conns : u \notin On(c) /\ (u \in On(c)' => c = b)
<1>1. \A c \in Conns : c # 0
  BY IdsAreNat DEF NetInv, TypeOK
<1> QED BY <1>1, OnFacts DEF Begins, Stays

(* A command in flight has its user on its own connection only. *)
LEMMA WhoContinues ==
  ASSUME NetInv, NEW u \in Users, NEW b \in Conns, b = net_thread[u].conn, net_thread[u].pc \notin {"idle", "install"}, Stays(u, b)
  PROVE  /\ u \in On(b)
         /\ \A c \in Conns : (u \in On(c) => c = b) /\ (u \in On(c)' => c = b)
<1>1. \A c \in Conns : c # 0
  BY IdsAreNat DEF NetInv, TypeOK
<1>2. net_thread[u] # NetIdle /\ net_thread[u].new = 0
  BY OnTyped DEF NetInv
<1> QED BY <1>1, <1>2, OnFacts DEF Stays

(* A step of a command that touches neither the listener table nor the links keeps every *)
(* connection coherent.                                                                  *)
LEMMA QuietStep ==
  ASSUME NetInv, NEW u \in Users, Moves(u), raced \subseteq raced', Conns' = Conns, Ends' = Ends,
         UNCHANGED <<listeners, link_closed, installed>>, \A c \in Conns : Same(c, c),
         \A c \in Conns \ raced' : u \in On(c) \/ u \in On(c)' => On(c) \subseteq {u},
         net_thread[u].pc \notin Unquiet, net_thread'[u].pc \notin Unquiet \cup {"install"}
  PROVE  Coherent'
<1> SUFFICES ASSUME NEW c \in Conns, c \notin raced' PROVE CoherentAt(c)'
  BY DEF Coherent
<1>1. CoherentAt(c)
  BY DEF NetInv, Coherent
<1>2. Registered(c)' = Registered(c)
  BY DEF Registered
<1>3. CASE u \notin On(c) /\ u \notin On(c)'
  BY <1>1, <1>2, <1>3, Frame
<1>4. CASE u \in On(c) \/ u \in On(c)'
  <2>1. On(c) \subseteq {u}
    BY <1>4
  <2>2. AtRest(c)
    BY <1>1, <2>1, RestFromQuiet
  <2>3. AtRest(c)'
    BY <1>2, <2>2 DEF AtRest, Same
  <2>4. On(c)' \subseteq {u}
    BY <2>1, OnMoves
  <2> QED BY <2>3, <2>4, QuietFromRest
<1> QED BY <1>3, <1>4

(* A step on one connection has only that connection's coherence to show. *)
LEMMA FocusStep ==
  ASSUME NetInv, NEW u \in Users, Moves(u), raced \subseteq raced', Conns' = Conns, Ends \subseteq Ends', NEW b \in Conns,
         \A c \in Conns : c # b => u \notin On(c) /\ u \notin On(c)' /\ Same(c, c) /\ Registered(c)' = Registered(c),
         \A c \in Conns, e \in Ends' : <<c, e>> \in installed' => c = b \/ <<c, e>> \in installed,
         \A e \in Ends : link_closed[e[1]] => link_closed'[e[1]],
         b \notin raced' => CoherentAt(b)'
  PROVE  Coherent'
<1> SUFFICES ASSUME NEW c \in Conns, c \notin raced', c # b PROVE CoherentAt(c)'
  BY DEF Coherent
<1>1. CoherentAt(c)
  BY DEF NetInv, Coherent
<1>2. \A e \in Ends' : <<c, e>> \in installed' => e \in Ends /\ <<c, e>> \in installed
  BY DEF NetInv, TypeOK
<1> QED BY <1>1, <1>2, Frame

(* A step that leaves the links gives no end up and hands none out. *)
LEMMA SameEnds ==
  ASSUME UNCHANGED <<queue, link_closed, installed>>
  PROVE  Ends' = Ends /\ (\A e \in Ends : link_closed[e[1]] => link_closed'[e[1]])
         /\ \A c \in Conns, e \in Ends' : <<c, e>> \in installed' => <<c, e>> \in installed
BY DEF Ends

(* A step that leaves the listener table leaves every connection's addresses. *)
LEMMA SameRegistered ==
  ASSUME UNCHANGED listeners, NEW c
  PROVE  Registered(c)' = Registered(c)
BY DEF Registered

(* Connections other than the one a step changes are the same after it. *)
LEMMA OnlySame ==
  ASSUME NEW b, Only(b), NEW c \in Conns, c # b
  PROVE  Same(c, c)
BY DEF Only, Same

(* A connection that neither listens nor is connected holds no end. *)
LEMMA RestingHolds ==
  ASSUME NetInv, NEW c \in Conns, Resting(c)
  PROVE  conn[c].endpoint = NoEnd /\ \A e \in Ends : conn[c].endpoint # e
<1>1. conn[c].endpoint = NoEnd
  BY DEF NetInv, HeldOK, Resting
<1> QED BY <1>1, NoEndIsNone DEF NetInv

(* A bind finds an unused connection, which is in no table, and leaves it so. *)
LEMMA bindCoherent ==
  ASSUME NetInv, NEW u \in Users, NEW b \in Conns, NEW a \in Addrs, bind(u, b, a)
  PROVE  Coherent'
<1>1. /\ Begins(u, b) /\ net_thread'[u] = NetIdle
      /\ Only(b) /\ conn[b].phase \in {"idle", "closed"} /\ conn'[b].phase = "bound" /\ conn'[b].endpoint = NoEnd
      /\ UNCHANGED <<listeners, queue, link_closed, installed>>
  BY bindFacts DEF NetInv
<1>2. \A c \in Conns : u \notin On(c) /\ (u \in On(c)' => c = b)
  <2>1. Stays(u, b)
    BY <1>1 DEF Stays
  <2> QED BY <1>1, <2>1, WhoBegins
<1>3. ASSUME b \notin raced' PROVE CoherentAt(b)'
  <2>1. AtRest(b) /\ On(b)' \subseteq {u}
    BY <1>1, <1>3, BeginsAtRest
  <2>2. \A e \in Ends : conn[b].endpoint # e
    BY <1>1, RestingHolds DEF Resting
  <2>3. AtRest(b)'
    BY <1>1, <2>1, <2>2, SameRegistered, SameEnds DEF AtRest
  <2>4. u \notin On(b)'
    BY <1>1, OnFacts
  <2> QED BY <2>1, <2>3, <2>4, QuietFromRest
<1>4. /\ Moves(u) /\ raced \subseteq raced' /\ Conns' = Conns /\ Ends \subseteq Ends'
      /\ \A c \in Conns, e \in Ends' : <<c, e>> \in installed' => c = b \/ <<c, e>> \in installed
      /\ \A e \in Ends : link_closed[e[1]] => link_closed'[e[1]]
  BY <1>1, SameEnds DEF Begins, Only
<1>5. \A c \in Conns : c # b => u \notin On(c) /\ u \notin On(c)' /\ Same(c, c) /\ Registered(c)' = Registered(c)
  BY <1>1, <1>2, SameRegistered, OnlySame
<1> QED BY <1>3, <1>4, <1>5, FocusStep

(* An announce writes the address first; the listener table follows. *)
LEMMA announceCoherent ==
  ASSUME NetInv, NEW u \in Users, NEW b \in Conns, NEW a \in Addrs, announce(u, b, a)
  PROVE  Coherent'
<1>1. /\ Begins(u, b) /\ net_thread'[u].pc = "register" /\ net_thread'[u].conn = b /\ net_thread'[u].new = 0 /\ net_thread'[u].addr = a
      /\ Only(b) /\ conn[b].phase \in {"idle", "bound", "closed"} /\ conn'[b].phase = conn[b].phase
      /\ conn'[b].endpoint = conn[b].endpoint /\ conn'[b].local = a
      /\ UNCHANGED <<listeners, queue, link_closed, installed>>
  <2>1. net_thread'[u] = [pc |-> "register", conn |-> b, new |-> 0, addr |-> a]
    BY announceFacts DEF NetInv
  <2> QED BY <2>1, announceFacts DEF NetInv
<1>2. \A c \in Conns : u \notin On(c) /\ (u \in On(c)' => c = b)
  <2>1. Stays(u, b)
    BY <1>1 DEF Stays
  <2> QED BY <1>1, <2>1, WhoBegins
<1>3. ASSUME b \notin raced' PROVE CoherentAt(b)'
  <2>1. AtRest(b) /\ On(b)' \subseteq {u}
    BY <1>1, <1>3, BeginsAtRest
  <2>2. \A e \in Ends : conn[b].endpoint # e
    BY <1>1, RestingHolds DEF Resting
  <2>3. On(b)' = {u}
    BY <1>1, <2>1, OnFacts DEF NetIdle
  <2>4. Registered(b)' = {} /\ Resting(b)'
    BY <1>1, <2>1, SameRegistered DEF AtRest, Resting
  <2>5. ListenerOK(b)'
    BY <1>1, <2>3, <2>4 DEF ListenerOK, Unquiet
  <2>6. GivenUpOK(b)'
    BY <1>1, <2>1, <2>2, SameEnds DEF AtRest, GivenUpOK
  <2> QED BY <2>3, <2>5, <2>6 DEF CoherentAt, Alone
<1>4. /\ Moves(u) /\ raced \subseteq raced' /\ Conns' = Conns /\ Ends \subseteq Ends'
      /\ \A c \in Conns, e \in Ends' : <<c, e>> \in installed' => c = b \/ <<c, e>> \in installed
      /\ \A e \in Ends : link_closed[e[1]] => link_closed'[e[1]]
  BY <1>1, SameEnds DEF Begins, Only
<1>5. \A c \in Conns : c # b => u \notin On(c) /\ u \notin On(c)' /\ Same(c, c) /\ Registered(c)' = Registered(c)
  BY <1>1, <1>2, SameRegistered, OnlySame
<1> QED BY <1>3, <1>4, <1>5, FocusStep

(* A hangup or a reset clears the connection first and owes the listener table and the *)
(* link their steps.                                                                   *)
LEMMA endCoherent ==
  ASSUME NetInv, NEW u \in Users, NEW b \in Conns, hangup(u, b) \/ reset(u, b)
  PROVE  Coherent'
<1>1. /\ Begins(u, b) /\ Ending(u, b) /\ net_thread'[u].pc \in {"unregister", "close"}
      /\ net_thread'[u].pc = "close" => conn[b].phase # "listening"
      /\ UNCHANGED <<listeners, queue, link_closed, installed>>
  BY hangupFacts, resetFacts DEF NetInv
<1>2. \A c \in Conns : u \notin On(c) /\ (u \in On(c)' => c = b)
  <2>1. Stays(u, b)
    BY <1>1 DEF Stays, Ending
  <2> QED BY <1>1, <2>1, WhoBegins
<1>3. ASSUME b \notin raced' PROVE CoherentAt(b)'
  <2>1. AtRest(b) /\ On(b)' \subseteq {u}
    BY <1>1, <1>3, BeginsAtRest
  <2>2. On(b)' = {u}
    BY <1>1, <2>1, OnFacts DEF NetIdle, Ending
  <2>3. Registered(b)' = Registered(b) /\ Resting(b)'
    BY <1>1, SameRegistered DEF Ending, Resting
  <2>4. ListenerOK(b)'
    BY <1>1, <2>1, <2>2, <2>3 DEF ListenerOK, Unquiet, AtRest, Ending
  <2>5. GivenUpOK(b)'
    BY <1>1, <2>1, <2>2, SameEnds DEF AtRest, GivenUpOK, Ending
  <2> QED BY <2>2, <2>4, <2>5 DEF CoherentAt, Alone
<1>4. /\ Moves(u) /\ raced \subseteq raced' /\ Conns' = Conns /\ Ends \subseteq Ends'
      /\ \A c \in Conns, e \in Ends' : <<c, e>> \in installed' => c = b \/ <<c, e>> \in installed
      /\ \A e \in Ends : link_closed[e[1]] => link_closed'[e[1]]
  BY <1>1, SameEnds DEF Begins, Only, Ending
<1>5. \A c \in Conns : c # b => u \notin On(c) /\ u \notin On(c)' /\ Same(c, c) /\ Registered(c)' = Registered(c)
  BY <1>1, <1>2, SameRegistered, OnlySame DEF Ending
<1> QED BY <1>3, <1>4, <1>5, FocusStep

(* The connection enters the listener table before it says it listens, or stays out when *)
(* the address is taken.                                                                 *)
LEMMA registerCoherent ==
  ASSUME NetInv, NEW u \in Users, register_listener(u)
  PROVE  Coherent'
<1>0. /\ Continues(u) /\ net_thread[u].pc = "register" /\ UNCHANGED <<conn, queue, link_closed, installed>>
      /\ net_thread'[u] = NetIdle \/ net_thread'[u] = [pc |-> "listening", conn |-> net_thread[u].conn, new |-> 0]
  BY registerFacts DEF NetInv
<1>1. PICK b : b = net_thread[u].conn
  OBVIOUS
<1>2. b \in Conns /\ net_thread[u].new = 0
  BY <1>0, <1>1, OnTyped DEF NetInv
<1>3. u \in On(b) /\ \A c \in Conns : (u \in On(c) => c = b) /\ (u \in On(c)' => c = b)
  <2>1. Stays(u, b)
    BY <1>0, <1>1, <1>2 DEF Stays
  <2> QED BY <1>0, <1>1, <1>2, <2>1, WhoContinues
<1>4. Conns' = Conns /\ \A c \in Conns : Same(c, c)
  BY <1>0 DEF Conns, Same
<1>5. \A c \in Conns : c # b => Registered(c)' = Registered(c)
  BY <1>0, <1>1, registerFacts DEF Registered, NetInv
<1>6. ASSUME b \notin raced' PROVE CoherentAt(b)'
  <2>1. CoherentAt(b) /\ On(b) = {u} /\ On(b)' \subseteq {u}
    BY <1>0, <1>2, <1>3, <1>6, ContinuesAlone
  <2>2. Registered(b) = {} /\ Resting(b) /\ conn[b].local = net_thread[u].addr
    BY <1>0, <2>1 DEF CoherentAt, ListenerOK
  <2>3. \A e \in Ends : <<b, e>> \in installed => link_closed[e[1]]
    BY <1>0, <1>2, <2>1, <2>2, RestingHolds DEF CoherentAt, GivenUpOK
  <2>4. CASE net_thread'[u] = NetIdle /\ UNCHANGED listeners
    <3>1. AtRest(b)'
      BY <1>0, <2>2, <2>3, <2>4, SameRegistered, SameEnds DEF AtRest, Resting
    <3>2. u \notin On(b)'
      BY <2>4, OnFacts
    <3> QED BY <2>1, <3>1, <3>2, QuietFromRest
  <2>5. CASE /\ net_thread[u].addr \notin DOMAIN listeners
             /\ net_thread'[u] = [pc |-> "listening", conn |-> net_thread[u].conn, new |-> 0]
             /\ DOMAIN listeners' = DOMAIN listeners \cup {net_thread[u].addr}
             /\ listeners'[net_thread[u].addr] = net_thread[u].conn
             /\ \A d \in DOMAIN listeners : listeners'[d] = listeners[d]
    <3>1. Registered(b)' = {conn[b].local}
      BY <1>1, <2>2, <2>5 DEF Registered
    <3>2. On(b)' = {u} /\ net_thread'[u].pc = "listening"
      BY <1>1, <2>1, <2>5, OnFacts DEF NetIdle
    <3>3. Resting(b)' /\ conn'[b].local = conn[b].local
      BY <1>0, <2>2 DEF Resting
    <3>4. ListenerOK(b)'
      BY <3>1, <3>2, <3>3 DEF ListenerOK, Unquiet
    <3>5. GivenUpOK(b)'
      BY <1>0, <2>3, SameEnds DEF GivenUpOK
    <3> QED BY <3>2, <3>4, <3>5 DEF CoherentAt, Alone
  <2> QED BY <2>4, <2>5, registerFacts DEF NetInv
<1> QED BY <1>0, <1>2, <1>3, <1>4, <1>5, <1>6, FocusStep, SameEnds DEF Continues

(* The connection says it listens once the listener table has it. *)
LEMMA announcedCoherent ==
  ASSUME NetInv, NEW u \in Users, announced(u)
  PROVE  Coherent'
<1>0. PICK b : b = net_thread[u].conn
  OBVIOUS
<1>1. b \in Conns
  BY <1>0, OnTyped DEF NetInv, announced, NetAt
<1>2. /\ Continues(u) /\ net_thread[u].pc = "listening" /\ net_thread'[u] = NetIdle
      /\ Only(b) /\ conn'[b].phase = "listening" /\ conn'[b].endpoint = NoEnd /\ conn'[b].local = conn[b].local
      /\ UNCHANGED <<listeners, queue, link_closed, installed>>
  BY <1>0, <1>1, announcedFacts DEF NetInv
<1>3. u \in On(b) /\ \A c \in Conns : (u \in On(c) => c = b) /\ (u \in On(c)' => c = b)
  <2>1. Stays(u, b)
    BY <1>0, <1>1, <1>2 DEF Stays
  <2> QED BY <1>0, <1>1, <1>2, <2>1, WhoContinues
<1>4. ASSUME b \notin raced' PROVE CoherentAt(b)'
  <2>1. CoherentAt(b) /\ On(b) = {u} /\ On(b)' \subseteq {u}
    BY <1>1, <1>2, <1>3, <1>4, ContinuesAlone
  <2>2. Registered(b) = {conn[b].local} /\ Resting(b)
    BY <1>2, <2>1 DEF CoherentAt, ListenerOK
  <2>3. \A e \in Ends : <<b, e>> \in installed => link_closed[e[1]]
    BY <1>1, <1>2, <2>1, <2>2, RestingHolds DEF CoherentAt, GivenUpOK
  <2>4. AtRest(b)'
    BY <1>2, <2>2, <2>3, SameRegistered, SameEnds DEF AtRest
  <2>5. u \notin On(b)'
    BY <1>2, OnFacts
  <2> QED BY <2>1, <2>4, <2>5, QuietFromRest
<1>5. /\ Moves(u) /\ raced \subseteq raced' /\ Conns' = Conns /\ Ends \subseteq Ends'
      /\ \A c \in Conns, e \in Ends' : <<c, e>> \in installed' => c = b \/ <<c, e>> \in installed
      /\ \A e \in Ends : link_closed[e[1]] => link_closed'[e[1]]
  BY <1>2, SameEnds DEF Continues, Only
<1>6. \A c \in Conns : c # b => u \notin On(c) /\ u \notin On(c)' /\ Same(c, c) /\ Registered(c)' = Registered(c)
  BY <1>2, <1>3, SameRegistered, OnlySame
<1> QED BY <1>1, <1>4, <1>5, <1>6, FocusStep

(* The connection's address leaves the listener table, and only its own. *)
LEMMA unregisterCoherent ==
  ASSUME NetInv, NEW u \in Users, unregister(u)
  PROVE  Coherent'
<1>0. PICK b : b = net_thread[u].conn
  OBVIOUS
<1>1. b \in Conns /\ net_thread[u].new = 0
  BY <1>0, OnTyped DEF NetInv, unregister, NetAt
<1>2. /\ Continues(u) /\ net_thread[u].pc = "unregister" /\ net_thread'[u].pc = "close"
      /\ net_thread'[u].conn = b /\ net_thread'[u].new = 0 /\ net_thread'[u].endpoint = net_thread[u].endpoint
      /\ DOMAIN listeners' = {d \in DOMAIN listeners : d # net_thread[u].addr \/ listeners[d] # b}
      /\ \A d \in DOMAIN listeners' : listeners'[d] = listeners[d]
      /\ UNCHANGED <<conn, queue, link_closed, installed>>
  BY <1>0, <1>1, unregisterFacts DEF NetInv
<1>3. u \in On(b) /\ \A c \in Conns : (u \in On(c) => c = b) /\ (u \in On(c)' => c = b)
  <2>1. Stays(u, b)
    BY <1>2 DEF Stays
  <2> QED BY <1>0, <1>1, <1>2, <2>1, WhoContinues
<1>4. ASSUME b \notin raced' PROVE CoherentAt(b)'
  <2>1. CoherentAt(b) /\ On(b) = {u} /\ On(b)' \subseteq {u}
    BY <1>1, <1>2, <1>3, <1>4, ContinuesAlone
  <2>2. Registered(b) \subseteq {net_thread[u].addr} /\ Resting(b)
    BY <1>2, <2>1 DEF CoherentAt, ListenerOK
  <2>3. Registered(b)' = {}
    BY <1>2, <2>2 DEF Registered
  <2>4. On(b)' = {u}
    BY <1>2, <2>1, OnFacts DEF NetIdle
  <2>5. ListenerOK(b)'
    BY <1>2, <2>2, <2>3, <2>4 DEF ListenerOK, Unquiet, Resting
  <2>6. GivenUpOK(b)'
    BY <1>2, <2>1, <2>4, SameEnds DEF CoherentAt, GivenUpOK
  <2> QED BY <2>4, <2>5, <2>6 DEF CoherentAt, Alone
<1>5. Conns' = Conns /\ \A c \in Conns : Same(c, c)
  BY <1>2 DEF Conns, Same
<1>6. /\ Moves(u) /\ raced \subseteq raced' /\ Conns' = Conns /\ Ends \subseteq Ends'
      /\ \A c \in Conns, e \in Ends' : <<c, e>> \in installed' => c = b \/ <<c, e>> \in installed
      /\ \A e \in Ends : link_closed[e[1]] => link_closed'[e[1]]
  BY <1>2, <1>5, SameEnds DEF Continues
<1>7. \A c \in Conns : c # b => u \notin On(c) /\ u \notin On(c)' /\ Same(c, c) /\ Registered(c)' = Registered(c)
  BY <1>2, <1>3, <1>5 DEF Registered
<1> QED BY <1>1, <1>4, <1>6, <1>7, FocusStep

(* The end that was carried away is on a closed link once its hangup or reset is over. *)
LEMMA closeCoherent ==
  ASSUME NetInv, NEW u \in Users, close(u)
  PROVE  Coherent'
<1>0. PICK b : b = net_thread[u].conn
  OBVIOUS
<1>1. b \in Conns
  BY <1>0, OnTyped DEF NetInv, close, NetAt
<1>2. /\ Continues(u) /\ net_thread[u].pc = "close" /\ net_thread'[u] = NetIdle
      /\ \A l \in 1..Len(link_closed) : link_closed[l] => link_closed'[l]
      /\ net_thread[u].endpoint # NoEnd => link_closed'[net_thread[u].endpoint[1]]
      /\ UNCHANGED <<conn, listeners, queue, installed>>
  BY closeFacts DEF NetInv
<1>3. u \in On(b) /\ \A c \in Conns : (u \in On(c) => c = b) /\ (u \in On(c)' => c = b)
  <2>1. Stays(u, b)
    BY <1>2 DEF Stays
  <2> QED BY <1>0, <1>1, <1>2, <2>1, WhoContinues
<1>4. Ends' = Ends /\ \A e \in Ends : link_closed[e[1]] => link_closed'[e[1]]
  <2>1. Ends' = Ends /\ Ends = (1..Len(link_closed)) \X {1, 2}
    BY <1>2 DEF Ends, NetInv, TypeOK
  <2> QED BY <1>2, <2>1
<1>5. ASSUME b \notin raced' PROVE CoherentAt(b)'
  <2>1. CoherentAt(b) /\ On(b) = {u} /\ On(b)' \subseteq {u}
    BY <1>1, <1>2, <1>3, <1>5, ContinuesAlone
  <2>2. Registered(b) = {} /\ Resting(b)
    BY <1>2, <2>1 DEF CoherentAt, ListenerOK
  <2>3. ASSUME NEW e \in Ends, <<b, e>> \in installed PROVE conn[b].endpoint = e \/ link_closed'[e[1]]
    <3>1. conn[b].endpoint = e \/ link_closed[e[1]] \/ net_thread[u].endpoint = e
      BY <2>1, <2>3 DEF CoherentAt, GivenUpOK
    <3>2. e # NoEnd
      BY NoEndIsNone DEF NetInv
    <3> QED BY <1>2, <1>4, <3>1, <3>2
  <2>4. AtRest(b)'
    BY <1>2, <1>4, <2>2, <2>3, SameRegistered DEF AtRest, Resting
  <2>5. u \notin On(b)'
    BY <1>2, OnFacts
  <2> QED BY <2>1, <2>4, <2>5, QuietFromRest
<1>6. Conns' = Conns /\ \A c \in Conns : Same(c, c)
  BY <1>2 DEF Conns, Same
<1>7. /\ Moves(u) /\ raced \subseteq raced' /\ Conns' = Conns /\ Ends \subseteq Ends'
      /\ \A c \in Conns, e \in Ends' : <<c, e>> \in installed' => c = b \/ <<c, e>> \in installed
      /\ \A e \in Ends : link_closed[e[1]] => link_closed'[e[1]]
  BY <1>2, <1>4, <1>6 DEF Continues
<1>8. \A c \in Conns : c # b => u \notin On(c) /\ u \notin On(c)' /\ Same(c, c) /\ Registered(c)' = Registered(c)
  BY <1>2, <1>3, <1>6, SameRegistered
<1> QED BY <1>1, <1>5, <1>7, <1>8, FocusStep

(* The end a dial installs is held by its connection, which no table of listeners names. *)
LEMMA connectCoherent ==
  ASSUME NetInv, NEW u \in Users, NEW b \in Conns, b = net_thread[u].conn, Continues(u), net_thread[u].pc = "connect",
         UNCHANGED listeners, Connected(u, b)
  PROVE  Coherent'
<1> DEFINE l == Len(link_closed) + 1
<1>1. /\ Only(b) /\ conn[b].phase \in {"idle", "bound", "closed"}
      /\ conn'[b].phase = "connected" /\ conn'[b].endpoint = <<l, 1>>
      /\ installed' = installed \cup {<<b, <<l, 1>>>>} /\ LinkAdded
      /\ net_thread'[u].pc = "enqueue" /\ net_thread'[u].conn = b /\ net_thread'[u].new = 0
  BY DEF Connected
<1> HIDE DEF l
<1>2. Ends \subseteq Ends' /\ \A e \in Ends : link_closed'[e[1]] = link_closed[e[1]]
  <2>1. Ends \subseteq Ends' /\ (\A k \in 1..Len(link_closed) : link_closed'[k] = link_closed[k]) /\ Ends = (1..Len(link_closed)) \X {1, 2}
    BY <1>1 DEF LinkAdded, NetInv, TypeOK
  <2> QED BY <2>1
<1>3. u \in On(b) /\ \A c \in Conns : (u \in On(c) => c = b) /\ (u \in On(c)' => c = b)
  <2>1. Stays(u, b)
    BY <1>1 DEF Stays
  <2> QED BY <2>1, WhoContinues
<1>4. ASSUME b \notin raced' PROVE CoherentAt(b)'
  <2>1. CoherentAt(b) /\ On(b) = {u} /\ On(b)' \subseteq {u}
    BY <1>3, <1>4, ContinuesAlone
  <2>2. AtRest(b)
    BY <2>1, RestFromQuiet DEF Unquiet
  <2>3. Resting(b)
    BY <1>1 DEF Resting
  <2>4. \A e \in Ends : <<b, e>> \in installed => link_closed[e[1]]
    BY <2>2, <2>3, RestingHolds DEF AtRest
  <2>5. \A e \in Ends' : <<b, e>> \in installed' => conn'[b].endpoint = e \/ link_closed'[e[1]]
    <3>1. \A e : <<b, e>> \in installed => e \in Ends
      BY DEF NetInv, TypeOK
    <3> QED BY <1>1, <1>2, <2>4, <3>1
  <2>6. Registered(b)' = {}
    BY <2>2, <2>3, SameRegistered DEF AtRest, Resting
  <2>7. AtRest(b)'
    BY <1>1, <2>5, <2>6 DEF AtRest
  <2> QED BY <1>1, <2>1, <2>7, QuietFromRest DEF Unquiet
<1>5. /\ Moves(u) /\ raced \subseteq raced' /\ Conns' = Conns /\ Ends \subseteq Ends'
      /\ \A c \in Conns, e \in Ends' : <<c, e>> \in installed' => c = b \/ <<c, e>> \in installed
      /\ \A e \in Ends : link_closed[e[1]] => link_closed'[e[1]]
  BY <1>1, <1>2 DEF Continues, Only
<1>6. \A c \in Conns : c # b => u \notin On(c) /\ u \notin On(c)' /\ Same(c, c) /\ Registered(c)' = Registered(c)
  BY <1>1, <1>3, SameRegistered, OnlySame
<1> QED BY <1>4, <1>5, <1>6, FocusStep

(* An id that was not allocated is in no table and in nobody's hands. *)
LEMMA FreshId ==
  ASSUME NetInv, NEW n, n \notin Conns, n # 0
  PROVE  /\ On(n) = {} /\ Registered(n) = {} /\ \A e : <<n, e>> \notin installed
<1>1. On(n) = {}
  <2> SUFFICES ASSUME NEW v \in Users, net_thread[v] # NetIdle PROVE n # net_thread[v].conn /\ n # net_thread[v].new
    BY OnFacts DEF On
  <2>1. ThreadOK(net_thread[v], Conns, Ends)
    BY DEF NetInv, TypeOK
  <2> QED BY <2>1 DEF ThreadOK
<1> QED BY <1>1 DEF NetInv, TypeOK, Registered

(* A new connection is coherent: it is in no table and holds nothing. *)
LEMMA allocCoherent ==
  ASSUME NetInv, NEW u \in Users, alloc(u)
  PROVE  Coherent'
<1>0. PICK n : n = Len(conn) + 1
  OBVIOUS
<1>1. /\ Moves(u) /\ net_thread'[u] = net_thread[u] /\ raced \subseteq raced' /\ conn' = Append(conn, Unused)
      /\ UNCHANGED <<listeners, queue, link_closed, installed>> /\ net_thread[u] = NetIdle
  BY allocFacts DEF NetInv, alloc, Begin
<1>2. /\ Conns' = Conns \cup {n} /\ n \notin Conns /\ n # 0 /\ conn'[n] = Unused /\ \A c \in Conns : Same(c, c)
  BY <1>0, <1>1, AddConn, IdsAreNat DEF Same, NetInv, TypeOK
<1>3. \A c : u \notin On(c) /\ u \notin On(c)'
  BY <1>1, OnFacts
<1>4. ASSUME NEW c \in Conns, c \notin raced' PROVE CoherentAt(c)'
  <2>1. CoherentAt(c)
    BY <1>1, <1>4 DEF NetInv, Coherent
  <2>2. Ends' = Ends /\ Registered(c)' = Registered(c) /\ \A e \in Ends : link_closed[e[1]] => link_closed'[e[1]]
    BY <1>1, SameEnds, SameRegistered
  <2> QED BY <1>1, <1>2, <1>3, <2>1, <2>2, Frame
<1>5. CoherentAt(n)'
  <2>1. On(n) = {} /\ Registered(n) = {} /\ \A e : <<n, e>> \notin installed
    BY <1>2, FreshId
  <2>2. On(n)' = {}
    BY <1>1, <1>3, <2>1, OnMoves
  <2>3. conn'[n].phase = "idle" /\ Registered(n)' = {} /\ \A e : <<n, e>> \notin installed'
    <3>1. conn'[n].phase = "idle"
      BY <1>2 DEF Unused
    <3>2. Registered(n)' = {}
      BY <1>1, <2>1, SameRegistered
    <3>3. \A e : <<n, e>> \notin installed'
      BY <1>1, <2>1
    <3> QED BY <3>1, <3>2, <3>3
  <2>4. AtRest(n)'
    BY <2>3 DEF AtRest
  <2> QED BY <2>2, <2>4, QuietFromRest
<1> QED BY <1>2, <1>4, <1>5 DEF Coherent

(* So is one that accept allocates, which the accepting command is on from the start. *)
LEMMA allocConnectedCoherent ==
  ASSUME NetInv, NEW u \in Users, alloc_connected(u)
  PROVE  Coherent'
<1>0. PICK n, b : n = Len(conn) + 1 /\ b = net_thread[u].conn
  OBVIOUS
<1>1. /\ Continues(u) /\ Moves(u) /\ raced' = raced /\ conn' = Append(conn, Unused)
      /\ net_thread[u].pc = "alloc" /\ net_thread'[u].pc = "install" /\ net_thread'[u].new = n /\ net_thread'[u].conn = b
      /\ UNCHANGED <<listeners, queue, link_closed, installed>>
  BY <1>0, allocConnectedFacts DEF NetInv, Continues
<1>2. /\ Conns' = Conns \cup {n} /\ n \notin Conns /\ n # 0 /\ conn'[n] = Unused /\ \A c \in Conns : Same(c, c)
  BY <1>0, <1>1, AddConn, IdsAreNat DEF Same, NetInv, TypeOK
<1>3. b \in Conns /\ net_thread[u].new = 0 /\ net_thread[u] # NetIdle /\ net_thread'[u] # NetIdle /\ \A c \in Conns : c # 0
  <2>1. b \in Conns /\ net_thread[u].new = 0 /\ net_thread[u] # NetIdle
    BY <1>0, <1>1, OnTyped DEF NetInv
  <2>2. net_thread'[u] # NetIdle
    BY <1>1 DEF NetIdle
  <2>3. \A c \in Conns : c # 0
    BY IdsAreNat DEF NetInv, TypeOK
  <2> QED BY <2>1, <2>2, <2>3
<1>4. u \in On(b) /\ \A c \in Conns : (u \in On(c) => c = b) /\ (u \in On(c)' => c = b)
  BY <1>0, <1>1, <1>2, <1>3, OnFacts
<1>5. ASSUME NEW c \in Conns, c \notin raced' PROVE CoherentAt(c)'
  <2>1. CoherentAt(c)
    BY <1>1, <1>5 DEF NetInv, Coherent
  <2>2. Ends' = Ends /\ Registered(c)' = Registered(c) /\ \A e \in Ends : link_closed[e[1]] => link_closed'[e[1]]
    BY <1>1, SameEnds, SameRegistered
  <2>3. CASE c # b
    BY <1>1, <1>2, <1>4, <2>1, <2>2, <2>3, Frame
  <2>4. CASE c = b
    <3>1. On(c) = {u} /\ On(c)' \subseteq {u}
      BY <1>1, <1>4, <1>5, <2>4, ContinuesAlone
    <3>2. AtRest(c)
      BY <1>1, <2>1, <3>1, RestFromQuiet DEF Unquiet
    <3>3. AtRest(c)'
      BY <1>1, <1>2, <2>2, <3>2 DEF AtRest, Same
    <3> QED BY <1>1, <1>2, <3>1, <3>3, QuietFromRest DEF Unquiet
  <2> QED BY <2>3, <2>4
<1>6. CoherentAt(n)'
  <2>1. On(n) = {} /\ Registered(n) = {} /\ \A e : <<n, e>> \notin installed
    BY <1>2, FreshId
  <2>2. On(n)' \subseteq {u}
    BY <1>1, <2>1, OnMoves
  <2>3. conn'[n].phase = "idle" /\ Registered(n)' = {} /\ \A e : <<n, e>> \notin installed'
    <3>1. conn'[n].phase = "idle"
      BY <1>2 DEF Unused
    <3>2. Registered(n)' = {}
      BY <1>1, <2>1, SameRegistered
    <3>3. \A e : <<n, e>> \notin installed'
      BY <1>1, <2>1
    <3> QED BY <3>1, <3>2, <3>3
  <2>4. AtRest(n)' /\ Resting(n)'
    BY <2>3 DEF AtRest, Resting
  <2> QED BY <1>1, <2>2, <2>4, QuietFromRest DEF Unquiet
<1> QED BY <1>2, <1>5, <1>6 DEF Coherent

(* The end an accept installs is held by the connection it made for it. *)
LEMMA installCoherent ==
  ASSUME NetInv, NEW u \in Users, install_accepted(u)
  PROVE  Coherent'
<1>0. PICK n, b : n = net_thread[u].new /\ b = net_thread[u].conn
  OBVIOUS
<1>1. n \in Conns /\ b \in Conns
  BY <1>0, OnTyped DEF NetInv, install_accepted, NetAt
<1>2. /\ Continues(u) /\ net_thread[u].pc = "install" /\ net_thread'[u] = NetIdle
      /\ Only(n) /\ conn'[n].phase = "connected" /\ conn'[n].endpoint = net_thread[u].pending.endpoint
      /\ installed' = installed \cup {<<n, net_thread[u].pending.endpoint>>}
      /\ UNCHANGED <<listeners, queue, link_closed>>
  BY <1>0, <1>1, installFacts DEF NetInv
<1>3. /\ \A c \in Conns : u \notin On(c)' /\ (u \in On(c) <=> c = b \/ c = n)
      /\ Conns' = Conns /\ Ends' = Ends /\ raced' = raced /\ Moves(u)
  <2>1. net_thread[u] # NetIdle
    BY <1>2 DEF NetIdle
  <2> QED BY <1>0, <1>2, <2>1, OnFacts DEF Only, Ends, Continues
<1>4. ASSUME NEW c \in Conns, c \notin raced' PROVE CoherentAt(c)'
  <2>1. CoherentAt(c) /\ Registered(c)' = Registered(c)
    BY <1>2, <1>3, <1>4, SameRegistered DEF NetInv, Coherent
  <2>2. ASSUME c # n PROVE Same(c, c) /\ \A e \in Ends' : <<c, e>> \in installed' => e \in Ends /\ <<c, e>> \in installed
    BY <1>2, <1>3, <2>2, OnlySame
  <2>3. CASE c # b /\ c # n
    BY <1>2, <1>3, <2>1, <2>2, <2>3, Frame
  <2>4. CASE c = b \/ c = n
    <3>1. On(c) = {u} /\ On(c)' \subseteq {u}
      BY <1>2, <1>3, <1>4, <2>4, ContinuesAlone
    <3>2. AtRest(c)
      BY <1>2, <2>1, <3>1, RestFromQuiet DEF Unquiet
    <3>3. ASSUME c # n PROVE AtRest(c)'
      BY <1>2, <1>3, <2>1, <2>2, <3>2, <3>3 DEF AtRest, Same
    <3>4. ASSUME c = n PROVE AtRest(c)'
      <4>1. Resting(c)
        BY <1>0, <1>2, <2>1, <3>1, <3>4 DEF CoherentAt, ListenerOK
      <4>2. \A e \in Ends : <<c, e>> \in installed => link_closed[e[1]]
        BY <3>2, <4>1, RestingHolds DEF AtRest
      <4>3. Registered(c)' = {}
        BY <2>1, <3>2, <4>1 DEF AtRest, Resting
      <4>4. \A e \in Ends' : <<c, e>> \in installed' => conn'[c].endpoint = e \/ link_closed'[e[1]]
        BY <1>2, <1>3, <3>4, <4>2
      <4>5. AtRest(c)'
        BY <1>2, <3>4, <4>3, <4>4 DEF AtRest
      <4> QED BY <4>5
    <3>5. AtRest(c)'
      BY <3>3, <3>4
    <3> QED BY <1>3, <3>1, <3>5, QuietFromRest
  <2> QED BY <2>3, <2>4
<1> QED BY <1>3, <1>4 DEF Coherent

(* Every call of a user keeps every unraced connection coherent. *)
LEMMA CallCoherent ==
  ASSUME NetInv, NEW u \in Users, Call(u)
  PROVE  Coherent'
<1>1. ASSUME NEW b \in Conns, Begins(u, b), Stays(u, b), Conns' = Conns, UNCHANGED <<listeners, queue, link_closed, installed>>,
             \A c \in Conns : Same(c, c), net_thread'[u].pc \in Quiet
      PROVE  Coherent'
  <2>1. \A c \in Conns : u \notin On(c) /\ (u \in On(c)' => c = b)
    BY <1>1, WhoBegins
  <2>2. Moves(u) /\ raced \subseteq raced' /\ (b \notin raced' => On(b) = {}) /\ net_thread[u] = NetIdle
    BY <1>1 DEF Begins
  <2>3. Ends' = Ends
    BY <1>1, SameEnds
  <2>4. net_thread[u].pc \notin Unquiet /\ net_thread'[u].pc \notin Unquiet \cup {"install"}
    BY <1>1, <2>2 DEF NetIdle, Quiet, Unquiet
  <2>5. \A c \in Conns \ raced' : u \in On(c) \/ u \in On(c)' => On(c) \subseteq {u}
    BY <2>1, <2>2
  <2> QED BY <1>1, <2>2, <2>3, <2>4, <2>5, QuietStep
<1>2. ASSUME NEW b \in Conns, NEW a \in Addrs, dial(u, b, a) PROVE Coherent'
  <2>1. /\ Begins(u, b) /\ UNCHANGED <<conn, listeners, queue, link_closed, installed>>
        /\ net_thread'[u] = [pc |-> "connect", conn |-> b, new |-> 0, addr |-> a, listener |-> listeners[a]]
    BY <1>2, dialFacts DEF NetInv
  <2>2. Stays(u, b) /\ net_thread'[u].pc \in Quiet
    BY <2>1 DEF Stays, Quiet
  <2>3. Conns' = Conns /\ \A c \in Conns : Same(c, c)
    BY <2>1 DEF Conns, Same
  <2> QED BY <1>1, <2>1, <2>2, <2>3
<1>3. ASSUME NEW b \in Conns, accept_one(u, b) PROVE Coherent'
  <2>1. /\ Begins(u, b) /\ UNCHANGED <<listeners, queue, link_closed, installed>> /\ Only(b) /\ Same(b, b)
        /\ net_thread'[u].pc = "alloc" /\ net_thread'[u].conn = b /\ net_thread'[u].new = 0
    BY <1>3, acceptFacts DEF NetInv
  <2>2. Stays(u, b) /\ net_thread'[u].pc \in Quiet
    BY <2>1 DEF Stays, Quiet
  <2>3. Conns' = Conns /\ \A c \in Conns : Same(c, c)
    <3>1. Conns' = Conns
      BY <2>1 DEF Only
    <3> QED BY <2>1, <3>1, OnlySame
  <2> QED BY <1>1, <2>1, <2>2, <2>3
<1>4. ASSUME NEW b \in Conns, write(u, b) \/ read(u, b) PROVE Coherent'
  <2>1. /\ Begins(u, b) /\ UNCHANGED <<conn, listeners, queue, link_closed, installed>>
        /\ net_thread'[u].pc \in {"check", "read"} /\ net_thread'[u].conn = b /\ net_thread'[u].new = 0
    BY <1>4, writeFacts DEF NetInv
  <2>2. Stays(u, b) /\ net_thread'[u].pc \in Quiet
    BY <2>1 DEF Stays, Quiet
  <2>3. Conns' = Conns /\ \A c \in Conns : Same(c, c)
    BY <2>1 DEF Conns, Same
  <2> QED BY <1>1, <2>1, <2>2, <2>3
<1> QED BY <1>2, <1>3, <1>4, allocCoherent, bindCoherent, announceCoherent, endCoherent DEF Call

(* Every later step of a command keeps every unraced connection coherent. *)
LEMMA ContinueCoherent ==
  ASSUME NetInv, NEW u \in Users, Continue(u)
  PROVE  Coherent'
<1>1. ASSUME Continues(u), net_thread[u].pc \in Quiet, Stays(u, net_thread[u].conn), Conns' = Conns, net_thread'[u].pc \notin Unquiet \cup {"install"},
             Ends' = Ends, UNCHANGED <<listeners, link_closed, installed>>, \A c \in Conns : Same(c, c)
      PROVE  Coherent'
  <2>1. PICK b : b = net_thread[u].conn
    OBVIOUS
  <2>2. b \in Conns /\ net_thread[u].pc \notin Unquiet /\ net_thread[u].pc \notin {"idle", "install"}
    BY <1>1, <2>1, OnTyped DEF NetInv, Quiet, Unquiet
  <2>3. u \in On(b) /\ \A c \in Conns : (u \in On(c) => c = b) /\ (u \in On(c)' => c = b)
    BY <1>1, <2>1, <2>2, WhoContinues
  <2>4. \A c \in Conns \ raced' : u \in On(c) \/ u \in On(c)' => On(c) \subseteq {u}
    BY <1>1, <2>2, <2>3, ContinuesAlone
  <2>5. Moves(u) /\ raced \subseteq raced'
    BY <1>1 DEF Continues
  <2> QED BY <1>1, <2>2, <2>4, <2>5, QuietStep
<1>2. CASE connect(u)
  <2>1. PICK b : b = net_thread[u].conn
    OBVIOUS
  <2>2. b \in Conns
    BY <1>2, <2>1, OnTyped DEF NetInv, connect, NetAt
  <2>3. /\ Continues(u) /\ net_thread[u].pc = "connect" /\ UNCHANGED listeners
        /\ \/ net_thread'[u] = NetIdle /\ UNCHANGED <<conn, queue, link_closed, installed>>
           \/ Connected(u, b)
    BY <1>2, <2>1, <2>2, connectFacts DEF NetInv
  <2>4. CASE Connected(u, b)
    BY <2>1, <2>2, <2>3, <2>4, connectCoherent
  <2>5. CASE net_thread'[u] = NetIdle /\ UNCHANGED <<conn, queue, link_closed, installed>>
    <3>1. Conns' = Conns /\ Ends' = Ends /\ \A c \in Conns : Same(c, c)
      BY <2>5 DEF Conns, Ends, Same
    <3>2. Stays(u, net_thread[u].conn) /\ net_thread[u].pc \in Quiet /\ net_thread'[u].pc \notin Unquiet \cup {"install"}
      BY <2>3, <2>5 DEF Stays, Quiet, Unquiet, NetIdle
    <3> QED BY <1>1, <2>3, <2>5, <3>1, <3>2
  <2> QED BY <2>3, <2>4, <2>5
<1>3. CASE enqueue_accept(u)
  <2>1. PICK l : l = net_thread[u].listener
    OBVIOUS
  <2>2. l \in Conns
    BY <1>3, <2>1, OnTyped DEF NetInv, enqueue_accept, NetAt
  <2>3. /\ Continues(u) /\ net_thread[u].pc = "enqueue" /\ net_thread'[u] = NetIdle
        /\ UNCHANGED conn \/ (Only(l) /\ Same(l, l))
        /\ UNCHANGED <<listeners, queue, link_closed, installed>>
    BY <1>3, <2>1, <2>2, enqueueFacts DEF NetInv
  <2>4. Conns' = Conns /\ Ends' = Ends
    BY <2>3 DEF Conns, Ends, Only
  <2>5. \A c \in Conns : Same(c, c)
    BY <2>3, OnlySame DEF Same
  <2>6. Stays(u, net_thread[u].conn) /\ net_thread[u].pc \in Quiet /\ net_thread'[u].pc \notin Unquiet \cup {"install"}
    BY <2>3 DEF Stays, Quiet, Unquiet, NetIdle
  <2> QED BY <1>1, <2>3, <2>4, <2>5, <2>6
<1>4. CASE write_open(u)
  <2>1. /\ Continues(u) /\ net_thread[u].pc = "check"
        /\ \/ net_thread'[u] = NetIdle
           \/ net_thread'[u].pc = "push" /\ net_thread'[u].conn = net_thread[u].conn /\ net_thread'[u].new = net_thread[u].new
        /\ UNCHANGED <<conn, listeners, queue, link_closed, installed>>
    BY <1>4, writeOpenFacts DEF NetInv
  <2>2. net_thread[u].new = 0
    BY <2>1, OnTyped DEF NetInv
  <2>3. Conns' = Conns /\ Ends' = Ends /\ \A c \in Conns : Same(c, c)
    BY <2>1 DEF Conns, Ends, Same
  <2>4. Stays(u, net_thread[u].conn) /\ net_thread[u].pc \in Quiet /\ net_thread'[u].pc \notin Unquiet \cup {"install"}
    BY <2>1, <2>2 DEF Stays, Quiet, Unquiet, NetIdle
  <2> QED BY <1>1, <2>1, <2>3, <2>4
<1>5. CASE write_push(u) \/ read_pop(u)
  <2>1. /\ Continues(u) /\ net_thread[u].pc \in {"push", "read"} /\ net_thread'[u] = NetIdle /\ Ends' = Ends
        /\ UNCHANGED <<conn, listeners, link_closed, installed>>
    BY <1>5, ioFacts DEF NetInv
  <2>3. Conns' = Conns /\ \A c \in Conns : Same(c, c)
    BY <2>1 DEF Conns, Same
  <2>4. Stays(u, net_thread[u].conn) /\ net_thread[u].pc \in Quiet /\ net_thread'[u].pc \notin Unquiet \cup {"install"}
    BY <2>1 DEF Stays, Quiet, Unquiet, NetIdle
  <2> QED BY <1>1, <2>1, <2>3, <2>4
<1> QED BY <1>2, <1>3, <1>4, <1>5, registerCoherent, announcedCoherent, allocConnectedCoherent, installCoherent,
           unregisterCoherent, closeCoherent DEF Continue

(* The device starts with no connection, link or listener. *)
LEMMA InitNetInv ==
  NetInit => NetInv
<1> SUFFICES ASSUME NetInit PROVE NetInv
  OBVIOUS
<1>1. /\ conn = <<>> /\ DOMAIN listeners = {} /\ next_port = 0 /\ DOMAIN queue = {} /\ link_closed = <<>>
      /\ installed = {} /\ DOMAIN net_thread = Users /\ \A u \in Users : net_thread[u] = NetIdle
  BY DEF NetInit
<1>2. Conns = {} /\ Len(link_closed) = 0 /\ conn \in Seq(ConnType) /\ link_closed \in Seq(BOOLEAN)
  BY <1>1 DEF Conns
<1>3. Carrying = {}
  BY <1>1 DEF Carrying, NetIdle
<1>4. TypeOK
  BY <1>1, <1>2, IdleOK DEF TypeOK, Ends
<1>5. HeldOK /\ OnePlace /\ Coherent
  BY <1>2, <1>3 DEF HeldOK, OnePlace, Coherent
<1> QED BY <1>4, <1>5 DEF NetInv

(* NetInv is inductive: every step of every user keeps it. *)
LEMMA NextNetInv ==
  NetInv /\ [NetNext]_net_vars => NetInv'
<1> SUFFICES ASSUME NetInv, [NetNext]_net_vars PROVE NetInv'
  OBVIOUS
<1>1. ASSUME NEW u \in Users, Call(u) \/ Continue(u) PROVE NetInv'
  <2>1. TypeOK'
    BY <1>1, CallType, ContinueType DEF NetInv
  <2>2. HeldOK' /\ OnePlace'
    BY <1>1, <2>1, NextEnds DEF NetInv
  <2>3. Coherent'
    BY <1>1, CallCoherent, ContinueCoherent
  <2> QED BY <2>1, <2>2, <2>3 DEF NetInv
<1>2. CASE UNCHANGED net_vars
  BY <1>2 DEF net_vars, NetInv, TypeOK, HeldOK, OnePlace, Coherent, CoherentAt, Alone, ListenerOK, GivenUpOK,
              Conns, Ends, Carrying, On, Registered, Resting, ThreadOK
<1> QED BY <1>1, <1>2 DEF NetNext

(* A coherent connection with no command on it is what ConnectionsAreCoherent says. *)
LEMMA CoherentFollows ==
  ASSUME NetInv
  PROVE  ConnectionsAreCoherent
<1>1. ASSUME NEW c \in Conns, Calm(c) PROVE AtRest(c)
  <2>1. CoherentAt(c) /\ On(c) = {}
    BY <1>1 DEF NetInv, Coherent, Calm
  <2> QED BY <2>1 DEF AtRest, CoherentAt, ListenerOK, GivenUpOK
<1>2. \A i \in installed : i[1] \in Conns /\ i[2] \in Ends /\ i = <<i[1], i[2]>>
  BY DEF NetInv, TypeOK
<1>3. \A c \in Conns : Calm(c) => Registered(c) = IF conn[c].phase = "listening" THEN {conn[c].local} ELSE {}
  BY <1>1 DEF AtRest
<1>4. \A i \in installed : Calm(i[1]) /\ conn[i[1]].endpoint # i[2] => link_closed[i[2][1]]
  BY <1>1, <1>2 DEF AtRest
<1> QED BY <1>3, <1>4 DEF ConnectionsAreCoherent, Registered

(* The listener table names existing connections only, every end a connection, a queue or *)
(* a thread holds is an end of an existing link, and the records keep their types, in     *)
(* every interleaving of NetDevice's commands.                                            *)
THEOREM TypeCorrect == NetSpec => []TypeOK
<1>1. NetInv => TypeOK
  BY DEF NetInv
<1> QED BY <1>1, InitNetInv, NextNetInv, PTL DEF NetSpec

(* No end of a link is ever in two places, whatever connect, accept_one, enqueue_accept, *)
(* hangup and reset do to each other between their locks: no two connections read and    *)
(* write the same side, and none is accepted twice.                                      *)
THEOREM EndsStayUnshared == NetSpec => []EndsAreUnshared
<1>1. NetInv => EndsAreUnshared
  BY EndsFollow DEF NetInv
<1> QED BY <1>1, InitNetInv, NextNetInv, PTL DEF NetSpec

(* A connection that no two commands overlapped on is, whenever no command is on it, in  *)
(* the listener table exactly under its own address while it listens, and every end it   *)
(* gave up is on a closed link: announce, hangup and reset leave neither a dead listener *)
(* nor a half-open link behind.                                                          *)
THEOREM ConnectionsStayCoherent == NetSpec => []ConnectionsAreCoherent
<1> QED BY CoherentFollows, InitNetInv, NextNetInv, PTL DEF NetSpec

-----------------------------------------------------------------------------

(* The aliases, console lines, machines and updates of the device. *)
Names == Aliases \cup {NoAlias}
Lines == {"typed", "start", "stop"}
Machine == [alias : Names, state : {"created", "running", "stopped"}, console : Seq(Lines)]
Updates == {Update("start"), Update("stop"), Update("reset")}

(* What a user's thread holds at each step of a machine command. *)
VmThreadOK(t, ids) ==
  \/ t = VmIdle
  \/ t.pc = "insert" /\ t.id \in Nat
  \/ t.pc = "by_alias" /\ t.cmd \in Commands
  \/ t.pc = "opened" /\ t.id \in ids /\ t.cmd \in Commands
  \/ t.pc \in {"set", "update"} /\ t.id \in ids /\ t.old \in Names /\ t.new \in Names
  \/ t.pc = "clear" /\ t.id \in ids /\ t.update = Update("reset")
  \/ t.pc = "state" /\ t.id \in ids /\ t.update \in Updates
  \/ t.pc = "append" /\ t.id \in ids /\ t.update \in Updates \ {Update("reset")}

(* The types of the device's tables: ids are below the counter and the alias table names *)
(* existing machines.                                                                    *)
VmTypeOK ==
  /\ next_id \in Nat
  /\ DOMAIN resources \subseteq 1..next_id
  /\ \A i \in DOMAIN resources : resources[i] \in Machine
  /\ \A a \in DOMAIN aliases : aliases[a] \in DOMAIN resources
  /\ DOMAIN vm_thread = VmUsers
  /\ \A u \in VmUsers : VmThreadOK(vm_thread[u], DOMAIN resources)

(* An id that alloc took and has not inserted yet is nobody else's. *)
IdsAreFresh ==
  \A u \in VmUsers : vm_thread[u].pc = "insert" =>
    /\ vm_thread[u].id \in 1..next_id /\ vm_thread[u].id \notin DOMAIN resources
    /\ \A v \in VmUsers : vm_thread[v].pc = "insert" /\ vm_thread[v].id = vm_thread[u].id => u = v

(* A machine's own alias, the aliases that lead to it, and an alias no two machines were *)
(* given.                                                                                *)
Own(i) == resources[i].alias
Leading(i) == {a \in DOMAIN aliases : aliases[a] = i}
Undisputed(a) == a \notin contested \cup {NoAlias}

(* An undisputed alias is one machine's, and no pending command on another machine *)
(* removes or adds it.                                                             *)
Exclusive ==
  \A i \in DOMAIN resources : Undisputed(Own(i)) =>
    /\ \A j \in DOMAIN resources : Own(j) = Own(i) => j = i
    /\ \A v \in VmUsers : vm_thread[v].pc \in {"set", "update"} /\ vm_thread[v].id # i =>
         vm_thread[v].old # Own(i) /\ (vm_thread[v].pc = "update" => vm_thread[v].new # Own(i))

(* The alias table leads to a machine by its own alias only, and does when it is   *)
(* undisputed; a command between the two locks of an alias change owes exactly the *)
(* table's step.                                                                   *)
AliasOK(i) ==
  /\ (\A u \in Busy(i) : vm_thread[u].pc # "update") =>
       Leading(i) \subseteq {Own(i)} /\ (Undisputed(Own(i)) => Own(i) \in Leading(i))
  /\ \A u \in Busy(i) :
       /\ vm_thread[u].pc = "set" => vm_thread[u].old = Own(i)
       /\ vm_thread[u].pc = "update" => vm_thread[u].new = Own(i) /\ Leading(i) \subseteq {vm_thread[u].old}

(* The console's last report is the machine's state. *)
Tells(r) ==
  \/ r.state = "created" /\ NothingDone(r.console)
  \/ r.state = "running" /\ LastDone(r.console, "start")
  \/ r.state = "stopped" /\ LastDone(r.console, "stop")

(* The console tells the machine's state, or the command that is changing it owes the *)
(* step that makes it so.                                                             *)
ConsoleOK(i) ==
  /\ (\A u \in Busy(i) : vm_thread[u].pc \notin {"clear", "state", "append"}) => Tells(resources[i])
  /\ \A u \in Busy(i) :
       /\ vm_thread[u].pc = "state" /\ vm_thread[u].update = Update("reset") => NothingDone(resources[i].console)
       /\ vm_thread[u].pc = "append" => resources[i].state = vm_thread[u].update.state

(* What holds of a machine no two commands were ever on at once, and that it holds of all *)
(* of them.                                                                               *)
MachineOK(i) == (\A u, v \in Busy(i) : u = v) /\ AliasOK(i) /\ ConsoleOK(i)
Machines == \A i \in DOMAIN resources \ overlapped : MachineOK(i)

(* The inductive invariant of the virtual machine device. *)
VmInv == VmTypeOK /\ IdsAreFresh /\ Exclusive /\ Machines

-----------------------------------------------------------------------------
(* The step moves no other user's thread. *)
VmMoves(u) ==
  /\ DOMAIN vm_thread' = VmUsers
  /\ \A v \in VmUsers : v # u => vm_thread'[v] = vm_thread[v]

(* The step changes at most one machine and makes none. *)
OnlyMachine(j) ==
  /\ DOMAIN resources' = DOMAIN resources
  /\ \A i \in DOMAIN resources : resources'[i] \in Machine
  /\ \A i \in DOMAIN resources : i # j => resources'[i] = resources[i]

(* Setting one user's thread moves only that user. *)
LEMMA VmGoFacts ==
  ASSUME VmTypeOK, NEW u \in VmUsers, NEW STATE next, VmGo(u, next)
  PROVE  VmMoves(u) /\ vm_thread'[u] = next
BY DEF VmTypeOK, VmGo, VmMoves

(* Writing one machine back changes no other. *)
LEMMA PutMachine ==
  ASSUME VmTypeOK, NEW j \in DOMAIN resources, NEW r \in Machine, resources' = [resources EXCEPT ![j] = r]
  PROVE  OnlyMachine(j) /\ resources'[j] = r
BY DEF OnlyMachine, VmTypeOK

(* The three updates a provider returns. *)
LEMMA UpdateFacts ==
  /\ Update("start") = [state |-> "running", lines |-> <<"start">>, clear |-> FALSE]
  /\ Update("stop") = [state |-> "stopped", lines |-> <<"stop">>, clear |-> FALSE]
  /\ Update("reset") = [state |-> "created", lines |-> <<>>, clear |-> TRUE]
<1>1. ASSUME NEW op, op = "start" PROVE Update(op) = [state |-> "running", lines |-> <<"start">>, clear |-> FALSE]
  BY <1>1 DEF Update
<1>2. ASSUME NEW op, op = "stop" PROVE Update(op) = [state |-> "stopped", lines |-> <<"stop">>, clear |-> FALSE]
  <2>1. op # "start" /\ op # "reset"
    BY <1>2
  <2> QED BY <1>2, <2>1 DEF Update
<1>3. ASSUME NEW op, op = "reset" PROVE Update(op) = [state |-> "created", lines |-> <<>>, clear |-> TRUE]
  <2>1. op # "start" /\ op # "stop"
    BY <1>3
  <2> QED BY <1>3, <2>1 DEF Update
<1> QED BY <1>1, <1>2, <1>3

(* Who is in a command on a machine, before and after a step. *)
LEMMA BusyFacts ==
  ASSUME NEW i
  PROVE  /\ Busy(i) \subseteq VmUsers /\ Busy(i)' \subseteq VmUsers
         /\ \A u \in VmUsers :
              /\ u \in Busy(i) <=> vm_thread[u].pc \in Commanding /\ vm_thread[u].id = i
              /\ u \in Busy(i)' <=> vm_thread'[u].pc \in Commanding /\ vm_thread'[u].id = i
BY DEF Busy

(* A user's step leaves who else is in a command on a machine. *)
LEMMA BusyMoves ==
  ASSUME NEW u \in VmUsers, NEW i, VmMoves(u)
  PROVE  \A v \in VmUsers : v # u => (v \in Busy(i)' <=> v \in Busy(i)) /\ vm_thread'[v] = vm_thread[v]
BY BusyFacts DEF VmMoves

(* A thread stays well formed when machines are added: none is ever removed. *)
LEMMA VmThreadMono ==
  ASSUME NEW t, NEW I, NEW J, I \subseteq J, VmThreadOK(t, I)
  PROVE  VmThreadOK(t, J)
BY DEF VmThreadOK

(* A machine that a step does not concern stays as it should be. *)
LEMMA VmFrame ==
  ASSUME NEW u \in VmUsers, NEW i, VmMoves(u), MachineOK(i), u \notin Busy(i), u \notin Busy(i)',
         resources'[i] = resources[i], contested \subseteq contested', Leading(i)' \subseteq Leading(i),
         Undisputed(Own(i))' /\ Own(i) \in Leading(i) => Own(i) \in Leading(i)'
  PROVE  MachineOK(i)'
<1>1. Busy(i)' = Busy(i) /\ \A v \in Busy(i) : vm_thread'[v] = vm_thread[v]
  <2>1. Busy(i) \subseteq VmUsers /\ Busy(i)' \subseteq VmUsers
    BY DEF Busy
  <2>2. \A v \in VmUsers : v # u => (v \in Busy(i)' <=> v \in Busy(i)) /\ vm_thread'[v] = vm_thread[v]
    BY BusyMoves
  <2> QED BY <2>1, <2>2
<1>2. Own(i)' = Own(i)
  BY DEF Own
<1>3. Undisputed(Own(i))' => Undisputed(Own(i))
  BY <1>2 DEF Undisputed
<1>4. AliasOK(i)'
  BY <1>1, <1>2, <1>3 DEF MachineOK, AliasOK
<1>5. ConsoleOK(i)'
  BY <1>1 DEF MachineOK, ConsoleOK
<1> QED BY <1>1, <1>4, <1>5 DEF MachineOK

(* A step that leaves the alias table leaves what leads to a machine. *)
LEMMA SameLeading ==
  ASSUME UNCHANGED aliases, NEW i
  PROVE  Leading(i)' = Leading(i)
BY DEF Leading

(* A command on one machine has only that machine to show. *)
LEMMA VmFocus ==
  ASSUME VmInv, NEW u \in VmUsers, VmMoves(u), overlapped \subseteq overlapped', contested \subseteq contested',
         NEW j \in DOMAIN resources, OnlyMachine(j),
         \A i \in DOMAIN resources : i # j =>
           /\ u \notin Busy(i) /\ u \notin Busy(i)' /\ Leading(i)' \subseteq Leading(i)
           /\ Undisputed(Own(i))' /\ Own(i) \in Leading(i) => Own(i) \in Leading(i)',
         j \notin overlapped' => MachineOK(j)'
  PROVE  Machines'
<1> SUFFICES ASSUME NEW i \in DOMAIN resources, i \notin overlapped', i # j PROVE MachineOK(i)'
  BY DEF Machines, OnlyMachine
<1>1. MachineOK(i)
  BY DEF VmInv, Machines
<1> QED BY <1>1, VmFrame DEF OnlyMachine

(* The alias table and every machine stay as they are in the steps that only find a *)
(* machine.                                                                         *)
LEMMA VmPassing ==
  ASSUME VmInv, NEW u \in VmUsers, VmMoves(u), UNCHANGED <<resources, aliases, overlapped, contested>>,
         vm_thread[u].pc \notin Commanding, vm_thread'[u].pc \notin Commanding
  PROVE  Machines'
<1> SUFFICES ASSUME NEW i \in DOMAIN resources, i \notin overlapped PROVE MachineOK(i)'
  BY DEF Machines
<1>1. MachineOK(i)
  BY DEF VmInv, Machines
<1>2. u \notin Busy(i) /\ u \notin Busy(i)'
  BY BusyFacts
<1>3. Leading(i)' = Leading(i)
  BY SameLeading
<1> QED BY <1>1, <1>2, <1>3, VmFrame

(* A step that changes no alias and starts no alias change keeps aliases exclusive. *)
LEMMA ExclusiveKept ==
  ASSUME Exclusive, NEW u \in VmUsers, VmMoves(u), DOMAIN resources' = DOMAIN resources, contested \subseteq contested',
         \A i \in DOMAIN resources : Own(i)' = Own(i), vm_thread'[u].pc \notin {"set", "update"}
  PROVE  Exclusive'
<1> SUFFICES ASSUME NEW i \in DOMAIN resources, Undisputed(Own(i))'
             PROVE  /\ \A j \in DOMAIN resources : Own(j)' = Own(i)' => j = i
                    /\ \A v \in VmUsers : vm_thread'[v].pc \in {"set", "update"} /\ vm_thread'[v].id # i =>
                         vm_thread'[v].old # Own(i)' /\ (vm_thread'[v].pc = "update" => vm_thread'[v].new # Own(i)')
  BY DEF Exclusive
<1>1. Undisputed(Own(i)) /\ Own(i)' = Own(i)
  BY DEF Undisputed
<1>2. \A j \in DOMAIN resources : Own(j)' = Own(i)' => j = i
  BY <1>1 DEF Exclusive
<1>3. \A v \in VmUsers : v # u => vm_thread'[v] = vm_thread[v]
  BY DEF VmMoves
<1> QED BY <1>1, <1>2, <1>3 DEF Exclusive

(* A step that allocates nothing keeps the pending ids fresh. *)
LEMMA FreshKept ==
  ASSUME VmInv, NEW u \in VmUsers, VmMoves(u), DOMAIN resources' = DOMAIN resources, UNCHANGED next_id,
         vm_thread'[u].pc # "insert"
  PROVE  IdsAreFresh'
<1>1. \A v \in VmUsers : v # u => vm_thread'[v] = vm_thread[v]
  BY DEF VmMoves
<1> QED BY <1>1 DEF VmInv, IdsAreFresh

(* What a step has to show to keep the types when it adds a machine or an alias. *)
LEMMA VmKeepType ==
  ASSUME VmTypeOK, NEW u \in VmUsers, VmMoves(u), next_id' \in Nat,
         DOMAIN resources \subseteq DOMAIN resources', DOMAIN resources' \subseteq 1..next_id',
         \A i \in DOMAIN resources' : resources'[i] \in Machine,
         \A a \in DOMAIN aliases' : aliases'[a] \in DOMAIN resources',
         VmThreadOK(vm_thread'[u], DOMAIN resources')
  PROVE  VmTypeOK'
<1>1. ASSUME NEW v \in VmUsers PROVE VmThreadOK(vm_thread'[v], DOMAIN resources')
  <2>1. VmThreadOK(vm_thread[v], DOMAIN resources)
    BY DEF VmTypeOK
  <2>2. VmThreadOK(vm_thread[v], DOMAIN resources')
    BY <2>1, VmThreadMono
  <2> QED BY <2>2 DEF VmMoves
<1> QED BY <1>1 DEF VmTypeOK, VmMoves

(* What remains to show of types for a step on one machine. *)
LEMMA VmKeepTypeOnly ==
  ASSUME VmTypeOK, NEW u \in VmUsers, VmMoves(u), UNCHANGED next_id, NEW j, OnlyMachine(j),
         \A a \in DOMAIN aliases' : aliases'[a] \in DOMAIN resources,
         VmThreadOK(vm_thread'[u], DOMAIN resources)
  PROVE  VmTypeOK'
<1>1. /\ next_id' \in Nat /\ DOMAIN resources' \subseteq 1..next_id' /\ DOMAIN resources' = DOMAIN resources
      /\ \A i \in DOMAIN resources' : resources'[i] \in Machine
  BY DEF VmTypeOK, OnlyMachine
<1> QED BY <1>1, VmKeepType

(* An idle thread needs nothing to exist. *)
LEMMA VmIdleOK == \A I : VmThreadOK(VmIdle, I)
BY DEF VmThreadOK

(* A step that leaves the machines leaves their aliases. *)
LEMMA SameMachines ==
  ASSUME VmTypeOK, UNCHANGED resources, NEW j
  PROVE  OnlyMachine(j) /\ \A i : Own(i)' = Own(i)
BY DEF VmTypeOK, OnlyMachine, Own

(* Setting one field of a machine leaves the others. *)
LEMMA PutFields ==
  ASSUME VmTypeOK, NEW j \in DOMAIN resources
  PROVE  /\ resources[j] \in Machine
         /\ \A a \in Names : LET r == [resources[j] EXCEPT !.alias = a] IN
              r \in Machine /\ r.alias = a /\ r.state = resources[j].state /\ r.console = resources[j].console
         /\ \A x \in {"created", "running", "stopped"} : LET r == [resources[j] EXCEPT !.state = x] IN
              r \in Machine /\ r.alias = resources[j].alias /\ r.state = x /\ r.console = resources[j].console
         /\ \A x \in Seq(Lines) : LET r == [resources[j] EXCEPT !.console = x] IN
              r \in Machine /\ r.alias = resources[j].alias /\ r.state = resources[j].state /\ r.console = x
<1>1. resources[j] \in Machine
  BY DEF VmTypeOK
<1>2. PICK m : m = resources[j]
  OBVIOUS
<1>3. m \in Machine
  BY <1>1, <1>2
<1>4. \A a \in Names : [m EXCEPT !.alias = a] \in Machine /\ [m EXCEPT !.alias = a].alias = a
         /\ [m EXCEPT !.alias = a].state = m.state /\ [m EXCEPT !.alias = a].console = m.console
  BY <1>3 DEF Machine
<1>5. \A x \in {"created", "running", "stopped"} : [m EXCEPT !.state = x] \in Machine /\ [m EXCEPT !.state = x].state = x
         /\ [m EXCEPT !.state = x].alias = m.alias /\ [m EXCEPT !.state = x].console = m.console
  BY <1>3 DEF Machine
<1>6. \A x \in Seq(Lines) : [m EXCEPT !.console = x] \in Machine /\ [m EXCEPT !.console = x].console = x
         /\ [m EXCEPT !.console = x].alias = m.alias /\ [m EXCEPT !.console = x].state = m.state
  BY <1>3 DEF Machine
<1> QED BY <1>1, <1>2, <1>4, <1>5, <1>6

(* Writing a machine's alias, as alias_set does, leaves its state and its console. *)
LEMMA SetAliasField ==
  ASSUME VmTypeOK, NEW j \in DOMAIN resources, NEW STATE a, a \in Names, resources' = [resources EXCEPT ![j].alias = a]
  PROVE  /\ OnlyMachine(j) /\ resources'[j].alias = a
         /\ resources'[j].state = resources[j].state /\ resources'[j].console = resources[j].console
<1> DEFINE r == [resources[j] EXCEPT !.alias = a]
<1>1. r \in Machine /\ r.alias = a /\ r.state = resources[j].state /\ r.console = resources[j].console
  BY PutFields
<1>2. resources' = [resources EXCEPT ![j] = r]
  OBVIOUS
<1> HIDE DEF r
<1>3. OnlyMachine(j) /\ resources'[j] = r
  BY <1>1, <1>2, PutMachine
<1> QED BY <1>1, <1>3

(* Writing a machine's state leaves its alias and its console. *)
LEMMA SetStateField ==
  ASSUME VmTypeOK, NEW j \in DOMAIN resources, NEW STATE x, x \in {"created", "running", "stopped"},
         resources' = [resources EXCEPT ![j].state = x]
  PROVE  /\ OnlyMachine(j) /\ resources'[j].state = x
         /\ resources'[j].alias = resources[j].alias /\ resources'[j].console = resources[j].console
<1> DEFINE r == [resources[j] EXCEPT !.state = x]
<1>1. r \in Machine /\ r.state = x /\ r.alias = resources[j].alias /\ r.console = resources[j].console
  BY PutFields
<1>2. resources' = [resources EXCEPT ![j] = r]
  OBVIOUS
<1> HIDE DEF r
<1>3. OnlyMachine(j) /\ resources'[j] = r
  BY <1>1, <1>2, PutMachine
<1> QED BY <1>1, <1>3

(* Writing a machine's console leaves its alias and its state. *)
LEMMA SetConsoleField ==
  ASSUME VmTypeOK, NEW j \in DOMAIN resources, NEW STATE x, x \in Seq(Lines),
         resources' = [resources EXCEPT ![j].console = x]
  PROVE  /\ OnlyMachine(j) /\ resources'[j].console = x
         /\ resources'[j].alias = resources[j].alias /\ resources'[j].state = resources[j].state
<1> DEFINE r == [resources[j] EXCEPT !.console = x]
<1>1. r \in Machine /\ r.console = x /\ r.alias = resources[j].alias /\ r.state = resources[j].state
  BY PutFields
<1>2. resources' = [resources EXCEPT ![j] = r]
  OBVIOUS
<1> HIDE DEF r
<1>3. OnlyMachine(j) /\ resources'[j] = r
  BY <1>1, <1>2, PutMachine
<1> QED BY <1>1, <1>3

(* A step that leaves one machine's alias and all other machines leaves every alias. *)
LEMMA OwnOnly ==
  ASSUME NEW j, OnlyMachine(j), resources'[j].alias = resources[j].alias
  PROVE  \A i \in DOMAIN resources : Own(i)' = Own(i)
BY DEF OnlyMachine, Own

(* What a user types on the console changes none of its reports. *)
LEMMA TypedKeeps ==
  ASSUME NEW console \in Seq(Lines)
  PROVE  /\ Append(console, "typed") \in Seq(Lines)
         /\ NothingDone(console) => NothingDone(Append(console, "typed"))
         /\ \A line : line # "typed" /\ LastDone(console, line) => LastDone(Append(console, "typed"), line)
<1> DEFINE t == Append(console, "typed")
<1>1. "typed" \in Lines
  BY DEF Lines
<1>2. /\ t \in Seq(Lines) /\ Len(t) = Len(console) + 1 /\ t[Len(console) + 1] = "typed"
      /\ \A n \in 1..Len(console) : t[n] = console[n]
  BY <1>1, AppendProperties
<1>3. Len(console) \in Nat /\ DOMAIN console = 1..Len(console) /\ DOMAIN t = 1..(Len(console) + 1)
  BY <1>2
<1> HIDE DEF t
<1>4. NothingDone(console) => NothingDone(t)
  BY <1>2, <1>3 DEF NothingDone
<1>5. ASSUME NEW line, LastDone(console, line) PROVE LastDone(t, line)
  <2>1. PICK n \in DOMAIN console : console[n] = line /\ \A m \in DOMAIN console : m > n => console[m] = "typed"
    BY <1>5 DEF LastDone
  <2>2. n \in DOMAIN t /\ t[n] = line
    BY <1>2, <1>3, <2>1
  <2>3. \A m \in DOMAIN t : m > n => t[m] = "typed"
    BY <1>2, <1>3, <2>1
  <2> QED BY <2>2, <2>3 DEF LastDone
<1> QED BY <1>2, <1>4, <1>5 DEF t

(* The report an update appends is the console's last. *)
LEMMA AddedIsLast ==
  ASSUME NEW console \in Seq(Lines), NEW line \in Lines
  PROVE  console \o <<line>> \in Seq(Lines) /\ LastDone(console \o <<line>>, line)
<1> DEFINE t == console \o <<line>>
<1>1. <<line>> \in Seq(Lines) /\ Len(<<line>>) = 1 /\ <<line>>[1] = line
  OBVIOUS
<1>2. t \in Seq(Lines) /\ Len(t) = Len(console) + 1 /\ t[Len(console) + 1] = line /\ Len(console) \in Nat
  BY <1>1, ConcatProperties
<1> HIDE DEF t
<1>3. LastDone(t, line)
  BY <1>2 DEF LastDone
<1> QED BY <1>2, <1>3 DEF t

(* A command that begins on a machine nobody overlapped on finds it at rest and is alone *)
(* on it.                                                                                *)
LEMMA VmBegins ==
  ASSUME VmInv, NEW u \in VmUsers, NEW STATE next, BeginCommand(u, next), NEW j \in DOMAIN resources,
         j = vm_thread[u].id, vm_thread[u].pc = "opened", next.pc \in Commanding, next.id = j
  PROVE  /\ VmMoves(u) /\ vm_thread'[u] = next /\ overlapped \subseteq overlapped'
         /\ j \notin overlapped' => Busy(j)' = {u} /\ MachineOK(j) /\ Busy(j) = {}
         /\ \A i \in DOMAIN resources : i # j => u \notin Busy(i) /\ u \notin Busy(i)'
<1>1. VmMoves(u) /\ vm_thread'[u] = next
  BY VmGoFacts DEF BeginCommand, VmInv
<1>2. overlapped \subseteq overlapped' /\ (j \notin overlapped' => Busy(j) = {} /\ j \notin overlapped)
  BY DEF BeginCommand
<1>3. \A i \in DOMAIN resources : i # j => u \notin Busy(i) /\ u \notin Busy(i)'
  BY <1>1, BusyFacts DEF Commanding
<1>4. ASSUME j \notin overlapped' PROVE Busy(j)' = {u}
  <2>1. u \in Busy(j)' /\ Busy(j)' \subseteq VmUsers
    BY <1>1, BusyFacts
  <2>2. \A v \in VmUsers : v # u => (v \in Busy(j)' <=> v \in Busy(j)) /\ vm_thread'[v] = vm_thread[v]
    BY <1>1, BusyMoves
  <2> QED BY <1>2, <1>4, <2>1, <2>2
<1>5. j \notin overlapped' => MachineOK(j)
  BY <1>2 DEF VmInv, Machines
<1> QED BY <1>1, <1>2, <1>3, <1>4, <1>5

(* A command that continues on a machine nobody overlapped on is alone on it. *)
LEMMA VmAlone ==
  ASSUME VmInv, NEW u \in VmUsers, VmMoves(u), NEW j \in DOMAIN resources, j = vm_thread[u].id,
         vm_thread[u].pc \in Commanding, vm_thread'[u] = VmIdle \/ vm_thread'[u].id = j
  PROVE  /\ j \notin overlapped => Busy(j) = {u} /\ MachineOK(j) /\ Busy(j)' \subseteq {u}
         /\ u \in Busy(j)' <=> vm_thread'[u].pc \in Commanding
         /\ \A i \in DOMAIN resources : i # j => u \notin Busy(i) /\ u \notin Busy(i)'
<1>1. VmIdle.pc \notin Commanding
  BY DEF VmIdle, Commanding
<1>2. u \in Busy(j) /\ (u \in Busy(j)' <=> vm_thread'[u].pc \in Commanding)
  BY <1>1, BusyFacts
<1>3. \A i \in DOMAIN resources : i # j => u \notin Busy(i) /\ u \notin Busy(i)'
  BY <1>1, BusyFacts
<1>4. ASSUME j \notin overlapped PROVE Busy(j) = {u} /\ MachineOK(j) /\ Busy(j)' \subseteq {u}
  <2>1. MachineOK(j)
    BY <1>4 DEF VmInv, Machines
  <2>2. Busy(j) = {u}
    BY <1>2, <2>1 DEF MachineOK
  <2>3. \A v \in VmUsers : v # u => (v \in Busy(j)' <=> v \in Busy(j)) /\ vm_thread'[v] = vm_thread[v]
    BY BusyMoves
  <2>4. Busy(j)' \subseteq VmUsers
    BY DEF Busy
  <2> QED BY <2>1, <2>2, <2>3, <2>4
<1> QED BY <1>2, <1>3, <1>4

(* What a thread holds, as its program counter tells. *)
LEMMA VmThreadFacts ==
  ASSUME VmInv, NEW u \in VmUsers
  PROVE  /\ vm_thread[u].pc = "insert" => vm_thread[u].id \in Nat
         /\ vm_thread[u].pc = "opened" => vm_thread[u].id \in DOMAIN resources /\ vm_thread[u].cmd \in Commands
         /\ vm_thread[u].pc = "by_alias" => vm_thread[u].cmd \in Commands
         /\ vm_thread[u].pc \in Commanding => vm_thread[u].id \in DOMAIN resources
         /\ vm_thread[u].pc \in {"set", "update"} => vm_thread[u].old \in Names /\ vm_thread[u].new \in Names
         /\ vm_thread[u].pc = "clear" => vm_thread[u].update = Update("reset")
         /\ vm_thread[u].pc = "state" => vm_thread[u].update \in Updates
         /\ vm_thread[u].pc = "append" => vm_thread[u].update \in Updates \ {Update("reset")}
<1>1. VmThreadOK(vm_thread[u], DOMAIN resources)
  BY DEF VmInv, VmTypeOK
<1> QED BY <1>1 DEF VmThreadOK, VmIdle, Commanding

(* The steps that only find a machine keep the invariant. *)
LEMMA PassingInv ==
  ASSUME VmInv, NEW u \in VmUsers, VmMoves(u), UNCHANGED <<next_id, resources, aliases, overlapped, contested>>,
         vm_thread[u].pc \notin Commanding, vm_thread'[u].pc \notin Commanding \cup {"insert"},
         VmThreadOK(vm_thread'[u], DOMAIN resources)
  PROVE  VmInv'
<1>0. VmTypeOK /\ Exclusive
  BY DEF VmInv
<1>1. VmTypeOK'
  <2>1. OnlyMachine(0) /\ \A a \in DOMAIN aliases' : aliases'[a] \in DOMAIN resources
    BY <1>0, SameMachines DEF VmTypeOK
  <2> QED BY <1>0, <2>1, VmKeepTypeOnly
<1>2. IdsAreFresh'
  BY FreshKept
<1>3. Exclusive'
  <2>1. \A i \in DOMAIN resources : Own(i)' = Own(i)
    BY DEF Own
  <2>2. vm_thread'[u].pc \notin {"set", "update"}
    BY DEF Commanding
  <2> QED BY <1>0, <2>1, <2>2, ExclusiveKept
<1>4. Machines'
  BY VmPassing
<1> QED BY <1>1, <1>2, <1>3, <1>4 DEF VmInv

(* fetch_add gives out an id no machine and no pending allocation has. *)
LEMMA allocIdInv ==
  ASSUME VmInv, NEW u \in VmUsers, alloc_id(u)
  PROVE  VmInv'
<1>0. VmTypeOK /\ Exclusive /\ IdsAreFresh
  BY DEF VmInv
<1>1. /\ VmMoves(u) /\ vm_thread'[u] = [pc |-> "insert", id |-> next_id + 1] /\ vm_thread[u].pc = "idle"
      /\ next_id' = next_id + 1 /\ UNCHANGED <<resources, aliases, overlapped, contested>>
  BY <1>0, VmGoFacts DEF alloc_id, VmAt
<1>2. vm_thread'[u].pc = "insert" /\ vm_thread'[u].id = next_id + 1
  BY <1>1
<1>3. next_id \in Nat /\ DOMAIN resources \subseteq 1..next_id
  BY <1>0 DEF VmTypeOK
<1>4. VmTypeOK'
  <2>1. /\ next_id' \in Nat /\ DOMAIN resources \subseteq DOMAIN resources' /\ DOMAIN resources' \subseteq 1..next_id'
    BY <1>1, <1>3
  <2>2. /\ \A i \in DOMAIN resources' : resources'[i] \in Machine
        /\ \A a \in DOMAIN aliases' : aliases'[a] \in DOMAIN resources'
    BY <1>0, <1>1 DEF VmTypeOK
  <2>3. VmThreadOK(vm_thread'[u], DOMAIN resources')
    BY <1>2, <1>3 DEF VmThreadOK
  <2> QED BY <1>0, <1>1, <2>1, <2>2, <2>3, VmKeepType
<1>5. IdsAreFresh'
  <2>1. \A v \in VmUsers : v # u => vm_thread'[v] = vm_thread[v]
    BY <1>1 DEF VmMoves
  <2>2. \A v \in VmUsers : v # u /\ vm_thread[v].pc = "insert" => vm_thread[v].id \in 1..next_id /\ vm_thread[v].id \notin DOMAIN resources
    BY <1>0 DEF IdsAreFresh
  <2>3. next_id + 1 \notin DOMAIN resources /\ next_id + 1 \in 1..next_id' /\ next_id + 1 \notin 1..next_id /\ 1..next_id \subseteq 1..next_id'
    BY <1>1, <1>3
  <2> QED BY <1>0, <1>1, <1>2, <2>1, <2>2, <2>3 DEF IdsAreFresh
<1>6. Exclusive'
  <2>1. \A i \in DOMAIN resources : Own(i)' = Own(i)
    BY <1>1 DEF Own
  <2> QED BY <1>0, <1>1, <1>2, <2>1, ExclusiveKept
<1>7. Machines'
  <2>1. vm_thread[u].pc \notin Commanding /\ vm_thread'[u].pc \notin Commanding
    BY <1>1, <1>2 DEF Commanding
  <2> QED BY <1>1, <2>1, VmPassing
<1> QED BY <1>4, <1>5, <1>6, <1>7 DEF VmInv

(* The inserted machine is new: no alias leads to it, no command is on it, and its *)
(* console is empty.                                                               *)
LEMMA allocInsertInv ==
  ASSUME VmInv, NEW u \in VmUsers, alloc_insert(u)
  PROVE  VmInv'
<1>0. VmTypeOK /\ Exclusive /\ IdsAreFresh
  BY DEF VmInv
<1>1. /\ VmMoves(u) /\ vm_thread'[u] = VmIdle /\ vm_thread[u].pc = "insert"
      /\ resources' = Put(resources, vm_thread[u].id, Created)
      /\ UNCHANGED <<next_id, aliases, overlapped, contested>>
  BY <1>0, VmGoFacts DEF alloc_insert, VmAt
<1>2. PICK n : n = vm_thread[u].id
  OBVIOUS
<1>3. /\ n \in 1..next_id /\ n \notin DOMAIN resources
      /\ \A v \in VmUsers : v # u /\ vm_thread[v].pc = "insert" => vm_thread[v].id # n
  BY <1>0, <1>1, <1>2 DEF IdsAreFresh
<1>4. /\ DOMAIN resources' = DOMAIN resources \cup {n} /\ resources'[n] = Created
      /\ \A i \in DOMAIN resources : resources'[i] = resources[i]
  BY <1>1, <1>2, <1>3 DEF Put
<1>5. Created \in Machine /\ Created.alias = NoAlias /\ Created.state = "created" /\ Created.console = <<>>
  BY DEF Created, Machine, Names
<1>6. \A v \in VmUsers : v # u => vm_thread'[v] = vm_thread[v]
  BY <1>1 DEF VmMoves
<1>7. VmTypeOK'
  <2>1. VmThreadOK(vm_thread'[u], DOMAIN resources')
    BY <1>1, VmIdleOK
  <2>2. /\ next_id' \in Nat /\ DOMAIN resources \subseteq DOMAIN resources' /\ DOMAIN resources' \subseteq 1..next_id'
        /\ \A i \in DOMAIN resources' : resources'[i] \in Machine
        /\ \A a \in DOMAIN aliases' : aliases'[a] \in DOMAIN resources'
    BY <1>0, <1>1, <1>3, <1>4, <1>5 DEF VmTypeOK
  <2> QED BY <1>0, <1>1, <2>1, <2>2, VmKeepType
<1>8. IdsAreFresh'
  <2>1. vm_thread'[u].pc # "insert"
    BY <1>1 DEF VmIdle
  <2> QED BY <1>0, <1>1, <1>3, <1>4, <1>6, <2>1 DEF IdsAreFresh
<1>9. Exclusive'
  <2>1. Own(n)' = NoAlias /\ \A i \in DOMAIN resources : Own(i)' = Own(i)
    BY <1>4, <1>5 DEF Own
  <2>2. \A a : Undisputed(a)' <=> Undisputed(a)
    BY <1>1 DEF Undisputed
  <2>3. ~Undisputed(NoAlias)
    BY DEF Undisputed
  <2> SUFFICES ASSUME NEW i \in DOMAIN resources', Undisputed(Own(i))'
               PROVE  /\ \A j \in DOMAIN resources' : Own(j)' = Own(i)' => j = i
                      /\ \A v \in VmUsers : vm_thread'[v].pc \in {"set", "update"} /\ vm_thread'[v].id # i =>
                           vm_thread'[v].old # Own(i)' /\ (vm_thread'[v].pc = "update" => vm_thread'[v].new # Own(i)')
    BY DEF Exclusive
  <2>4. Own(i)' # NoAlias /\ Own(i)' \notin contested
    BY <1>1 DEF Undisputed
  <2>5. i \in DOMAIN resources /\ Own(i)' = Own(i) /\ Undisputed(Own(i))
    BY <1>4, <2>1, <2>4 DEF Undisputed
  <2>6. vm_thread'[u].pc \notin {"set", "update"}
    BY <1>1 DEF VmIdle
  <2>7. \A j \in DOMAIN resources' : Own(j)' = Own(i)' => j = i
    BY <1>0, <1>4, <2>1, <2>4, <2>5 DEF Exclusive
  <2>8. \A v \in VmUsers : vm_thread[v].pc \in {"set", "update"} /\ vm_thread[v].id # i =>
          vm_thread[v].old # Own(i) /\ (vm_thread[v].pc = "update" => vm_thread[v].new # Own(i))
    BY <1>0, <2>5 DEF Exclusive
  <2> QED BY <1>6, <2>5, <2>6, <2>7, <2>8
<1>10. Machines'
  <2>0. \A i : u \notin Busy(i) /\ u \notin Busy(i)' /\ Leading(i)' = Leading(i)
    <3>1. vm_thread[u].pc \notin Commanding /\ vm_thread'[u].pc \notin Commanding
      BY <1>1 DEF VmIdle, Commanding
    <3> QED BY <1>1, <3>1, BusyFacts, SameLeading
  <2>1. ASSUME NEW i \in DOMAIN resources, i \notin overlapped' PROVE MachineOK(i)'
    <3>1. MachineOK(i)
      BY <1>1, <2>1 DEF VmInv, Machines
    <3> QED BY <1>1, <1>4, <2>0, <3>1, VmFrame
  <2>2. MachineOK(n)'
    <3>1. Busy(n)' = {}
      <4>1. \A v \in VmUsers : vm_thread[v].pc \in Commanding => vm_thread[v].id \in DOMAIN resources
        BY VmThreadFacts
      <4>2. Busy(n) = {}
        BY <1>3, <4>1 DEF Busy
      <4>3. \A v \in VmUsers : v # u => (v \in Busy(n)' <=> v \in Busy(n)) /\ vm_thread'[v] = vm_thread[v]
        BY <1>1, BusyMoves
      <4>4. Busy(n)' \subseteq VmUsers
        BY DEF Busy
      <4> QED BY <2>0, <4>2, <4>3, <4>4
    <3>2. Leading(n)' = {}
      BY <1>0, <1>3, <2>0 DEF Leading, VmTypeOK
    <3>3. Own(n)' = NoAlias
      BY <1>4, <1>5 DEF Own
    <3>4. Tells(resources'[n])
      BY <1>4, <1>5 DEF Tells, NothingDone
    <3>5. AliasOK(n)'
      BY <3>1, <3>2, <3>3 DEF AliasOK, Undisputed
    <3>6. ConsoleOK(n)'
      BY <3>1, <3>4 DEF ConsoleOK
    <3> QED BY <3>1, <3>5, <3>6 DEF MachineOK
  <2> QED BY <1>4, <2>1, <2>2 DEF Machines
<1> QED BY <1>7, <1>8, <1>9, <1>10 DEF VmInv

(* What remains to show of a command on a machine is the machine itself and that aliases *)
(* stay exclusive.                                                                       *)
LEMMA CommandInv ==
  ASSUME VmInv, NEW u \in VmUsers, VmMoves(u), NEW j \in DOMAIN resources, OnlyMachine(j),
         UNCHANGED <<next_id, aliases>>, overlapped \subseteq overlapped', contested \subseteq contested',
         vm_thread'[u].pc # "insert", VmThreadOK(vm_thread'[u], DOMAIN resources),
         \A i \in DOMAIN resources : i # j => u \notin Busy(i) /\ u \notin Busy(i)',
         Exclusive', j \notin overlapped' => MachineOK(j)'
  PROVE  VmInv'
<1>0. VmTypeOK
  BY DEF VmInv
<1>1. VmTypeOK'
  <2>1. \A a \in DOMAIN aliases' : aliases'[a] \in DOMAIN resources
    BY <1>0 DEF VmTypeOK
  <2> QED BY <1>0, <2>1, VmKeepTypeOnly
<1>2. IdsAreFresh'
  BY FreshKept DEF OnlyMachine
<1>3. Machines'
  <2>1. \A i \in DOMAIN resources : i # j => Leading(i)' = Leading(i) /\ Own(i)' = Own(i)
    BY SameLeading DEF OnlyMachine, Own
  <2> QED BY <2>1, VmFocus
<1> QED BY <1>1, <1>2, <1>3 DEF VmInv

(* An alias command reads the old alias, which is the machine's while nobody else is on *)
(* it.                                                                                  *)
LEMMA setAliasInv ==
  ASSUME VmInv, NEW u \in VmUsers, set_alias(u)
  PROVE  VmInv'
<1>0. VmTypeOK /\ Exclusive
  BY DEF VmInv
<1>1. PICK j : j = vm_thread[u].id
  OBVIOUS
<1>2. /\ vm_thread[u].pc = "opened" /\ vm_thread[u].cmd.op = "alias"
      /\ BeginCommand(u, [pc |-> "set", id |-> j, old |-> resources[j].alias, new |-> vm_thread[u].cmd.alias])
      /\ UNCHANGED <<next_id, resources, aliases, contested>>
  BY <1>1 DEF set_alias
<1>3. j \in DOMAIN resources /\ vm_thread[u].cmd \in Commands
  BY <1>1, <1>2, VmThreadFacts
<1>4. vm_thread[u].cmd.alias \in Names /\ resources[j].alias \in Names
  <2>1. vm_thread[u].cmd.alias \in Names
    BY <1>2, <1>3 DEF Commands, Names
  <2> QED BY <1>0, <1>3, <2>1 DEF VmTypeOK, Machine
<1> DEFINE next == [pc |-> "set", id |-> j, old |-> resources[j].alias, new |-> vm_thread[u].cmd.alias]
<1>5. next.pc = "set" /\ next.id = j /\ next.old = Own(j) /\ next.new \in Names /\ next.old \in Names
  BY <1>4 DEF Own
<1>6. BeginCommand(u, next)
  BY <1>2
<1> HIDE DEF next
<1>7. /\ VmMoves(u) /\ vm_thread'[u] = next /\ overlapped \subseteq overlapped'
      /\ j \notin overlapped' => Busy(j)' = {u} /\ MachineOK(j) /\ Busy(j) = {}
      /\ \A i \in DOMAIN resources : i # j => u \notin Busy(i) /\ u \notin Busy(i)'
  <2>1. next.pc \in Commanding
    BY <1>5 DEF Commanding
  <2> QED BY <1>1, <1>2, <1>3, <1>5, <1>6, <2>1, VmBegins
<1>8. OnlyMachine(j) /\ (\A i : Own(i)' = Own(i)) /\ (\A i : Leading(i)' = Leading(i)) /\ resources' = resources
  BY <1>0, <1>2, SameMachines, SameLeading
<1>9. VmThreadOK(vm_thread'[u], DOMAIN resources)
  BY <1>3, <1>5, <1>7 DEF VmThreadOK
<1>10. Exclusive'
  <2> SUFFICES ASSUME NEW i \in DOMAIN resources, Undisputed(Own(i))'
               PROVE  /\ \A k \in DOMAIN resources : Own(k)' = Own(i)' => k = i
                      /\ \A v \in VmUsers : vm_thread'[v].pc \in {"set", "update"} /\ vm_thread'[v].id # i =>
                           vm_thread'[v].old # Own(i)' /\ (vm_thread'[v].pc = "update" => vm_thread'[v].new # Own(i)')
    BY <1>8 DEF Exclusive
  <2>1. Undisputed(Own(i)) /\ Own(i)' = Own(i)
    BY <1>2, <1>8 DEF Undisputed
  <2>2. \A k \in DOMAIN resources : Own(k) = Own(i) => k = i
    BY <1>0, <2>1 DEF Exclusive
  <2>3. \A v \in VmUsers : vm_thread[v].pc \in {"set", "update"} /\ vm_thread[v].id # i =>
          vm_thread[v].old # Own(i) /\ (vm_thread[v].pc = "update" => vm_thread[v].new # Own(i))
    BY <1>0, <2>1 DEF Exclusive
  <2>4. \A v \in VmUsers : v # u => vm_thread'[v] = vm_thread[v]
    BY <1>7 DEF VmMoves
  <2> QED BY <1>3, <1>5, <1>7, <1>8, <2>1, <2>2, <2>3, <2>4
<1>11. ASSUME j \notin overlapped' PROVE MachineOK(j)'
  <2>1. Busy(j)' = {u} /\ MachineOK(j) /\ Busy(j) = {} /\ vm_thread'[u].pc = "set" /\ vm_thread'[u].old = Own(j)
    BY <1>5, <1>7, <1>11
  <2>2. AliasOK(j)'
    BY <1>2, <1>8, <2>1 DEF MachineOK, AliasOK, Undisputed
  <2>3. ConsoleOK(j)'
    BY <1>8, <2>1 DEF MachineOK, ConsoleOK
  <2> QED BY <2>1, <2>2, <2>3 DEF MachineOK
<1> QED BY <1>2, <1>3, <1>5, <1>7, <1>8, <1>9, <1>10, <1>11, CommandInv

(* Writing the alias into the machine leaves the alias table one step behind, and *)
(* disputes the alias when another machine has it or is about to.                 *)
LEMMA aliasSetInv ==
  ASSUME VmInv, NEW u \in VmUsers, alias_set(u)
  PROVE  VmInv'
<1>0. VmTypeOK /\ Exclusive
  BY DEF VmInv
<1>1. PICK j, a, b : j = vm_thread[u].id /\ a = vm_thread[u].old /\ b = vm_thread[u].new
  OBVIOUS
<1>2. /\ vm_thread[u].pc = "set" /\ resources' = [resources EXCEPT ![j].alias = b]
      /\ contested' = IF HeldElsewhere(j, b) THEN contested \cup {b} ELSE contested
      /\ VmMoves(u) /\ vm_thread'[u] = [vm_thread[u] EXCEPT !.pc = "update"]
      /\ UNCHANGED <<next_id, aliases, overlapped>>
  BY <1>0, <1>1, VmGoFacts DEF alias_set
<1>3. j \in DOMAIN resources /\ a \in Names /\ b \in Names
  BY <1>1, <1>2, VmThreadFacts DEF Commanding
<1>4. vm_thread'[u].pc = "update" /\ vm_thread'[u].id = j /\ vm_thread'[u].old = a /\ vm_thread'[u].new = b
  BY <1>0, <1>1, <1>2, <1>3 DEF VmTypeOK, VmThreadOK, VmIdle
<1>5. /\ OnlyMachine(j) /\ resources'[j].alias = b
      /\ resources'[j].state = resources[j].state /\ resources'[j].console = resources[j].console
  BY <1>0, <1>2, <1>3, SetAliasField
<1>6. Own(j)' = b /\ \A i \in DOMAIN resources : i # j => Own(i)' = Own(i)
  BY <1>5 DEF OnlyMachine, Own
<1>7. \A i : Leading(i)' = Leading(i)
  BY <1>2, SameLeading
<1>8. /\ j \notin overlapped => Busy(j) = {u} /\ MachineOK(j) /\ Busy(j)' \subseteq {u}
      /\ \A i \in DOMAIN resources : i # j => u \notin Busy(i) /\ u \notin Busy(i)'
  <2>1. vm_thread[u].pc \in Commanding
    BY <1>2 DEF Commanding
  <2> QED BY <1>1, <1>2, <1>3, <1>4, <2>1, VmAlone
<1>9. \A v \in VmUsers : v # u => vm_thread'[v] = vm_thread[v]
  BY <1>2 DEF VmMoves
<1>10. Exclusive'
  <2> SUFFICES ASSUME NEW i \in DOMAIN resources, Undisputed(Own(i))'
               PROVE  /\ \A k \in DOMAIN resources : Own(k)' = Own(i)' => k = i
                      /\ \A v \in VmUsers : vm_thread'[v].pc \in {"set", "update"} /\ vm_thread'[v].id # i =>
                           vm_thread'[v].old # Own(i)' /\ (vm_thread'[v].pc = "update" => vm_thread'[v].new # Own(i)')
    BY <1>5 DEF Exclusive, OnlyMachine
  <2>0. Own(i)' \notin contested' /\ Own(i)' \notin contested /\ Own(i)' # NoAlias
    BY <1>2 DEF Undisputed
  <2>1. CASE i = j
    <3>1. ~HeldElsewhere(j, b)
      BY <1>2, <1>6, <2>0, <2>1
    <3>2. \A k \in DOMAIN resources : k # j => Own(k) # b
      BY <3>1 DEF HeldElsewhere, Own
    <3>3. \A v \in VmUsers : vm_thread[v].pc \in {"set", "update"} /\ vm_thread[v].id # j =>
            vm_thread[v].old # b /\ vm_thread[v].new # b
      BY <3>1 DEF HeldElsewhere
    <3> QED BY <1>4, <1>6, <1>9, <2>1, <3>2, <3>3
  <2>2. CASE i # j
    <3>1. Own(i)' = Own(i) /\ Undisputed(Own(i))
      BY <1>6, <2>0, <2>2 DEF Undisputed
    <3>2. /\ \A k \in DOMAIN resources : Own(k) = Own(i) => k = i
          /\ \A v \in VmUsers : vm_thread[v].pc \in {"set", "update"} /\ vm_thread[v].id # i =>
               vm_thread[v].old # Own(i) /\ (vm_thread[v].pc = "update" => vm_thread[v].new # Own(i))
      BY <1>0, <3>1 DEF Exclusive
    <3>3. b # Own(i)
      <4>1. ASSUME b = Own(i) PROVE FALSE
        <5>1. HeldElsewhere(j, b)
          BY <2>2, <4>1 DEF HeldElsewhere, Own
        <5> QED BY <1>2, <2>0, <3>1, <4>1, <5>1
      <4> QED BY <4>1
    <3>4. a # Own(i)
      BY <1>1, <1>2, <2>2, <3>2
    <3> QED BY <1>4, <1>6, <1>9, <2>2, <3>1, <3>2, <3>3, <3>4
  <2> QED BY <2>1, <2>2
<1>11. ASSUME j \notin overlapped' PROVE MachineOK(j)'
  <2>1. Busy(j) = {u} /\ MachineOK(j) /\ Busy(j)' \subseteq {u}
    BY <1>2, <1>8, <1>11
  <2>2. Leading(j) \subseteq {a}
    BY <1>1, <1>2, <2>1 DEF MachineOK, AliasOK
  <2>3. u \in Busy(j)'
    BY <1>4, BusyFacts DEF Commanding
  <2>4. AliasOK(j)'
    BY <1>4, <1>6, <1>7, <2>1, <2>2, <2>3 DEF AliasOK
  <2>5. Tells(resources[j])
    BY <1>2, <2>1 DEF MachineOK, ConsoleOK
  <2>6. ConsoleOK(j)'
    BY <1>4, <1>5, <2>1, <2>3, <2>5 DEF ConsoleOK, Tells
  <2> QED BY <2>1, <2>4, <2>6 DEF MachineOK
<1>12. VmThreadOK(vm_thread'[u], DOMAIN resources)
  BY <1>3, <1>4 DEF VmThreadOK
<1>13. contested \subseteq contested' /\ overlapped \subseteq overlapped'
  BY <1>2
<1> QED BY <1>2, <1>3, <1>4, <1>5, <1>8, <1>10, <1>11, <1>12, <1>13, CommandInv

(* update_alias removes the old alias from the table and enters the new one: the table *)
(* has caught up.                                                                      *)
LEMMA aliasUpdateInv ==
  ASSUME VmInv, NEW u \in VmUsers, alias_update(u)
  PROVE  VmInv'
<1>0. VmTypeOK /\ Exclusive
  BY DEF VmInv
<1>1. PICK j, a, b : j = vm_thread[u].id /\ a = vm_thread[u].old /\ b = vm_thread[u].new
  OBVIOUS
<1>2. /\ vm_thread[u].pc = "update" /\ aliases' = update_alias(j, a, b)
      /\ VmMoves(u) /\ vm_thread'[u] = VmIdle
      /\ UNCHANGED <<next_id, resources, overlapped, contested>>
  BY <1>0, <1>1, VmGoFacts DEF alias_update
<1>3. j \in DOMAIN resources
  BY <1>1, <1>2, VmThreadFacts DEF Commanding
<1>4. OnlyMachine(j) /\ (\A i : Own(i)' = Own(i)) /\ resources' = resources
  BY <1>0, <1>2, SameMachines
<1>5. \A i \in DOMAIN resources : i # j =>
        Leading(i)' \subseteq Leading(i) /\ \A c \in Leading(i) : c # a /\ c # b => c \in Leading(i)'
  BY <1>2 DEF Leading, update_alias, Put, Drop
<1>6. Leading(j)' = (Leading(j) \ {a}) \cup (IF b = NoAlias THEN {} ELSE {b})
  BY <1>2 DEF Leading, update_alias, Put, Drop
<1>7. /\ j \notin overlapped => Busy(j) = {u} /\ MachineOK(j) /\ Busy(j)' \subseteq {u}
      /\ u \in Busy(j)' <=> vm_thread'[u].pc \in Commanding
      /\ \A i \in DOMAIN resources : i # j => u \notin Busy(i) /\ u \notin Busy(i)'
  <2>1. vm_thread[u].pc \in Commanding
    BY <1>2 DEF Commanding
  <2> QED BY <1>1, <1>2, <1>3, <2>1, VmAlone
<1>8. vm_thread'[u].pc \notin Commanding /\ vm_thread'[u].pc # "insert" /\ vm_thread'[u].pc \notin {"set", "update"}
  BY <1>2 DEF VmIdle, Commanding
<1>9. Exclusive'
  BY <1>0, <1>2, <1>4, <1>8, ExclusiveKept
<1>10. ASSUME NEW i \in DOMAIN resources, i # j
       PROVE  /\ u \notin Busy(i) /\ u \notin Busy(i)' /\ Leading(i)' \subseteq Leading(i)
              /\ Undisputed(Own(i))' /\ Own(i) \in Leading(i) => Own(i) \in Leading(i)'
  <2>1. u \notin Busy(i) /\ u \notin Busy(i)' /\ Leading(i)' \subseteq Leading(i)
    BY <1>5, <1>7, <1>10
  <2>2. ASSUME Undisputed(Own(i))', Own(i) \in Leading(i) PROVE Own(i) \in Leading(i)'
    <3>1. Undisputed(Own(i))
      BY <1>2, <1>4, <2>2 DEF Undisputed
    <3>2. a # Own(i) /\ b # Own(i)
      BY <1>0, <1>1, <1>2, <1>10, <3>1 DEF Exclusive
    <3> QED BY <1>5, <1>10, <2>2, <3>2
  <2> QED BY <2>1, <2>2
<1>11. ASSUME j \notin overlapped' PROVE MachineOK(j)'
  <2>1. Busy(j) = {u} /\ MachineOK(j) /\ Busy(j)' = {}
    BY <1>2, <1>7, <1>8, <1>11
  <2>2. b = Own(j) /\ Leading(j) \subseteq {a}
    BY <1>1, <1>2, <2>1 DEF MachineOK, AliasOK
  <2>3. Leading(j)' \subseteq {Own(j)} /\ (Own(j) # NoAlias => Own(j) \in Leading(j)')
    BY <1>6, <2>2
  <2>4. AliasOK(j)'
    BY <1>4, <2>1, <2>3 DEF AliasOK, Undisputed
  <2>5. Tells(resources[j])
    BY <1>2, <2>1 DEF MachineOK, ConsoleOK
  <2>6. ConsoleOK(j)'
    BY <1>4, <2>1, <2>5 DEF ConsoleOK
  <2> QED BY <2>1, <2>4, <2>6 DEF MachineOK
<1>12. Machines'
  BY <1>2, <1>3, <1>4, <1>10, <1>11, VmFocus
<1>13. IdsAreFresh'
  BY <1>2, <1>8, FreshKept
<1>14. VmTypeOK'
  <2>1. \A c \in DOMAIN aliases' : aliases'[c] \in DOMAIN resources
    BY <1>0, <1>2, <1>3 DEF VmTypeOK, update_alias, Put, Drop
  <2>2. VmThreadOK(vm_thread'[u], DOMAIN resources)
    BY <1>2, VmIdleOK
  <2> QED BY <1>0, <1>2, <1>4, <2>1, <2>2, VmKeepTypeOnly
<1> QED BY <1>9, <1>12, <1>13, <1>14 DEF VmInv

(* A reset clears the console and reports nothing; a start and a stop report the state *)
(* they set.                                                                           *)
LEMMA UpdatesAre ==
  \A x \in Updates :
    /\ x.state \in {"created", "running", "stopped"}
    /\ x.clear <=> x = Update("reset")
    /\ x.lines = <<>> <=> x = Update("reset")
    /\ x = Update("reset") => x.state = "created"
    /\ x # Update("reset") => \/ x.lines = <<"start">> /\ x.state = "running"
                              \/ x.lines = <<"stop">> /\ x.state = "stopped"
<1>1. \A x \in Updates : x = Update("start") \/ x = Update("stop") \/ x = Update("reset")
  BY DEF Updates
<1> QED BY <1>1, UpdateFacts

(* A control command asks the provider and goes on to the console or the state. *)
LEMMA controlInv ==
  ASSUME VmInv, NEW u \in VmUsers, control(u)
  PROVE  VmInv'
<1>0. VmTypeOK /\ Exclusive
  BY DEF VmInv
<1>1. PICK j, x : j = vm_thread[u].id /\ x = Update(vm_thread[u].cmd.op)
  OBVIOUS
<1>2. vm_thread[u].pc = "opened" /\ vm_thread[u].cmd.op \in {"start", "stop", "reset"}
      /\ UNCHANGED <<next_id, resources, aliases, contested>>
  BY DEF control
<1>3. j \in DOMAIN resources /\ x \in Updates
  <2>1. j \in DOMAIN resources
    BY <1>1, <1>2, VmThreadFacts
  <2>2. x \in Updates
    BY <1>1, <1>2 DEF Updates
  <2> QED BY <2>1, <2>2
<1>4. CASE provider = "failing"
  <2>1. VmMoves(u) /\ vm_thread'[u] = VmIdle /\ UNCHANGED overlapped
    BY <1>0, <1>4, VmGoFacts DEF control
  <2>2. vm_thread[u].pc \notin Commanding /\ vm_thread'[u].pc \notin Commanding \cup {"insert"}
    BY <1>2, <2>1 DEF Commanding, VmIdle
  <2>3. VmThreadOK(vm_thread'[u], DOMAIN resources)
    BY <2>1, VmIdleOK
  <2> QED BY <1>2, <2>1, <2>2, <2>3, PassingInv
<1>5. CASE provider # "failing"
  <2> DEFINE next == [pc |-> IF x.clear THEN "clear" ELSE "state", id |-> j, update |-> x]
  <2>1. BeginCommand(u, next)
    BY <1>1, <1>5 DEF control
  <2>2. next.pc \in {"clear", "state"} /\ next.id = j /\ next.update = x /\ (x.clear <=> next.pc = "clear")
    OBVIOUS
  <2> HIDE DEF next
  <2>3. next.pc \in Commanding
    BY <2>2 DEF Commanding
  <2>4. /\ VmMoves(u) /\ vm_thread'[u] = next /\ overlapped \subseteq overlapped'
        /\ j \notin overlapped' => Busy(j)' = {u} /\ MachineOK(j) /\ Busy(j) = {}
        /\ \A i \in DOMAIN resources : i # j => u \notin Busy(i) /\ u \notin Busy(i)'
    BY <1>1, <1>2, <1>3, <2>1, <2>2, <2>3, VmBegins
  <2>5. OnlyMachine(j) /\ (\A i : Own(i)' = Own(i)) /\ (\A i : Leading(i)' = Leading(i)) /\ resources' = resources
    BY <1>0, <1>2, SameMachines, SameLeading
  <2>6. vm_thread'[u].pc \notin {"set", "update", "insert"}
    BY <2>2, <2>4
  <2>7. Exclusive'
    BY <1>0, <1>2, <2>4, <2>5, <2>6, ExclusiveKept
  <2>8. x.clear <=> x = Update("reset")
    BY <1>3, UpdatesAre
  <2>9. VmThreadOK(vm_thread'[u], DOMAIN resources)
    BY <1>3, <2>2, <2>4, <2>8 DEF VmThreadOK
  <2>10. ASSUME j \notin overlapped' PROVE MachineOK(j)'
    <3>1. Busy(j)' = {u} /\ MachineOK(j) /\ Busy(j) = {}
      BY <2>4, <2>10
    <3>2. AliasOK(j)'
      BY <1>2, <2>5, <2>6, <3>1 DEF MachineOK, AliasOK, Undisputed
    <3>3. ConsoleOK(j)'
      BY <2>2, <2>4, <2>8, <3>1 DEF ConsoleOK
    <3> QED BY <3>1, <3>2, <3>3 DEF MachineOK
  <2> QED BY <1>2, <1>3, <2>4, <2>5, <2>6, <2>7, <2>9, <2>10, CommandInv
<1> QED BY <1>4, <1>5

(* What remains to show of a step that applies an update to its machine. *)
LEMMA ApplyInv ==
  ASSUME VmInv, NEW u \in VmUsers, NEW j \in DOMAIN resources, j = vm_thread[u].id,
         vm_thread[u].pc \in {"clear", "state", "append"}, VmMoves(u),
         UNCHANGED <<next_id, aliases, overlapped, contested>>,
         OnlyMachine(j), resources'[j].alias = resources[j].alias,
         vm_thread'[u] = VmIdle \/ (vm_thread'[u].id = j /\ vm_thread'[u].pc \in {"state", "append"}),
         VmThreadOK(vm_thread'[u], DOMAIN resources),
         j \notin overlapped /\ MachineOK(j) /\ Busy(j) = {u} =>
           \/ vm_thread'[u] = VmIdle /\ Tells(resources'[j])
           \/ /\ vm_thread'[u].pc = "state"
              /\ vm_thread'[u].update = Update("reset") => NothingDone(resources'[j].console)
           \/ vm_thread'[u].pc = "append" /\ resources'[j].state = vm_thread'[u].update.state
  PROVE  VmInv'
<1>0. VmTypeOK /\ Exclusive
  BY DEF VmInv
<1>1. VmIdle.pc = "idle"
  BY DEF VmIdle
<1>2. vm_thread[u].pc \in Commanding /\ vm_thread'[u].pc \notin {"set", "update", "insert", "clear"}
  BY <1>1 DEF Commanding
<1>3. /\ j \notin overlapped => Busy(j) = {u} /\ MachineOK(j) /\ Busy(j)' \subseteq {u}
      /\ u \in Busy(j)' <=> vm_thread'[u].pc \in Commanding
      /\ \A i \in DOMAIN resources : i # j => u \notin Busy(i) /\ u \notin Busy(i)'
  BY <1>2, VmAlone
<1>4. \A i \in DOMAIN resources : Own(i)' = Own(i)
  BY OwnOnly
<1>5. Exclusive'
  BY <1>0, <1>2, <1>4, ExclusiveKept DEF OnlyMachine
<1>6. ASSUME j \notin overlapped' PROVE MachineOK(j)'
  <2>1. Busy(j) = {u} /\ MachineOK(j) /\ Busy(j)' \subseteq {u}
    BY <1>3, <1>6
  <2>2. Leading(j)' = Leading(j) /\ Own(j)' = Own(j) /\ (Undisputed(Own(j))' <=> Undisputed(Own(j)))
    BY <1>4, SameLeading DEF Undisputed
  <2>3. AliasOK(j)'
    BY <1>2, <2>1, <2>2 DEF MachineOK, AliasOK
  <2>4. ConsoleOK(j)'
    <3>1. \/ vm_thread'[u] = VmIdle /\ Tells(resources'[j])
          \/ /\ vm_thread'[u].pc = "state"
             /\ vm_thread'[u].update = Update("reset") => NothingDone(resources'[j].console)
          \/ vm_thread'[u].pc = "append" /\ resources'[j].state = vm_thread'[u].update.state
      BY <1>6, <2>1
    <3>2. CASE vm_thread'[u] = VmIdle /\ Tells(resources'[j])
      <4>1. Busy(j)' = {}
        BY <1>1, <1>3, <2>1, <3>2 DEF Commanding
      <4> QED BY <3>2, <4>1 DEF ConsoleOK
    <3>3. CASE vm_thread'[u].pc \in {"state", "append"}
      <4>1. Busy(j)' = {u}
        BY <1>3, <2>1, <3>3 DEF Commanding
      <4> QED BY <1>1, <3>1, <3>3, <4>1 DEF ConsoleOK
    <3> QED BY <3>1, <3>2, <3>3
  <2> QED BY <2>1, <2>3, <2>4 DEF MachineOK
<1> QED BY <1>2, <1>3, <1>5, <1>6, CommandInv

(* A reset clears the console before it sets the state. *)
LEMMA applyClearInv ==
  ASSUME VmInv, NEW u \in VmUsers, apply_clear(u)
  PROVE  VmInv'
<1>0. VmTypeOK
  BY DEF VmInv
<1>1. PICK j : j = vm_thread[u].id
  OBVIOUS
<1>2. /\ vm_thread[u].pc = "clear" /\ resources' = [resources EXCEPT ![j].console = <<>>]
      /\ VmMoves(u) /\ vm_thread'[u] = [vm_thread[u] EXCEPT !.pc = "state"]
      /\ UNCHANGED <<next_id, aliases, overlapped, contested>>
  BY <1>0, <1>1, VmGoFacts DEF apply_clear
<1>3. j \in DOMAIN resources /\ vm_thread[u].update = Update("reset")
  BY <1>1, <1>2, VmThreadFacts DEF Commanding
<1>4. vm_thread'[u].pc = "state" /\ vm_thread'[u].id = j /\ vm_thread'[u].update = Update("reset")
  BY <1>0, <1>1, <1>2, <1>3 DEF VmTypeOK, VmThreadOK, VmIdle
<1>5. OnlyMachine(j) /\ resources'[j].console = <<>> /\ resources'[j].alias = resources[j].alias
  <2>1. <<>> \in Seq(Lines)
    OBVIOUS
  <2> QED BY <1>0, <1>2, <1>3, <2>1, SetConsoleField
<1>6. VmThreadOK(vm_thread'[u], DOMAIN resources)
  BY <1>3, <1>4 DEF VmThreadOK, Updates
<1>7. NothingDone(resources'[j].console)
  BY <1>5 DEF NothingDone
<1> QED BY <1>1, <1>2, <1>3, <1>4, <1>5, <1>6, <1>7, ApplyInv

(* The state is set before the report is appended. *)
LEMMA applyStateInv ==
  ASSUME VmInv, NEW u \in VmUsers, apply_state(u)
  PROVE  VmInv'
<1>0. VmTypeOK
  BY DEF VmInv
<1>1. PICK j, x : j = vm_thread[u].id /\ x = vm_thread[u].update
  OBVIOUS
<1>2. /\ vm_thread[u].pc = "state" /\ resources' = [resources EXCEPT ![j].state = x.state]
      /\ VmMoves(u) /\ vm_thread'[u] = IF x.lines = <<>> THEN VmIdle ELSE [vm_thread[u] EXCEPT !.pc = "append"]
      /\ UNCHANGED <<next_id, aliases, overlapped, contested>>
  BY <1>0, <1>1, VmGoFacts DEF apply_state
<1>3. j \in DOMAIN resources /\ x \in Updates
  BY <1>1, <1>2, VmThreadFacts DEF Commanding
<1>4. /\ x.state \in {"created", "running", "stopped"} /\ (x.lines = <<>> <=> x = Update("reset"))
      /\ x = Update("reset") => x.state = "created"
  BY <1>3, UpdatesAre
<1>5. /\ OnlyMachine(j) /\ resources'[j].state = x.state /\ resources'[j].alias = resources[j].alias
      /\ resources'[j].console = resources[j].console
  BY <1>0, <1>2, <1>3, <1>4, SetStateField
<1>6. CASE x = Update("reset")
  <2>1. vm_thread'[u] = VmIdle /\ VmThreadOK(vm_thread'[u], DOMAIN resources)
    BY <1>2, <1>4, <1>6, VmIdleOK
  <2>2. MachineOK(j) /\ Busy(j) = {u} => Tells(resources'[j])
    BY <1>1, <1>2, <1>4, <1>5, <1>6 DEF MachineOK, ConsoleOK, Tells
  <2> QED BY <1>1, <1>2, <1>3, <1>5, <2>1, <2>2, ApplyInv
<1>7. CASE x # Update("reset")
  <2>1. vm_thread'[u].pc = "append" /\ vm_thread'[u].id = j /\ vm_thread'[u].update = x
    BY <1>0, <1>1, <1>2, <1>3, <1>4, <1>7 DEF VmTypeOK, VmThreadOK, VmIdle
  <2>2. VmThreadOK(vm_thread'[u], DOMAIN resources)
    BY <1>3, <1>7, <2>1 DEF VmThreadOK
  <2> QED BY <1>1, <1>2, <1>3, <1>5, <2>1, <2>2, ApplyInv
<1> QED BY <1>6, <1>7

(* Once the report is appended the console tells the state. *)
LEMMA applyLinesInv ==
  ASSUME VmInv, NEW u \in VmUsers, apply_lines(u)
  PROVE  VmInv'
<1>0. VmTypeOK
  BY DEF VmInv
<1>1. PICK j, x : j = vm_thread[u].id /\ x = vm_thread[u].update
  OBVIOUS
<1>2. /\ vm_thread[u].pc = "append" /\ resources' = [resources EXCEPT ![j].console = resources[j].console \o x.lines]
      /\ VmMoves(u) /\ vm_thread'[u] = VmIdle
      /\ UNCHANGED <<next_id, aliases, overlapped, contested>>
  BY <1>0, <1>1, VmGoFacts DEF apply_lines
<1>3. j \in DOMAIN resources /\ x \in Updates \ {Update("reset")}
  BY <1>1, <1>2, VmThreadFacts DEF Commanding
<1>4. \/ x.lines = <<"start">> /\ x.state = "running"
      \/ x.lines = <<"stop">> /\ x.state = "stopped"
  BY <1>3, UpdatesAre
<1>5. resources[j].console \in Seq(Lines)
  BY <1>0, <1>3 DEF VmTypeOK, Machine
<1>6. PICK line : x.lines = <<line>> /\ line \in Lines /\ ((line = "start" /\ x.state = "running") \/ (line = "stop" /\ x.state = "stopped"))
  BY <1>4 DEF Lines
<1>7. LET c == resources[j].console \o x.lines IN c \in Seq(Lines) /\ LastDone(c, line)
  BY <1>5, <1>6, AddedIsLast
<1>8. /\ OnlyMachine(j) /\ resources'[j].console = resources[j].console \o x.lines
      /\ resources'[j].alias = resources[j].alias /\ resources'[j].state = resources[j].state
  BY <1>0, <1>2, <1>3, <1>7, SetConsoleField
<1>9. VmThreadOK(vm_thread'[u], DOMAIN resources)
  BY <1>2, VmIdleOK
<1>10. ASSUME MachineOK(j), Busy(j) = {u} PROVE Tells(resources'[j])
  <2>1. resources[j].state = x.state
    BY <1>1, <1>2, <1>10 DEF MachineOK, ConsoleOK
  <2> QED BY <1>6, <1>7, <1>8, <2>1 DEF Tells
<1> QED BY <1>1, <1>2, <1>3, <1>8, <1>9, <1>10, ApplyInv

(* What a user writes to the console is no report. *)
LEMMA consoleWriteInv ==
  ASSUME VmInv, NEW u \in VmUsers, console_write(u)
  PROVE  VmInv'
<1>0. VmTypeOK /\ Exclusive
  BY DEF VmInv
<1>1. PICK j : j = vm_thread[u].id
  OBVIOUS
<1>2. /\ vm_thread[u].pc = "opened" /\ resources' = [resources EXCEPT ![j].console = Append(resources[j].console, "typed")]
      /\ VmMoves(u) /\ vm_thread'[u] = VmIdle
      /\ UNCHANGED <<next_id, aliases, overlapped, contested>>
  BY <1>0, <1>1, VmGoFacts DEF console_write
<1>3. j \in DOMAIN resources
  BY <1>1, <1>2, VmThreadFacts
<1>4. resources[j].console \in Seq(Lines)
  BY <1>0, <1>3 DEF VmTypeOK, Machine
<1>5. PICK old, new : old = resources[j].console /\ new = Append(old, "typed")
  OBVIOUS
<1>6. /\ new \in Seq(Lines) /\ (NothingDone(old) => NothingDone(new))
      /\ \A line : line # "typed" /\ LastDone(old, line) => LastDone(new, line)
  BY <1>4, <1>5, TypedKeeps
<1>7. /\ OnlyMachine(j) /\ resources'[j].console = new
      /\ resources'[j].alias = resources[j].alias /\ resources'[j].state = resources[j].state
  BY <1>0, <1>2, <1>3, <1>5, <1>6, SetConsoleField
<1>8. vm_thread[u].pc \notin Commanding /\ vm_thread'[u].pc \notin Commanding \cup {"insert"} /\ vm_thread'[u].pc \notin {"set", "update"}
  BY <1>2 DEF VmIdle, Commanding
<1>9. \A i : u \notin Busy(i) /\ u \notin Busy(i)' /\ Leading(i)' = Leading(i)
  BY <1>2, <1>8, BusyFacts, SameLeading
<1>10. \A i \in DOMAIN resources : Own(i)' = Own(i)
  BY <1>7, OwnOnly
<1>11. Exclusive'
  BY <1>0, <1>2, <1>7, <1>8, <1>10, ExclusiveKept DEF OnlyMachine
<1>12. ASSUME j \notin overlapped' PROVE MachineOK(j)'
  <2>1. MachineOK(j)
    BY <1>2, <1>3, <1>12 DEF VmInv, Machines
  <2>2. Busy(j)' = Busy(j) /\ \A v \in Busy(j) : vm_thread'[v] = vm_thread[v]
    <3>1. Busy(j) \subseteq VmUsers /\ Busy(j)' \subseteq VmUsers
      BY DEF Busy
    <3>2. \A v \in VmUsers : v # u => (v \in Busy(j)' <=> v \in Busy(j)) /\ vm_thread'[v] = vm_thread[v]
      BY <1>2, BusyMoves
    <3> QED BY <1>9, <3>1, <3>2
  <2>3. Own(j)' = Own(j) /\ (Undisputed(Own(j))' <=> Undisputed(Own(j)))
    BY <1>2, <1>3, <1>10 DEF Undisputed
  <2>4. AliasOK(j)'
    BY <1>9, <2>1, <2>2, <2>3 DEF MachineOK, AliasOK
  <2>5. Tells(resources[j]) => Tells(resources'[j])
    BY <1>5, <1>6, <1>7 DEF Tells
  <2>6. ConsoleOK(j)'
    BY <1>5, <1>6, <1>7, <2>1, <2>2, <2>5 DEF MachineOK, ConsoleOK
  <2> QED BY <2>1, <2>2, <2>4, <2>6 DEF MachineOK
<1>13. VmThreadOK(vm_thread'[u], DOMAIN resources)
  BY <1>2, VmIdleOK
<1> QED BY <1>2, <1>3, <1>7, <1>8, <1>9, <1>11, <1>12, <1>13, CommandInv

(* Finding a machine by its id or by its alias starts no command on it. *)
LEMMA resolveInv ==
  ASSUME VmInv, NEW u \in VmUsers, NEW name, NEW cmd \in Commands, resolve(u, name, cmd)
  PROVE  VmInv'
<1>0. VmTypeOK
  BY DEF VmInv
<1>1. /\ VmMoves(u) /\ vm_thread[u].pc = "idle"
      /\ vm_thread'[u] = IF name \in DOMAIN resources THEN [pc |-> "opened", id |-> name, cmd |-> cmd]
                                                       ELSE [pc |-> "by_alias", name |-> name, cmd |-> cmd]
      /\ UNCHANGED <<next_id, resources, aliases, overlapped, contested>>
  BY <1>0, VmGoFacts DEF resolve, VmAt
<1>2. VmThreadOK(vm_thread'[u], DOMAIN resources) /\ vm_thread'[u].pc \in {"opened", "by_alias"}
  BY <1>1 DEF VmThreadOK
<1>3. vm_thread[u].pc \notin Commanding /\ vm_thread'[u].pc \notin Commanding \cup {"insert"}
  BY <1>1, <1>2 DEF Commanding
<1> QED BY <1>1, <1>2, <1>3, PassingInv

(* Opening what the alias leads to starts no command on it. *)
LEMMA resolveAliasInv ==
  ASSUME VmInv, NEW u \in VmUsers, resolve_alias(u)
  PROVE  VmInv'
<1>0. VmTypeOK
  BY DEF VmInv
<1>1. PICK n, x : n = vm_thread[u].name /\ x = vm_thread[u].cmd
  OBVIOUS
<1>2. /\ VmMoves(u) /\ vm_thread[u].pc = "by_alias"
      /\ vm_thread'[u] = IF n \in DOMAIN aliases /\ aliases[n] \in DOMAIN resources
                         THEN [pc |-> "opened", id |-> aliases[n], cmd |-> x] ELSE VmIdle
      /\ UNCHANGED <<next_id, resources, aliases, overlapped, contested>>
  BY <1>0, <1>1, VmGoFacts DEF resolve_alias
<1>3. x \in Commands
  BY <1>1, <1>2, VmThreadFacts
<1>4. VmThreadOK(vm_thread'[u], DOMAIN resources) /\ vm_thread'[u].pc \in {"opened", "idle"}
  BY <1>2, <1>3 DEF VmThreadOK, VmIdle
<1>5. vm_thread[u].pc \notin Commanding /\ vm_thread'[u].pc \notin Commanding \cup {"insert"}
  BY <1>2, <1>4 DEF Commanding
<1> QED BY <1>2, <1>4, <1>5, PassingInv

(* Setting the provider touches no machine. *)
LEMMA VmSameInv ==
  ASSUME VmInv, UNCHANGED <<next_id, resources, aliases, vm_thread, overlapped, contested>>
  PROVE  VmInv'
<1>1. VmTypeOK'
  BY DEF VmInv, VmTypeOK, VmThreadOK
<1>2. IdsAreFresh'
  BY DEF VmInv, IdsAreFresh
<1>3. Exclusive'
  BY DEF VmInv, Exclusive, Own, Undisputed
<1>4. Machines'
  BY DEF VmInv, Machines, MachineOK, AliasOK, ConsoleOK, Busy, Own, Undisputed, Leading
<1> QED BY <1>1, <1>2, <1>3, <1>4 DEF VmInv

(* The device starts with no machine and no alias. *)
LEMMA InitVmInv ==
  VmInit => VmInv
<1> SUFFICES ASSUME VmInit PROVE VmInv
  OBVIOUS
<1>1. /\ next_id = 0 /\ DOMAIN resources = {} /\ DOMAIN aliases = {} /\ DOMAIN vm_thread = VmUsers
      /\ \A u \in VmUsers : vm_thread[u] = VmIdle
  BY DEF VmInit
<1>2. VmTypeOK
  BY <1>1, VmIdleOK DEF VmTypeOK
<1>3. IdsAreFresh /\ Exclusive /\ Machines
  BY <1>1 DEF IdsAreFresh, Exclusive, Machines, VmIdle
<1> QED BY <1>2, <1>3 DEF VmInv

(* VmInv is inductive: every step of every user keeps it. *)
LEMMA NextVmInv ==
  VmInv /\ [VmNext]_vm_vars => VmInv'
<1> SUFFICES ASSUME VmInv, [VmNext]_vm_vars PROVE VmInv'
  OBVIOUS
<1>1. CASE set_provider
  BY <1>1, VmSameInv DEF set_provider
<1>2. CASE UNCHANGED vm_vars
  BY <1>2, VmSameInv DEF vm_vars
<1> QED BY <1>1, <1>2, allocIdInv, allocInsertInv, resolveInv, resolveAliasInv, setAliasInv, aliasSetInv, aliasUpdateInv,
           controlInv, applyClearInv, applyStateInv, applyLinesInv, consoleWriteInv DEF VmNext

(* A machine that no two commands overlapped on is, whenever no command is on it, reached *)
(* through the alias table by its own alias and by no other (unless two machines were     *)
(* given that alias), and its console's last report is its state, in every interleaving   *)
(* of alias, start, stop, reset and console writes of VmDevice.                           *)
THEOREM MachinesStayCoherent == VmSpec => []MachinesAreCoherent
<1>1. ASSUME VmInv PROVE MachinesAreCoherent
  <2>1. ASSUME NEW i \in DOMAIN resources, VmCalm(i) PROVE MachineOK(i) /\ Busy(i) = {}
    BY <1>1, <2>1 DEF VmCalm, VmInv, Machines
  <2>2. AliasesAreCurrent
    BY <2>1 DEF AliasesAreCurrent, MachineOK, AliasOK, Own, Leading, Undisputed
  <2>3. ConsoleTellsState
    BY <2>1 DEF ConsoleTellsState, MachineOK, ConsoleOK, Tells
  <2> QED BY <2>2, <2>3 DEF MachinesAreCoherent
<1> QED BY <1>1, InitVmInv, NextVmInv, PTL DEF VmSpec

-----------------------------------------------------------------------------
(* The numbers 1 to n in order: what a stage writes when each of its n writes is *)
(* numbered.                                                                     *)
Count(n) == [k \in 1..n |-> k]

(* The status of a stage whose program failed. *)
Error == <<"error">>

(* The pipes of a graph: what the next stage has read and what is still in the pipe is,   *)
(* together and in order, all that the stage wrote; a pipe is closed only by a stage that *)
(* is done; and only a stage whose input is a pipe reads one, or has seen its end, and    *)
(* then the pipe is closed and empty (PipePort).                                          *)
PipeOK(gr) ==
  /\ gr.spec \in Seq(StageSpec) /\ gr.spec # <<>>
  /\ DOMAIN gr.stages = DOMAIN gr.spec /\ DOMAIN gr.pipes = DOMAIN gr.spec
  /\ \A i \in DOMAIN gr.spec : gr.stages[i].put \in Nat /\ gr.stages[i].got \in Seq(Nat) /\ gr.pipes[i].data \in Seq(Nat)
  /\ \A i \in DOMAIN gr.spec : stage_writes_pipe(gr.spec, i) =>
       gr.stages[i + 1].got \o gr.pipes[i].data = Count(gr.stages[i].put)
  /\ \A i \in DOMAIN gr.spec : gr.pipes[i].closed => gr.stages[i].pc = "done"
  /\ \A i \in DOMAIN gr.spec : gr.stages[i].pc = "reading" => Input(gr.spec, i) = "pipe"
  /\ \A i \in DOMAIN gr.spec : gr.stages[i].eof =>
       Input(gr.spec, i) = "pipe" /\ gr.pipes[i - 1].closed /\ gr.pipes[i - 1].data = <<>>

(* Where the runner is in write_graph_state, and what it goes on with: the return after *)
(* the final state (Returns), or a step before the stages are started (Unspawned).      *)
Writes == {"check", "put", "sig_status", "sig_state"}
Returns(run) == run.pc \in Writes /\ run.then.pc = "return"
Unspawned(run) ==
  \/ run.pc \in {"plan", "notes", "early", "bind", "tasks", "spawn", "signaled", "evaluated"}
  \/ run.pc \in Writes /\ run.then.pc # "return"

(* The runner has computed the status it will return, and which one. *)
Answered(run) == run.pc \in {"status", "return"} \/ Returns(run)
Answer(run) == IF run.pc \in {"status", "return"} THEN run.status ELSE run.then.status

(* The places the runner of a graph can be in, and where a write of the state can lead. *)
RunOK(run) ==
  /\ run.pc \in {"plan", "notes", "early", "bind", "tasks", "spawn", "signaled", "evaluated", "join", "collect",
                 "status", "return", "done", "failed"} \cup Writes
  /\ run.pc = "early" => run.then \in {Goto("bind"), Goto("spawn")}
  /\ run.pc \in Writes /\ run.then.pc # "return" =>
       run.then \in {Goto("notes"), Goto("signaled"), [pc |-> "early", then |-> Goto("spawn")]}
  /\ run.pc \in {"check", "put"} => run.then # Goto("signaled")

(* A stage that has ended without an error. *)
Finished(stage) == stage.pc = "done" /\ stage.status # Error

(* The stages and their runner: no stage moves before it is spawned; those that were    *)
(* joined have finished, and all of them have when the status is computed; and the exit *)
(* file of a stage that ended is its status unless a note was sent.                     *)
StagesOK(gr) ==
  /\ Unspawned(gr.run) => \A i \in DOMAIN gr.spec : gr.stages[i].pc = "new" /\ ~gr.pipes[i].closed
  /\ gr.run.pc = "join" => gr.run.next \in DOMAIN gr.spec /\ \A i \in 1..gr.run.next - 1 : Finished(gr.stages[i])
  /\ gr.run.pc = "collect" \/ Answered(gr.run) \/ (gr.run.pc = "done" /\ ~Noted(gr)) =>
       \A i \in DOMAIN gr.spec : Finished(gr.stages[i])
  /\ ~gr.cancelled => \A i \in DOMAIN gr.spec :
       gr.stages[i].pc \in {"close", "done"} /\ gr.stages[i].status # Error => gr.stages[i].exit = gr.stages[i].status

(* The result of a graph: there is one only when it has ended, it is the status of its   *)
(* pipeline unless it failed or was noted, and the runner takes the way of a signal only *)
(* when there is a note.                                                                 *)
ResultOK(gr) ==
  /\ gr.result # None => Ended(gr)
  /\ gr.run.pc = "failed" => gr.result = <<"failed">>
  /\ Answered(gr.run) /\ ~Noted(gr) => Answer(gr.run) = pipeline_status(gr)
  /\ gr.run.pc = "done" /\ ~Noted(gr) => gr.result = pipeline_status(gr)
  /\ gr.run.pc \in {"signaled", "sig_status", "sig_state"} => Noted(gr)

(* The files of a graph nobody sent a note to: from the final write on they hold the *)
(* status that is returned and its state.                                            *)
FilesOK(gr) ==
  ~gr.cancelled /\ ~Noted(gr) =>
    /\ Returns(gr.run) => gr.status = gr.run.then.status /\ gr.run.value = StateOf(gr.run.then.status)
    /\ gr.run.pc = "return" => gr.status = gr.run.status /\ gr.state = StateOf(gr.run.status)
    /\ gr.run.pc = "done" => gr.status = gr.result /\ gr.state = StateOf(gr.result)

(* What holds of every graph by itself. *)
GraphOK(gr) == PipeOK(gr) /\ RunOK(gr.run) /\ StagesOK(gr) /\ ResultOK(gr) /\ FilesOK(gr)

(* The steps of JobControl::send_note, and that one of them is about to write the files *)
(* of graph g.                                                                          *)
Notifying == {"n_set", "n_state", "n_status", "n_notes", "n_append", "n_exit"}
NoteReaches(g, pcs) == shell.pc \in pcs /\ Target = g

(* Every note leaves its mark: the graph counts as cancelled and its status file tells a *)
(* signal, or the sender or the graph's own runner is still going to write it.           *)
NotesOK ==
  \A g \in DOMAIN graphs : Noted(graphs[g]) =>
    /\ graphs[g].cancelled \/ NoteReaches(g, {"n_state"})
    /\ graphs[g].bound =>
         \/ graphs[g].status[1] = "signal"
         \/ NoteReaches(g, {"n_state", "n_status"})
         \/ Returns(graphs[g].run) /\ graphs[g].run.pc \in {"check", "sig_status"}

(* A list of graphs the shell works through, and one of jobs that left the table. *)
IsList(list) == list # {} /\ list \subseteq DOMAIN graphs
WaitList(list) == IsList(list) /\ \A g \in list : ~graphs[g].listed

(* What send_note relies on while it goes through its list: the graphs exist, those it    *)
(* sets a note in are still jobs or have one already, and it goes on with nothing or with *)
(* a wait.                                                                                *)
SendOK ==
  /\ IsList(shell.list)
  /\ shell.pc = "n_set" => ~shell.direct
  /\ ~shell.direct => \A g \in shell.list : graphs[g].listed \/ Noted(graphs[g])
  /\ shell.pc \notin {"n_set", "n_state"} => graphs[Target].cancelled
  /\ shell.then = Idle \/ (shell.then.pc = "wait" /\ WaitList(shell.then.list))

(* What the shell thread relies on at each step of a command. *)
ShellOK ==
  \/ shell = Idle
  \/ shell.pc \in {"pipeline", "unbind"} /\ shell.g \in DOMAIN graphs
  \/ shell.pc = "evaluate" /\ shell.g \in DOMAIN graphs /\ graphs[shell.g].run.pc = "evaluated"
  \/ shell.pc = "wait" /\ WaitList(shell.list)
  \/ shell.pc \in Notifying /\ SendOK

(* What wait said of a job stays true: the job has left the table, so that no first note *)
(* can reach it any more, and it has ended or was noted before.                          *)
ToldOK ==
  \A g \in DOMAIN told :
    /\ g \in DOMAIN graphs /\ ~graphs[g].listed
    /\ Noted(graphs[g]) \/ Ended(graphs[g])
    /\ told[g] = IF Noted(graphs[g]) THEN signal_status(graphs[g])
                 ELSE IF graphs[g].run.pc = "failed" THEN <<"failed">> ELSE pipeline_status(graphs[g])

(* The table of graphs is a sequence. *)
IsTable(s) == s \in Seq({s[k] : k \in DOMAIN s})

(* The inductive invariant of the shell's jobs. *)
JobsInv ==
  /\ IsTable(graphs) /\ \A g \in DOMAIN graphs : GraphOK(graphs[g])
  /\ NotesOK /\ ShellOK /\ ToldOK

-----------------------------------------------------------------------------
(* A set of numbers that is not empty has a least one. *)
LEMMA LeastNumber ==
  ASSUME NEW S, S \subseteq Nat, S # {}
  PROVE  \E n \in S : \A m \in S : n <= m
<1>1. PICK n \in S : \A m \in S : <<m, n>> \notin OpToRel(<, Nat)
  BY NatLessThanWellFounded, WFMin
<1>2. \A m \in S : ~(m < n)
  BY <1>1 DEF OpToRel
<1> QED BY <1>2

(* The graphs are numbered from 1. *)
LEMMA TableIs ==
  ASSUME NEW s, IsTable(s)
  PROVE  Len(s) \in Nat /\ DOMAIN s = 1..Len(s)
BY LenProperties DEF IsTable

(* The next graph of a list is one of its graphs. *)
LEMMA TargetIs ==
  ASSUME IsTable(graphs), IsList(shell.list)
  PROVE  Target \in shell.list /\ Target \in DOMAIN graphs
<1>1. DOMAIN graphs \subseteq Nat
  BY TableIs
<1>2. shell.list \subseteq Nat /\ shell.list # {} /\ shell.list \subseteq DOMAIN graphs
  BY <1>1 DEF IsList
<1>3. \E g \in shell.list : \A h \in shell.list : g <= h
  BY <1>2, LeastNumber
<1> QED BY <1>2, <1>3 DEF Target

-----------------------------------------------------------------------------
(* The step leaves the stages and pipes of the graph. *)
SameStages(gr, new) == new.spec = gr.spec /\ new.stages = gr.stages /\ new.pipes = gr.pipes

(* A step that leaves the stages and pipes keeps PipeOK and the status of the pipeline. *)
LEMMA PipeSame ==
  ASSUME NEW gr, NEW new, SameStages(gr, new), PipeOK(gr)
  PROVE  PipeOK(new) /\ pipeline_status(new) = pipeline_status(gr)
BY DEF SameStages, PipeOK, pipeline_status

(* A graph has at least one stage, and the stages are numbered from 1. *)
LEMMA SpecIs ==
  ASSUME NEW gr, PipeOK(gr)
  PROVE  /\ Len(gr.spec) \in Nat /\ DOMAIN gr.spec = 1..Len(gr.spec) /\ 1 \in DOMAIN gr.spec
         /\ \A i \in DOMAIN gr.spec : i \in Nat /\ i + 1 \in Nat /\ (i < Len(gr.spec) => i + 1 \in DOMAIN gr.spec)
<1>1. gr.spec \in Seq(StageSpec) /\ gr.spec # <<>>
  BY DEF PipeOK
<1>2. Len(gr.spec) \in Nat \ {0} /\ DOMAIN gr.spec = 1..Len(gr.spec)
  BY <1>1, EmptySeq, LenProperties
<1> QED BY <1>2

(* A runner may fail at any time: it ends with an error. *)
LEMMA FailedOK ==
  ASSUME NEW gr, GraphOK(gr)
  PROVE  GraphOK(Failed(gr))
<1> DEFINE new == Failed(gr)
<1>1. /\ SameStages(gr, new) /\ new.run = Goto("failed") /\ new.result = <<"failed">>
      /\ new.note = gr.note /\ new.cancelled = gr.cancelled
  BY DEF Failed, SameStages
<1>2. new.run.pc = "failed"
  BY <1>1 DEF Goto
<1> HIDE DEF new
<1>3. PipeOK(new)
  BY <1>1, PipeSame DEF GraphOK
<1>4. RunOK(new.run)
  BY <1>2 DEF RunOK, Writes
<1>5. StagesOK(new)
  BY <1>1, <1>2 DEF GraphOK, StagesOK, Unspawned, Answered, Returns, Writes, SameStages
<1>6. ResultOK(new) /\ FilesOK(new)
  BY <1>1, <1>2 DEF ResultOK, FilesOK, Ended, Answered, Returns, Writes
<1> QED BY <1>3, <1>4, <1>5, <1>6 DEF GraphOK, new

(* write_graph_file changes the files, or ends the graph if it was cleaned up. *)
LEMMA WrittenOK ==
  ASSUME NEW gr, NEW new, GraphOK(gr), gr.bound => GraphOK(new)
  PROVE  GraphOK(Written(gr, new))
BY FailedOK DEF Written

(* A step of the runner that changes neither stages, note nor cancellation. *)
Alike(gr, new) == SameStages(gr, new) /\ new.note = gr.note /\ new.cancelled = gr.cancelled

(* A step of the runner before the stages are started keeps GraphOK. *)
LEMMA EarlyStep ==
  ASSUME NEW gr, NEW new, GraphOK(gr), Alike(gr, new), new.result = gr.result,
         Unspawned(gr.run), Unspawned(new.run), RunOK(new.run),
         new.run.pc \in {"signaled", "sig_status", "sig_state"} => Noted(gr)
  PROVE  GraphOK(new)
<1>1. \A run : Unspawned(run) => ~Answered(run) /\ run.pc \notin {"join", "collect", "status", "return", "done", "failed"}
  BY DEF Unspawned, Answered, Returns, Writes
<1>2. ~Answered(new.run) /\ new.run.pc \notin {"join", "collect", "status", "return", "done", "failed"}
  BY <1>1
<1>3. ~Ended(gr)
  BY <1>1 DEF Ended
<1>4. ~Returns(new.run)
  BY <1>2 DEF Answered
<1>5. StagesOK(new)
  BY <1>2 DEF StagesOK, GraphOK, Alike, SameStages
<1>6. ResultOK(new)
  BY <1>2, <1>3 DEF ResultOK, GraphOK, Alike, Noted
<1>7. FilesOK(new)
  BY <1>2, <1>4 DEF FilesOK
<1> QED BY <1>5, <1>6, <1>7, PipeSame DEF GraphOK, Alike

(* A step of the runner that holds the status to return keeps GraphOK. *)
LEMMA AnswerStep ==
  ASSUME NEW gr, NEW new, GraphOK(gr), Alike(gr, new), new.result = gr.result,
         Answered(gr.run), Answered(new.run), RunOK(new.run), Answer(new.run) = Answer(gr.run),
         new.run.pc \in {"sig_status", "sig_state"} => Noted(gr), FilesOK(new)
  PROVE  GraphOK(new)
<1>1. \A run : Answered(run) => ~Unspawned(run) /\ run.pc \notin {"join", "collect", "done", "failed", "signaled"}
  BY DEF Unspawned, Answered, Returns, Writes
<1>2. ~Unspawned(new.run) /\ new.run.pc \notin {"join", "collect", "done", "failed", "signaled"}
  BY <1>1
<1>3. ~Ended(gr)
  BY <1>1 DEF Ended
<1>4. StagesOK(new)
  BY <1>2 DEF StagesOK, GraphOK, Alike, SameStages
<1>5. ResultOK(new)
  BY <1>2, <1>3, PipeSame DEF ResultOK, GraphOK, Alike, Noted
<1> QED BY <1>4, <1>5, PipeSame DEF GraphOK, Alike

(* write_plan keeps GraphOK. *)
LEMMA PlanOK ==
  ASSUME NEW gr, GraphOK(gr), gr.run.pc = "plan"
  PROVE  GraphOK(Written(gr, [gr EXCEPT !.run = ThenState("planned", Goto("notes"))]))
<1> DEFINE new == [gr EXCEPT !.run = ThenState("planned", Goto("notes"))]
<1>1. Alike(gr, new) /\ new.result = gr.result /\ new.run.pc = "check" /\ new.run.then = Goto("notes")
  BY DEF Alike, SameStages, ThenState
<1> HIDE DEF new
<1>2. Goto("notes").pc = "notes" /\ Goto("notes") # Goto("signaled")
  BY DEF Goto
<1>3. Unspawned(gr.run) /\ Unspawned(new.run) /\ RunOK(new.run)
  BY <1>1, <1>2 DEF Unspawned, RunOK, Writes
<1>4. GraphOK(new)
  BY <1>1, <1>3, EarlyStep
<1> QED BY <1>4, WrittenOK DEF new

(* The places of the runner are told apart by their names. *)
LEMMA GotoIs == \A x : Goto(x).pc = x
BY DEF Goto

(* The second check for a note comes before the stages are spawned. *)
LEMMA EarlyIs == [pc |-> "early", then |-> Goto("spawn")].pc = "early" /\ [pc |-> "early", then |-> Goto("spawn")].then = Goto("spawn")
OBVIOUS

(* Looking up the note in write_graph_state keeps GraphOK, whichever way it goes. *)
LEMMA CheckOK ==
  ASSUME NEW gr, GraphOK(gr), gr.run.pc = "check"
  PROVE  GraphOK([gr EXCEPT !.run.pc = IF Noted(gr) THEN "sig_status" ELSE "put"])
<1> DEFINE pc == IF Noted(gr) THEN "sig_status" ELSE "put"
           new == [gr EXCEPT !.run.pc = pc]
<1>1. /\ Alike(gr, new) /\ new.result = gr.result /\ new.status = gr.status /\ new.state = gr.state
      /\ new.run.pc = pc /\ new.run.then = gr.run.then /\ new.run.value = gr.run.value
  <2> DEFINE run == [gr.run EXCEPT !.pc = pc]
  <2>1. run.pc = pc /\ run.then = gr.run.then /\ run.value = gr.run.value
    OBVIOUS
  <2>2. new = [gr EXCEPT !.run = run]
    OBVIOUS
  <2> HIDE DEF run, new, pc
  <2> QED BY <2>1, <2>2 DEF Alike, SameStages
<1>2. pc \in {"sig_status", "put"} /\ (pc = "sig_status" <=> Noted(gr))
  OBVIOUS
<1> HIDE DEF new, pc
<1>3. RunOK(gr.run)
  BY DEF GraphOK
<1>4. RunOK(new.run)
  BY <1>1, <1>2, <1>3 DEF RunOK, Writes
<1>5. CASE gr.run.then.pc = "return"
  <2>1. Answered(gr.run) /\ Answered(new.run) /\ Answer(new.run) = Answer(gr.run) /\ Returns(gr.run) /\ Returns(new.run)
    BY <1>1, <1>2, <1>5 DEF Answered, Answer, Returns, Writes
  <2>2. FilesOK(new)
    BY <1>1, <1>2, <2>1 DEF FilesOK, GraphOK, Alike, Noted
  <2> QED BY <1>1, <1>2, <1>4, <2>1, <2>2, AnswerStep DEF new, pc
<1>6. CASE gr.run.then.pc # "return"
  <2>1. Unspawned(gr.run) /\ Unspawned(new.run)
    BY <1>1, <1>2, <1>6 DEF Unspawned, Writes
  <2> QED BY <1>1, <1>2, <1>4, <2>1, EarlyStep DEF new, pc
<1> QED BY <1>5, <1>6

(* What follows a write of the state is a step before the stages are started, or the *)
(* return.                                                                           *)
LEMMA ThenOK ==
  ASSUME NEW gr, GraphOK(gr), gr.run.pc \in Writes
  PROVE  /\ RunOK(gr.run.then)
         /\ gr.run.then.pc # "return" => Unspawned(gr.run.then)
         /\ gr.run.then.pc = "return" => Answered(gr.run.then) /\ Answer(gr.run.then) = Answer(gr.run)
         /\ gr.run.then.pc \notin {"sig_status", "sig_state"}
         /\ gr.run.then.pc = "signaled" => gr.run.pc \in {"sig_status", "sig_state"}
<1>1. RunOK(gr.run)
  BY DEF GraphOK
<1>2. CASE gr.run.then.pc = "return"
  BY <1>2 DEF RunOK, Writes, Answered, Answer
<1>3. CASE gr.run.then.pc # "return"
  <2>1. gr.run.then \in {Goto("notes"), Goto("signaled"), [pc |-> "early", then |-> Goto("spawn")]}
    BY <1>1, <1>3 DEF RunOK
  <2>2. CASE gr.run.then = Goto("notes")
    BY <2>2, GotoIs DEF RunOK, Unspawned, Writes
  <2>3. CASE gr.run.then = Goto("signaled")
    BY <1>1, <2>3, GotoIs DEF RunOK, Unspawned, Writes
  <2>4. CASE gr.run.then = [pc |-> "early", then |-> Goto("spawn")]
    BY <2>4, EarlyIs DEF RunOK, Unspawned, Writes
  <2> QED BY <2>1, <2>2, <2>3, <2>4
<1> QED BY <1>2, <1>3

(* Writing the state keeps GraphOK. *)
LEMMA PutStateOK ==
  ASSUME NEW gr, GraphOK(gr), gr.run.pc = "put"
  PROVE  GraphOK(Written(gr, [gr EXCEPT !.state = gr.run.value, !.run = gr.run.then]))
<1> DEFINE new == [gr EXCEPT !.state = gr.run.value, !.run = gr.run.then]
<1>1. /\ Alike(gr, new) /\ new.result = gr.result /\ new.status = gr.status
      /\ new.state = gr.run.value /\ new.run = gr.run.then
  BY DEF Alike, SameStages
<1>2. gr.run.pc \in Writes
  BY DEF Writes
<1> HIDE DEF new
<1>3. CASE gr.run.then.pc = "return"
  <2>1. Answered(gr.run) /\ Returns(gr.run) /\ ~Returns(new.run)
    BY <1>1, <1>2, <1>3 DEF Answered, Returns, Writes
  <2>2. FilesOK(new)
    BY <1>1, <1>3, <2>1 DEF FilesOK, GraphOK, Alike, Noted
  <2>3. GraphOK(new)
    BY <1>1, <1>2, <1>3, <2>1, <2>2, ThenOK, AnswerStep
  <2> QED BY <2>3, WrittenOK DEF new
<1>4. CASE gr.run.then.pc # "return"
  <2>1. Unspawned(gr.run)
    BY <1>2, <1>4 DEF Unspawned
  <2>2. GraphOK(new)
    BY <1>1, <1>2, <1>4, <2>1, ThenOK, EarlyStep
  <2> QED BY <2>2, WrittenOK DEF new
<1> QED BY <1>3, <1>4

(* Writing the state of a signal keeps GraphOK. *)
LEMMA SignalStateOK ==
  ASSUME NEW gr, GraphOK(gr), gr.run.pc = "sig_state"
  PROVE  GraphOK(Written(gr, [gr EXCEPT !.state = "signaled", !.run = gr.run.then]))
<1> DEFINE new == [gr EXCEPT !.state = "signaled", !.run = gr.run.then]
<1>1. Alike(gr, new) /\ new.result = gr.result /\ new.run = gr.run.then
  BY DEF Alike, SameStages
<1>2. gr.run.pc \in Writes /\ Noted(gr)
  BY DEF Writes, GraphOK, ResultOK
<1> HIDE DEF new
<1>3. CASE gr.run.then.pc = "return"
  <2>1. Answered(gr.run) /\ FilesOK(new)
    BY <1>1, <1>2, <1>3 DEF Answered, Returns, FilesOK, Alike, Noted
  <2>3. GraphOK(new)
    BY <1>1, <1>2, <1>3, <2>1, ThenOK, AnswerStep
  <2> QED BY <2>3, WrittenOK DEF new
<1>4. CASE gr.run.then.pc # "return"
  <2>1. Unspawned(gr.run)
    BY <1>2, <1>4 DEF Unspawned
  <2>2. GraphOK(new)
    BY <1>1, <1>2, <1>4, <2>1, ThenOK, EarlyStep
  <2> QED BY <2>2, WrittenOK DEF new
<1> QED BY <1>3, <1>4

(* Writing the status of a signal keeps GraphOK. *)
LEMMA SignalStatusOK ==
  ASSUME NEW gr, GraphOK(gr), gr.run.pc = "sig_status"
  PROVE  GraphOK(Written(gr, [gr EXCEPT !.status = signal_status(gr), !.run.pc = "sig_state"]))
<1> DEFINE run == [gr.run EXCEPT !.pc = "sig_state"]
           new == [gr EXCEPT !.status = signal_status(gr), !.run.pc = "sig_state"]
<1>1. run.pc = "sig_state" /\ run.then = gr.run.then
  OBVIOUS
<1>2. Alike(gr, new) /\ new.result = gr.result /\ new.run = run
  BY DEF Alike, SameStages
<1> HIDE DEF new, run
<1>3. gr.run.pc \in Writes /\ new.run.pc \in Writes /\ new.run.pc = "sig_state" /\ new.run.then = gr.run.then /\ Noted(gr)
  BY <1>1, <1>2 DEF Writes, GraphOK, ResultOK
<1>4. RunOK(new.run)
  BY <1>3 DEF GraphOK, RunOK, Writes
<1>5. CASE gr.run.then.pc = "return"
  <2>1. Answered(gr.run) /\ Answered(new.run) /\ Answer(new.run) = Answer(gr.run) /\ FilesOK(new)
    BY <1>2, <1>3, <1>5 DEF Answered, Answer, Returns, FilesOK, Alike, Noted
  <2>2. GraphOK(new)
    BY <1>2, <1>3, <1>4, <2>1, AnswerStep
  <2> QED BY <2>2, WrittenOK DEF new
<1>6. CASE gr.run.then.pc # "return"
  <2>1. Unspawned(gr.run) /\ Unspawned(new.run)
    BY <1>3, <1>6 DEF Unspawned
  <2>2. GraphOK(new)
    BY <1>2, <1>3, <1>4, <2>1, EarlyStep
  <2> QED BY <2>2, WrittenOK DEF new
<1> QED BY <1>5, <1>6

(* Clearing the notes file keeps GraphOK. *)
LEMMA NotesOKAfter ==
  ASSUME NEW gr, GraphOK(gr), gr.run.pc = "notes"
  PROVE  GraphOK(Written(gr, [gr EXCEPT !.notes = <<>>, !.run = [pc |-> "early", then |-> Goto("bind")]]))
<1> DEFINE new == [gr EXCEPT !.notes = <<>>, !.run = [pc |-> "early", then |-> Goto("bind")]]
<1>1. Alike(gr, new) /\ new.result = gr.result /\ new.run.pc = "early" /\ new.run.then = Goto("bind")
  BY DEF Alike, SameStages
<1> HIDE DEF new
<1>2. Unspawned(gr.run) /\ Unspawned(new.run) /\ RunOK(new.run)
  BY <1>1 DEF Unspawned, RunOK, Writes
<1>3. GraphOK(new)
  BY <1>1, <1>2, EarlyStep
<1> QED BY <1>3, WrittenOK DEF new

(* maybe_finish_signaled_graph keeps GraphOK. *)
LEMMA MaybeFinishOK ==
  ASSUME NEW gr, GraphOK(gr), gr.run.pc = "early"
  PROVE  GraphOK([gr EXCEPT !.run = IF Noted(gr) THEN [pc |-> "sig_status", then |-> Goto("signaled")]
                                                 ELSE gr.run.then])
<1> DEFINE run == IF Noted(gr) THEN [pc |-> "sig_status", then |-> Goto("signaled")] ELSE gr.run.then
           new == [gr EXCEPT !.run = run]
<1>1. gr.run.then \in {Goto("bind"), Goto("spawn")}
  BY DEF GraphOK, RunOK
<1>2. CASE Noted(gr)
  <2>1. run.pc = "sig_status" /\ run.then = Goto("signaled")
    BY <1>2
  <2> HIDE DEF run
  <2>2. Unspawned(run) /\ RunOK(run)
    BY <2>1, GotoIs DEF Unspawned, RunOK, Writes
  <2>3. Alike(gr, new) /\ new.result = gr.result /\ new.run = run
    BY DEF Alike, SameStages
  <2>4. Unspawned(gr.run)
    BY DEF Unspawned
  <2> HIDE DEF new
  <2>5. GraphOK(new)
    BY <1>2, <2>1, <2>2, <2>3, <2>4, EarlyStep
  <2> QED BY <2>5 DEF new, run
<1>3. CASE ~Noted(gr)
  <2>1. run.pc \in {"bind", "spawn"}
    BY <1>1, <1>3, GotoIs
  <2> HIDE DEF run
  <2>2. Unspawned(run) /\ RunOK(run)
    BY <2>1 DEF Unspawned, RunOK, Writes
  <2>3. Alike(gr, new) /\ new.result = gr.result /\ new.run = run
    BY DEF Alike, SameStages
  <2>4. Unspawned(gr.run)
    BY DEF Unspawned
  <2> HIDE DEF new
  <2>5. GraphOK(new)
    BY <2>1, <2>2, <2>3, <2>4, EarlyStep
  <2> QED BY <2>5 DEF new, run
<1> QED BY <1>2, <1>3

(* Binding the tasks keeps GraphOK. *)
LEMMA BindOK ==
  ASSUME NEW gr, GraphOK(gr), gr.run.pc = "bind"
  PROVE  GraphOK([gr EXCEPT !.tasks = TRUE, !.run = Goto("tasks")])
<1> DEFINE new == [gr EXCEPT !.tasks = TRUE, !.run = Goto("tasks")]
<1>1. Alike(gr, new) /\ new.result = gr.result /\ new.run.pc = "tasks"
  BY GotoIs DEF Alike, SameStages
<1> HIDE DEF new
<1>2. Unspawned(gr.run) /\ Unspawned(new.run) /\ RunOK(new.run)
  BY <1>1 DEF Unspawned, RunOK, Writes
<1>3. GraphOK(new)
  BY <1>1, <1>2, EarlyStep
<1> QED BY <1>3 DEF new

(* Writing the tasks file keeps GraphOK. *)
LEMMA TasksOK ==
  ASSUME NEW gr, GraphOK(gr), gr.run.pc = "tasks"
  PROVE  GraphOK(Written(gr, [gr EXCEPT !.run = ThenState("running", [pc |-> "early", then |-> Goto("spawn")])]))
<1> DEFINE then == [pc |-> "early", then |-> Goto("spawn")]
           new == [gr EXCEPT !.run = ThenState("running", then)]
<1>1. Alike(gr, new) /\ new.result = gr.result /\ new.run.pc = "check" /\ new.run.then = then
  BY DEF Alike, SameStages, ThenState
<1>2. then.pc = "early"
  OBVIOUS
<1>3. Goto("signaled").pc = "signaled"
  BY GotoIs
<1> HIDE DEF new
<1>4. Unspawned(gr.run) /\ Unspawned(new.run) /\ RunOK(new.run)
  BY <1>1, <1>2, <1>3 DEF Unspawned, RunOK, Writes
<1>5. GraphOK(new)
  BY <1>1, <1>4, EarlyStep
<1> QED BY <1>5, WrittenOK DEF new

(* Returning early with a signal keeps GraphOK. *)
LEMMA FinishSignaledOK ==
  ASSUME NEW gr, GraphOK(gr), gr.run.pc = "signaled"
  PROVE  GraphOK([gr EXCEPT !.run = Goto("done"), !.result = signal_status(gr)])
<1> DEFINE new == [gr EXCEPT !.run = Goto("done"), !.result = signal_status(gr)]
<1>1. Alike(gr, new) /\ new.run.pc = "done"
  BY GotoIs DEF Alike, SameStages
<1>2. Noted(gr)
  BY DEF GraphOK, ResultOK
<1> HIDE DEF new
<1>3. Noted(new) /\ RunOK(new.run) /\ ~Unspawned(new.run) /\ ~Answered(new.run) /\ Ended(new)
  BY <1>1, <1>2 DEF Noted, Alike, RunOK, Writes, Unspawned, Answered, Returns, Ended
<1>4. StagesOK(new) /\ ResultOK(new) /\ FilesOK(new)
  BY <1>1, <1>3 DEF StagesOK, ResultOK, FilesOK, GraphOK, Alike, SameStages
<1> QED BY <1>1, <1>3, <1>4, PipeSame DEF GraphOK, Alike, new

(* Spawning the stages keeps GraphOK. *)
LEMMA SpawnOK ==
  ASSUME NEW gr, GraphOK(gr), gr.run.pc = "spawn"
  PROVE  GraphOK([gr EXCEPT !.stages = [i \in DOMAIN gr.stages |-> [gr.stages[i] EXCEPT !.pc = "begin"]],
                            !.run = [pc |-> "join", next |-> 1]])
<1> DEFINE stages == [i \in DOMAIN gr.stages |-> [gr.stages[i] EXCEPT !.pc = "begin"]]
           new == [gr EXCEPT !.stages = stages, !.run = [pc |-> "join", next |-> 1]]
<1>0. PipeOK(gr) /\ StagesOK(gr) /\ ResultOK(gr)
  BY DEF GraphOK
<1>1. DOMAIN stages = DOMAIN gr.spec
  BY <1>0 DEF PipeOK
<1>2. \A i \in DOMAIN gr.spec :
        /\ stages[i].pc = "begin" /\ stages[i].put = gr.stages[i].put /\ stages[i].got = gr.stages[i].got
        /\ stages[i].eof = gr.stages[i].eof
  BY <1>0 DEF PipeOK
<1> HIDE DEF stages
<1>3. /\ new.spec = gr.spec /\ new.pipes = gr.pipes /\ new.stages = stages
      /\ new.note = gr.note /\ new.cancelled = gr.cancelled /\ new.result = gr.result
      /\ new.run.pc = "join" /\ new.run.next = 1
  OBVIOUS
<1> HIDE DEF new
<1>4. Unspawned(gr.run) /\ ~Unspawned(new.run) /\ ~Answered(new.run) /\ RunOK(new.run) /\ ~Ended(gr)
  BY <1>3 DEF Unspawned, Answered, Returns, Writes, RunOK, Ended
<1>5. \A i \in DOMAIN gr.spec : ~gr.pipes[i].closed
  BY <1>0, <1>4 DEF StagesOK
<1>6. 1 \in DOMAIN gr.spec /\ \A i \in DOMAIN gr.spec : i \in Nat /\ i + 1 \in Nat /\ (i < Len(gr.spec) => i + 1 \in DOMAIN gr.spec)
  BY <1>0, SpecIs
<1>7. PipeOK(new)
  <2>1. /\ DOMAIN new.stages = DOMAIN new.spec /\ DOMAIN new.pipes = DOMAIN new.spec /\ new.spec \in Seq(StageSpec)
        /\ new.spec # <<>>
    BY <1>0, <1>1, <1>3 DEF PipeOK
  <2>2. \A i \in DOMAIN new.spec : new.stages[i].put \in Nat /\ new.stages[i].got \in Seq(Nat) /\ new.pipes[i].data \in Seq(Nat)
    BY <1>0, <1>2, <1>3 DEF PipeOK
  <2>3. \A i \in DOMAIN new.spec : stage_writes_pipe(new.spec, i) =>
          new.stages[i + 1].got \o new.pipes[i].data = Count(new.stages[i].put)
    <3> SUFFICES ASSUME NEW i \in DOMAIN gr.spec, stage_writes_pipe(gr.spec, i)
                 PROVE  stages[i + 1].got \o gr.pipes[i].data = Count(stages[i].put)
      BY <1>3
    <3>1. i + 1 \in DOMAIN gr.spec
      BY <1>6 DEF stage_writes_pipe
    <3>2. gr.stages[i + 1].got \o gr.pipes[i].data = Count(gr.stages[i].put)
      BY <1>0 DEF PipeOK
    <3> QED BY <1>2, <3>1, <3>2
  <2>4. \A i \in DOMAIN new.spec : ~new.pipes[i].closed /\ new.stages[i].pc # "reading"
    BY <1>2, <1>3, <1>5
  <2>5. \A i \in DOMAIN new.spec : new.stages[i].eof =>
          Input(new.spec, i) = "pipe" /\ new.pipes[i - 1].closed /\ new.pipes[i - 1].data = <<>>
    <3> SUFFICES ASSUME NEW i \in DOMAIN gr.spec, stages[i].eof
                 PROVE  Input(gr.spec, i) = "pipe" /\ gr.pipes[i - 1].closed /\ gr.pipes[i - 1].data = <<>>
      BY <1>3
    <3>1. gr.stages[i].eof
      BY <1>2
    <3> QED BY <1>0, <3>1 DEF PipeOK
  <2> QED BY <2>1, <2>2, <2>3, <2>4, <2>5 DEF PipeOK
<1>8. StagesOK(new)
  BY <1>1, <1>2, <1>3, <1>4, <1>6 DEF StagesOK
<1>9. ResultOK(new) /\ FilesOK(new)
  BY <1>0, <1>3, <1>4 DEF ResultOK, FilesOK, Answered, Returns, Writes
<1> QED BY <1>4, <1>7, <1>8, <1>9 DEF GraphOK, new, stages

(* Joining a stage keeps GraphOK: those before it have finished. *)
LEMMA JoinOK ==
  ASSUME NEW gr, GraphOK(gr), gr.run.pc = "join", gr.stages[gr.run.next].pc = "done"
  PROVE  GraphOK(IF gr.stages[gr.run.next].status = <<"error">> THEN Failed(gr)
                 ELSE [gr EXCEPT !.run = IF gr.run.next = Len(gr.spec) THEN Goto("collect")
                                         ELSE [pc |-> "join", next |-> gr.run.next + 1]])
<1>0. CASE gr.stages[gr.run.next].status = <<"error">>
  BY <1>0, FailedOK
<1>1. CASE gr.stages[gr.run.next].status # <<"error">>
  <2> DEFINE run == IF gr.run.next = Len(gr.spec) THEN Goto("collect") ELSE [pc |-> "join", next |-> gr.run.next + 1]
             new == [gr EXCEPT !.run = run]
  <2>1. Alike(gr, new) /\ new.run = run /\ new.result = gr.result
    BY DEF Alike, SameStages
  <2>2. /\ gr.run.next \in DOMAIN gr.spec /\ DOMAIN gr.spec = 1..Len(gr.spec) /\ Len(gr.spec) \in Nat
        /\ \A i \in 1..gr.run.next - 1 : Finished(gr.stages[i])
    BY DEF GraphOK, StagesOK, PipeOK
  <2>3. Finished(gr.stages[gr.run.next])
    BY <1>1 DEF Finished, Error
  <2>4. \A i \in 1..gr.run.next : Finished(gr.stages[i])
    BY <2>2, <2>3
  <2>5. \/ gr.run.next = Len(gr.spec) /\ run.pc = "collect"
        \/ gr.run.next + 1 \in DOMAIN gr.spec /\ run.pc = "join" /\ run.next = gr.run.next + 1
    BY <2>2, GotoIs
  <2> HIDE DEF run, new
  <2>6. ~Unspawned(new.run) /\ ~Answered(new.run) /\ RunOK(new.run) /\ new.run.pc \in {"join", "collect"} /\ ~Ended(gr)
    BY <2>1, <2>5 DEF Unspawned, Answered, Returns, Writes, RunOK, Ended
  <2>7. StagesOK(new)
    <3>1. /\ new.run.pc = "join" => new.run.next \in DOMAIN new.spec /\ \A i \in 1..new.run.next - 1 : Finished(new.stages[i])
          /\ new.run.pc = "collect" => \A i \in DOMAIN new.spec : Finished(new.stages[i])
      BY <2>1, <2>2, <2>4, <2>5 DEF Alike, SameStages
    <3> QED BY <2>1, <2>6, <3>1 DEF StagesOK, GraphOK, Alike, SameStages
  <2>8. ResultOK(new) /\ FilesOK(new)
    BY <2>1, <2>6 DEF ResultOK, FilesOK, GraphOK, Alike, Noted, Answered
  <2>9. GraphOK(new)
    BY <2>1, <2>6, <2>7, <2>8, PipeSame DEF GraphOK, Alike
  <2> QED BY <1>1, <2>9 DEF new, run
<1> QED BY <1>0, <1>1

(* Computing the status keeps GraphOK: all stages have finished. *)
LEMMA CollectOK ==
  ASSUME NEW gr, GraphOK(gr), gr.run.pc = "collect"
  PROVE  GraphOK([gr EXCEPT !.run = [pc |-> "status", status |-> IF Noted(gr) THEN signal_status(gr) ELSE pipeline_status(gr),
                                     out |-> Output(gr)]])
<1> DEFINE status == IF Noted(gr) THEN signal_status(gr) ELSE pipeline_status(gr)
           new == [gr EXCEPT !.run = [pc |-> "status", status |-> status, out |-> Output(gr)]]
<1>1. ~Noted(gr) => status = pipeline_status(gr)
  OBVIOUS
<1> HIDE DEF status
<1>2. Alike(gr, new) /\ new.result = gr.result /\ new.run.pc = "status" /\ new.run.status = status
  BY DEF Alike, SameStages
<1> HIDE DEF new
<1>3. /\ Answered(new.run) /\ Answer(new.run) = status /\ ~Unspawned(new.run) /\ RunOK(new.run) /\ ~Ended(gr)
      /\ ~Returns(new.run)
  BY <1>2 DEF Answered, Answer, Unspawned, Writes, RunOK, Ended, Returns
<1>4. StagesOK(new)
  BY <1>2, <1>3 DEF StagesOK, GraphOK, Alike, SameStages
<1>5. ResultOK(new) /\ FilesOK(new)
  BY <1>1, <1>2, <1>3, PipeSame DEF ResultOK, FilesOK, GraphOK, Alike, Noted
<1> QED BY <1>2, <1>3, <1>4, <1>5, PipeSame DEF GraphOK, Alike, new, status

(* Writing the status file keeps GraphOK. *)
LEMMA StatusOK ==
  ASSUME NEW gr, GraphOK(gr), gr.run.pc = "status"
  PROVE  GraphOK(Written(gr, [gr EXCEPT !.status = gr.run.status,
           !.run = ThenState(StateOf(gr.run.status), [pc |-> "return", status |-> gr.run.status])]))
<1> DEFINE then == [pc |-> "return", status |-> gr.run.status]
           new == [gr EXCEPT !.status = gr.run.status, !.run = ThenState(StateOf(gr.run.status), then)]
<1>1. then.pc = "return" /\ then.status = gr.run.status
  OBVIOUS
<1>2. Goto("signaled").pc = "signaled"
  BY GotoIs
<1>3. /\ Alike(gr, new) /\ new.result = gr.result /\ new.status = gr.run.status
      /\ new.run.pc = "check" /\ new.run.then = then /\ new.run.value = StateOf(gr.run.status)
  BY DEF Alike, SameStages, ThenState
<1> HIDE DEF new, then
<1>4. /\ Answered(gr.run) /\ Answered(new.run) /\ Answer(new.run) = Answer(gr.run) /\ Returns(new.run) /\ RunOK(new.run)
  BY <1>1, <1>2, <1>3 DEF Answered, Answer, Returns, RunOK, Writes
<1>5. FilesOK(new)
  BY <1>1, <1>3 DEF FilesOK
<1>6. GraphOK(new)
  BY <1>3, <1>4, <1>5, AnswerStep
<1> QED BY <1>6, WrittenOK DEF new, then

(* Returning the result keeps GraphOK. *)
LEMMA ReturnOK ==
  ASSUME NEW gr, GraphOK(gr), gr.run.pc = "return"
  PROVE  GraphOK([gr EXCEPT !.run = Goto("done"), !.result = gr.run.status])
<1> DEFINE new == [gr EXCEPT !.run = Goto("done"), !.result = gr.run.status]
<1>1. /\ Alike(gr, new) /\ new.run.pc = "done" /\ new.result = gr.run.status /\ new.status = gr.status
      /\ new.state = gr.state
  BY GotoIs DEF Alike, SameStages
<1> HIDE DEF new
<1>2. Answered(gr.run) /\ Answer(gr.run) = gr.run.status
  BY DEF Answered, Answer
<1>3. RunOK(new.run) /\ ~Unspawned(new.run) /\ ~Answered(new.run) /\ Ended(new) /\ ~Returns(new.run)
  BY <1>1 DEF RunOK, Writes, Unspawned, Answered, Returns, Ended
<1>4. StagesOK(new)
  BY <1>1, <1>2, <1>3 DEF StagesOK, GraphOK, Alike, SameStages
<1>5. ResultOK(new)
  BY <1>1, <1>2, <1>3, PipeSame DEF ResultOK, GraphOK, Alike, Noted
<1>6. FilesOK(new)
  BY <1>1, <1>3 DEF FilesOK, GraphOK, Alike, Noted
<1> QED BY <1>1, <1>3, <1>4, <1>5, <1>6, PipeSame DEF GraphOK, Alike, new
-----------------------------------------------------------------------------
(* A step of a stage leaves the runner, the result, the note and the files of the graph. *)
SameRun(gr, new) ==
  /\ new.spec = gr.spec /\ new.run = gr.run /\ new.result = gr.result /\ new.note = gr.note
  /\ new.cancelled = gr.cancelled /\ new.status = gr.status /\ new.state = gr.state

(* The step changes no stage but one. *)
OneStage(gr, new, i) ==
  /\ DOMAIN new.stages = DOMAIN gr.stages /\ DOMAIN new.pipes = DOMAIN gr.pipes
  /\ \A j \in DOMAIN gr.spec : j # i => new.stages[j] = gr.stages[j]

(* A step of a running stage keeps GraphOK if it keeps the pipes whole and the exit file *)
(* true. While a stage runs, the graph has not returned a status.                        *)
LEMMA StageThreadOK ==
  ASSUME NEW gr, NEW new, NEW i, GraphOK(gr), SameRun(gr, new), i \in DOMAIN gr.spec, OneStage(gr, new, i),
         gr.stages[i].pc \notin {"new", "done"}, PipeOK(new),
         ~gr.cancelled /\ new.stages[i].pc \in {"close", "done"} /\ new.stages[i].status # Error =>
           new.stages[i].exit = new.stages[i].status
  PROVE  GraphOK(new) /\ ~(gr.run.pc = "done" /\ ~Noted(gr)) /\ ~Answered(gr.run)
<1>1. ~Unspawned(gr.run)
  BY DEF GraphOK, StagesOK
<1>2. ~Finished(gr.stages[i])
  BY DEF Finished
<1>3. gr.run.pc # "collect" /\ ~Answered(gr.run) /\ ~(gr.run.pc = "done" /\ ~Noted(gr))
  BY <1>2 DEF GraphOK, StagesOK
<1>4. Noted(new) <=> Noted(gr)
  BY DEF SameRun, Noted
<1>5. gr.run.pc = "join" =>
        /\ gr.run.next \in DOMAIN gr.spec
        /\ \A j \in 1..gr.run.next - 1 : j \in DOMAIN gr.spec /\ Finished(gr.stages[j]) /\ j # i
  <2>1. gr.run.pc = "join" => gr.run.next \in DOMAIN gr.spec /\ \A j \in 1..gr.run.next - 1 : Finished(gr.stages[j])
    BY DEF GraphOK, StagesOK
  <2>2. DOMAIN gr.spec = 1..Len(gr.spec) /\ Len(gr.spec) \in Nat
    BY SpecIs DEF GraphOK
  <2> QED BY <1>2, <2>1, <2>2
<1>6. gr.run.pc = "join" => gr.run.next \in DOMAIN gr.spec /\ \A j \in 1..gr.run.next - 1 : Finished(new.stages[j])
  BY <1>5 DEF OneStage
<1>7. ~gr.cancelled => \A j \in DOMAIN gr.spec :
        new.stages[j].pc \in {"close", "done"} /\ new.stages[j].status # Error => new.stages[j].exit = new.stages[j].status
  BY DEF OneStage, GraphOK, StagesOK
<1>8. StagesOK(new)
  BY <1>1, <1>3, <1>4, <1>6, <1>7 DEF StagesOK, SameRun
<1>9. ResultOK(new)
  BY <1>3, <1>4 DEF ResultOK, GraphOK, SameRun, Ended
<1>10. FilesOK(new)
  BY <1>4 DEF FilesOK, GraphOK, SameRun
<1>11. RunOK(new.run)
  BY DEF GraphOK, SameRun
<1> QED BY <1>3, <1>8, <1>9, <1>10, <1>11 DEF GraphOK

(* A stage that reads a pipe reads that of the stage before it, which writes it: the last *)
(* binding of descriptor 0 counts.                                                        *)
LEMMA InputIsPipe ==
  ASSUME NEW spec \in Seq(StageSpec), NEW i \in DOMAIN spec, Input(spec, i) = "pipe"
  PROVE  i - 1 \in DOMAIN spec /\ i - 1 + 1 = i /\ i - 1 # i /\ stage_writes_pipe(spec, i - 1)
<1>1. Len(spec) \in Nat /\ DOMAIN spec = 1..Len(spec) /\ spec[i] \in StageSpec
  BY LenProperties, ElementOfSeq
<1>2. spec[i].in \in {"default", "file", "missing"}
  BY <1>1 DEF StageSpec
<1> SUFFICES ASSUME ~(i > 1 /\ stage_writes_pipe(spec, i - 1)) PROVE FALSE
  BY <1>1
<1> DEFINE es == executable_stage(spec[i])
<1>3. fd_bindings(spec, i) = es \o (IF i > 1 THEN <<"null">> ELSE <<>>)
  BY DEF fd_bindings
<1>4. es = <<>> \/ es = <<"file">> \/ es = <<"missing">>
  BY <1>2 DEF executable_stage
<1> DEFINE Sources == {"file", "missing", "null"}
<1>5. <<"file">> \in Seq(Sources) /\ <<"missing">> \in Seq(Sources) /\ <<"null">> \in Seq(Sources) /\ <<>> \in Seq(Sources)
  OBVIOUS
<1>6. Len(<<"file">>) = 1 /\ Len(<<"missing">>) = 1 /\ Len(<<"null">>) = 1 /\ <<"null">>[1] = "null"
  OBVIOUS
<1> HIDE DEF es, Sources
<1>7. es \in Seq(Sources)
  BY <1>4, <1>5
<1>8. CASE i > 1
  <2> DEFINE b == es \o <<"null">>
  <2>1. fd_bindings(spec, i) = b
    BY <1>3, <1>8
  <2>2. Len(es) \in Nat
    BY <1>7, LenProperties
  <2>3. Len(b) = Len(es) + 1 /\ b[Len(es) + 1] = "null"
    BY <1>5, <1>6, <1>7, <2>2, ConcatProperties
  <2>4. b # <<>>
    BY <2>2, <2>3
  <2> HIDE DEF b
  <2> QED BY <2>1, <2>3, <2>4 DEF Input
<1>9. CASE ~(i > 1)
  <2>1. fd_bindings(spec, i) = es
    BY <1>3, <1>7, <1>9, ConcatEmptySeq
  <2>2. es # <<>> => es[Len(es)] \in Sources
    <3>1. es # <<>> => Len(es) \in 1..Len(es)
      BY <1>7, EmptySeq
    <3> QED BY <1>7, <3>1, ElementOfSeq
  <2> QED BY <2>1, <2>2 DEF Input, Sources
<1> QED BY <1>8, <1>9

(* A step of a stage that touches no pipe keeps them whole. *)
LEMMA PlainPipe ==
  ASSUME NEW gr, NEW new, NEW i \in DOMAIN gr.spec, PipeOK(gr), new.spec = gr.spec, new.pipes = gr.pipes,
         OneStage(gr, new, i), gr.stages[i].pc # "done",
         new.stages[i].put = gr.stages[i].put, new.stages[i].got = gr.stages[i].got,
         new.stages[i].eof <=> gr.stages[i].eof,
         new.stages[i].pc = "reading" => Input(gr.spec, i) = "pipe"
  PROVE  PipeOK(new)
<1>1. \A j \in DOMAIN gr.spec :
        /\ new.stages[j].put = gr.stages[j].put /\ new.stages[j].got = gr.stages[j].got
        /\ new.stages[j].eof <=> gr.stages[j].eof
  BY DEF OneStage
<1>2. /\ new.spec \in Seq(StageSpec) /\ new.spec # <<>>
      /\ DOMAIN new.stages = DOMAIN new.spec /\ DOMAIN new.pipes = DOMAIN new.spec
      /\ \A j \in DOMAIN new.spec :
           new.stages[j].put \in Nat /\ new.stages[j].got \in Seq(Nat) /\ new.pipes[j].data \in Seq(Nat)
  BY <1>1 DEF PipeOK, OneStage
<1>3. ASSUME NEW j \in DOMAIN new.spec, stage_writes_pipe(new.spec, j)
      PROVE  new.stages[j + 1].got \o new.pipes[j].data = Count(new.stages[j].put)
  <2>1. j + 1 \in DOMAIN gr.spec
    BY <1>3, SpecIs DEF stage_writes_pipe
  <2>2. gr.stages[j + 1].got \o gr.pipes[j].data = Count(gr.stages[j].put)
    BY <1>3 DEF PipeOK
  <2> QED BY <1>1, <2>1, <2>2
<1>4. ASSUME NEW j \in DOMAIN new.spec, new.pipes[j].closed PROVE new.stages[j].pc = "done"
  <2>1. gr.stages[j].pc = "done"
    BY <1>4 DEF PipeOK
  <2> QED BY <2>1 DEF OneStage
<1>5. ASSUME NEW j \in DOMAIN new.spec, new.stages[j].pc = "reading" PROVE Input(new.spec, j) = "pipe"
  BY <1>5 DEF OneStage, PipeOK
<1>6. ASSUME NEW j \in DOMAIN new.spec, new.stages[j].eof
      PROVE  Input(new.spec, j) = "pipe" /\ new.pipes[j - 1].closed /\ new.pipes[j - 1].data = <<>>
  <2>1. gr.stages[j].eof
    BY <1>1, <1>6
  <2> QED BY <2>1 DEF PipeOK
<1> QED BY <1>2, <1>3, <1>4, <1>5, <1>6 DEF PipeOK

(* Closing its descriptors when a stage is done keeps the pipes whole. *)
LEMMA ClosePipe ==
  ASSUME NEW gr, NEW new, NEW i \in DOMAIN gr.spec, PipeOK(gr), new.spec = gr.spec, OneStage(gr, new, i),
         \A j \in DOMAIN gr.spec : j # i => new.pipes[j] = gr.pipes[j],
         new.pipes[i].data = gr.pipes[i].data,
         gr.pipes[i].closed => new.pipes[i].closed,
         new.stages[i].pc = "done", new.stages[i].put = gr.stages[i].put, new.stages[i].got = gr.stages[i].got,
         new.stages[i].eof <=> gr.stages[i].eof
  PROVE  PipeOK(new)
<1>1. \A j \in DOMAIN gr.spec :
        /\ new.stages[j].put = gr.stages[j].put /\ new.stages[j].got = gr.stages[j].got
        /\ new.stages[j].eof <=> gr.stages[j].eof
        /\ new.pipes[j].data = gr.pipes[j].data
        /\ gr.pipes[j].closed => new.pipes[j].closed
  BY DEF OneStage
<1>2. /\ new.spec \in Seq(StageSpec) /\ new.spec # <<>>
      /\ DOMAIN new.stages = DOMAIN new.spec /\ DOMAIN new.pipes = DOMAIN new.spec
      /\ \A j \in DOMAIN new.spec :
           new.stages[j].put \in Nat /\ new.stages[j].got \in Seq(Nat) /\ new.pipes[j].data \in Seq(Nat)
  BY <1>1 DEF PipeOK, OneStage
<1>3. ASSUME NEW j \in DOMAIN new.spec, stage_writes_pipe(new.spec, j)
      PROVE  new.stages[j + 1].got \o new.pipes[j].data = Count(new.stages[j].put)
  <2>1. j + 1 \in DOMAIN gr.spec
    BY <1>3, SpecIs DEF stage_writes_pipe
  <2>2. gr.stages[j + 1].got \o gr.pipes[j].data = Count(gr.stages[j].put)
    BY <1>3 DEF PipeOK
  <2> QED BY <1>1, <2>1, <2>2
<1>4. ASSUME NEW j \in DOMAIN new.spec, new.pipes[j].closed PROVE new.stages[j].pc = "done"
  <2>1. CASE j = i
    BY <2>1
  <2>2. CASE j # i
    <3>1. gr.pipes[j].closed
      BY <1>4, <2>2
    <3> QED BY <2>2, <3>1 DEF PipeOK, OneStage
  <2> QED BY <2>1, <2>2
<1>5. ASSUME NEW j \in DOMAIN new.spec, new.stages[j].pc = "reading" PROVE Input(new.spec, j) = "pipe"
  BY <1>5 DEF OneStage, PipeOK
<1>6. ASSUME NEW j \in DOMAIN new.spec, new.stages[j].eof
      PROVE  Input(new.spec, j) = "pipe" /\ new.pipes[j - 1].closed /\ new.pipes[j - 1].data = <<>>
  <2>1. gr.stages[j].eof
    BY <1>1, <1>6
  <2>2. Input(gr.spec, j) = "pipe" /\ gr.pipes[j - 1].closed /\ gr.pipes[j - 1].data = <<>>
    BY <2>1 DEF PipeOK
  <2>3. gr.spec \in Seq(StageSpec)
    BY DEF PipeOK
  <2>4. j - 1 \in DOMAIN gr.spec
    BY <2>2, <2>3, InputIsPipe
  <2> QED BY <1>1, <2>2, <2>4
<1> QED BY <1>2, <1>3, <1>4, <1>5, <1>6 DEF PipeOK

(* Seeing the end of a pipe that is closed and empty keeps the pipes whole. *)
LEMMA EndPipe ==
  ASSUME NEW gr, NEW new, NEW i \in DOMAIN gr.spec, PipeOK(gr), new.spec = gr.spec, new.pipes = gr.pipes,
         OneStage(gr, new, i), gr.stages[i].pc = "reading", new.stages[i].pc = "program",
         new.stages[i].put = gr.stages[i].put, new.stages[i].got = gr.stages[i].got,
         gr.pipes[i - 1].data = <<>>, gr.pipes[i - 1].closed
  PROVE  PipeOK(new)
<1>1. \A j \in DOMAIN gr.spec :
        new.stages[j].put = gr.stages[j].put /\ new.stages[j].got = gr.stages[j].got
  BY DEF OneStage
<1>2. /\ new.spec \in Seq(StageSpec) /\ new.spec # <<>>
      /\ DOMAIN new.stages = DOMAIN new.spec /\ DOMAIN new.pipes = DOMAIN new.spec
      /\ \A j \in DOMAIN new.spec :
           new.stages[j].put \in Nat /\ new.stages[j].got \in Seq(Nat) /\ new.pipes[j].data \in Seq(Nat)
  BY <1>1 DEF PipeOK, OneStage
<1>3. ASSUME NEW j \in DOMAIN new.spec, stage_writes_pipe(new.spec, j)
      PROVE  new.stages[j + 1].got \o new.pipes[j].data = Count(new.stages[j].put)
  <2>1. j + 1 \in DOMAIN gr.spec
    BY <1>3, SpecIs DEF stage_writes_pipe
  <2>2. gr.stages[j + 1].got \o gr.pipes[j].data = Count(gr.stages[j].put)
    BY <1>3 DEF PipeOK
  <2> QED BY <1>1, <2>1, <2>2
<1>4. ASSUME NEW j \in DOMAIN new.spec, new.pipes[j].closed PROVE new.stages[j].pc = "done"
  <2>1. gr.stages[j].pc = "done"
    BY <1>4 DEF PipeOK
  <2> QED BY <2>1 DEF OneStage
<1>5. ASSUME NEW j \in DOMAIN new.spec, new.stages[j].pc = "reading" PROVE Input(new.spec, j) = "pipe"
  BY <1>5 DEF OneStage, PipeOK
<1>6. ASSUME NEW j \in DOMAIN new.spec, new.stages[j].eof
      PROVE  Input(new.spec, j) = "pipe" /\ new.pipes[j - 1].closed /\ new.pipes[j - 1].data = <<>>
  <2>1. CASE j = i
    BY <2>1 DEF PipeOK
  <2>2. CASE j # i
    <3>1. gr.stages[j].eof
      BY <1>6, <2>2 DEF OneStage
    <3> QED BY <3>1 DEF PipeOK
  <2> QED BY <2>1, <2>2
<1> QED BY <1>2, <1>3, <1>4, <1>5, <1>6 DEF PipeOK

(* The numbers 1 to n, and one more. *)
LEMMA CountIs ==
  ASSUME NEW n \in Nat
  PROVE  /\ Count(n) \in Seq(Nat) /\ Len(Count(n)) = n /\ \A k \in 1..n : Count(n)[k] = k
         /\ Append(Count(n), n + 1) = Count(n + 1)
<1>1. \A m \in Nat : Count(m) \in Seq(Nat) /\ Len(Count(m)) = m /\ \A k \in 1..m : Count(m)[k] = k
  BY DEF Count
<1>2. /\ Append(Count(n), n + 1) \in Seq(Nat) /\ Len(Append(Count(n), n + 1)) = n + 1
      /\ \A k \in 1..n : Append(Count(n), n + 1)[k] = k
      /\ Append(Count(n), n + 1)[n + 1] = n + 1
  <2>1. n + 1 \in Nat
    OBVIOUS
  <2> HIDE DEF Count
  <2> QED BY <1>1, <2>1, AppendProperties
<1>3. \A k \in 1..n + 1 : Append(Count(n), n + 1)[k] = Count(n + 1)[k]
  BY <1>1, <1>2
<1> QED BY <1>1, <1>2, <1>3, SeqEqual

(* The items of a concatenation. *)
LEMMA Joined ==
  ASSUME NEW s \in Seq(Nat), NEW t \in Seq(Nat)
  PROVE  /\ s \o t \in Seq(Nat) /\ Len(s \o t) = Len(s) + Len(t) /\ Len(s) \in Nat /\ Len(t) \in Nat
         /\ \A i \in 1..Len(s) + Len(t) : (s \o t)[i] = IF i <= Len(s) THEN s[i] ELSE t[i - Len(s)]
BY ConcatProperties, LenProperties

(* Concatenation is associative. *)
LEMMA Joins == \A s, t, u \in Seq(Nat) : (s \o t) \o u = s \o (t \o u)
<1> SUFFICES ASSUME NEW s \in Seq(Nat), NEW t \in Seq(Nat), NEW u \in Seq(Nat) PROVE (s \o t) \o u = s \o (t \o u)
  OBVIOUS
<1> DEFINE st == s \o t
           tu == t \o u
<1>1. Len(s) \in Nat /\ Len(t) \in Nat /\ Len(u) \in Nat
  BY LenProperties
<1>2. st \in Seq(Nat) /\ tu \in Seq(Nat)
  BY Joined
<1>3. /\ Len(st) = Len(s) + Len(t)
      /\ \A i \in 1..Len(s) + Len(t) : st[i] = IF i <= Len(s) THEN s[i] ELSE t[i - Len(s)]
  BY Joined
<1>4. /\ Len(tu) = Len(t) + Len(u)
      /\ \A i \in 1..Len(t) + Len(u) : tu[i] = IF i <= Len(t) THEN t[i] ELSE u[i - Len(t)]
  BY Joined
<1> HIDE DEF st, tu
<1> DEFINE l == st \o u
           r == s \o tu
<1>5. /\ l \in Seq(Nat) /\ Len(l) = Len(st) + Len(u)
      /\ \A i \in 1..Len(st) + Len(u) : l[i] = IF i <= Len(st) THEN st[i] ELSE u[i - Len(st)]
  BY <1>2, Joined
<1>6. /\ r \in Seq(Nat) /\ Len(r) = Len(s) + Len(tu)
      /\ \A i \in 1..Len(s) + Len(tu) : r[i] = IF i <= Len(s) THEN s[i] ELSE tu[i - Len(s)]
  BY <1>2, Joined
<1> HIDE DEF l, r
<1>7. Len(l) = Len(r)
  BY <1>1, <1>3, <1>4, <1>5, <1>6
<1>8. ASSUME NEW i \in 1..Len(l) PROVE l[i] = r[i]
  <2>1. CASE i <= Len(s)
    <3>1. l[i] = s[i]
      BY <1>1, <1>3, <1>5, <2>1
    <3>2. r[i] = s[i]
      BY <1>1, <1>6, <1>7, <2>1
    <3> QED BY <3>1, <3>2
  <2>2. CASE i > Len(s) /\ i <= Len(s) + Len(t)
    <3>1. l[i] = t[i - Len(s)]
      BY <1>1, <1>3, <1>5, <2>2
    <3>2. r[i] = tu[i - Len(s)] /\ i - Len(s) \in 1..Len(t)
      BY <1>1, <1>6, <1>7, <2>2
    <3> DEFINE j == i - Len(s)
    <3>3. j \in 1..Len(t) /\ l[i] = t[j] /\ r[i] = tu[j]
      BY <3>1, <3>2
    <3> HIDE DEF j
    <3>4. tu[j] = t[j]
      BY <1>1, <1>4, <3>3
    <3> QED BY <3>3, <3>4
  <2>3. CASE i > Len(s) + Len(t)
    <3>1. l[i] = u[i - Len(st)]
      BY <1>1, <1>3, <1>5, <2>3
    <3>2. r[i] = tu[i - Len(s)] /\ i - Len(s) \in 1..Len(t) + Len(u)
      BY <1>1, <1>4, <1>6, <1>7, <2>3
    <3> DEFINE j == i - Len(s)
    <3>3. j \in 1..Len(t) + Len(u) /\ r[i] = tu[j] /\ ~(j <= Len(t)) /\ j - Len(t) = i - Len(st)
      BY <1>1, <1>3, <2>3, <3>2
    <3> HIDE DEF j
    <3>4. tu[j] = u[j - Len(t)]
      BY <1>1, <1>4, <3>3
    <3> QED BY <3>1, <3>3, <3>4
  <2> QED BY <1>1, <1>3, <1>5, <2>1, <2>2, <2>3
<1>9. l = r
  BY <1>5, <1>6, <1>7, <1>8, SeqEqual
<1> QED BY <1>9 DEF l, r, st, tu

(* Taking the first n items from a pipe and appending them to what was read leaves the *)
(* whole.                                                                              *)
LEMMA Splits ==
  ASSUME NEW got \in Seq(Nat), NEW data \in Seq(Nat), NEW n \in 1..Len(data)
  PROVE  /\ SubSeq(data, 1, n) \in Seq(Nat) /\ SubSeq(data, n + 1, Len(data)) \in Seq(Nat)
         /\ got \o SubSeq(data, 1, n) \in Seq(Nat)
         /\ (got \o SubSeq(data, 1, n)) \o SubSeq(data, n + 1, Len(data)) = got \o data
<1>1. Len(data) \in Nat /\ \A k \in 1..Len(data) : data[k] \in Nat
  BY LenProperties
<1>2. SubSeq(data, 1, n) \in Seq(Nat) /\ SubSeq(data, n + 1, Len(data)) \in Seq(Nat)
  BY <1>1, SubSeqProperties
<1>3. SubSeq(data, 1, n) \o SubSeq(data, n + 1, Len(data)) = SubSeq(data, 1, Len(data))
  BY <1>1, ConcatAdjacentSubSeq
<1>4. SubSeq(data, 1, n) \o SubSeq(data, n + 1, Len(data)) = data
  BY <1>3, SubSeqFull
<1> DEFINE a == SubSeq(data, 1, n)
           b == SubSeq(data, n + 1, Len(data))
<1>5. a \in Seq(Nat) /\ b \in Seq(Nat) /\ a \o b = data
  BY <1>2, <1>4
<1> HIDE DEF a, b
<1>6. (got \o a) \o b = got \o (a \o b)
  BY <1>5, Joins, Zenon
<1>7. got \o a \in Seq(Nat)
  BY <1>5, ConcatProperties
<1>8. (got \o a) \o b = got \o data
  BY <1>5, <1>6
<1> QED BY <1>5, <1>7, <1>8 DEF a, b

(* Appending the next number to a pipe extends the whole by it. *)
LEMMA Extends ==
  ASSUME NEW got \in Seq(Nat), NEW data \in Seq(Nat), NEW n \in Nat, got \o data = Count(n)
  PROVE  Append(data, n + 1) \in Seq(Nat) /\ got \o Append(data, n + 1) = Count(n + 1)
<1>1. n + 1 \in Nat /\ <<n + 1>> \in Seq(Nat)
  OBVIOUS
<1> DEFINE last == <<n + 1>>
<1>2. Append(data, n + 1) \in Seq(Nat) /\ Append(data, n + 1) = data \o last
  BY <1>1, AppendProperties, AppendIsConcat
<1>3. last \in Seq(Nat)
  BY <1>1
<1>4. Count(n) \in Seq(Nat) /\ Count(n) \o last = Append(Count(n), n + 1)
  BY <1>1, CountIs, AppendIsConcat
<1> HIDE DEF last
<1>5. got \o (data \o last) = (got \o data) \o last
  BY <1>3, Joins, Zenon
<1>6. got \o Append(data, n + 1) = Append(Count(n), n + 1)
  BY <1>2, <1>4, <1>5
<1> QED BY <1>2, <1>6, CountIs

(* PipePort::read keeps the pipes whole, however much it takes. *)
LEMMA ReadPipe ==
  ASSUME NEW gr, NEW new, NEW i \in DOMAIN gr.spec, NEW n \in 1..Len(gr.pipes[i - 1].data),
         PipeOK(gr), new.spec = gr.spec, OneStage(gr, new, i), gr.stages[i].pc = "reading",
         \A j \in DOMAIN gr.spec : j # i - 1 => new.pipes[j] = gr.pipes[j],
         new.pipes[i - 1].data = SubSeq(gr.pipes[i - 1].data, n + 1, Len(gr.pipes[i - 1].data)),
         new.pipes[i - 1].closed <=> gr.pipes[i - 1].closed,
         new.stages[i].pc = "program", new.stages[i].put = gr.stages[i].put,
         new.stages[i].got = gr.stages[i].got \o SubSeq(gr.pipes[i - 1].data, 1, n),
         new.stages[i].eof <=> gr.stages[i].eof
  PROVE  PipeOK(new)
<1> DEFINE data == gr.pipes[i - 1].data
<1>0. gr.spec \in Seq(StageSpec) /\ Input(gr.spec, i) = "pipe"
  BY DEF PipeOK
<1>1. i - 1 \in DOMAIN gr.spec /\ i - 1 + 1 = i /\ i - 1 # i /\ stage_writes_pipe(gr.spec, i - 1)
  BY <1>0, InputIsPipe
<1>2. data \in Seq(Nat) /\ gr.stages[i].got \in Seq(Nat) /\ gr.stages[i].got \o data = Count(gr.stages[i - 1].put)
  BY <1>1 DEF PipeOK
<1>3. data # <<>>
  OBVIOUS
<1> HIDE DEF data
<1>4. /\ new.pipes[i - 1].data \in Seq(Nat) /\ new.stages[i].got \in Seq(Nat)
      /\ new.stages[i].got \o new.pipes[i - 1].data = Count(gr.stages[i - 1].put)
  <2> DEFINE got == gr.stages[i].got
             a == SubSeq(data, 1, n)
             b == SubSeq(data, n + 1, Len(data))
  <2>1. /\ new.pipes[i - 1].data = b /\ new.stages[i].got = got \o a
        /\ got \in Seq(Nat) /\ data \in Seq(Nat) /\ n \in 1..Len(data)
    BY <1>2 DEF data
  <2> HIDE DEF got
  <2>2. b \in Seq(Nat) /\ got \o a \in Seq(Nat) /\ (got \o a) \o b = got \o data
    BY <2>1, Splits
  <2> HIDE DEF a, b
  <2> QED BY <1>2, <2>1, <2>2 DEF got
<1>5. \A j \in DOMAIN gr.spec :
        /\ new.stages[j].put = gr.stages[j].put
        /\ j # i => new.stages[j].got = gr.stages[j].got
        /\ new.stages[j].eof <=> gr.stages[j].eof
        /\ new.pipes[j].closed <=> gr.pipes[j].closed
  BY <1>1 DEF OneStage
<1>6. /\ new.spec \in Seq(StageSpec) /\ new.spec # <<>>
      /\ DOMAIN new.stages = DOMAIN new.spec /\ DOMAIN new.pipes = DOMAIN new.spec
  BY DEF PipeOK, OneStage
<1>7. \A j \in DOMAIN new.spec :
        new.stages[j].put \in Nat /\ new.stages[j].got \in Seq(Nat) /\ new.pipes[j].data \in Seq(Nat)
  BY <1>4, <1>5 DEF PipeOK
<1>8. ASSUME NEW j \in DOMAIN new.spec, stage_writes_pipe(new.spec, j)
      PROVE  new.stages[j + 1].got \o new.pipes[j].data = Count(new.stages[j].put)
  <2>1. CASE j = i - 1
    BY <1>1, <1>4, <1>5, <2>1
  <2>2. CASE j # i - 1
    <3>1. j + 1 \in DOMAIN gr.spec /\ j + 1 # i
      <4>1. j \in Nat /\ i \in Nat
        BY <1>8, SpecIs
      <4>2. j < Len(gr.spec)
        BY <1>8 DEF stage_writes_pipe
      <4>3. j + 1 \in DOMAIN gr.spec
        BY <1>8, <4>2, SpecIs
      <4>4. j + 1 # i
        BY <2>2, <4>1
      <4> QED BY <4>3, <4>4
    <3>2. gr.stages[j + 1].got \o gr.pipes[j].data = Count(gr.stages[j].put)
      BY <1>8 DEF PipeOK
    <3> QED BY <1>5, <2>2, <3>1, <3>2
  <2> QED BY <2>1, <2>2
<1>9. ASSUME NEW j \in DOMAIN new.spec, new.pipes[j].closed PROVE new.stages[j].pc = "done"
  <2>1. gr.stages[j].pc = "done"
    BY <1>5, <1>9 DEF PipeOK
  <2> QED BY <2>1 DEF OneStage
<1>10. ASSUME NEW j \in DOMAIN new.spec, new.stages[j].pc = "reading" PROVE Input(new.spec, j) = "pipe"
  <2>1. gr.stages[j].pc = "reading"
    BY <1>10 DEF OneStage
  <2> QED BY <2>1 DEF PipeOK
<1>11. ASSUME NEW j \in DOMAIN new.spec, new.stages[j].eof
      PROVE  Input(new.spec, j) = "pipe" /\ new.pipes[j - 1].closed /\ new.pipes[j - 1].data = <<>>
  <2>1. gr.stages[j].eof
    BY <1>5, <1>11
  <2>2. Input(gr.spec, j) = "pipe" /\ gr.pipes[j - 1].closed /\ gr.pipes[j - 1].data = <<>>
    BY <2>1 DEF PipeOK
  <2>3. j - 1 \in DOMAIN gr.spec /\ j # i
    BY <1>0, <1>3, <2>2, InputIsPipe DEF data
  <2>4. j - 1 # i - 1
    <3>1. j \in Nat /\ i \in Nat
      BY <1>11, SpecIs
    <3> QED BY <2>3, <3>1
  <2> QED BY <2>2, <2>3, <2>4
<1> QED BY <1>6, <1>7, <1>8, <1>9, <1>10, <1>11 DEF PipeOK

(* PipePort::write keeps the pipes whole. *)
LEMMA WritePipe ==
  ASSUME NEW gr, NEW new, NEW i \in DOMAIN gr.spec, PipeOK(gr), new.spec = gr.spec, OneStage(gr, new, i),
         gr.stages[i].pc = "program", new.stages[i].pc = "program",
         \A j \in DOMAIN gr.spec : j # i => new.pipes[j] = gr.pipes[j],
         new.pipes[i].data = IF stage_writes_pipe(gr.spec, i) THEN Append(gr.pipes[i].data, gr.stages[i].put + 1)
                                                              ELSE gr.pipes[i].data,
         new.pipes[i].closed <=> gr.pipes[i].closed,
         new.stages[i].put = gr.stages[i].put + 1, new.stages[i].got = gr.stages[i].got,
         new.stages[i].eof <=> gr.stages[i].eof
  PROVE  PipeOK(new)
<1>1. ~gr.pipes[i].closed
  BY DEF PipeOK
<1>2. \A j \in DOMAIN gr.spec :
        /\ j # i => new.stages[j].put = gr.stages[j].put
        /\ new.stages[j].got = gr.stages[j].got
        /\ new.stages[j].eof <=> gr.stages[j].eof
        /\ new.pipes[j].closed <=> gr.pipes[j].closed
  BY DEF OneStage
<1>3. gr.stages[i].put \in Nat /\ gr.pipes[i].data \in Seq(Nat) /\ gr.stages[i].put + 1 \in Nat
  BY DEF PipeOK
<1>4. stage_writes_pipe(gr.spec, i) =>
        /\ new.pipes[i].data \in Seq(Nat)
        /\ gr.stages[i + 1].got \o new.pipes[i].data = Count(gr.stages[i].put + 1)
  <2> SUFFICES ASSUME stage_writes_pipe(gr.spec, i)
               PROVE  /\ new.pipes[i].data \in Seq(Nat)
                      /\ gr.stages[i + 1].got \o new.pipes[i].data = Count(gr.stages[i].put + 1)
    OBVIOUS
  <2>1. i + 1 \in DOMAIN gr.spec
    BY SpecIs DEF stage_writes_pipe
  <2>2. gr.stages[i + 1].got \in Seq(Nat) /\ gr.stages[i + 1].got \o gr.pipes[i].data = Count(gr.stages[i].put)
    BY <2>1 DEF PipeOK
  <2> DEFINE got == gr.stages[i + 1].got
             data == gr.pipes[i].data
             n == gr.stages[i].put
  <2>3. /\ new.pipes[i].data = Append(data, n + 1) /\ got \in Seq(Nat) /\ data \in Seq(Nat) /\ n \in Nat
        /\ got \o data = Count(n)
    BY <1>3, <2>2
  <2> HIDE DEF got, data, n
  <2>4. Append(data, n + 1) \in Seq(Nat) /\ got \o Append(data, n + 1) = Count(n + 1)
    BY <2>3, Extends
  <2> QED BY <2>3, <2>4 DEF got, n
<1>6. /\ new.spec \in Seq(StageSpec) /\ new.spec # <<>>
      /\ DOMAIN new.stages = DOMAIN new.spec /\ DOMAIN new.pipes = DOMAIN new.spec
  BY DEF PipeOK, OneStage
<1>7. \A j \in DOMAIN new.spec :
        new.stages[j].put \in Nat /\ new.stages[j].got \in Seq(Nat) /\ new.pipes[j].data \in Seq(Nat)
  <2>1. \A j \in DOMAIN gr.spec :
          gr.stages[j].put \in Nat /\ gr.stages[j].got \in Seq(Nat) /\ gr.pipes[j].data \in Seq(Nat)
    BY DEF PipeOK
  <2>2. new.stages[i].put \in Nat /\ new.pipes[i].data \in Seq(Nat)
    BY <1>3, <1>4
  <2> QED BY <1>2, <2>1, <2>2
<1>8. ASSUME NEW j \in DOMAIN new.spec, stage_writes_pipe(new.spec, j)
      PROVE  new.stages[j + 1].got \o new.pipes[j].data = Count(new.stages[j].put)
  <2>1. j + 1 \in DOMAIN gr.spec
    BY <1>8, SpecIs DEF stage_writes_pipe
  <2>2. CASE j = i
    BY <1>2, <1>4, <1>8, <2>1, <2>2
  <2>3. CASE j # i
    <3>2. gr.stages[j + 1].got \o gr.pipes[j].data = Count(gr.stages[j].put)
      BY <1>8 DEF PipeOK
    <3> QED BY <1>2, <2>1, <2>3, <3>2
  <2> QED BY <2>2, <2>3
<1>9. ASSUME NEW j \in DOMAIN new.spec, new.pipes[j].closed PROVE new.stages[j].pc = "done"
  <2>1. gr.stages[j].pc = "done"
    BY <1>2, <1>9 DEF PipeOK
  <2> QED BY <2>1 DEF OneStage
<1>10. ASSUME NEW j \in DOMAIN new.spec, new.stages[j].pc = "reading" PROVE Input(new.spec, j) = "pipe"
  <2>1. gr.stages[j].pc = "reading"
    BY <1>10 DEF OneStage
  <2> QED BY <2>1 DEF PipeOK
<1>11. ASSUME NEW j \in DOMAIN new.spec, new.stages[j].eof
      PROVE  Input(new.spec, j) = "pipe" /\ new.pipes[j - 1].closed /\ new.pipes[j - 1].data = <<>>
  <2>1. gr.stages[j].eof
    BY <1>2, <1>11
  <2>2. Input(gr.spec, j) = "pipe" /\ gr.pipes[j - 1].closed /\ gr.pipes[j - 1].data = <<>>
    BY <2>1 DEF PipeOK
  <2>3. gr.spec \in Seq(StageSpec)
    BY DEF PipeOK
  <2>4. j - 1 \in DOMAIN gr.spec
    BY <2>2, <2>3, InputIsPipe
  <2>5. j - 1 # i
    BY <1>1, <2>2
  <2> QED BY <2>2, <2>4, <2>5
<1> QED BY <1>6, <1>7, <1>8, <1>9, <1>10, <1>11 DEF PipeOK
-----------------------------------------------------------------------------
(* A function on 1..n is a sequence. *)
LEMMA IsTableOf ==
  ASSUME NEW s, NEW n \in Nat, s = [k \in 1..n |-> s[k]]
  PROVE  IsTable(s)
<1> DEFINE S == {s[k] : k \in DOMAIN s}
<1>1. DOMAIN s = 1..n
  OBVIOUS
<1>2. \A k \in 1..n : s[k] \in S
  BY <1>1
<1> HIDE DEF S
<1>3. [k \in 1..n |-> s[k]] \in [1..n -> S]
  BY <1>2
<1>4. s \in Seq(S)
  BY <1>3
<1> QED BY <1>4 DEF IsTable, S

(* Changing one graph changes no other. *)
LEMMA ExceptTable ==
  ASSUME NEW s, IsTable(s), NEW g \in DOMAIN s, NEW new, NEW t, t = [s EXCEPT ![g] = new]
  PROVE  IsTable(t) /\ DOMAIN t = DOMAIN s /\ t[g] = new /\ \A h \in DOMAIN s : h # g => t[h] = s[h]
<1>1. Len(s) \in Nat /\ DOMAIN s = 1..Len(s)
  BY TableIs
<1>2. DOMAIN t = DOMAIN s /\ t[g] = new /\ \A h \in DOMAIN s : h # g => t[h] = s[h]
  OBVIOUS
<1>3. t = [k \in 1..Len(s) |-> t[k]]
  BY <1>1
<1> QED BY <1>1, <1>2, <1>3, IsTableOf

(* A new graph takes the next number and changes no other. *)
LEMMA AppendTable ==
  ASSUME NEW s, IsTable(s), NEW new, NEW t, t = Append(s, new)
  PROVE  /\ IsTable(t) /\ DOMAIN t = DOMAIN s \cup {Len(s) + 1} /\ t[Len(s) + 1] = new
         /\ \A h \in DOMAIN s : t[h] = s[h]
         /\ Len(s) + 1 \notin DOMAIN s
<1> DEFINE S == {s[k] : k \in DOMAIN s}
           T == S \cup {new}
<1>1. Len(s) \in Nat /\ DOMAIN s = 1..Len(s)
  BY TableIs
<1>2. s \in Seq(T) /\ new \in T
  <2>1. s \in Seq(S) /\ S \subseteq T
    BY DEF IsTable
  <2> HIDE DEF S, T
  <2>2. s \in Seq(T)
    BY <2>1, SeqMonotonic
  <2> QED BY <2>2 DEF T
<1> HIDE DEF T, S
<1>3. /\ t \in Seq(T) /\ Len(t) = Len(s) + 1
      /\ \A k \in 1..Len(s) : t[k] = s[k]
      /\ t[Len(s) + 1] = new
  BY <1>2, AppendProperties
<1>4. DOMAIN t = 1..Len(s) + 1 /\ t \in [1..Len(s) + 1 -> T]
  BY <1>3, LenProperties
<1>5. t = [k \in 1..Len(s) + 1 |-> t[k]]
  BY <1>4
<1>6. IsTable(t)
  <2> DEFINE n == Len(s) + 1
  <2>1. n \in Nat /\ t = [k \in 1..n |-> t[k]]
    BY <1>1, <1>5
  <2> HIDE DEF n
  <2> QED BY <2>1, IsTableOf
<1> QED BY <1>1, <1>3, <1>4, <1>6

(* The status file tells a signal, or the runner is about to look for the note or to *)
(* write its status.                                                                 *)
StatusTells(gr) == gr.status[1] = "signal" \/ (Returns(gr.run) /\ gr.run.pc \in {"check", "sig_status"})

(* A step of a graph's own threads keeps JobsInv if it keeps the graph coherent, leaves *)
(* what the shell decides, and does not take back an end or a signal.                   *)
LEMMA ThreadInv ==
  ASSUME JobsInv, NEW g \in DOMAIN graphs, NEW new, graphs' = [graphs EXCEPT ![g] = new],
         UNCHANGED <<shell, told>>, GraphOK(new),
         new.note = graphs[g].note, new.cancelled = graphs[g].cancelled,
         new.listed <=> graphs[g].listed, new.bound <=> graphs[g].bound,
         Ended(graphs[g]) => new.run = graphs[g].run,
         graphs[g].run.pc = "done" /\ ~Noted(graphs[g]) => pipeline_status(new) = pipeline_status(graphs[g]),
         graphs[g].run.pc = "evaluated" => new.run = graphs[g].run,
         Noted(graphs[g]) /\ graphs[g].bound /\ StatusTells(graphs[g]) => StatusTells(new)
  PROVE  JobsInv'
<1>1. /\ IsTable(graphs') /\ DOMAIN graphs' = DOMAIN graphs /\ graphs'[g] = new
      /\ \A h \in DOMAIN graphs : h # g => graphs'[h] = graphs[h]
  BY ExceptTable DEF JobsInv
<1>2. shell' = shell /\ told' = told /\ Target' = Target
  BY DEF Target
<1>3. Noted(new) <=> Noted(graphs[g])
  BY DEF Noted
<1>4. \A h \in DOMAIN graphs' : GraphOK(graphs'[h])
  BY <1>1 DEF JobsInv
<1>5. NotesOK'
  <2> SUFFICES ASSUME NEW h \in DOMAIN graphs, Noted(graphs'[h])
               PROVE  /\ graphs'[h].cancelled \/ (NoteReaches(h, {"n_state"}))'
                      /\ graphs'[h].bound =>
                           \/ graphs'[h].status[1] = "signal"
                           \/ (NoteReaches(h, {"n_state", "n_status"}))'
                           \/ Returns(graphs'[h].run) /\ graphs'[h].run.pc \in {"check", "sig_status"}
    BY <1>1 DEF NotesOK
  <2>1. Noted(graphs[h])
    BY <1>1, <1>3
  <2>2. (NoteReaches(h, {"n_state"}))' <=> NoteReaches(h, {"n_state"})
    BY <1>2 DEF NoteReaches
  <2>3. (NoteReaches(h, {"n_state", "n_status"}))' <=> NoteReaches(h, {"n_state", "n_status"})
    BY <1>2 DEF NoteReaches
  <2>4. /\ graphs[h].cancelled \/ NoteReaches(h, {"n_state"})
        /\ graphs[h].bound => StatusTells(graphs[h]) \/ NoteReaches(h, {"n_state", "n_status"})
    BY <2>1 DEF JobsInv, NotesOK, StatusTells
  <2>5. CASE h # g
    BY <1>1, <2>2, <2>3, <2>4, <2>5 DEF StatusTells
  <2>6. CASE h = g
    <3>1. graphs'[h].cancelled \/ NoteReaches(h, {"n_state"})
      BY <1>1, <2>4, <2>6
    <3>2. graphs'[h].bound => StatusTells(graphs'[h]) \/ NoteReaches(h, {"n_state", "n_status"})
      BY <1>1, <2>1, <2>4, <2>6
    <3> QED BY <2>2, <2>3, <3>1, <3>2 DEF StatusTells
  <2> QED BY <2>5, <2>6
<1>6. \A h \in DOMAIN graphs :
        /\ graphs'[h].listed <=> graphs[h].listed
        /\ graphs'[h].cancelled = graphs[h].cancelled
        /\ Noted(graphs'[h]) <=> Noted(graphs[h])
        /\ graphs[h].run.pc = "evaluated" => graphs'[h].run.pc = "evaluated"
  BY <1>1, <1>3
<1>7. \A list : (IsList(list)' <=> IsList(list)) /\ (WaitList(list)' <=> WaitList(list))
  BY <1>1, <1>6 DEF IsList, WaitList
<1>8. ShellOK'
  <2>0. ShellOK
    BY DEF JobsInv
  <2>1. CASE shell = Idle
    BY <1>2, <2>1 DEF ShellOK
  <2>2. CASE shell.pc \in {"pipeline", "unbind"} /\ shell.g \in DOMAIN graphs
    BY <1>1, <1>2, <2>2 DEF ShellOK
  <2>3. CASE shell.pc = "evaluate" /\ shell.g \in DOMAIN graphs /\ graphs[shell.g].run.pc = "evaluated"
    BY <1>1, <1>2, <1>6, <2>3 DEF ShellOK
  <2>4. CASE shell.pc = "wait" /\ WaitList(shell.list)
    BY <1>1, <1>2, <1>6, <2>4 DEF ShellOK, WaitList, IsList
  <2>5. CASE shell.pc \in Notifying /\ SendOK
    <3>1. shell.list \subseteq DOMAIN graphs /\ Target \in DOMAIN graphs
      BY <2>5, TargetIs DEF SendOK, IsList, JobsInv
    <3>2. IsList(shell.list)'
      BY <1>1, <1>2, <2>5 DEF SendOK, IsList
    <3>3. \A h \in shell.list : (graphs[h].listed \/ Noted(graphs[h])) => graphs'[h].listed \/ Noted(graphs'[h])
      BY <1>6, <3>1
    <3>4. shell.then = Idle \/ (shell.then.pc = "wait" /\ WaitList(shell.then.list))'
      BY <1>1, <1>2, <1>6, <2>5 DEF SendOK, WaitList, IsList
    <3>5. SendOK'
      BY <1>2, <1>6, <2>5, <3>1, <3>2, <3>3, <3>4 DEF SendOK
    <3> QED BY <1>2, <2>5, <3>5 DEF ShellOK
  <2> QED BY <2>0, <2>1, <2>2, <2>3, <2>4, <2>5 DEF ShellOK
<1>9. ToldOK'
  <2> SUFFICES ASSUME NEW h \in DOMAIN told
               PROVE  /\ h \in DOMAIN graphs' /\ ~graphs'[h].listed
                      /\ Noted(graphs'[h]) \/ Ended(graphs'[h])
                      /\ told[h] = IF Noted(graphs'[h]) THEN signal_status(graphs'[h])
                                   ELSE IF graphs'[h].run.pc = "failed" THEN <<"failed">> ELSE pipeline_status(graphs'[h])
    BY <1>2 DEF ToldOK
  <2>1. /\ h \in DOMAIN graphs /\ ~graphs[h].listed
        /\ Noted(graphs[h]) \/ Ended(graphs[h])
        /\ told[h] = IF Noted(graphs[h]) THEN signal_status(graphs[h])
                     ELSE IF graphs[h].run.pc = "failed" THEN <<"failed">> ELSE pipeline_status(graphs[h])
    BY DEF JobsInv, ToldOK
  <2>2. CASE h # g
    BY <1>1, <2>1, <2>2
  <2>3. CASE h = g /\ Noted(graphs[g])
    BY <1>1, <1>3, <1>6, <2>1, <2>3 DEF signal_status
  <2>4. CASE h = g /\ ~Noted(graphs[g])
    <3>1. Ended(graphs[g]) /\ new.run = graphs[g].run /\ graphs[g].run.pc \in {"done", "failed"}
      BY <2>1, <2>4 DEF Ended
    <3> QED BY <1>1, <1>3, <1>6, <2>1, <2>4, <3>1 DEF Ended
  <2> QED BY <2>2, <2>3, <2>4
<1> QED BY <1>1, <1>4, <1>5, <1>8, <1>9 DEF JobsInv

(* The step leaves what only the shell changes: note, cancellation, whether the graph is *)
(* a job, and whether it has its files.                                                  *)
Keeps(gr, new) ==
  /\ new.note = gr.note /\ new.cancelled = gr.cancelled
  /\ new.listed <=> gr.listed
  /\ new.bound <=> gr.bound

(* A write that fails leaves what only the shell changes. *)
LEMMA WrittenKeeps ==
  ASSUME NEW gr, NEW new, Keeps(gr, new), Noted(gr) /\ gr.bound /\ StatusTells(gr) => StatusTells(new)
  PROVE  /\ Keeps(gr, Written(gr, new))
         /\ Noted(gr) /\ gr.bound /\ StatusTells(gr) => StatusTells(Written(gr, new))
<1>1. CASE gr.bound
  <2>1. Written(gr, new) = new
    BY <1>1 DEF Written
  <2> QED BY <2>1
<1>2. CASE ~gr.bound
  <2>1. Written(gr, new) = Failed(gr)
    BY <1>2 DEF Written
  <2>2. Keeps(gr, Failed(gr))
    BY DEF Keeps, Failed
  <2> QED BY <1>2, <2>1, <2>2
<1> QED BY <1>1, <1>2

(* A step of the runner keeps JobsInv under these conditions. *)
LEMMA RunnerInv ==
  ASSUME JobsInv, NEW g \in DOMAIN graphs, NEW new, Runner(g, new), GraphOK(new), Keeps(graphs[g], new),
         ~Ended(graphs[g]), graphs[g].run.pc # "evaluated",
         Noted(graphs[g]) /\ graphs[g].bound /\ StatusTells(graphs[g]) => StatusTells(new)
  PROVE  JobsInv'
<1>1. graphs' = [graphs EXCEPT ![g] = new] /\ UNCHANGED <<shell, told>>
  BY DEF Runner, SetGraph
<1>2. graphs[g].run.pc # "done"
  BY DEF Ended
<1> QED BY <1>1, <1>2, ThreadInv DEF Keeps

(* Every step of execute_external_graph keeps JobsInv. *)
LEMMA RunnerStepInv ==
  ASSUME JobsInv, NEW g \in DOMAIN graphs, RunnerStep(g)
  PROVE  JobsInv'
<1> DEFINE gr == graphs[g]
<1>0. GraphOK(gr)
  BY DEF JobsInv
<1>1. CASE write_plan(g)
  <2> DEFINE new == [gr EXCEPT !.run = ThenState("planned", Goto("notes"))]
  <2>1. gr.run.pc = "plan" /\ Runner(g, Written(gr, new))
    BY <1>1 DEF write_plan, Running
  <2>2. GraphOK(Written(gr, new))
    BY <1>0, <2>1, PlanOK
  <2>3. ~Ended(gr) /\ gr.run.pc # "evaluated" /\ ~Returns(gr.run)
    BY <2>1 DEF Ended, Returns, Writes
  <2>4. Keeps(gr, new) /\ (StatusTells(gr) => StatusTells(new))
    BY <2>3 DEF Keeps, StatusTells
  <2> HIDE DEF new
  <2> QED BY <2>1, <2>2, <2>3, <2>4, WrittenKeeps, RunnerInv
<1>2. CASE check_note(g)
  <2> DEFINE pc == IF Noted(gr) THEN "sig_status" ELSE "put"
             run == [gr.run EXCEPT !.pc = pc]
             new == [gr EXCEPT !.run.pc = pc]
  <2>1. gr.run.pc = "check" /\ Runner(g, new)
    BY <1>2 DEF check_note, Running
  <2>2. GraphOK(new)
    BY <1>0, <2>1, CheckOK
  <2>3. ~Ended(gr) /\ gr.run.pc # "evaluated"
    BY <2>1 DEF Ended
  <2>4. run.pc = pc /\ run.then = gr.run.then /\ new.run = run /\ Keeps(gr, new) /\ new.status = gr.status
    BY DEF Keeps
  <2>5. Noted(gr) /\ StatusTells(gr) => StatusTells(new)
    <3> HIDE DEF new, run
    <3> QED BY <2>4 DEF StatusTells, Returns, Writes
  <2> HIDE DEF new
  <2> QED BY <2>1, <2>2, <2>3, <2>4, <2>5, RunnerInv
<1>3. CASE put_state(g)
  <2> DEFINE new == [gr EXCEPT !.state = gr.run.value, !.run = gr.run.then]
  <2>1. gr.run.pc = "put" /\ Runner(g, Written(gr, new))
    BY <1>3 DEF put_state, Running
  <2>2. GraphOK(Written(gr, new))
    BY <1>0, <2>1, PutStateOK
  <2>3. ~Ended(gr) /\ gr.run.pc # "evaluated"
    BY <2>1 DEF Ended
  <2>4. Keeps(gr, new) /\ (StatusTells(gr) => StatusTells(new))
    BY <2>1 DEF Keeps, StatusTells
  <2> HIDE DEF new
  <2> QED BY <2>1, <2>2, <2>3, <2>4, WrittenKeeps, RunnerInv
<1>4. CASE put_signal_status(g)
  <2> DEFINE new == [gr EXCEPT !.status = signal_status(gr), !.run.pc = "sig_state"]
  <2>1. gr.run.pc = "sig_status" /\ Runner(g, Written(gr, new))
    BY <1>4 DEF put_signal_status, Running
  <2>2. GraphOK(Written(gr, new))
    BY <1>0, <2>1, SignalStatusOK
  <2>3. ~Ended(gr) /\ gr.run.pc # "evaluated"
    BY <2>1 DEF Ended
  <2>4. Keeps(gr, new) /\ StatusTells(new)
    BY DEF Keeps, StatusTells, signal_status, Signal
  <2> HIDE DEF new
  <2> QED BY <2>1, <2>2, <2>3, <2>4, WrittenKeeps, RunnerInv
<1>5. CASE put_signal_state(g)
  <2> DEFINE new == [gr EXCEPT !.state = "signaled", !.run = gr.run.then]
  <2>1. gr.run.pc = "sig_state" /\ Runner(g, Written(gr, new))
    BY <1>5 DEF put_signal_state, Running
  <2>2. GraphOK(Written(gr, new))
    BY <1>0, <2>1, SignalStateOK
  <2>3. ~Ended(gr) /\ gr.run.pc # "evaluated"
    BY <2>1 DEF Ended
  <2>4. Keeps(gr, new) /\ (StatusTells(gr) => StatusTells(new))
    BY <2>1 DEF Keeps, StatusTells
  <2> HIDE DEF new
  <2> QED BY <2>1, <2>2, <2>3, <2>4, WrittenKeeps, RunnerInv
<1>6. CASE clear_notes(g)
  <2> DEFINE new == [gr EXCEPT !.notes = <<>>, !.run = [pc |-> "early", then |-> Goto("bind")]]
  <2>1. gr.run.pc = "notes" /\ Runner(g, Written(gr, new))
    BY <1>6 DEF clear_notes, Running
  <2>2. GraphOK(Written(gr, new))
    BY <1>0, <2>1, NotesOKAfter
  <2>3. ~Ended(gr) /\ gr.run.pc # "evaluated"
    BY <2>1 DEF Ended
  <2>4. Keeps(gr, new) /\ (StatusTells(gr) => StatusTells(new))
    BY <2>1 DEF Keeps, StatusTells
  <2> HIDE DEF new
  <2> QED BY <2>1, <2>2, <2>3, <2>4, WrittenKeeps, RunnerInv
<1>7. CASE maybe_finish_signaled_graph(g)
  <2> DEFINE run == IF Noted(gr) THEN [pc |-> "sig_status", then |-> Goto("signaled")] ELSE gr.run.then
             new == [gr EXCEPT !.run = run]
  <2>1. gr.run.pc = "early" /\ Runner(g, new)
    BY <1>7 DEF maybe_finish_signaled_graph, Running
  <2>2. GraphOK(new)
    BY <1>0, <2>1, MaybeFinishOK
  <2> HIDE DEF run
  <2>3. ~Ended(gr) /\ gr.run.pc # "evaluated"
    BY <2>1 DEF Ended
  <2>4. Keeps(gr, new) /\ (StatusTells(gr) => StatusTells(new))
    BY <2>1 DEF Keeps, StatusTells
  <2> HIDE DEF new
  <2> QED BY <2>1, <2>2, <2>3, <2>4, RunnerInv
<1>8. CASE finish_signaled(g)
  <2> DEFINE new == [gr EXCEPT !.run = Goto("done"), !.result = signal_status(gr)]
  <2>1. gr.run.pc = "signaled" /\ Runner(g, new)
    BY <1>8 DEF finish_signaled, Running
  <2>2. GraphOK(new)
    BY <1>0, <2>1, FinishSignaledOK
  <2>3. ~Ended(gr) /\ gr.run.pc # "evaluated"
    BY <2>1 DEF Ended
  <2>4. Keeps(gr, new) /\ (StatusTells(gr) => StatusTells(new))
    BY <2>1 DEF Keeps, StatusTells
  <2> HIDE DEF new
  <2> QED BY <2>1, <2>2, <2>3, <2>4, RunnerInv
<1>9. CASE bind_tasks(g)
  <2> DEFINE new == [gr EXCEPT !.tasks = TRUE, !.run = Goto("tasks")]
  <2>1. gr.run.pc = "bind" /\ Runner(g, new)
    BY <1>9 DEF bind_tasks, Running
  <2>2. GraphOK(new)
    BY <1>0, <2>1, BindOK
  <2>3. ~Ended(gr) /\ gr.run.pc # "evaluated"
    BY <2>1 DEF Ended
  <2>4. Keeps(gr, new) /\ (StatusTells(gr) => StatusTells(new))
    BY <2>1 DEF Keeps, StatusTells
  <2> HIDE DEF new
  <2> QED BY <2>1, <2>2, <2>3, <2>4, RunnerInv
<1>10. CASE write_tasks(g)
  <2> DEFINE new == [gr EXCEPT !.run = ThenState("running", [pc |-> "early", then |-> Goto("spawn")])]
  <2>1. gr.run.pc = "tasks" /\ Runner(g, Written(gr, new))
    BY <1>10 DEF write_tasks, Running
  <2>2. GraphOK(Written(gr, new))
    BY <1>0, <2>1, TasksOK
  <2>3. ~Ended(gr) /\ gr.run.pc # "evaluated"
    BY <2>1 DEF Ended
  <2>4. Keeps(gr, new) /\ (StatusTells(gr) => StatusTells(new))
    BY <2>1 DEF Keeps, StatusTells
  <2> HIDE DEF new
  <2> QED BY <2>1, <2>2, <2>3, <2>4, WrittenKeeps, RunnerInv
<1>11. CASE spawn_stages(g)
  <2> DEFINE stages == [i \in DOMAIN gr.stages |-> [gr.stages[i] EXCEPT !.pc = "begin"]]
             new == [gr EXCEPT !.stages = stages, !.run = [pc |-> "join", next |-> 1]]
  <2>1. gr.run.pc = "spawn" /\ Runner(g, new)
    BY <1>11 DEF spawn_stages, Running
  <2>2. GraphOK(new)
    BY <1>0, <2>1, SpawnOK
  <2> HIDE DEF stages
  <2>3. ~Ended(gr) /\ gr.run.pc # "evaluated"
    BY <2>1 DEF Ended
  <2>4. Keeps(gr, new) /\ (StatusTells(gr) => StatusTells(new))
    BY <2>1 DEF Keeps, StatusTells
  <2> HIDE DEF new
  <2> QED BY <2>1, <2>2, <2>3, <2>4, RunnerInv
<1>12. CASE join_stage(g)
  <2> DEFINE run == IF gr.run.next = Len(gr.spec) THEN Goto("collect") ELSE [pc |-> "join", next |-> gr.run.next + 1]
             new == IF gr.stages[gr.run.next].status = <<"error">> THEN Failed(gr) ELSE [gr EXCEPT !.run = run]
  <2>1. gr.run.pc = "join" /\ gr.stages[gr.run.next].pc = "done" /\ Runner(g, new)
    BY <1>12 DEF join_stage, Running
  <2>2. GraphOK(new)
    BY <1>0, <2>1, JoinOK
  <2> HIDE DEF run
  <2>3. ~Ended(gr) /\ gr.run.pc # "evaluated"
    BY <2>1 DEF Ended
  <2>4. Keeps(gr, new) /\ new.status = gr.status
    BY DEF Keeps, Failed
  <2> HIDE DEF new
  <2>5. StatusTells(gr) => StatusTells(new)
    BY <2>1, <2>4 DEF StatusTells
  <2> QED BY <2>1, <2>2, <2>3, <2>4, <2>5, RunnerInv
<1>13. CASE collect(g)
  <2> DEFINE status == IF Noted(gr) THEN signal_status(gr) ELSE pipeline_status(gr)
             new == [gr EXCEPT !.run = [pc |-> "status", status |-> status, out |-> Output(gr)]]
  <2>1. gr.run.pc = "collect" /\ Runner(g, new)
    BY <1>13 DEF collect, Running
  <2>2. GraphOK(new)
    BY <1>0, <2>1, CollectOK
  <2> HIDE DEF status
  <2>3. ~Ended(gr) /\ gr.run.pc # "evaluated"
    BY <2>1 DEF Ended
  <2>4. Keeps(gr, new) /\ (StatusTells(gr) => StatusTells(new))
    BY <2>1 DEF Keeps, StatusTells
  <2> HIDE DEF new
  <2> QED BY <2>1, <2>2, <2>3, <2>4, RunnerInv
<1>14. CASE write_status(g)
  <2> DEFINE then == [pc |-> "return", status |-> gr.run.status]
             new == [gr EXCEPT !.status = gr.run.status, !.run = ThenState(StateOf(gr.run.status), then)]
  <2>1. gr.run.pc = "status" /\ Runner(g, Written(gr, new))
    BY <1>14 DEF write_status, Running
  <2>2. GraphOK(Written(gr, new))
    BY <1>0, <2>1, StatusOK
  <2>3. ~Ended(gr) /\ gr.run.pc # "evaluated"
    BY <2>1 DEF Ended
  <2>4. then.pc = "return"
    OBVIOUS
  <2> HIDE DEF then
  <2>5. Keeps(gr, new) /\ new.run.pc = "check" /\ new.run.then = then
    BY DEF Keeps, ThenState
  <2> HIDE DEF new
  <2>6. StatusTells(new)
    BY <2>4, <2>5 DEF StatusTells, Returns, Writes
  <2> QED BY <2>1, <2>2, <2>3, <2>5, <2>6, WrittenKeeps, RunnerInv
<1>15. CASE return_output(g)
  <2> DEFINE new == [gr EXCEPT !.run = Goto("done"), !.result = gr.run.status]
  <2>1. gr.run.pc = "return" /\ Runner(g, new)
    BY <1>15 DEF return_output, Running
  <2>2. GraphOK(new)
    BY <1>0, <2>1, ReturnOK
  <2>3. ~Ended(gr) /\ gr.run.pc # "evaluated"
    BY <2>1 DEF Ended
  <2>4. Keeps(gr, new) /\ (StatusTells(gr) => StatusTells(new))
    BY <2>1 DEF Keeps, StatusTells
  <2> HIDE DEF new
  <2> QED BY <2>1, <2>2, <2>3, <2>4, RunnerInv
<1>16. CASE graph_error(g)
  <2> DEFINE new == Failed(gr)
  <2>1. gr.run.pc \in {"bind", "collect"} /\ Runner(g, new)
    BY <1>16 DEF graph_error, Running
  <2>2. GraphOK(new)
    BY <1>0, FailedOK
  <2>3. ~Ended(gr) /\ gr.run.pc # "evaluated"
    BY <2>1 DEF Ended
  <2>4. Keeps(gr, new) /\ new.status = gr.status
    BY DEF Keeps, Failed
  <2> HIDE DEF new
  <2>5. StatusTells(gr) => StatusTells(new)
    BY <2>1, <2>4 DEF StatusTells
  <2> QED BY <2>1, <2>2, <2>3, <2>4, <2>5, RunnerInv
<1> QED BY <1>1, <1>2, <1>3, <1>4, <1>5, <1>6, <1>7, <1>8, <1>9, <1>10, <1>11, <1>12, <1>13, <1>14, <1>15, <1>16 DEF RunnerStep

(* A step of a stage keeps JobsInv under these conditions. *)
LEMMA StageInv ==
  ASSUME JobsInv, NEW g \in DOMAIN graphs, NEW i \in DOMAIN graphs[g].spec, NEW new, graphs' = [graphs EXCEPT ![g] = new],
         UNCHANGED <<shell, told>>, SameRun(graphs[g], new), OneStage(graphs[g], new, i), Keeps(graphs[g], new), PipeOK(new),
         graphs[g].stages[i].pc \notin {"new", "done"},
         ~graphs[g].cancelled /\ new.stages[i].pc \in {"close", "done"} /\ new.stages[i].status # Error =>
           new.stages[i].exit = new.stages[i].status
  PROVE  JobsInv'
<1>0. GraphOK(graphs[g])
  BY DEF JobsInv
<1>1. GraphOK(new) /\ ~(graphs[g].run.pc = "done" /\ ~Noted(graphs[g]))
  BY <1>0, StageThreadOK
<1>2. new.run = graphs[g].run /\ (StatusTells(graphs[g]) => StatusTells(new))
  BY DEF SameRun, StatusTells
<1> QED BY <1>1, <1>2, ThreadInv DEF Keeps

(* What StageStep changes of a graph. *)
LEMMA StageStepIs ==
  ASSUME NEW g \in DOMAIN graphs, NEW i \in DOMAIN graphs[g].stages, NEW stage, StageStep(g, i, stage)
  PROVE  \E new : /\ graphs' = [graphs EXCEPT ![g] = new] /\ UNCHANGED <<shell, told>>
                  /\ SameRun(graphs[g], new) /\ Keeps(graphs[g], new) /\ new.pipes = graphs[g].pipes
                  /\ new.stages = [graphs[g].stages EXCEPT ![i] = stage]
<1> DEFINE st == [graphs[g].stages EXCEPT ![i] = stage]
           new == [graphs[g] EXCEPT !.stages = st]
<1>1. graphs' = [graphs EXCEPT ![g] = new] /\ UNCHANGED <<shell, told>>
  BY DEF StageStep
<1> HIDE DEF st
<1>2. SameRun(graphs[g], new) /\ Keeps(graphs[g], new) /\ new.pipes = graphs[g].pipes /\ new.stages = st
  BY DEF SameRun, Keeps
<1> HIDE DEF new
<1> QED BY <1>1, <1>2 DEF st

(* A step of a stage that touches no pipe keeps JobsInv. *)
LEMMA PlainStageInv ==
  ASSUME JobsInv, NEW g \in DOMAIN graphs, NEW i \in DOMAIN graphs[g].stages, NEW stage, StageStep(g, i, stage),
         graphs[g].stages[i].pc \notin {"new", "done"},
         stage.put = graphs[g].stages[i].put, stage.got = graphs[g].stages[i].got,
         stage.eof <=> graphs[g].stages[i].eof,
         stage.pc = "reading" => Input(graphs[g].spec, i) = "pipe",
         ~graphs[g].cancelled /\ stage.pc \in {"close", "done"} /\ stage.status # Error => stage.exit = stage.status
  PROVE  JobsInv'
<1>0. PipeOK(graphs[g]) /\ i \in DOMAIN graphs[g].spec
  BY DEF JobsInv, GraphOK, PipeOK
<1>1. PICK new : /\ graphs' = [graphs EXCEPT ![g] = new] /\ UNCHANGED <<shell, told>>
                 /\ SameRun(graphs[g], new) /\ Keeps(graphs[g], new) /\ new.pipes = graphs[g].pipes
                 /\ new.stages = [graphs[g].stages EXCEPT ![i] = stage]
  BY StageStepIs
<1>2. new.stages[i] = stage /\ OneStage(graphs[g], new, i) /\ new.spec = graphs[g].spec
  BY <1>0, <1>1 DEF OneStage, SameRun, PipeOK
<1>3. PipeOK(new)
  BY <1>0, <1>1, <1>2, PlainPipe
<1> QED BY <1>0, <1>1, <1>2, <1>3, StageInv

(* Every step of a stage's thread keeps JobsInv. *)
LEMMA StageThreadInv ==
  ASSUME JobsInv, NEW g \in DOMAIN graphs, NEW i \in DOMAIN graphs[g].stages, StageThread(g, i)
  PROVE  JobsInv'
<1> DEFINE gr == graphs[g]
           old == graphs[g].stages[i]
<1>0. PipeOK(gr) /\ StagesOK(gr) /\ i \in DOMAIN gr.spec
  BY DEF JobsInv, GraphOK, PipeOK
<1>1. CASE apply_execution_spec(g, i)
  <2> DEFINE failed == [old EXCEPT !.pc = "close", !.exit = <<"running">>, !.status = <<"error">>]
             begun == [old EXCEPT !.pc = "program", !.exit = <<"started">>, !.open = TRUE]
  <2>1. old.pc = "begin"
    BY <1>1 DEF apply_execution_spec
  <2>2. CASE Input(gr.spec, i) = "missing"
    <3>1. StageStep(g, i, failed)
      BY <1>1, <2>2 DEF apply_execution_spec
    <3>2. failed.put = old.put /\ failed.got = old.got /\ failed.eof = old.eof /\ failed.pc = "close" /\ failed.status = Error
      BY DEF Error
    <3> HIDE DEF failed
    <3> QED BY <2>1, <3>1, <3>2, PlainStageInv
  <2>3. CASE Input(gr.spec, i) # "missing"
    <3>1. StageStep(g, i, begun)
      BY <1>1, <2>3 DEF apply_execution_spec
    <3>2. begun.put = old.put /\ begun.got = old.got /\ begun.eof = old.eof /\ begun.pc = "program"
      OBVIOUS
    <3> HIDE DEF begun
    <3> QED BY <2>1, <3>1, <3>2, PlainStageInv
  <2> QED BY <2>2, <2>3
<1>2. CASE program_reads(g, i)
  <2> DEFINE stage == [old EXCEPT !.pc = "reading"]
  <2>1. old.pc = "program" /\ Input(gr.spec, i) = "pipe" /\ StageStep(g, i, stage)
    BY <1>2 DEF program_reads
  <2>2. stage.put = old.put /\ stage.got = old.got /\ stage.eof = old.eof /\ stage.pc = "reading"
    OBVIOUS
  <2> HIDE DEF stage
  <2> QED BY <2>1, <2>2, PlainStageInv
<1>3. CASE program_ends(g, i)
  <2>1. old.pc = "program"
    BY <1>3 DEF program_ends
  <2>2. ASSUME NEW c, StageStep(g, i, [old EXCEPT !.pc = "exit", !.status = Code(c)]) PROVE JobsInv'
    <3> DEFINE stage == [old EXCEPT !.pc = "exit", !.status = Code(c)]
    <3>1. stage.put = old.put /\ stage.got = old.got /\ stage.eof = old.eof /\ stage.pc = "exit"
      OBVIOUS
    <3>2. StageStep(g, i, stage)
      BY <2>2
    <3> HIDE DEF stage
    <3> QED BY <2>1, <3>1, <3>2, PlainStageInv
  <2>3. ASSUME StageStep(g, i, [old EXCEPT !.pc = "close", !.status = <<"error">>]) PROVE JobsInv'
    <3> DEFINE stage == [old EXCEPT !.pc = "close", !.status = <<"error">>]
    <3>1. stage.put = old.put /\ stage.got = old.got /\ stage.eof = old.eof /\ stage.pc = "close" /\ stage.status = Error
      BY DEF Error
    <3>2. StageStep(g, i, stage)
      BY <2>3
    <3> HIDE DEF stage
    <3> QED BY <2>1, <3>1, <3>2, PlainStageInv
  <2> QED BY <1>3, <2>2, <2>3 DEF program_ends
<1>4. CASE set_exit(g, i)
  <2> DEFINE stage == [old EXCEPT !.pc = "close", !.exit = old.status]
  <2>1. old.pc = "exit" /\ StageStep(g, i, stage)
    BY <1>4 DEF set_exit
  <2>2. /\ stage.put = old.put /\ stage.got = old.got /\ stage.eof = old.eof /\ stage.pc = "close"
        /\ stage.exit = old.status /\ stage.status = old.status
    OBVIOUS
  <2> HIDE DEF stage
  <2> QED BY <2>1, <2>2, PlainStageInv
<1>5. CASE pipe_read(g, i)
  <2>1. old.pc = "reading" /\ UNCHANGED <<shell, told>>
    BY <1>5 DEF pipe_read
  <2>2. gr.spec \in Seq(StageSpec) /\ Input(gr.spec, i) = "pipe"
    BY <1>0, <2>1 DEF PipeOK
  <2>3. i - 1 \in DOMAIN gr.spec /\ i - 1 \in DOMAIN gr.pipes /\ i \in DOMAIN gr.stages
    BY <1>0, <2>2, InputIsPipe DEF PipeOK
  <2>4. ASSUME NEW n \in 1..Len(gr.pipes[i - 1].data),
               graphs' = [graphs EXCEPT
                 ![g].pipes[i - 1].data = SubSeq(gr.pipes[i - 1].data, n + 1, Len(gr.pipes[i - 1].data)),
                 ![g].stages[i] = [old EXCEPT !.pc = "program", !.got = @ \o SubSeq(gr.pipes[i - 1].data, 1, n)]]
        PROVE  JobsInv'
    <3> DEFINE got == old.got \o SubSeq(gr.pipes[i - 1].data, 1, n)
               data == SubSeq(gr.pipes[i - 1].data, n + 1, Len(gr.pipes[i - 1].data))
               stage == [old EXCEPT !.pc = "program", !.got = got]
               pipe == [gr.pipes[i - 1] EXCEPT !.data = data]
               pipes == [gr.pipes EXCEPT ![i - 1] = pipe]
               stages == [gr.stages EXCEPT ![i] = stage]
               new == [gr EXCEPT !.pipes = pipes, !.stages = stages]
    <3>1. graphs' = [graphs EXCEPT ![g] = new]
      BY <2>4
    <3> HIDE DEF got, data
    <3>2. stage.pc = "program" /\ stage.put = old.put /\ stage.got = got /\ stage.eof = old.eof
      OBVIOUS
    <3>3. pipe.data = data /\ pipe.closed = gr.pipes[i - 1].closed
      OBVIOUS
    <3> HIDE DEF stage, pipe
    <3>4. /\ DOMAIN stages = DOMAIN gr.stages /\ stages[i] = stage
          /\ \A j \in DOMAIN gr.stages : j # i => stages[j] = gr.stages[j]
      BY <2>3
    <3>5. /\ DOMAIN pipes = DOMAIN gr.pipes /\ pipes[i - 1] = pipe
          /\ \A j \in DOMAIN gr.pipes : j # i - 1 => pipes[j] = gr.pipes[j]
      BY <2>3
    <3> HIDE DEF stages, pipes
    <3>6. SameRun(gr, new) /\ Keeps(gr, new) /\ new.pipes = pipes /\ new.stages = stages
      BY DEF SameRun, Keeps
    <3> HIDE DEF new
    <3>7. OneStage(gr, new, i) /\ new.spec = gr.spec
      BY <1>0, <3>4, <3>5, <3>6 DEF OneStage, SameRun, PipeOK
    <3>8. \A j \in DOMAIN gr.spec : j # i - 1 => new.pipes[j] = gr.pipes[j]
      BY <1>0, <3>5, <3>6 DEF PipeOK
    <3>9. PipeOK(new)
      BY <1>0, <2>1, <3>2, <3>3, <3>4, <3>5, <3>6, <3>7, <3>8, ReadPipe DEF got, data
    <3>10. new.stages[i].pc = "program"
      BY <3>2, <3>4, <3>6
    <3> QED BY <1>0, <2>1, <3>1, <3>6, <3>7, <3>9, <3>10, StageInv
  <2>5. ASSUME gr.pipes[i - 1].data = <<>>, gr.pipes[i - 1].closed,
               graphs' = [graphs EXCEPT ![g].stages[i] = [old EXCEPT !.pc = "program", !.eof = TRUE]]
        PROVE  JobsInv'
    <3> DEFINE stage == [old EXCEPT !.pc = "program", !.eof = TRUE]
               stages == [gr.stages EXCEPT ![i] = stage]
               new == [gr EXCEPT !.stages = stages]
    <3>1. graphs' = [graphs EXCEPT ![g] = new]
      BY <2>5
    <3>2. stage.pc = "program" /\ stage.put = old.put /\ stage.got = old.got
      OBVIOUS
    <3> HIDE DEF stage
    <3>4. /\ DOMAIN stages = DOMAIN gr.stages /\ stages[i] = stage
          /\ \A j \in DOMAIN gr.stages : j # i => stages[j] = gr.stages[j]
      BY <2>3
    <3> HIDE DEF stages
    <3>6. SameRun(gr, new) /\ Keeps(gr, new) /\ new.pipes = gr.pipes /\ new.stages = stages
      BY DEF SameRun, Keeps
    <3> HIDE DEF new
    <3>7. OneStage(gr, new, i) /\ new.spec = gr.spec
      BY <1>0, <3>4, <3>6 DEF OneStage, SameRun, PipeOK
    <3>9. PipeOK(new)
      BY <1>0, <2>1, <2>5, <3>2, <3>4, <3>6, <3>7, EndPipe
    <3>10. new.stages[i].pc = "program"
      BY <3>2, <3>4, <3>6
    <3> QED BY <1>0, <2>1, <3>1, <3>6, <3>7, <3>9, <3>10, StageInv
  <2> QED BY <1>5, <2>4, <2>5 DEF pipe_read
<1>6. CASE pipe_write(g, i)
  <2> DEFINE data == IF stage_writes_pipe(gr.spec, i) THEN Append(gr.pipes[i].data, old.put + 1) ELSE gr.pipes[i].data
             stage == [old EXCEPT !.put = old.put + 1]
             pipe == [gr.pipes[i] EXCEPT !.data = data]
             pipes == [gr.pipes EXCEPT ![i] = pipe]
             stages == [gr.stages EXCEPT ![i] = stage]
             new == [gr EXCEPT !.stages = stages, !.pipes = pipes]
  <2>1. old.pc = "program" /\ UNCHANGED <<shell, told>>
    BY <1>6 DEF pipe_write
  <2>2. graphs' = [graphs EXCEPT ![g] = new]
    BY <1>6 DEF pipe_write
  <2>3. stage.pc = "program" /\ stage.put = old.put + 1 /\ stage.got = old.got /\ stage.eof = old.eof
    BY <2>1
  <2>4. pipe.data = data /\ pipe.closed = gr.pipes[i].closed
    OBVIOUS
  <2> HIDE DEF stage, pipe
  <2>5. /\ DOMAIN stages = DOMAIN gr.stages /\ stages[i] = stage
        /\ \A j \in DOMAIN gr.stages : j # i => stages[j] = gr.stages[j]
    OBVIOUS
  <2>6. /\ DOMAIN pipes = DOMAIN gr.pipes /\ pipes[i] = pipe
        /\ \A j \in DOMAIN gr.pipes : j # i => pipes[j] = gr.pipes[j]
    BY <1>0 DEF PipeOK
  <2> HIDE DEF stages, pipes
  <2>7. SameRun(gr, new) /\ Keeps(gr, new) /\ new.pipes = pipes /\ new.stages = stages
    BY DEF SameRun, Keeps
  <2> HIDE DEF new
  <2>8. OneStage(gr, new, i) /\ new.spec = gr.spec
    BY <1>0, <2>5, <2>6, <2>7 DEF OneStage, SameRun, PipeOK
  <2>9. \A j \in DOMAIN gr.spec : j # i => new.pipes[j] = gr.pipes[j]
    BY <1>0, <2>6, <2>7 DEF PipeOK
  <2>10. PipeOK(new)
    BY <1>0, <2>1, <2>3, <2>4, <2>5, <2>6, <2>7, <2>8, <2>9, WritePipe
  <2>11. new.stages[i].pc = "program"
    BY <2>3, <2>5, <2>7
  <2> QED BY <1>0, <2>1, <2>2, <2>7, <2>8, <2>10, <2>11, StageInv
<1>7. CASE close_fds(g, i)
  <2> DEFINE stage == [old EXCEPT !.pc = "done", !.open = FALSE]
             ended == gr.pipes[i].closed \/ (old.open /\ stage_writes_pipe(gr.spec, i))
             pipe == [gr.pipes[i] EXCEPT !.closed = ended]
             pipes == [gr.pipes EXCEPT ![i] = pipe]
             stages == [gr.stages EXCEPT ![i] = stage]
             new == [gr EXCEPT !.stages = stages, !.pipes = pipes]
  <2>1. old.pc = "close" /\ UNCHANGED <<shell, told>>
    BY <1>7 DEF close_fds
  <2>2. graphs' = [graphs EXCEPT ![g] = new]
    BY <1>7 DEF close_fds
  <2>3. /\ stage.pc = "done" /\ stage.put = old.put /\ stage.got = old.got /\ stage.eof = old.eof
        /\ stage.exit = old.exit /\ stage.status = old.status
    OBVIOUS
  <2>4. pipe.data = gr.pipes[i].data /\ pipe.closed = ended
    OBVIOUS
  <2> HIDE DEF stage, pipe
  <2>5. /\ DOMAIN stages = DOMAIN gr.stages /\ stages[i] = stage
        /\ \A j \in DOMAIN gr.stages : j # i => stages[j] = gr.stages[j]
    OBVIOUS
  <2>6. /\ DOMAIN pipes = DOMAIN gr.pipes /\ pipes[i] = pipe
        /\ \A j \in DOMAIN gr.pipes : j # i => pipes[j] = gr.pipes[j]
    BY <1>0 DEF PipeOK
  <2> HIDE DEF stages, pipes
  <2>7. SameRun(gr, new) /\ Keeps(gr, new) /\ new.pipes = pipes /\ new.stages = stages
    BY DEF SameRun, Keeps
  <2> HIDE DEF new
  <2>8. OneStage(gr, new, i) /\ new.spec = gr.spec
    BY <1>0, <2>5, <2>6, <2>7 DEF OneStage, SameRun, PipeOK
  <2>9. \A j \in DOMAIN gr.spec : j # i => new.pipes[j] = gr.pipes[j]
    BY <1>0, <2>6, <2>7 DEF PipeOK
  <2>10. gr.pipes[i].closed => new.pipes[i].closed
    BY <2>4, <2>6, <2>7
  <2>11. PipeOK(new)
    BY <1>0, <2>3, <2>4, <2>5, <2>6, <2>7, <2>8, <2>9, <2>10, ClosePipe
  <2>12. ~gr.cancelled /\ new.stages[i].status # Error => new.stages[i].exit = new.stages[i].status
    BY <1>0, <2>1, <2>3, <2>5, <2>7 DEF StagesOK
  <2> QED BY <1>0, <2>1, <2>2, <2>7, <2>8, <2>11, <2>12, StageInv
<1> QED BY <1>1, <1>2, <1>3, <1>4, <1>5, <1>6, <1>7 DEF StageThread
-----------------------------------------------------------------------------
(* A change of the files, of the note or of the job's entry: stages and runner stay, a *)
(* note is not replaced, and files change only once the graph is cancelled.            *)
Marked(gr, new) ==
  /\ new.spec = gr.spec /\ new.pipes = gr.pipes /\ new.run = gr.run /\ new.result = gr.result
  /\ DOMAIN new.stages = DOMAIN gr.stages
  /\ \A i \in DOMAIN gr.spec :
       /\ new.stages[i].pc = gr.stages[i].pc /\ new.stages[i].status = gr.stages[i].status
       /\ new.stages[i].put = gr.stages[i].put /\ new.stages[i].got = gr.stages[i].got
       /\ new.stages[i].eof <=> gr.stages[i].eof
       /\ new.cancelled \/ new.stages[i].exit = gr.stages[i].exit \/ gr.stages[i].pc = "new"
  /\ Noted(gr) => new.note = gr.note
  /\ gr.cancelled => new.cancelled
  /\ new.cancelled \/ (new.status = gr.status /\ new.state = gr.state)

(* Such a change keeps GraphOK. *)
LEMMA MarkedOK ==
  ASSUME NEW gr, NEW new, GraphOK(gr), Marked(gr, new)
  PROVE  GraphOK(new) /\ pipeline_status(new) = pipeline_status(gr)
<1>0. PipeOK(gr) /\ RunOK(gr.run) /\ StagesOK(gr) /\ ResultOK(gr) /\ FilesOK(gr)
  BY DEF GraphOK
<1>1. /\ new.spec = gr.spec /\ new.pipes = gr.pipes /\ new.run = gr.run /\ new.result = gr.result
      /\ Noted(new) \/ ~Noted(gr)
  BY DEF Marked, Noted
<1>2. \A i \in DOMAIN gr.spec :
        /\ new.stages[i].pc = gr.stages[i].pc /\ new.stages[i].status = gr.stages[i].status
        /\ Finished(new.stages[i]) <=> Finished(gr.stages[i])
  BY DEF Marked, Finished
<1>3. PipeOK(new)
  <2>1. /\ new.spec \in Seq(StageSpec) /\ new.spec # <<>>
        /\ DOMAIN new.stages = DOMAIN new.spec /\ DOMAIN new.pipes = DOMAIN new.spec
        /\ \A j \in DOMAIN new.spec :
             new.stages[j].put \in Nat /\ new.stages[j].got \in Seq(Nat) /\ new.pipes[j].data \in Seq(Nat)
    BY <1>0, <1>1 DEF PipeOK, Marked
  <2>2. ASSUME NEW j \in DOMAIN new.spec, stage_writes_pipe(new.spec, j)
        PROVE  new.stages[j + 1].got \o new.pipes[j].data = Count(new.stages[j].put)
    <3>1. j + 1 \in DOMAIN gr.spec
      BY <1>0, <1>1, <2>2, SpecIs DEF stage_writes_pipe
    <3>2. gr.stages[j + 1].got \o gr.pipes[j].data = Count(gr.stages[j].put)
      BY <1>0, <1>1, <2>2 DEF PipeOK
    <3>3. new.stages[j + 1].got = gr.stages[j + 1].got /\ new.stages[j].put = gr.stages[j].put
      BY <1>1, <2>2, <3>1 DEF Marked
    <3> QED BY <1>1, <3>2, <3>3
  <2>3. ASSUME NEW j \in DOMAIN new.spec
        PROVE  /\ new.pipes[j].closed => new.stages[j].pc = "done"
               /\ new.stages[j].pc = "reading" => Input(new.spec, j) = "pipe"
               /\ new.stages[j].eof =>
                    Input(new.spec, j) = "pipe" /\ new.pipes[j - 1].closed /\ new.pipes[j - 1].data = <<>>
    BY <1>0, <1>1, <2>3 DEF PipeOK, Marked
  <2> QED BY <2>1, <2>2, <2>3 DEF PipeOK
<1>4. pipeline_status(new) = pipeline_status(gr)
  <2>1. DOMAIN new.stages = DOMAIN gr.spec /\ DOMAIN gr.stages = DOMAIN gr.spec
    BY <1>0 DEF Marked, PipeOK
  <2> QED BY <1>2, <2>1 DEF pipeline_status
<1>5. StagesOK(new)
  <2>1. Unspawned(new.run) => \A i \in DOMAIN new.spec : new.stages[i].pc = "new" /\ ~new.pipes[i].closed
    BY <1>0, <1>1, <1>2 DEF StagesOK
  <2>2. new.run.pc = "join" =>
          new.run.next \in DOMAIN new.spec /\ \A i \in 1..new.run.next - 1 : Finished(new.stages[i])
    <3> SUFFICES ASSUME gr.run.pc = "join"
                 PROVE  gr.run.next \in DOMAIN gr.spec /\ \A i \in 1..gr.run.next - 1 : Finished(new.stages[i])
      BY <1>1
    <3>1. gr.run.next \in DOMAIN gr.spec /\ \A i \in 1..gr.run.next - 1 : Finished(gr.stages[i])
      BY <1>0 DEF StagesOK
    <3>2. \A i \in 1..gr.run.next - 1 : i \in DOMAIN gr.spec
      <4>1. DOMAIN gr.spec = 1..Len(gr.spec) /\ Len(gr.spec) \in Nat
        BY <1>0, SpecIs
      <4>2. gr.run.next \in 1..Len(gr.spec)
        BY <3>1, <4>1
      <4> QED BY <4>1, <4>2
    <3> QED BY <1>2, <3>1, <3>2
  <2>3. new.run.pc = "collect" \/ Answered(new.run) \/ (new.run.pc = "done" /\ ~Noted(new)) =>
          \A i \in DOMAIN new.spec : Finished(new.stages[i])
    BY <1>0, <1>1, <1>2 DEF StagesOK
  <2>4. ~new.cancelled => \A i \in DOMAIN new.spec :
          new.stages[i].pc \in {"close", "done"} /\ new.stages[i].status # Error => new.stages[i].exit = new.stages[i].status
    BY <1>0, <1>1, <1>2 DEF StagesOK, Marked
  <2> QED BY <2>1, <2>2, <2>3, <2>4 DEF StagesOK
<1>6. ResultOK(new)
  BY <1>0, <1>1, <1>4 DEF ResultOK, Ended
<1>7. FilesOK(new)
  BY <1>0, <1>1 DEF FilesOK, Marked
<1> QED BY <1>0, <1>1, <1>3, <1>4, <1>5, <1>6, <1>7 DEF GraphOK

(* The note of a graph has left its marks. *)
NoteFine(gr) == Noted(gr) => gr.cancelled /\ (gr.bound => StatusTells(gr))

(* A graph that no send_note is at work on bears the marks of its note. *)
LEMMA NotesAreFine ==
  ASSUME JobsInv, NEW g \in DOMAIN graphs, ~NoteReaches(g, {"n_state", "n_status"})
  PROVE  NoteFine(graphs[g])
<1>1. ~NoteReaches(g, {"n_state"})
  BY DEF NoteReaches
<1> QED BY <1>1 DEF JobsInv, NotesOK, NoteFine, StatusTells

(* NotesOK after a step, from the marks each graph bears then. *)
LEMMA NotesStayFine ==
  ASSUME \A g \in DOMAIN graphs' :
           \/ NoteFine(graphs'[g])
           \/ shell'.pc = "n_state" /\ Target' = g
           \/ shell'.pc = "n_status" /\ Target' = g /\ graphs'[g].cancelled
  PROVE  NotesOK'
<1> SUFFICES ASSUME NEW h \in DOMAIN graphs', Noted(graphs'[h])
             PROVE  /\ graphs'[h].cancelled \/ (shell'.pc \in {"n_state"} /\ Target' = h)
                    /\ graphs'[h].bound =>
                         \/ graphs'[h].status[1] = "signal"
                         \/ shell'.pc \in {"n_state", "n_status"} /\ Target' = h
                         \/ Returns(graphs'[h].run) /\ graphs'[h].run.pc \in {"check", "sig_status"}
  BY DEF NotesOK, NoteReaches
<1> QED BY DEF NoteFine, StatusTells

(* What wait said stays true when no runner moves and no first note reaches a graph that *)
(* is no job.                                                                            *)
LEMMA ToldStays ==
  ASSUME JobsInv, told' = told,
         \A h \in DOMAIN graphs : GraphOK(graphs[h]) /\ h \in DOMAIN graphs' =>
           /\ graphs'[h].run = graphs[h].run /\ pipeline_status(graphs'[h]) = pipeline_status(graphs[h])
           /\ graphs'[h].listed => graphs[h].listed
           /\ graphs'[h].note = graphs[h].note \/ (~Noted(graphs[h]) /\ graphs[h].listed),
         DOMAIN graphs \subseteq DOMAIN graphs'
  PROVE  ToldOK'
<1> SUFFICES ASSUME NEW h \in DOMAIN told
             PROVE  /\ h \in DOMAIN graphs' /\ ~graphs'[h].listed
                    /\ Noted(graphs'[h]) \/ Ended(graphs'[h])
                    /\ told[h] = IF Noted(graphs'[h]) THEN signal_status(graphs'[h])
                                 ELSE IF graphs'[h].run.pc = "failed" THEN <<"failed">> ELSE pipeline_status(graphs'[h])
  BY DEF ToldOK
<1>1. /\ h \in DOMAIN graphs /\ ~graphs[h].listed
      /\ Noted(graphs[h]) \/ Ended(graphs[h])
      /\ told[h] = IF Noted(graphs[h]) THEN signal_status(graphs[h])
                   ELSE IF graphs[h].run.pc = "failed" THEN <<"failed">> ELSE pipeline_status(graphs[h])
  BY DEF JobsInv, ToldOK
<1>2. /\ h \in DOMAIN graphs' /\ graphs'[h].run = graphs[h].run /\ graphs'[h].note = graphs[h].note
      /\ pipeline_status(graphs'[h]) = pipeline_status(graphs[h]) /\ ~graphs'[h].listed
  BY <1>1 DEF JobsInv
<1>3. /\ Noted(graphs'[h]) <=> Noted(graphs[h])
      /\ signal_status(graphs'[h]) = signal_status(graphs[h])
      /\ Ended(graphs'[h]) <=> Ended(graphs[h])
  BY <1>2 DEF Noted, signal_status, Ended
<1> QED BY <1>1, <1>2, <1>3

(* Changing one graph's files, note or entry keeps JobsInv if the shell and the notes are *)
(* as they should be then.                                                                *)
LEMMA MarkInv ==
  ASSUME JobsInv, NEW g \in DOMAIN graphs, NEW new, graphs' = [graphs EXCEPT ![g] = new], told' = told,
         Marked(graphs[g], new), new.listed => graphs[g].listed,
         new.note = graphs[g].note \/ (~Noted(graphs[g]) /\ graphs[g].listed),
         ShellOK', NotesOK'
  PROVE  JobsInv'
<1>1. /\ IsTable(graphs') /\ DOMAIN graphs' = DOMAIN graphs /\ graphs'[g] = new
      /\ \A h \in DOMAIN graphs : h # g => graphs'[h] = graphs[h]
  BY ExceptTable DEF JobsInv
<1>2. GraphOK(new) /\ pipeline_status(new) = pipeline_status(graphs[g]) /\ new.run = graphs[g].run
  BY MarkedOK DEF JobsInv, Marked
<1>3. \A h \in DOMAIN graphs' : GraphOK(graphs'[h])
  BY <1>1, <1>2 DEF JobsInv
<1>4. \A h \in DOMAIN graphs :
        /\ graphs'[h].run = graphs[h].run /\ pipeline_status(graphs'[h]) = pipeline_status(graphs[h])
        /\ graphs'[h].listed => graphs[h].listed
        /\ graphs'[h].note = graphs[h].note \/ (~Noted(graphs[h]) /\ graphs[h].listed)
  BY <1>1, <1>2
<1>5. ToldOK'
  BY <1>1, <1>4, ToldStays
<1> QED BY <1>1, <1>3, <1>5 DEF JobsInv
-----------------------------------------------------------------------------
(* send_note starts on a list of jobs, or on a graph that is none, or goes on at once. *)
LEMMA SendingIs ==
  ASSUME NEW list, NEW note, NEW direct, NEW then, shell' = Sending(list, note, direct, then),
         list \subseteq DOMAIN graphs',
         ~direct => \A g \in list : graphs'[g].listed \/ Noted(graphs'[g]),
         \/ then = Idle
         \/ /\ then.pc = "wait" /\ then.list # {} /\ then.list \subseteq DOMAIN graphs'
            /\ \A g \in then.list : ~graphs'[g].listed
  PROVE  ShellOK' /\ shell'.pc \notin {"n_status"} /\ (shell'.pc = "n_state" => direct)
<1>1. CASE list = {}
  <2>1. shell' = then
    BY <1>1 DEF Sending
  <2> QED BY <2>1 DEF ShellOK, WaitList, IsList, Idle
<1>2. CASE list # {}
  <2> DEFINE pc == IF direct THEN "n_state" ELSE "n_set"
  <2>1. shell' = [pc |-> pc, list |-> list, note |-> note, direct |-> direct, then |-> then]
    BY <1>2 DEF Sending
  <2>2. pc \in {"n_state", "n_set"} /\ (pc = "n_set" => ~direct) /\ (pc = "n_state" => direct)
    OBVIOUS
  <2> HIDE DEF pc
  <2>3. shell'.pc = pc /\ shell'.list = list /\ (shell'.direct <=> direct) /\ shell'.then = then
    BY <2>1
  <2>4. SendOK'
    BY <1>2, <2>2, <2>3 DEF SendOK, IsList, WaitList
  <2> QED BY <2>2, <2>3, <2>4 DEF ShellOK, Notifying
<1> QED BY <1>1, <1>2

(* What a wait goes on with after send_note. *)
LEMMA WaitingIs ==
  ASSUME NEW list, list \subseteq DOMAIN graphs', \A g \in list : ~graphs'[g].listed
  PROVE  \/ Waiting(list) = Idle
         \/ /\ Waiting(list).pc = "wait" /\ Waiting(list).list # {} /\ Waiting(list).list \subseteq DOMAIN graphs'
            /\ \A g \in Waiting(list).list : ~graphs'[g].listed
BY DEF Waiting

(* A wait that starts has a list of jobs that left the table. *)
LEMMA WaitingInv ==
  ASSUME NEW list, shell' = Waiting(list), list \subseteq DOMAIN graphs', \A g \in list : ~graphs'[g].listed
  PROVE  ShellOK' /\ shell'.pc \notin {"n_state", "n_status"}
<1>1. CASE list = {}
  <2>1. shell' = Idle
    BY <1>1 DEF Waiting
  <2> QED BY <2>1 DEF ShellOK, Idle
<1>2. CASE list # {}
  <2>1. shell' = [pc |-> "wait", list |-> list]
    BY <1>2 DEF Waiting
  <2>2. shell'.pc = "wait" /\ shell'.list = list
    BY <2>1
  <2> QED BY <1>2, <2>2 DEF ShellOK, WaitList, IsList
<1> QED BY <1>1, <1>2

(* A step of the shell that changes no graph keeps JobsInv. *)
LEMMA ShellOnly ==
  ASSUME JobsInv, UNCHANGED <<graphs, told>>, ShellOK', \A g \in DOMAIN graphs : NoteFine(graphs[g])
  PROVE  JobsInv'
<1>1. NotesOK'
  BY NotesStayFine
<1>2. ToldOK'
  BY ToldStays DEF JobsInv, ToldOK
<1> QED BY <1>1, <1>2 DEF JobsInv

(* What send_note knows of the graph it is at. *)
LEMMA SenderIs ==
  ASSUME JobsInv, shell.pc \in Notifying
  PROVE  SendOK /\ Target \in shell.list /\ Target \in DOMAIN graphs /\ shell.list \subseteq DOMAIN graphs
<1>1. SendOK
  BY DEF JobsInv, ShellOK, Notifying, Idle
<1>2. IsTable(graphs) /\ IsList(shell.list)
  BY <1>1 DEF SendOK, JobsInv
<1> QED BY <1>1, <1>2, TargetIs DEF IsList

(* A step of send_note that changes its graph and goes on with it keeps JobsInv. *)
LEMMA SenderInv ==
  ASSUME JobsInv, shell.pc \in Notifying, NEW new, NEW pc, Sender(new, pc), Marked(graphs[Target], new),
         pc \in Notifying \ {"n_set"},
         pc # "n_state" => new.cancelled, new.listed <=> graphs[Target].listed,
         new.note = graphs[Target].note \/ (~Noted(graphs[Target]) /\ graphs[Target].listed),
         pc \in {"n_state", "n_status"} \/ NoteFine(new),
         \A g \in DOMAIN graphs : g # Target => NoteFine(graphs[g])
  PROVE  JobsInv'
<1>0. SendOK /\ Target \in shell.list /\ Target \in DOMAIN graphs /\ shell.list \subseteq DOMAIN graphs
  BY SenderIs
<1>1. graphs' = [graphs EXCEPT ![Target] = new] /\ told' = told /\ shell' = [shell EXCEPT !.pc = pc]
  BY DEF Sender, SetGraph
<1>2. /\ shell'.pc = pc /\ shell'.list = shell.list /\ (shell'.direct <=> shell.direct)
      /\ shell'.then = shell.then
  BY <1>1
<1>3. Target' = Target
  BY <1>2 DEF Target
<1>4. /\ DOMAIN graphs' = DOMAIN graphs /\ graphs'[Target] = new
      /\ \A h \in DOMAIN graphs : h # Target => graphs'[h] = graphs[h]
  BY <1>0, <1>1, ExceptTable DEF JobsInv
<1>5. Noted(graphs[Target]) => Noted(new)
  BY DEF Noted
<1>6. \A h \in DOMAIN graphs :
        /\ graphs'[h].listed <=> graphs[h].listed
        /\ Noted(graphs[h]) => Noted(graphs'[h])
  BY <1>4, <1>5
<1>7. shell.then = Idle \/ (shell.then.pc = "wait" /\ shell.then.list # {} /\ shell.then.list \subseteq DOMAIN graphs
                            /\ \A g \in shell.then.list : ~graphs'[g].listed)
  BY <1>0, <1>6 DEF SendOK, WaitList, IsList
<1>8. SendOK'
  BY <1>0, <1>2, <1>3, <1>4, <1>6, <1>7 DEF SendOK, WaitList, IsList
<1>9. ShellOK'
  BY <1>2, <1>8 DEF ShellOK
<1>10. NotesOK'
  <2>1. \A g \in DOMAIN graphs' :
           \/ NoteFine(graphs'[g])
           \/ shell'.pc = "n_state" /\ Target' = g
           \/ shell'.pc = "n_status" /\ Target' = g /\ graphs'[g].cancelled
    BY <1>2, <1>3, <1>4
  <2> QED BY <2>1, NotesStayFine
<1> QED BY <1>0, <1>1, <1>9, <1>10, MarkInv

(* Setting the note, writing the state and the status and appending to the notes file *)
(* keep JobsInv.                                                                      *)
LEMMA NoteStepInv ==
  ASSUME JobsInv, set_note \/ note_state \/ note_status \/ note_append
  PROVE  JobsInv'
<1> DEFINE gr == graphs[Target]
<1>0. shell.pc \in Notifying /\ SendOK /\ Target \in shell.list /\ Target \in DOMAIN graphs
  BY SenderIs DEF set_note, note_state, note_status, note_append, Notifying
<1>1. \A g \in DOMAIN graphs : g # Target => NoteFine(graphs[g])
  BY NotesAreFine DEF NoteReaches
<1>2. CASE set_note
  <2> DEFINE note == IF Noted(gr) THEN gr.note ELSE <<shell.note>>
             new == [gr EXCEPT !.note = note]
  <2>1. shell.pc = "n_set" /\ Sender(new, "n_state")
    BY <1>2 DEF set_note
  <2>2. Noted(gr) => note = gr.note
    OBVIOUS
  <2> HIDE DEF note
  <2>3. /\ Marked(gr, new) /\ (new.listed <=> gr.listed) /\ new.note = note
    BY <2>2 DEF Marked
  <2>4. gr.listed \/ Noted(gr)
    BY <1>0, <2>1 DEF SendOK
  <2> HIDE DEF new
  <2>5. "n_state" \in Notifying \ {"n_set"}
    BY DEF Notifying
  <2> QED BY <1>0, <1>1, <2>1, <2>2, <2>3, <2>4, <2>5, SenderInv
<1>3. CASE note_state
  <2> DEFINE state == IF gr.bound THEN "signaled" ELSE gr.state
             new == [gr EXCEPT !.state = state, !.cancelled = TRUE]
  <2>1. shell.pc = "n_state" /\ Sender(new, "n_status")
    BY <1>3 DEF note_state
  <2> HIDE DEF state
  <2>3. Marked(gr, new) /\ (new.listed <=> gr.listed) /\ new.note = gr.note /\ new.cancelled
    BY DEF Marked
  <2> HIDE DEF new
  <2>5. "n_status" \in Notifying \ {"n_set"}
    BY DEF Notifying
  <2> QED BY <1>0, <1>1, <2>1, <2>3, <2>5, SenderInv
<1>4. CASE note_status
  <2> DEFINE status == IF gr.bound THEN Signal(shell.note) ELSE gr.status
             new == [gr EXCEPT !.status = status]
  <2>1. shell.pc = "n_status" /\ Sender(new, "n_notes")
    BY <1>4 DEF note_status
  <2>2. gr.cancelled
    BY <1>0, <2>1 DEF SendOK
  <2>3. gr.bound => status[1] = "signal"
    BY DEF Signal
  <2> HIDE DEF status
  <2>4. /\ Marked(gr, new) /\ (new.listed <=> gr.listed) /\ new.note = gr.note /\ new.cancelled
        /\ new.status = status /\ (new.bound <=> gr.bound)
    BY <2>2 DEF Marked
  <2> HIDE DEF new
  <2>5. "n_notes" \in Notifying \ {"n_set"}
    BY DEF Notifying
  <2>6. NoteFine(new)
    BY <2>3, <2>4 DEF NoteFine, StatusTells
  <2> QED BY <1>0, <1>1, <2>1, <2>4, <2>5, <2>6, SenderInv
<1>5. CASE note_append
  <2> DEFINE notes == IF gr.bound THEN Append(shell.notes, shell.note) ELSE gr.notes
             new == [gr EXCEPT !.notes = notes]
  <2>1. shell.pc = "n_append" /\ Sender(new, "n_exit")
    BY <1>5 DEF note_append
  <2>2. gr.cancelled /\ NoteFine(gr)
    BY <1>0, <2>1, NotesAreFine DEF SendOK, NoteReaches
  <2> HIDE DEF notes
  <2>4. /\ Marked(gr, new) /\ (new.listed <=> gr.listed) /\ new.note = gr.note /\ new.cancelled
        /\ new.status = gr.status /\ (new.bound <=> gr.bound) /\ new.run = gr.run
    BY <2>2 DEF Marked
  <2> HIDE DEF new
  <2>5. "n_exit" \in Notifying \ {"n_set"}
    BY DEF Notifying
  <2>6. NoteFine(new)
    BY <2>2, <2>4 DEF NoteFine, StatusTells, Noted
  <2> QED BY <1>0, <1>1, <2>1, <2>4, <2>5, <2>6, SenderInv
<1> QED BY <1>2, <1>3, <1>4, <1>5

(* Between the writes of send_note every graph bears the marks of its note. *)
LEMMA FineOutside ==
  ASSUME JobsInv, shell.pc \notin {"n_state", "n_status"}
  PROVE  \A g \in DOMAIN graphs : NoteFine(graphs[g])
BY NotesAreFine DEF NoteReaches

(* Reading the notes file keeps JobsInv. *)
LEMMA NoteReadInv ==
  ASSUME JobsInv, note_read
  PROVE  JobsInv'
<1> DEFINE notes == graphs[Target].notes
<1>0. shell.pc = "n_notes" /\ shell.pc \in Notifying
  BY DEF note_read, Notifying
<1>1. /\ UNCHANGED <<graphs, told>>
      /\ shell' = [pc |-> "n_append", list |-> shell.list, note |-> shell.note, direct |-> shell.direct,
                   then |-> shell.then, notes |-> notes]
  BY DEF note_read
<1> HIDE DEF notes
<1>2. SendOK
  BY <1>0, SenderIs
<1>3. /\ shell'.pc = "n_append" /\ shell'.list = shell.list /\ (shell'.direct <=> shell.direct)
      /\ shell'.then = shell.then
  BY <1>1
<1>4. Target' = Target
  BY <1>3 DEF Target
<1>5. SendOK'
  BY <1>0, <1>1, <1>2, <1>3, <1>4 DEF SendOK, WaitList, IsList
<1>6. ShellOK'
  BY <1>3, <1>5 DEF ShellOK, Notifying
<1> QED BY <1>0, <1>1, <1>6, FineOutside, ShellOnly

(* Writing the exit files of the tasks keeps JobsInv. *)
LEMMA NoteExitsInv ==
  ASSUME JobsInv, note_exits
  PROVE  JobsInv'
<1> DEFINE gr == graphs[Target]
           told_of(i) == [gr.stages[i] EXCEPT !.exit = Signal(shell.note)]
           stages == IF gr.tasks /\ ~shell.direct THEN [i \in DOMAIN gr.stages |-> told_of(i)] ELSE gr.stages
           new == [gr EXCEPT !.stages = stages]
<1>0. /\ shell.pc = "n_exit" /\ SendOK /\ Target \in shell.list /\ Target \in DOMAIN graphs
      /\ shell.list \subseteq DOMAIN graphs
  BY SenderIs DEF note_exits, Notifying
<1>1. /\ graphs' = [graphs EXCEPT ![Target] = new] /\ told' = told
      /\ shell' = Sending(Rest, shell.note, shell.direct, shell.then)
  BY DEF note_exits, SetGraph
<1>2. gr.cancelled /\ PipeOK(gr)
  BY <1>0 DEF SendOK, JobsInv, GraphOK
<1>3. \A i : told_of(i).pc = gr.stages[i].pc /\ told_of(i).status = gr.stages[i].status
             /\ told_of(i).put = gr.stages[i].put /\ told_of(i).got = gr.stages[i].got
             /\ told_of(i).eof = gr.stages[i].eof
  OBVIOUS
<1> HIDE DEF told_of
<1>4. DOMAIN stages = DOMAIN gr.stages
      /\ \A i \in DOMAIN gr.stages : stages[i] = gr.stages[i] \/ stages[i] = told_of(i)
  OBVIOUS
<1> HIDE DEF stages
<1>5. /\ new.stages = stages /\ new.spec = gr.spec /\ new.pipes = gr.pipes /\ new.run = gr.run
      /\ new.result = gr.result /\ new.note = gr.note /\ new.cancelled = gr.cancelled
      /\ (new.listed <=> gr.listed) /\ (new.bound <=> gr.bound) /\ new.status = gr.status
      /\ new.state = gr.state
  OBVIOUS
<1> HIDE DEF new
<1>6. \A i \in DOMAIN gr.spec :
       /\ new.stages[i].pc = gr.stages[i].pc /\ new.stages[i].status = gr.stages[i].status
       /\ new.stages[i].put = gr.stages[i].put /\ new.stages[i].got = gr.stages[i].got
       /\ new.stages[i].eof <=> gr.stages[i].eof
  <2> SUFFICES ASSUME NEW i \in DOMAIN gr.spec
               PROVE  /\ new.stages[i].pc = gr.stages[i].pc /\ new.stages[i].status = gr.stages[i].status
                      /\ new.stages[i].put = gr.stages[i].put /\ new.stages[i].got = gr.stages[i].got
                      /\ new.stages[i].eof <=> gr.stages[i].eof
    OBVIOUS
  <2>1. i \in DOMAIN gr.stages
    BY <1>2 DEF PipeOK
  <2>2. new.stages[i] = gr.stages[i] \/ new.stages[i] = told_of(i)
    BY <1>4, <1>5, <2>1
  <2> QED BY <1>3, <2>2
<1>7. Marked(gr, new)
  BY <1>2, <1>4, <1>5, <1>6 DEF Marked
<1>8. /\ DOMAIN graphs' = DOMAIN graphs /\ graphs'[Target] = new
      /\ \A h \in DOMAIN graphs : h # Target => graphs'[h] = graphs[h]
  BY <1>0, <1>1, ExceptTable DEF JobsInv
<1>9. Noted(new) <=> Noted(gr)
  BY <1>5 DEF Noted
<1>10. \A h \in DOMAIN graphs :
         (graphs'[h].listed <=> graphs[h].listed) /\ (Noted(graphs'[h]) <=> Noted(graphs[h]))
  BY <1>5, <1>8, <1>9
<1>11. ShellOK' /\ shell'.pc \notin {"n_status"}
  <2> DEFINE rest == Rest
             note == shell.note
             direct == shell.direct
             then == shell.then
  <2>1. shell' = Sending(rest, note, direct, then)
    BY <1>1
  <2>2. rest \subseteq shell.list /\ rest \subseteq DOMAIN graphs'
    BY <1>0, <1>8 DEF Rest
  <2>3. ~direct => \A g \in rest : graphs'[g].listed \/ Noted(graphs'[g])
    BY <1>0, <1>8, <1>10, <2>2 DEF SendOK
  <2>4. \/ then = Idle
        \/ /\ then.pc = "wait" /\ then.list # {} /\ then.list \subseteq DOMAIN graphs'
           /\ \A g \in then.list : ~graphs'[g].listed
    BY <1>0, <1>8, <1>10 DEF SendOK, WaitList, IsList
  <2> HIDE DEF rest, note, direct, then
  <2> QED BY <2>1, <2>2, <2>3, <2>4, SendingIs
<1>12. NoteFine(gr) /\ \A g \in DOMAIN graphs : NoteFine(graphs[g])
  BY <1>0, FineOutside
<1>13. NoteFine(new)
  BY <1>5, <1>9, <1>12 DEF NoteFine, StatusTells
<1>14. NotesOK'
  BY <1>8, <1>12, <1>13, NotesStayFine
<1> QED BY <1>0, <1>1, <1>5, <1>7, <1>11, <1>14, MarkInv

(* Unbinding the files of a graph keeps JobsInv. *)
LEMMA UnbindInv ==
  ASSUME JobsInv, cleanup_unbind
  PROVE  JobsInv'
<1> DEFINE g == shell.g
           new == [graphs[g] EXCEPT !.listed = FALSE, !.bound = FALSE]
<1>0. shell.pc = "unbind" /\ g \in DOMAIN graphs
  BY DEF cleanup_unbind, JobsInv, ShellOK, Notifying, Idle
<1>1. graphs' = [graphs EXCEPT ![g] = new] /\ told' = told /\ shell' = Idle
  BY DEF cleanup_unbind
<1>2. Marked(graphs[g], new) /\ ~new.listed /\ ~new.bound /\ new.note = graphs[g].note /\ new.cancelled = graphs[g].cancelled
  BY DEF Marked
<1> HIDE DEF new
<1>3. \A h \in DOMAIN graphs : NoteFine(graphs[h])
  BY <1>0, FineOutside
<1>4. NoteFine(new)
  BY <1>0, <1>2, <1>3 DEF NoteFine, Noted
<1>5. /\ DOMAIN graphs' = DOMAIN graphs /\ graphs'[g] = new
      /\ \A h \in DOMAIN graphs : h # g => graphs'[h] = graphs[h]
  BY <1>0, <1>1, ExceptTable DEF JobsInv
<1>6. NotesOK'
  BY <1>3, <1>4, <1>5, NotesStayFine
<1>7. ShellOK'
  BY <1>1 DEF ShellOK
<1> QED BY <1>0, <1>1, <1>2, <1>6, <1>7, MarkInv

(* finish_process_graph keeps JobsInv: no thread runs the stages of an evaluated graph. *)
LEMMA FinishInv ==
  ASSUME JobsInv, finish_process_graph
  PROVE  JobsInv'
<1> DEFINE g == shell.g
           gr == graphs[g]
<1>0. shell.pc = "evaluate" /\ g \in DOMAIN graphs /\ gr.run.pc = "evaluated"
  BY DEF finish_process_graph, JobsInv, ShellOK, Notifying, Idle
<1>1. PipeOK(gr) /\ StagesOK(gr)
  BY <1>0 DEF JobsInv, GraphOK
<1>2. \A i \in DOMAIN gr.spec : gr.stages[i].pc = "new"
  BY <1>0, <1>1 DEF StagesOK, Unspawned
<1>3. PICK c \in [DOMAIN gr.spec -> {"0", "1"}] :
        graphs' = [graphs EXCEPT ![g].stages = [i \in DOMAIN c |-> [gr.stages[i] EXCEPT !.exit = Code(c[i])]]]
  BY DEF finish_process_graph
<1> DEFINE exit_of(i) == [gr.stages[i] EXCEPT !.exit = Code(c[i])]
           stages == [i \in DOMAIN gr.spec |-> exit_of(i)]
           new == [gr EXCEPT !.stages = stages]
<1>4. graphs' = [graphs EXCEPT ![g] = new] /\ told' = told /\ shell' = Idle
  BY <1>3 DEF finish_process_graph
<1>5. \A i : exit_of(i).pc = gr.stages[i].pc /\ exit_of(i).status = gr.stages[i].status
             /\ exit_of(i).put = gr.stages[i].put /\ exit_of(i).got = gr.stages[i].got
             /\ exit_of(i).eof = gr.stages[i].eof
  OBVIOUS
<1> HIDE DEF exit_of
<1>6. DOMAIN stages = DOMAIN gr.spec /\ \A i \in DOMAIN gr.spec : stages[i] = exit_of(i)
  OBVIOUS
<1> HIDE DEF stages
<1>7. /\ new.stages = stages /\ new.spec = gr.spec /\ new.pipes = gr.pipes /\ new.run = gr.run
      /\ new.result = gr.result /\ new.note = gr.note /\ new.cancelled = gr.cancelled
      /\ (new.listed <=> gr.listed) /\ (new.bound <=> gr.bound) /\ new.status = gr.status
      /\ new.state = gr.state
  OBVIOUS
<1> HIDE DEF new
<1>8. Marked(gr, new)
  <2>1. \A i \in DOMAIN gr.spec :
          /\ new.stages[i].pc = gr.stages[i].pc /\ new.stages[i].status = gr.stages[i].status
          /\ new.stages[i].put = gr.stages[i].put /\ new.stages[i].got = gr.stages[i].got
          /\ new.stages[i].eof <=> gr.stages[i].eof
    BY <1>5, <1>6, <1>7
  <2>2. DOMAIN new.stages = DOMAIN gr.stages
    BY <1>1, <1>6, <1>7 DEF PipeOK
  <2> QED BY <1>2, <1>7, <2>1, <2>2 DEF Marked
<1>9. \A h \in DOMAIN graphs : NoteFine(graphs[h])
  BY <1>0, FineOutside
<1>10. NoteFine(new)
  BY <1>0, <1>7, <1>9 DEF NoteFine, StatusTells, Noted
<1>11. /\ DOMAIN graphs' = DOMAIN graphs /\ graphs'[g] = new
      /\ \A h \in DOMAIN graphs : h # g => graphs'[h] = graphs[h]
  BY <1>0, <1>4, ExceptTable DEF JobsInv
<1>12. NotesOK'
  BY <1>9, <1>10, <1>11, NotesStayFine
<1>13. ShellOK'
  BY <1>4 DEF ShellOK
<1> QED BY <1>0, <1>4, <1>7, <1>8, <1>12, <1>13, MarkInv

(* A wait that returns, with the note of the job or with its result, tells the truth. *)
LEMMA WaitNextInv ==
  ASSUME JobsInv, wait_next
  PROVE  JobsInv'
<1> DEFINE g == Target
           gr == graphs[Target]
           rest == Rest
<1>0. shell.pc = "wait" /\ WaitList(shell.list) /\ (Noted(gr) \/ gr.result # None) /\ UNCHANGED graphs
  BY DEF wait_next, JobsInv, ShellOK, Notifying, Idle
<1>1. g \in shell.list /\ g \in DOMAIN graphs /\ ~gr.listed
  BY <1>0, TargetIs DEF JobsInv, WaitList
<1>2. rest \subseteq DOMAIN graphs' /\ \A h \in rest : ~graphs'[h].listed
  BY <1>0 DEF Rest, WaitList, IsList
<1>3. \A h \in DOMAIN graphs : NoteFine(graphs[h])
  BY <1>0, FineOutside
<1>4. ASSUME NEW status, Tell(g, status),
             status = IF Noted(gr) THEN signal_status(gr)
                      ELSE IF gr.run.pc = "failed" THEN <<"failed">> ELSE pipeline_status(gr),
             Noted(gr) \/ Ended(gr), ShellOK'
      PROVE  JobsInv'
  <2>1. NotesOK'
    BY <1>0, <1>3, NotesStayFine
  <2>2. DOMAIN told' = DOMAIN told \cup {g} /\ \A h \in DOMAIN told' : told'[h] = IF h = g THEN status ELSE told[h]
    BY <1>4 DEF Tell
  <2>3. ASSUME NEW h \in DOMAIN told'
        PROVE  /\ h \in DOMAIN graphs /\ ~graphs[h].listed
               /\ Noted(graphs[h]) \/ Ended(graphs[h])
               /\ told'[h] = IF Noted(graphs[h]) THEN signal_status(graphs[h])
                             ELSE IF graphs[h].run.pc = "failed" THEN <<"failed">> ELSE pipeline_status(graphs[h])
    <3>1. CASE h = g
      BY <1>1, <1>4, <2>2, <3>1
    <3>2. CASE h # g
      <4>1. h \in DOMAIN told /\ told'[h] = told[h]
        BY <2>2, <2>3, <3>2
      <4> QED BY <4>1 DEF JobsInv, ToldOK
    <3> QED BY <3>1, <3>2
  <2>4. ToldOK'
    BY <1>0, <2>3 DEF ToldOK
  <2> QED BY <1>0, <1>4, <2>1, <2>4 DEF JobsInv
<1>5. CASE Noted(gr)
  <2> DEFINE note == gr.note[1]
             then == Waiting(rest)
  <2>1. Tell(g, signal_status(gr)) /\ shell' = Sending({g}, note, FALSE, then)
    BY <1>5 DEF wait_next
  <2>2. \/ then = Idle
        \/ /\ then.pc = "wait" /\ then.list # {} /\ then.list \subseteq DOMAIN graphs'
           /\ \A h \in then.list : ~graphs'[h].listed
    BY <1>2, WaitingIs
  <2>3. {g} \subseteq DOMAIN graphs' /\ \A h \in {g} : Noted(graphs'[h])
    BY <1>0, <1>1, <1>5
  <2> DEFINE list == {g}
  <2>4. shell' = Sending(list, note, FALSE, then) /\ list \subseteq DOMAIN graphs' /\ \A h \in list : Noted(graphs'[h])
    BY <2>1, <2>3
  <2> HIDE DEF note, then, list
  <2>5. ShellOK'
    BY <2>2, <2>4, SendingIs
  <2> QED BY <1>4, <1>5, <2>1, <2>5
<1>6. CASE ~Noted(gr)
  <2>1. Tell(g, gr.result) /\ shell' = Waiting(rest)
    BY <1>6 DEF wait_next
  <2> HIDE DEF rest
  <2>2. ShellOK'
    BY <1>2, <2>1, WaitingInv
  <2>3. ResultOK(gr)
    BY <1>1 DEF JobsInv, GraphOK
  <2>4. Ended(gr) /\ gr.result = IF gr.run.pc = "failed" THEN <<"failed">> ELSE pipeline_status(gr)
    BY <1>0, <1>6, <2>3 DEF ResultOK, Ended
  <2> QED BY <1>4, <1>6, <2>1, <2>2, <2>4
<1> QED BY <1>5, <1>6

-----------------------------------------------------------------------------
(* A graph whose stages have not begun is coherent. *)
LEMMA FreshOK ==
  ASSUME NEW gr, gr.spec \in Seq(StageSpec), gr.spec # <<>>,
         DOMAIN gr.stages = DOMAIN gr.spec, DOMAIN gr.pipes = DOMAIN gr.spec,
         \A i \in DOMAIN gr.spec :
           /\ gr.stages[i].pc = "new" /\ gr.stages[i].put = 0 /\ gr.stages[i].got = <<>> /\ ~gr.stages[i].eof
           /\ gr.pipes[i].data = <<>> /\ ~gr.pipes[i].closed,
         gr.run.pc \in {"plan", "evaluated"}, gr.result = None
  PROVE  GraphOK(gr)
<1>1. \A i \in DOMAIN gr.spec : gr.stages[i].put \in Nat /\ gr.stages[i].got \in Seq(Nat) /\ gr.pipes[i].data \in Seq(Nat)
  <2>1. 0 \in Nat /\ <<>> \in Seq(Nat)
    OBVIOUS
  <2> QED BY <2>1
<1>2. ASSUME NEW i \in DOMAIN gr.spec, stage_writes_pipe(gr.spec, i)
      PROVE  gr.stages[i + 1].got \o gr.pipes[i].data = Count(gr.stages[i].put)
  <2>1. i + 1 \in DOMAIN gr.spec
    <3>1. Len(gr.spec) \in Nat /\ DOMAIN gr.spec = 1..Len(gr.spec)
      BY LenProperties
    <3> QED BY <1>2, <3>1 DEF stage_writes_pipe
  <2>2. gr.stages[i + 1].got = <<>> /\ gr.pipes[i].data = <<>> /\ gr.stages[i].put = 0
    BY <2>1
  <2>3. Count(0) = <<>>
    BY DEF Count
  <2>4. <<>> \o <<>> = <<>>
    OBVIOUS
  <2> QED BY <2>2, <2>3, <2>4
<1>3. PipeOK(gr)
  BY <1>1, <1>2 DEF PipeOK
<1>4. RunOK(gr.run) /\ Unspawned(gr.run) /\ ~Answered(gr.run) /\ ~Ended(gr)
  BY DEF RunOK, Unspawned, Answered, Returns, Writes, Ended
<1>5. StagesOK(gr)
  BY <1>4 DEF StagesOK, Ended
<1>6. ResultOK(gr)
  BY <1>4 DEF ResultOK, Ended
<1>7. FilesOK(gr)
  BY <1>4 DEF FilesOK, Ended, Answered
<1> QED BY <1>3, <1>4, <1>5, <1>6, <1>7 DEF GraphOK

(* A graph that is started is coherent. *)
LEMMA NewGraphOK ==
  ASSUME NEW kind, NEW spec \in Seq(StageSpec), spec # <<>>
  PROVE  GraphOK(NewGraph(kind, spec)) /\ ~Noted(NewGraph(kind, spec))
<1> DEFINE new == NewGraph(kind, spec)
           stages == [i \in DOMAIN spec |-> NewStage]
           pipe == [data |-> <<>>, closed |-> FALSE]
           pipes == [i \in DOMAIN spec |-> pipe]
<1>1. /\ new.spec = spec /\ new.stages = stages /\ new.pipes = pipes /\ new.run = [pc |-> "plan"]
      /\ new.result = None /\ new.note = <<>>
  BY DEF NewGraph
<1>2. NewStage.pc = "new" /\ NewStage.put = 0 /\ NewStage.got = <<>> /\ ~NewStage.eof
  BY DEF NewStage
<1>3. pipe.data = <<>> /\ ~pipe.closed
  OBVIOUS
<1> HIDE DEF new, pipe
<1>4. \A i \in DOMAIN spec : stages[i] = NewStage /\ pipes[i] = pipe
  OBVIOUS
<1>5. DOMAIN stages = DOMAIN spec /\ DOMAIN pipes = DOMAIN spec
  OBVIOUS
<1> HIDE DEF stages, pipes
<1>6. new.run.pc = "plan"
  BY <1>1
<1>7. GraphOK(new)
  BY <1>1, <1>2, <1>3, <1>4, <1>5, <1>6, FreshOK
<1> QED BY <1>1, <1>7 DEF new, Noted

(* A graph that the evaluator runs is coherent. *)
LEMMA PreparedOK ==
  ASSUME NEW spec \in Seq(StageSpec), spec # <<>>
  PROVE  GraphOK(Prepared(spec)) /\ ~Noted(Prepared(spec)) /\ Prepared(spec).run.pc = "evaluated"
<1> DEFINE fresh == NewGraph("Evaluated", spec)
           stage == [NewStage EXCEPT !.exit = <<"planned">>]
           stages == [i \in DOMAIN spec |-> stage]
           new == Prepared(spec)
           pipe == [data |-> <<>>, closed |-> FALSE]
           pipes == [i \in DOMAIN spec |-> pipe]
<1>1. fresh.spec = spec /\ fresh.pipes = pipes /\ fresh.result = None /\ fresh.note = <<>>
  BY DEF NewGraph
<1>2. new = [fresh EXCEPT !.state = "planned", !.status = <<"planned">>, !.run = Goto("evaluated"), !.stages = stages]
  BY DEF Prepared
<1>3. stage.pc = "new" /\ stage.put = 0 /\ stage.got = <<>> /\ ~stage.eof
  BY DEF NewStage
<1>4. pipe.data = <<>> /\ ~pipe.closed
  OBVIOUS
<1> HIDE DEF fresh, stage, pipe
<1>5. \A i \in DOMAIN spec : stages[i] = stage /\ pipes[i] = pipe
  OBVIOUS
<1>6. DOMAIN stages = DOMAIN spec /\ DOMAIN pipes = DOMAIN spec
  OBVIOUS
<1> HIDE DEF stages, pipes, new
<1>7. /\ new.spec = spec /\ new.stages = stages /\ new.pipes = pipes /\ new.run = Goto("evaluated")
      /\ new.result = None /\ new.note = <<>>
  BY <1>1, <1>2
<1>8. new.run.pc = "evaluated"
  BY <1>7, GotoIs
<1>9. GraphOK(new)
  BY <1>3, <1>4, <1>5, <1>6, <1>7, <1>8, FreshOK
<1> QED BY <1>7, <1>8, <1>9 DEF new, Noted

(* Adding a graph keeps JobsInv. *)
LEMMA AppendInv ==
  ASSUME JobsInv, NEW new, graphs' = Append(graphs, new), told' = told, GraphOK(new), ~Noted(new),
         shell.pc \notin {"n_state", "n_status"}, ShellOK'
  PROVE  JobsInv'
<1>1. /\ IsTable(graphs') /\ DOMAIN graphs' = DOMAIN graphs \cup {Len(graphs) + 1} /\ graphs'[Len(graphs) + 1] = new
      /\ \A h \in DOMAIN graphs : graphs'[h] = graphs[h]
  <2> DEFINE s == graphs
             t == graphs'
  <2>1. IsTable(s) /\ t = Append(s, new)
    BY DEF JobsInv
  <2> HIDE DEF s, t
  <2>2. IsTable(t)
    BY <2>1, AppendTable
  <2>3. DOMAIN t = DOMAIN s \cup {Len(s) + 1}
    BY <2>1, AppendTable
  <2>4. t[Len(s) + 1] = new
    BY <2>1, AppendTable
  <2>5. \A h \in DOMAIN s : t[h] = s[h]
    BY <2>1, AppendTable
  <2> QED BY <2>2, <2>3, <2>4, <2>5 DEF s, t
<1>2. \A h \in DOMAIN graphs : NoteFine(graphs[h])
  BY FineOutside
<1>3. NoteFine(new)
  BY DEF NoteFine
<1>4. NotesOK'
  BY <1>1, <1>2, <1>3, NotesStayFine
<1>5. ToldOK'
  BY <1>1, ToldStays DEF JobsInv, ToldOK
<1>6. \A h \in DOMAIN graphs' : GraphOK(graphs'[h])
  BY <1>1 DEF JobsInv
<1> QED BY <1>1, <1>4, <1>5, <1>6 DEF JobsInv

(* prepare_process_graph keeps JobsInv. *)
LEMMA PrepareInv ==
  ASSUME JobsInv, NEW spec \in Seq(StageSpec), spec # <<>>, Prepare(spec), shell.pc \notin {"n_state", "n_status"}
  PROVE  JobsInv'
<1> DEFINE new == Prepared(spec)
           n == Len(graphs) + 1
<1>1. graphs' = Append(graphs, new) /\ told' = told /\ shell' = [pc |-> "evaluate", g |-> n]
  BY DEF Prepare
<1>2. GraphOK(new) /\ ~Noted(new) /\ new.run.pc = "evaluated"
  BY PreparedOK
<1> HIDE DEF new
<1>3. n \in DOMAIN graphs' /\ graphs'[n] = new
  BY <1>1, AppendTable DEF JobsInv
<1> HIDE DEF n
<1>4. shell'.pc = "evaluate" /\ shell'.g = n
  BY <1>1
<1>5. ShellOK'
  BY <1>2, <1>3, <1>4 DEF ShellOK
<1> QED BY <1>1, <1>2, <1>5, AppendInv

(* A pipeline that returns or fails keeps JobsInv. *)
LEMMA PipelineInv ==
  ASSUME JobsInv, pipeline_returned \/ pipeline_failed
  PROVE  JobsInv'
<1>0. shell.pc = "pipeline" /\ shell.g \in DOMAIN graphs
  BY DEF pipeline_returned, pipeline_failed, JobsInv, ShellOK, Notifying, Idle
<1>1. CASE pipeline_returned
  <2>1. shell' = Idle /\ UNCHANGED <<graphs, told>>
    BY <1>1 DEF pipeline_returned
  <2>2. ShellOK'
    BY <2>1 DEF ShellOK
  <2> QED BY <1>0, <2>1, <2>2, FineOutside, ShellOnly
<1>2. CASE pipeline_failed
  <2> DEFINE spec == graphs[shell.g].spec
  <2>1. Prepare(spec)
    BY <1>2 DEF pipeline_failed
  <2>2. spec \in Seq(StageSpec) /\ spec # <<>>
    BY <1>0 DEF JobsInv, GraphOK, PipeOK
  <2> HIDE DEF spec
  <2> QED BY <1>0, <2>1, <2>2, PrepareInv
<1> QED BY <1>1, <1>2

(* Every step of the shell within a command keeps JobsInv. *)
LEMMA ShellStepInv ==
  ASSUME JobsInv, ShellStep
  PROVE  JobsInv'
BY NoteStepInv, NoteReadInv, NoteExitsInv, UnbindInv, FinishInv, WaitNextInv, PipelineInv DEF ShellStep

(* A command is given to an idle shell. *)
LEMMA IdleIs == ASSUME Command PROVE shell = Idle /\ shell.pc = "idle"
BY DEF Command, Idle

(* Starting a job, a pipeline or an evaluated graph keeps JobsInv. *)
LEMMA StartInv ==
  ASSUME JobsInv, NEW spec \in Specs,
         start_process_graph_job(spec) \/ execute_process_graph(spec) \/ prepare_process_graph(spec)
  PROVE  JobsInv'
<1>0. spec \in Seq(StageSpec) /\ shell = Idle /\ shell.pc = "idle"
  BY SpecsAssumption, IdleIs DEF start_process_graph_job, execute_process_graph, prepare_process_graph
<1>1. spec # <<>>
  <2>1. DOMAIN <<>> = {} /\ Len(<<>>) = 0
    OBVIOUS
  <2>2. CASE Len(spec) = 1 \/ Len(spec) > 1
    BY <2>1, <2>2
  <2>3. CASE ~can_execute(spec)
    BY <2>1, <2>3 DEF can_execute
  <2> QED BY <2>2, <2>3 DEF start_process_graph_job, execute_process_graph, prepare_process_graph
<1>2. CASE start_process_graph_job(spec)
  <2> DEFINE new == NewGraph("Background", spec)
  <2>1. graphs' = Append(graphs, new) /\ UNCHANGED <<shell, told>>
    BY <1>2 DEF start_process_graph_job
  <2>2. GraphOK(new) /\ ~Noted(new)
    BY <1>0, <1>1, NewGraphOK
  <2> HIDE DEF new
  <2>3. ShellOK'
    BY <1>0, <2>1 DEF ShellOK
  <2> QED BY <1>0, <2>1, <2>2, <2>3, AppendInv
<1>3. CASE execute_process_graph(spec)
  <2> DEFINE new == NewGraph("Pipeline", spec)
             n == Len(graphs) + 1
  <2>1. graphs' = Append(graphs, new) /\ told' = told /\ shell' = [pc |-> "pipeline", g |-> n]
    BY <1>3 DEF execute_process_graph
  <2>2. GraphOK(new) /\ ~Noted(new)
    BY <1>0, <1>1, NewGraphOK
  <2> HIDE DEF new
  <2>3. n \in DOMAIN graphs'
    BY <2>1, AppendTable DEF JobsInv
  <2> HIDE DEF n
  <2>4. shell'.pc = "pipeline" /\ shell'.g = n
    BY <2>1
  <2>5. ShellOK'
    BY <2>3, <2>4 DEF ShellOK
  <2> QED BY <1>0, <2>1, <2>2, <2>5, AppendInv
<1>4. CASE prepare_process_graph(spec)
  BY <1>0, <1>1, <1>4, PrepareInv DEF prepare_process_graph
<1> QED BY <1>2, <1>3, <1>4

(* The commands that send notes keep JobsInv. *)
LEMMA NoteCommandInv ==
  ASSUME JobsInv, NEW note,
         send_note_to_processes(note) \/ \E g \in DOMAIN graphs : cancel_graph(g, note)
  PROVE  JobsInv'
<1>0. shell.pc = "idle" /\ UNCHANGED <<graphs, told>>
  BY IdleIs DEF send_note_to_processes, cancel_graph
<1>1. CASE send_note_to_processes(note)
  <2> DEFINE list == Listed({g \in DOMAIN graphs : graphs[g].group = note_group})
  <2>1. shell' = Sending(list, note, FALSE, Idle)
    BY <1>1 DEF send_note_to_processes
  <2>2. list \subseteq DOMAIN graphs' /\ \A g \in list : graphs'[g].listed
    BY <1>0 DEF Listed
  <2> HIDE DEF list
  <2>3. ShellOK'
    BY <2>1, <2>2, SendingIs
  <2> QED BY <1>0, <2>3, FineOutside, ShellOnly
<1>2. ASSUME NEW g \in DOMAIN graphs, cancel_graph(g, note) PROVE JobsInv'
  <2> DEFINE list == {g}
             direct == ~graphs[g].listed
  <2>1. shell' = Sending(list, note, direct, Idle)
    BY <1>2 DEF cancel_graph
  <2>2. list \subseteq DOMAIN graphs' /\ (~direct => \A h \in list : graphs'[h].listed)
    BY <1>0
  <2> HIDE DEF list, direct
  <2>3. ShellOK'
    BY <2>1, <2>2, SendingIs
  <2> QED BY <1>0, <2>3, FineOutside, ShellOnly
<1> QED BY <1>1, <1>2

(* cleanup_graph keeps JobsInv. *)
LEMMA CleanupInv ==
  ASSUME JobsInv, NEW g \in DOMAIN graphs, cleanup_graph(g)
  PROVE  JobsInv'
<1>0. shell.pc = "idle" /\ UNCHANGED <<graphs, told>>
  BY IdleIs DEF cleanup_graph
<1>1. shell' = Idle \/ shell' = [pc |-> "unbind", g |-> g]
  BY DEF cleanup_graph
<1>2. ShellOK'
  BY <1>0, <1>1 DEF ShellOK
<1> QED BY <1>0, <1>2, FineOutside, ShellOnly

(* wait_process_job keeps JobsInv: the jobs leave the table before they are waited for. *)
LEMMA WaitInv ==
  ASSUME JobsInv, NEW jobs, jobs \subseteq DOMAIN graphs, wait_process_job(jobs)
  PROVE  JobsInv'
<1> DEFINE still(g) == graphs[g].listed /\ g \notin jobs
           mark(g) == [graphs[g] EXCEPT !.listed = still(g)]
           n == Len(graphs)
           list == Listed(jobs)
<1>0. shell.pc = "idle" /\ told' = told /\ shell' = Waiting(list)
  BY IdleIs DEF wait_process_job
<1>1. graphs' = [g \in DOMAIN graphs |-> mark(g)]
  BY DEF wait_process_job
<1> HIDE DEF still
<1>2. ASSUME NEW g
      PROVE  /\ Marked(graphs[g], mark(g)) /\ mark(g).note = graphs[g].note /\ mark(g).listed = still(g)
             /\ mark(g).bound = graphs[g].bound
             /\ mark(g).cancelled = graphs[g].cancelled /\ mark(g).status = graphs[g].status
             /\ mark(g).run = graphs[g].run
  BY DEF Marked
<1> HIDE DEF mark
<1>3. DOMAIN graphs' = DOMAIN graphs /\ \A g \in DOMAIN graphs : graphs'[g] = mark(g)
  BY <1>1
<1>4. IsTable(graphs')
  <2>1. n \in Nat /\ DOMAIN graphs = 1..n
    BY TableIs DEF JobsInv
  <2> HIDE DEF n
  <2>2. graphs' = [k \in 1..n |-> graphs'[k]]
    BY <1>1, <2>1
  <2> QED BY <2>1, <2>2, IsTableOf
<1>5. \A g \in DOMAIN graphs : GraphOK(graphs'[g]) /\ pipeline_status(graphs'[g]) = pipeline_status(graphs[g])
  BY <1>2, <1>3, MarkedOK DEF JobsInv
<1>6. \A g \in DOMAIN graphs : NoteFine(graphs'[g])
  <2>1. \A g \in DOMAIN graphs : NoteFine(graphs[g])
    BY <1>0, FineOutside
  <2> QED BY <1>2, <1>3, <2>1 DEF NoteFine, StatusTells, Noted
<1>7. NotesOK'
  BY <1>3, <1>6, NotesStayFine
<1>8. list \subseteq DOMAIN graphs' /\ \A g \in list : ~graphs'[g].listed
  BY <1>2, <1>3 DEF Listed, still
<1> HIDE DEF list
<1>9. ShellOK'
  BY <1>0, <1>8, WaitingInv
<1>10. \A h \in DOMAIN graphs :
           /\ graphs'[h].run = graphs[h].run /\ pipeline_status(graphs'[h]) = pipeline_status(graphs[h])
           /\ graphs'[h].listed => graphs[h].listed
           /\ graphs'[h].note = graphs[h].note
  BY <1>2, <1>3, <1>5 DEF still
<1>11. ToldOK'
  BY <1>0, <1>3, <1>10, ToldStays
<1> QED BY <1>3, <1>4, <1>5, <1>7, <1>9, <1>11 DEF JobsInv

(* A step that leaves graphs, shell and history keeps JobsInv. *)
LEMMA SameInv == ASSUME JobsInv, UNCHANGED <<graphs, shell, told>> PROVE JobsInv'
<1>1. Target' = Target
  BY DEF Target
<1>2. NotesOK' /\ ToldOK'
  BY <1>1 DEF JobsInv, NotesOK, ToldOK, NoteReaches
<1>3. SendOK' <=> SendOK
  BY <1>1 DEF SendOK, WaitList, IsList
<1>4. ShellOK'
  BY <1>3 DEF JobsInv, ShellOK, WaitList, IsList
<1> QED BY <1>2, <1>4 DEF JobsInv

(* Every command keeps JobsInv. *)
LEMMA NewCommandInv == ASSUME JobsInv, NewCommand PROVE JobsInv'
<1>1. ASSUME NEW flag, rfork(flag) PROVE JobsInv'
  BY <1>1, SameInv DEF rfork
<1>2. ASSUME NEW g \in DOMAIN graphs, wait_process_job({g}) PROVE JobsInv'
  <2> DEFINE jobs == {g}
  <2>1. jobs \subseteq DOMAIN graphs /\ wait_process_job(jobs)
    BY <1>2
  <2> HIDE DEF jobs
  <2> QED BY <2>1, WaitInv
<1>3. ASSUME wait_process_job(DOMAIN graphs) PROVE JobsInv'
  <2> DEFINE jobs == DOMAIN graphs
  <2>1. jobs \subseteq DOMAIN graphs /\ wait_process_job(jobs)
    BY <1>3
  <2> HIDE DEF jobs
  <2> QED BY <2>1, WaitInv
<1> QED BY <1>1, <1>2, <1>3, StartInv, NoteCommandInv, CleanupInv DEF NewCommand

(* JobsInv holds initially. *)
LEMMA JobsInit_JobsInv == JobsInit => JobsInv
<1> SUFFICES ASSUME JobsInit PROVE JobsInv
  OBVIOUS
<1>1. graphs = <<>> /\ shell = Idle /\ DOMAIN graphs = {} /\ DOMAIN told = {}
  BY DEF JobsInit
<1>2. IsTable(graphs)
  BY <1>1 DEF IsTable
<1> QED BY <1>1, <1>2 DEF JobsInv, NotesOK, ShellOK, ToldOK

(* Every step keeps JobsInv. *)
LEMMA JobsInv_Next == JobsInv /\ [JobsNext]_job_vars => JobsInv'
<1> SUFFICES ASSUME JobsInv, [JobsNext]_job_vars PROVE JobsInv'
  OBVIOUS
<1>1. CASE NewCommand
  BY <1>1, NewCommandInv
<1>2. CASE ShellStep
  BY <1>2, ShellStepInv
<1>3. ASSUME NEW g \in DOMAIN graphs, RunnerStep(g) PROVE JobsInv'
  BY <1>3, RunnerStepInv
<1>4. ASSUME NEW g \in DOMAIN graphs, NEW i \in DOMAIN graphs[g].stages, StageThread(g, i) PROVE JobsInv'
  BY <1>4, StageThreadInv
<1>5. CASE UNCHANGED job_vars
  BY <1>5, SameInv DEF job_vars
<1> QED BY <1>1, <1>2, <1>3, <1>4, <1>5 DEF JobsNext, ThreadStep

(* JobsInv is an invariant: every graph's pipes, stages, result and files stay coherent *)
(* while commands, runners and stages interleave.                                       *)
THEOREM JobsStayCoherent == JobsSpec => []JobsInv
<1>1. JobsInit => JobsInv
  BY JobsInit_JobsInv
<1>2. JobsInv /\ [JobsNext]_job_vars => JobsInv'
  BY JobsInv_Next
<1> QED BY <1>1, <1>2, PTL DEF JobsSpec

(* What wait said of a job stays the truth about it: the signal of the first note it got, *)
(* or else how its stages ended (wait_process_job).                                       *)
THEOREM WaitTells == JobsSpec => []WaitTellsTheTruth
<1>1. JobsInv => WaitTellsTheTruth
  BY DEF JobsInv, ToldOK, WaitTellsTheTruth
<1> QED BY <1>1, JobsStayCoherent, PTL

(* The files of a graph that has ended tell how, for any number of graphs, notes and *)
(* stages (write_graph_state, JobControl::send_note).                                *)
THEOREM FilesTell == JobsSpec => []FilesTellTheEnd
<1>1. JobsInv => FilesTellTheEnd
  <2> SUFFICES ASSUME JobsInv, NEW g \in DOMAIN graphs, Ended(graphs[g]), graphs[g].bound, shell = Idle
               PROVE  /\ Noted(graphs[g]) => graphs[g].status[1] = "signal"
                      /\ ~graphs[g].cancelled /\ graphs[g].run.pc = "done" =>
                           /\ graphs[g].status = graphs[g].result /\ graphs[g].state = StateOf(graphs[g].result)
                           /\ \A i \in DOMAIN graphs[g].stages : graphs[g].stages[i].exit = graphs[g].stages[i].status
    BY DEF FilesTellTheEnd
  <2> DEFINE gr == graphs[g]
  <2>1. shell.pc = "idle"
    BY DEF Idle
  <2>2. NoteFine(gr)
    BY <2>1, FineOutside
  <2>3. ~Returns(gr.run)
    BY DEF Returns, Writes, Ended
  <2>4. Noted(gr) => gr.status[1] = "signal" /\ gr.cancelled
    BY <2>2, <2>3 DEF NoteFine, StatusTells
  <2>5. PipeOK(gr) /\ StagesOK(gr) /\ FilesOK(gr)
    BY DEF JobsInv, GraphOK
  <2>6. ASSUME ~gr.cancelled, gr.run.pc = "done"
        PROVE  /\ gr.status = gr.result /\ gr.state = StateOf(gr.result)
               /\ \A i \in DOMAIN gr.stages : gr.stages[i].exit = gr.stages[i].status
    <3>1. gr.status = gr.result /\ gr.state = StateOf(gr.result)
      BY <2>4, <2>5, <2>6 DEF FilesOK
    <3>2. \A i \in DOMAIN gr.spec : Finished(gr.stages[i])
      BY <2>4, <2>5, <2>6 DEF StagesOK
    <3>3. \A i \in DOMAIN gr.spec : gr.stages[i].exit = gr.stages[i].status
      BY <2>5, <2>6, <3>2 DEF StagesOK, Finished
    <3> QED BY <2>5, <3>1, <3>3 DEF PipeOK
  <2> QED BY <2>4, <2>6
<1> QED BY <1>1, JobsStayCoherent, PTL

(* A stage that has read its pipe to the end has read all that was written, in order and *)
(* once, for pipelines of any length (PipePort).                                         *)
THEOREM PipesWhole == JobsSpec => []PipesAreWhole
<1>1. JobsInv => PipesAreWhole
  <2> SUFFICES ASSUME JobsInv, NEW g \in DOMAIN graphs, NEW i \in DOMAIN graphs[g].stages, graphs[g].stages[i].eof
               PROVE  graphs[g].stages[i].got = Count(graphs[g].stages[i - 1].put)
    BY DEF PipesAreWhole, Count
  <2> DEFINE gr == graphs[g]
  <2>1. PipeOK(gr)
    BY DEF JobsInv, GraphOK
  <2>2. i \in DOMAIN gr.spec /\ gr.spec \in Seq(StageSpec)
    BY <2>1 DEF PipeOK
  <2>3. Input(gr.spec, i) = "pipe" /\ gr.pipes[i - 1].data = <<>>
    BY <2>1, <2>2 DEF PipeOK
  <2>4. i - 1 \in DOMAIN gr.spec /\ i - 1 + 1 = i /\ stage_writes_pipe(gr.spec, i - 1)
    BY <2>2, <2>3, InputIsPipe
  <2>5. gr.stages[i].got \o gr.pipes[i - 1].data = Count(gr.stages[i - 1].put) /\ gr.stages[i].got \in Seq(Nat)
    BY <2>1, <2>2, <2>4 DEF PipeOK
  <2> DEFINE got == gr.stages[i].got
  <2>6. got \in Seq(Nat) /\ got \o <<>> = Count(gr.stages[i - 1].put)
    BY <2>3, <2>5
  <2> HIDE DEF got
  <2>7. got \o <<>> = got
    BY <2>6, ConcatEmptySeq
  <2> QED BY <2>6, <2>7 DEF got
<1> QED BY <1>1, JobsStayCoherent, PTL

=============================================================================
