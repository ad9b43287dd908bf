----------------------------- MODULE NetDevice ------------------------------
(***************************************************************************)
(* The #net device (crates/star9-runtime/src/devices.rs): numbered         *)
(* connections with a ctl, a data and a listen file, a table of listeners, *)
(* and in-memory links between a dialer and what a listener accepts.  Each *)
(* connection has a mutex, the tables have theirs, and a command takes     *)
(* them one after the other: it is one action per locked region, and       *)
(* commands of several tasks on one connection may overlap.                *)
(*                                                                         *)
(* An address is a number, and no address is 0; the addresses the device   *)
(* makes up lie above all others.  A link has the sides 1 and 2, and an    *)
(* end <<link, side>> reads the queue of its own side.  A command that is  *)
(* refused only notes why, which the status file shows: both are left out. *)
(***************************************************************************)
EXTENDS Naturals, Sequences

CONSTANTS
  Users,        (* the tasks that use the device                       *)
  Addrs,        (* the addresses they name                             *)
  MaxConns,     (* bound: how many connections are allocated           *)
  MaxOps        (* bound: how many calls are made                      *)

VARIABLES
  conn,         (* NetDeviceState.resources, by id                     *)
  listeners,    (* NetDeviceState.listeners: the id at an address      *)
  next_port,    (* NetDeviceState.next_port                            *)
  queue,        (* the ByteQueue each end reads                        *)
  link_closed,       (* NetLinkState.closed, per link                       *)
  net_thread,       (* what each task is doing                             *)
  ops,          (* how many calls were made                            *)
  raced,        (* history: connections with overlapping commands      *)
  installed     (* history: the ends connections had                   *)

net_vars == <<conn, listeners, next_port, queue, link_closed, net_thread, ops, raced, installed>>

NoEnd == <<0, 0>>
NoAddr == 0
NetIdle == [pc |-> "idle"]
Unused == [phase |-> "idle", local |-> NoAddr, remote |-> NoAddr, endpoint |-> NoEnd, pending |-> <<>>]

Conns == DOMAIN conn
Other(e) == <<e[1], 3 - e[2]>>
Ends == DOMAIN queue

NetInit ==
  /\ conn = <<>> /\ listeners = [a \in {} |-> 0] /\ next_port = 0
  /\ queue = [e \in {} |-> <<>>] /\ link_closed = <<>>
  /\ net_thread = [u \in Users |-> NetIdle]
  /\ ops = 0 /\ raced = {} /\ installed = {}

-----------------------------------------------------------------------------
(* A call of u on connection c begins, after which u is at `next`. *)
On(c) == {u \in Users : net_thread[u] # NetIdle /\ c \in {net_thread[u].conn, net_thread[u].new}}
Begin(u, c, next) ==
  /\ net_thread[u] = NetIdle /\ ops < MaxOps
  /\ ops' = ops + 1
  /\ net_thread' = [net_thread EXCEPT ![u] = next]
  /\ raced' = IF On(c) # {} THEN raced \cup {c} ELSE raced
Go(u, next) == net_thread' = [net_thread EXCEPT ![u] = next] /\ UNCHANGED <<ops, raced>>
NetAt(u, pc) == net_thread[u].pc = pc

Install(c, e) == installed' = installed \cup {<<c, e>>}

(* NetDevice::alloc: a read of #net/new. *)
alloc(u) ==
  /\ Len(conn) < MaxConns
  /\ Begin(u, 0, NetIdle)
  /\ conn' = Append(conn, Unused)
  /\ UNCHANGED <<listeners, next_port, queue, link_closed, installed>>

bind(u, c, a) ==
  /\ Begin(u, c, NetIdle)
  /\ conn[c].phase \in {"idle", "closed"}
  /\ conn' = [conn EXCEPT ![c] = [@ EXCEPT !.phase = "bound", !.local = a, !.remote = NoAddr, !.endpoint = NoEnd]]
  /\ UNCHANGED <<listeners, next_port, queue, link_closed, installed>>

-----------------------------------------------------------------------------
(* announce: note the address, register the listener, become one.  The     *)
(* address stays noted when it is in use.                                  *)
announce(u, c, a) ==
  /\ \/ conn[c].phase \in {"idle", "closed"}
     \/ conn[c].phase = "bound" /\ conn[c].local = a
  /\ Begin(u, c, [pc |-> "register", conn |-> c, new |-> 0, addr |-> a])
  /\ conn' = [conn EXCEPT ![c] = [@ EXCEPT !.local = a]]
  /\ UNCHANGED <<listeners, next_port, queue, link_closed, installed>>

register_listener(u) ==
  LET c == net_thread[u].conn
      a == net_thread[u].addr
  IN  /\ NetAt(u, "register")
      /\ IF a \in DOMAIN listeners
         THEN Go(u, NetIdle) /\ UNCHANGED listeners
         ELSE /\ Go(u, [pc |-> "listening", conn |-> c, new |-> 0])
              /\ listeners' = [b \in DOMAIN listeners \cup {a} |-> IF b = a THEN c ELSE listeners[b]]
      /\ UNCHANGED <<conn, next_port, queue, link_closed, installed>>

(* A bug to catch: an end that is dropped here stays with the connection's phase. *)
KeepPhase(c) == [conn EXCEPT ![c] = [@ EXCEPT !.remote = NoAddr, !.endpoint = NoEnd]]

Listening(c) == [conn EXCEPT ![c] = [@ EXCEPT !.phase = "listening", !.remote = NoAddr, !.endpoint = NoEnd]]

announced(u) ==
  /\ NetAt(u, "listening")
  /\ conn' = Listening(net_thread[u].conn)
  /\ Go(u, NetIdle)
  /\ UNCHANGED <<listeners, next_port, queue, link_closed, installed>>

-----------------------------------------------------------------------------
(* dial: find the listener, become connected, and queue the other end with *)
(* the listener.  A listener that stopped meanwhile is an error, and the   *)
(* dialer stays connected.                                                 *)
dial(u, c, a) ==
  /\ a \in DOMAIN listeners
  /\ Begin(u, c, [pc |-> "connect", conn |-> c, new |-> 0, addr |-> a, listener |-> listeners[a]])
  /\ UNCHANGED <<conn, listeners, next_port, queue, link_closed, installed>>

(* NetEndpoint::pair: an open link, and nothing queued at either end. *)
pair(l) ==
  /\ queue' = [e \in Ends \cup {<<l, 1>>, <<l, 2>>} |-> IF e \in Ends THEN queue[e] ELSE <<>>]
  /\ link_closed' = Append(link_closed, FALSE)

connect(u) ==
  LET t == net_thread[u]
      c == t.conn
      l == Len(link_closed) + 1
      auto == conn[c].local = NoAddr
      local == IF auto THEN 10000 + next_port + 1 ELSE conn[c].local
  IN  /\ NetAt(u, "connect")
      /\ IF conn[c].phase \in {"idle", "bound", "closed"}
         THEN /\ conn' = [conn EXCEPT ![c] = [@ EXCEPT !.phase = "connected", !.local = local,
                                                       !.remote = t.addr, !.endpoint = <<l, 1>>]]
              /\ next_port' = IF auto THEN next_port + 1 ELSE next_port
              /\ pair(l)
              /\ Install(c, <<l, 1>>)
              /\ Go(u, [pc |-> "enqueue", conn |-> c, new |-> 0, listener |-> t.listener,
                        pending |-> [remote |-> local, endpoint |-> <<l, 2>>]])
         ELSE Go(u, NetIdle) /\ UNCHANGED <<conn, next_port, queue, link_closed, installed>>
      /\ UNCHANGED listeners

enqueue_accept(u) ==
  LET s == net_thread[u].listener
  IN  /\ NetAt(u, "enqueue")
      /\ conn' = IF conn[s].phase = "listening" THEN [conn EXCEPT ![s] = [@ EXCEPT !.pending = Append(conn[s].pending, net_thread[u].pending)]]
                  ELSE conn
      /\ Go(u, NetIdle)
      /\ UNCHANGED <<listeners, next_port, queue, link_closed, installed>>

-----------------------------------------------------------------------------
(* A bug to catch: what is accepted stays queued. *)
PeekFront(c) == conn

pop_front(c) == [conn EXCEPT ![c] = [@ EXCEPT !.pending = Tail(conn[c].pending)]]

(* accept_one, in a read of the listen file: take what is pending, then    *)
(* allocate a connection, which others can see, and connect it.            *)
accept_one(u, c) ==
  /\ conn[c].phase = "listening" /\ conn[c].pending # <<>>
  /\ Begin(u, c, [pc |-> "alloc", conn |-> c, new |-> 0, local |-> conn[c].local, pending |-> Head(conn[c].pending)])
  /\ conn' = pop_front(c)
  /\ UNCHANGED <<listeners, next_port, queue, link_closed, installed>>

alloc_connected(u) ==
  /\ NetAt(u, "alloc") /\ Len(conn) < MaxConns
  /\ conn' = Append(conn, Unused)
  /\ Go(u, [net_thread[u] EXCEPT !.pc = "install", !.new = Len(conn) + 1])
  /\ UNCHANGED <<listeners, next_port, queue, link_closed, installed>>

install_accepted(u) ==
  LET t == net_thread[u]
  IN  /\ NetAt(u, "install")
      /\ conn' = [conn EXCEPT ![t.new] = [@ EXCEPT !.phase = "connected", !.local = t.local,
                                                   !.remote = t.pending.remote, !.endpoint = t.pending.endpoint]]
      /\ Install(t.new, t.pending.endpoint)
      /\ Go(u, NetIdle)
      /\ UNCHANGED <<listeners, next_port, queue, link_closed>>

-----------------------------------------------------------------------------
(* hangup and reset: leave the phase, leave the listeners, close the link. *)
Hung(c, phase, local, remote) ==
  [conn EXCEPT ![c] = [@ EXCEPT !.phase = phase, !.local = local, !.remote = remote,
                                !.endpoint = NoEnd, !.pending = <<>>]]

hangup(u, c) ==
  /\ conn[c].phase \in {"connected", "listening"}
  /\ Begin(u, c, [pc |-> IF conn[c].phase = "listening" THEN "unregister" ELSE "close",
                  conn |-> c, new |-> 0, addr |-> conn[c].local, endpoint |-> conn[c].endpoint])
  /\ conn' = Hung(c, "closed", conn[c].local, conn[c].remote)
  /\ UNCHANGED <<listeners, next_port, queue, link_closed, installed>>

reset(u, c) ==
  /\ Begin(u, c, [pc |-> "unregister", conn |-> c, new |-> 0, addr |-> conn[c].local, endpoint |-> conn[c].endpoint])
  /\ conn' = Hung(c, "idle", NoAddr, NoAddr)
  /\ UNCHANGED <<listeners, next_port, queue, link_closed, installed>>

(* A bug to catch: whoever listens at the address is removed. *)
DropAny(a, c) == [b \in DOMAIN listeners \ {a} |-> listeners[b]]

unregister_listener(a, c) == [b \in {d \in DOMAIN listeners : d # a \/ listeners[d] # c} |-> listeners[b]]

unregister(u) ==
  /\ NetAt(u, "unregister")
  /\ listeners' = unregister_listener(net_thread[u].addr, net_thread[u].conn)
  /\ Go(u, [net_thread[u] EXCEPT !.pc = "close"])
  /\ UNCHANGED <<conn, next_port, queue, link_closed, installed>>

Closed(e) == IF e = NoEnd THEN link_closed ELSE [link_closed EXCEPT ![e[1]] = TRUE]

close(u) ==
  /\ NetAt(u, "close")
  /\ link_closed' = Closed(net_thread[u].endpoint)
  /\ Go(u, NetIdle)
  /\ UNCHANGED <<conn, listeners, next_port, queue, installed>>

-----------------------------------------------------------------------------
(* The data file.  A write finds the end, looks whether the link is open,  *)
(* and queues; a byte is the connection it was written on.                 *)
write(u, c) ==
  /\ conn[c].phase = "connected"
  /\ Begin(u, c, [pc |-> "check", conn |-> c, new |-> 0, endpoint |-> conn[c].endpoint])
  /\ UNCHANGED <<conn, listeners, next_port, queue, link_closed, installed>>

write_open(u) ==
  /\ NetAt(u, "check")
  /\ Go(u, IF link_closed[net_thread[u].endpoint[1]] THEN NetIdle ELSE [net_thread[u] EXCEPT !.pc = "push"])
  /\ UNCHANGED <<conn, listeners, next_port, queue, link_closed, installed>>

write_push(u) ==
  /\ NetAt(u, "push")
  /\ queue' = [queue EXCEPT ![Other(net_thread[u].endpoint)] = Append(@, net_thread[u].conn)]
  /\ Go(u, NetIdle)
  /\ UNCHANGED <<conn, listeners, next_port, link_closed, installed>>

read(u, c) ==
  /\ conn[c].phase = "connected"
  /\ Begin(u, c, [pc |-> "read", conn |-> c, new |-> 0, endpoint |-> conn[c].endpoint])
  /\ UNCHANGED <<conn, listeners, next_port, queue, link_closed, installed>>

read_pop(u) ==
  LET e == net_thread[u].endpoint
  IN  /\ NetAt(u, "read")
      /\ queue' = IF queue[e] = <<>> THEN queue ELSE [queue EXCEPT ![e] = Tail(@)]
      /\ Go(u, NetIdle)
      /\ UNCHANGED <<conn, listeners, next_port, link_closed, installed>>

Call(u) ==
  \/ alloc(u)
  \/ \E c \in Conns :
       \/ \E a \in Addrs : bind(u, c, a) \/ announce(u, c, a) \/ dial(u, c, a)
       \/ accept_one(u, c) \/ hangup(u, c) \/ reset(u, c) \/ write(u, c) \/ read(u, c)

Continue(u) ==
  \/ register_listener(u) \/ announced(u)
  \/ connect(u) \/ enqueue_accept(u)
  \/ alloc_connected(u) \/ install_accepted(u)
  \/ unregister(u) \/ close(u)
  \/ write_open(u) \/ write_push(u) \/ read_pop(u)

NetNext == \E u \in Users : Call(u) \/ Continue(u)

NetSpec == NetInit /\ [][NetNext]_net_vars

-----------------------------------------------------------------------------
Calm(c) == c \notin raced /\ On(c) = {}

(* Where an end of a link may be: with a connection, pending with a        *)
(* listener, or with a task that carries it there or from there.           *)
Carrying == {u \in Users : net_thread[u].pc \in {"enqueue", "alloc", "install"}}
Places(e) ==
  {<<"connection", c, 0>> : c \in {d \in Conns : conn[d].endpoint = e}}
  \cup (UNION {{<<"pending", c, i>> : i \in {j \in DOMAIN conn[c].pending : conn[c].pending[j].endpoint = e}} : c \in Conns})
  \cup {<<"task", u, 0>> : u \in {v \in Carrying : net_thread[v].pending.endpoint = e}}

(* A connected connection has an endpoint, whatever commands overlap on    *)
(* it: the expect("connected endpoint exists") of the data file never      *)
(* panics, and with a mutex held it would poison the connection.  The two  *)
(* ends of a link are each in one place: held by one connection, pending   *)
(* with one listener, or on the way there.  What is written on one         *)
(* connection is never read on a third.                                    *)
EndsAreUnshared ==
  /\ \A c \in Conns : conn[c].phase = "connected" => conn[c].endpoint # NoEnd
  /\ \A e \in Ends : \A p, q \in Places(e) : p = q

(* Once its commands have returned, and if no two overlapped, a connection *)
(* that listens can be dialed at its address, and one that stopped         *)
(* listening cannot (unregister_listener); one that gave up its end has    *)
(* closed the link (hangup, reset), so that the other side's writes fail   *)
(* and do not vanish.                                                      *)
ConnectionsAreCoherent ==
  /\ \A c \in Conns : Calm(c) =>
       {a \in DOMAIN listeners : listeners[a] = c}
         = IF conn[c].phase = "listening" THEN {conn[c].local} ELSE {}
  /\ \A i \in installed :
       Calm(i[1]) /\ conn[i[1]].endpoint # i[2] => link_closed[i[2][1]]

=============================================================================
