----------------------------- MODULE PortForward -----------------------------
(***************************************************************************)
(* The TCP port forwarder of the guest agent (vdagent/port_forward.cpp).   *)
(* The agent listens on guest ports for the client, and connects to hosts  *)
(* for it; the bytes of every connection travel as messages between the    *)
(* client and the agent.  Two threads run the code: the main thread, which *)
(* dispatches the client's messages, and the I/O thread, which handles the *)
(* packets of the completion port.  Both hold PortForwarder::mutex for a   *)
(* whole handler, so a handler is one action.                              *)
(*                                                                         *)
(* What is not under src/ - Winsock, the completion port, the TCP peer and *)
(* the client - is modelled from how the code uses it:                     *)
(*   - an operation is pending until the kernel completes it and its       *)
(*     packet waits in the completion port.  Closing a socket cancels the  *)
(*     pending operations (their failed packets are only deleted, line     *)
(*     353) but not the packets already queued: those reach the handlers   *)
(*     late.  The packets of one socket and kind keep their order.         *)
(*   - the client behaves: it uses an id once, sends data only on an open  *)
(*     connection and within its window, and acknowledges what it got.     *)
(*     A message of the client is dispatched in the step that sends it;    *)
(*     the delay is on the way back, in toClient.                          *)
(***************************************************************************)
EXTENDS Integers, Sequences, FiniteSets

CONSTANTS
    Ports,          \* the guest ports the client may ask to listen on
    MaxAccepted,    \* bound: connections peers open to those ports
    ConnectIds,     \* the ids the client gives the connections it asks for
    WINDOW_SIZE,    \* Connection::WINDOW_SIZE, 10 MB in the code
    BUFFER_SIZE,    \* ReadOperation::BUFFER_SIZE, the most one read returns
    AckIntervals,   \* the ack intervals the client may announce
    MaxToGuest,     \* bound: bytes the client sends on one connection
    MaxFromGuest,   \* bound: bytes the peer sends on one connection
    IoFailures      \* whether the kernel may fail an operation by itself

AcceptIds == 1 .. MaxAccepted       \* generateConnectionId counts from 1
Ids == AcceptIds \cup ConnectIds

ASSUME BoundsAssumption ==
    /\ MaxAccepted \in Nat /\ MaxToGuest \in Nat /\ MaxFromGuest \in Nat
    /\ IoFailures \in BOOLEAN

\* Nothing keeps the two id spaces apart in connections[id]; the client does.
ASSUME IdsAssumption == AcceptIds \cap ConnectIds = {}

ASSUME WindowAssumption ==
    /\ WINDOW_SIZE \in Nat \ {0}
    /\ BUFFER_SIZE \in Nat \ {0}
    /\ AckIntervals \subseteq 1 .. WINDOW_SIZE

VARIABLES
    acceptors,      \* the keys of PortForwarder::acceptors
    acc,            \* per port: accepts pending and accepts completed
    connections,    \* the keys of PortForwarder::connections
    conn,           \* per id: the Connection (a fresh one when not a key)
    seq,            \* the counter of generateConnectionId
    ops,            \* per id: the overlapped operations of the socket
    toClient,       \* per id: the messages on their way to the client
    has_client,     \* PortForwarder::has_client
    io,             \* the I/O thread: at its loop test, waiting, or stopped
    dtor,           \* how far ~PortForwarder has come
    arrivals,       \* peers that have connected to a listening port
    peer,           \* per id: the TCP peer
    cl,             \* per id: the client's end of the connection
    lost            \* accepted sockets that nothing owns any more

tables == <<acceptors, acc, connections, conn, seq, ops, toClient, lost>>
thread == <<has_client, io, dtor>>
world  == <<arrivals, peer, cl>>
vars   == <<tables, thread, world>>

------------------------------------------------------------------------------
(***************************************************************************)
(* The data structures.                                                    *)
(***************************************************************************)
Buffers == [first : Nat, size : Nat, pos : Nat]   \* bytes first+1 .. first+size

ConnectionType ==
    [closing : BOOLEAN, acked : BOOLEAN, write_buffer : Seq(Buffers),
     data_sent : Int, data_received : Nat, ack_interval : Nat]

FreshConnection ==
    [closing |-> FALSE, acked |-> FALSE, write_buffer |-> <<>>,
     data_sent |-> 0, data_received |-> 0, ack_interval |-> 0]

Segments == [from : Nat, len : Int]

OpsType ==
    [recv : Nat, received : Seq(0 .. BUFFER_SIZE), send : Seq(Segments), sent : Seq(Nat),
     connect : Nat, connected : Nat]

NoOps == [recv |-> 0, received |-> <<>>, send |-> <<>>, sent |-> <<>>,
          connect |-> 0, connected |-> 0]

Messages == [type : {"ACCEPTED", "DATA", "ACK", "CLOSE"}, size : Nat]

ClientType == [state : {"none", "connecting", "accepted", "open", "closed", "left"},
               sent : Nat, acked : Nat, toAck : Nat]

PeerType == [sent : Nat, fin : BOOLEAN, got : Seq(Nat)]

TypeOK ==
    /\ acceptors \subseteq Ports
    /\ acc \in [Ports -> [pend : Nat, done : Nat]]
    /\ connections \subseteq Ids
    /\ conn \in [Ids -> ConnectionType]
    /\ seq \in 0 .. MaxAccepted
    /\ ops \in [Ids -> OpsType]
    /\ toClient \in [Ids -> Seq(Messages)]
    /\ has_client \in BOOLEAN
    /\ io \in {"loop", "waiting", "stopped"}
    /\ dtor \in {"none", "cleared", "waiting", "done"}
    /\ arrivals \in 0 .. MaxAccepted
    /\ peer \in [Ids -> PeerType]
    /\ cl \in [Ids -> ClientType]
    /\ lost \in Nat

Init ==
    /\ acceptors = {}
    /\ acc = [p \in Ports |-> [pend |-> 0, done |-> 0]]
    /\ connections = {}
    /\ conn = [id \in Ids |-> FreshConnection]
    /\ seq = 0
    /\ ops = [id \in Ids |-> NoOps]
    /\ toClient = [id \in Ids |-> <<>>]
    /\ has_client = TRUE
    /\ io = "loop"
    /\ dtor = "none"
    /\ arrivals = 0
    /\ peer = [id \in Ids |-> [sent |-> 0, fin |-> FALSE, got |-> <<>>]]
    /\ cl = [id \in Ids |-> [state |-> "none", sent |-> 0, acked |-> 0, toAck |-> 0]]
    /\ lost = 0

------------------------------------------------------------------------------
(***************************************************************************)
(* The pieces the handlers are made of.                                    *)
(***************************************************************************)
Message(type, size) == [type |-> type, size |-> size]
Send(id, m) == toClient' = [toClient EXCEPT ![id] = Append(@, m)]

\* ReadOperation::post, WriteOperation::post: an operation the kernel refuses
\* at once is one that it takes and then fails, see KernelFails.
PostRead(o) == [o EXCEPT !.recv = @ + 1]
RemainingAll(b) == [from |-> b.first, len |-> b.size]  \* mutant: pos ignored
Remaining(b) == [from |-> b.first + b.pos, len |-> b.size - b.pos]
PostWrite(o, wb) == [o EXCEPT !.send = Append(@, Remaining(Head(wb)))]

\* ~Connection closes the socket: pending operations are cancelled, packets
\* that are already in the completion port stay there.
CloseSocket(o) == [o EXCEPT !.recv = 0, !.send = <<>>, !.connect = 0]

\* The entries of connections and acceptors are destroyed.
Erase(ids) ==
    /\ connections' = connections \ ids
    /\ conn' = [id \in Ids |-> IF id \in ids THEN FreshConnection ELSE conn[id]]
    /\ ops' = [id \in Ids |-> IF id \in ids \cap connections
                              THEN CloseSocket(ops[id]) ELSE ops[id]]

EraseAcceptors(ps) ==
    /\ acceptors' = acceptors \ ps
    /\ acc' = [p \in Ports |-> IF p \in ps THEN [acc[p] EXCEPT !.pend = 0] ELSE acc[p]]

Update(id, c, o) ==
    /\ conn' = [conn EXCEPT ![id] = c]
    /\ ops' = [ops EXCEPT ![id] = o]
    /\ UNCHANGED connections

\* The read pacing: handle_read goes on while the window is open, ack_data
\* restarts it when the acknowledged bytes open the window again.
WindowOpen(sent) == sent < WINDOW_SIZE

ReopenedAlways(before, after) == WindowOpen(after)  \* mutant: dropped guard
ReopenedExact(before, after) ==                     \* mutant: = for >=
    WindowOpen(after) /\ before = WINDOW_SIZE
Reopened(before, after) == WindowOpen(after) /\ ~WindowOpen(before)

\* handle_write: the front buffer advances and leaves when it is written.
AdvanceNoPop(wb, bytes) ==      \* mutant: a written buffer stays in the list
    <<[Head(wb) EXCEPT !.pos = @ + bytes]>> \o Tail(wb)

Advance(wb, bytes) ==
    LET front == [Head(wb) EXCEPT !.pos = @ + bytes]
    IN  IF front.pos = front.size THEN Tail(wb) ELSE <<front>> \o Tail(wb)

AckDueLate(received, interval) == received > interval   \* mutant: off by one
AckDue(received, interval) == received >= interval

------------------------------------------------------------------------------
(***************************************************************************)
(* The main thread: one message of the client is dispatched.               *)
(***************************************************************************)
Dispatch ==
    /\ dtor = "none"
    /\ has_client' = TRUE
    /\ UNCHANGED <<io, dtor, arrivals, peer, lost>>

ClientMoves(id, c) == cl' = [cl EXCEPT ![id] = c]

\* A port that is listened to already is only logged.  Sockets that cannot be
\* bound leave no trace either, so that outcome is not a step.
ListenTo(p) ==
    /\ Dispatch
    /\ p \notin acceptors
    /\ acceptors' = acceptors \cup {p}
    /\ acc' = [acc EXCEPT ![p].pend = @ + 1]
    /\ UNCHANGED <<connections, conn, seq, ops, toClient, cl>>

\* SHUTDOWN of one port, and of port 0: the client resets the forwarder.
ShutdownPort(p) ==
    /\ Dispatch
    /\ p \in acceptors
    /\ EraseAcceptors({p})
    /\ UNCHANGED <<connections, conn, seq, ops, toClient, cl>>

ShutdownAll ==
    /\ Dispatch
    /\ connections # {} \/ acceptors # {}
    /\ Erase(connections)
    /\ EraseAcceptors(acceptors)
    /\ cl' = [id \in Ids |-> IF cl[id].state = "none" THEN cl[id]
                             ELSE [cl[id] EXCEPT !.state = "closed"]]
    /\ UNCHANGED <<seq, toClient>>

\* The client's CONNECT.  The host may be unknown or the socket refused: the
\* code returns and the client is told nothing.
ConnectRemote(id, interval) ==
    /\ Dispatch
    /\ cl[id].state = "none"
    /\ ClientMoves(id, [cl[id] EXCEPT !.state = "connecting"])
    /\ \/ /\ connections' = connections \cup {id}
          /\ conn' = [conn EXCEPT ![id].ack_interval = interval]
          /\ ops' = [ops EXCEPT ![id].connect = @ + 1]
       \/ IoFailures /\ UNCHANGED <<connections, conn, ops>>
    /\ UNCHANGED <<acceptors, acc, seq, toClient>>

\* ack_data: the first ACK of an accepted connection opens it, the others
\* give back window.
AckedAll(c, size) ==            \* mutant: any ACK empties the window
    IF c.acked THEN [c EXCEPT !.data_sent = 0]
               ELSE [c EXCEPT !.acked = TRUE, !.ack_interval = size]

Acked(c, size) ==
    IF c.acked THEN [c EXCEPT !.data_sent = @ - size]
               ELSE [c EXCEPT !.acked = TRUE, !.ack_interval = size]

AckData(id, size) ==
    /\ Dispatch
    /\ \/ id \notin connections /\ UNCHANGED <<connections, conn, ops>>
       \/ /\ id \in connections
          /\ LET before == conn[id]
                 after  == Acked(before, size)
                 resume == before.acked => Reopened(before.data_sent, after.data_sent)
             IN  Update(id, after, IF resume THEN PostRead(ops[id]) ELSE ops[id])
    /\ UNCHANGED <<acceptors, acc, seq, toClient>>

FirstAck(id, interval) ==
    /\ cl[id].state = "accepted"
    /\ ClientMoves(id, [cl[id] EXCEPT !.state = "open"])
    /\ AckData(id, interval)

ClientAck(id) ==
    /\ cl[id].state = "open"
    /\ cl[id].toAck > 0
    /\ ClientMoves(id, [cl[id] EXCEPT !.toAck = 0])
    /\ AckData(id, cl[id].toAck)

\* The client's DATA: only the first buffer of the list starts a write.
StartsWriteAlways(wb) == wb # <<>>      \* mutant: dropped guard
StartsWrite(wb) == Len(wb) = 1

SendData(id, size) ==
    /\ Dispatch
    /\ cl[id].state = "open"
    /\ cl[id].sent - cl[id].acked < WINDOW_SIZE
    /\ cl[id].sent + size <= MaxToGuest
    /\ ClientMoves(id, [cl[id] EXCEPT !.sent = @ + size])
    /\ \/ id \notin connections /\ UNCHANGED <<connections, conn, ops>>
       \/ /\ id \in connections
          /\ LET wb == Append(conn[id].write_buffer,
                              [first |-> cl[id].sent, size |-> size, pos |-> 0])
             IN  Update(id, [conn[id] EXCEPT !.write_buffer = wb],
                        IF StartsWrite(wb) THEN PostWrite(ops[id], wb) ELSE ops[id])
    /\ UNCHANGED <<acceptors, acc, seq, toClient>>

\* The client's CLOSE: what it sent before is still written to the peer.
ToClosingReading(c) == [c EXCEPT !.acked = FALSE]   \* mutant: flag not set
ToClosing(c) == [c EXCEPT !.closing = TRUE, !.acked = FALSE]

MustDrainNever(c) == FALSE              \* mutant: closes at once
MustDrain(c) == c.write_buffer # <<>>

StartClosing(id) ==
    /\ Dispatch
    /\ cl[id].state \in {"connecting", "accepted", "open"}
    /\ ClientMoves(id, [cl[id] EXCEPT !.state = "left"])
    /\ \/ /\ id \in connections
          /\ MustDrain(conn[id])
          /\ Update(id, ToClosing(conn[id]), ops[id])
       \/ /\ id \in connections
          /\ ~MustDrain(conn[id])
          /\ Erase({id})
       \/ id \notin connections /\ UNCHANGED <<connections, conn, ops>>
    /\ UNCHANGED <<acceptors, acc, seq, toClient>>

------------------------------------------------------------------------------
(***************************************************************************)
(* The I/O thread: handle_io_events and the handlers of the packets.       *)
(***************************************************************************)
IoLoopForever ==                \* mutant: the loop condition is not read
    /\ io = "loop"
    /\ io' = "waiting"
    /\ UNCHANGED <<tables, has_client, dtor, world>>

IoLoop ==
    /\ io = "loop"
    /\ io' = IF has_client THEN "waiting" ELSE "stopped"
    /\ UNCHANGED <<tables, has_client, dtor, world>>

IoHandles ==
    /\ io = "waiting"
    /\ io' = "loop"
    /\ UNCHANGED <<has_client, dtor, world>>

\* connections.erase in a handler that has taken a packet of the connection.
EraseHandled(id, taken) ==
    /\ connections' = connections \ {id}
    /\ conn' = [conn EXCEPT ![id] = FreshConnection]
    /\ ops' = [ops EXCEPT ![id] = CloseSocket(taken)]

\* The accept is posted again from its handler.  When the port was shut down
\* the operation gives its socket up without closing it (handle_to).
AcceptOnce(a) == [a EXCEPT !.done = @ - 1]      \* mutant: not posted again
AcceptAgain(a) == [a EXCEPT !.done = @ - 1, !.pend = @ + 1]

HandleAccept(p) ==
    /\ IoHandles
    /\ acc[p].done > 0
    /\ \/ /\ p \notin acceptors
          /\ acc' = [acc EXCEPT ![p].done = @ - 1]
          /\ lost' = lost + 1
          /\ UNCHANGED <<connections, conn, seq, ops, toClient>>
       \/ /\ p \in acceptors
          /\ seq < MaxAccepted
          /\ seq' = seq + 1
          /\ connections' = connections \cup {seq'}
          /\ conn' = [conn EXCEPT ![seq'] = FreshConnection]
          /\ Send(seq', Message("ACCEPTED", WINDOW_SIZE \div 2))
          /\ acc' = [acc EXCEPT ![p] = AcceptAgain(@)]
          /\ UNCHANGED <<ops, lost>>
    /\ UNCHANGED acceptors

\* Zero bytes: the peer closed.  A closing connection drops what it reads and
\* reads no more.
PeerClosedKept(id, taken) ==    \* mutant: the connection is not erased
    /\ Send(id, Message("CLOSE", 0))
    /\ Update(id, conn[id], taken)

PeerClosed(id, taken) ==
    /\ Send(id, Message("CLOSE", 0))
    /\ EraseHandled(id, taken)

HandleRead(id) ==
    /\ IoHandles
    /\ ops[id].received # <<>>
    /\ LET bytes == Head(ops[id].received)
           taken == [ops[id] EXCEPT !.received = Tail(@)]
           c     == [conn[id] EXCEPT !.data_sent = @ + bytes]
       IN  \/ /\ id \notin connections \/ (bytes > 0 /\ conn[id].closing)
              /\ ops' = [ops EXCEPT ![id] = taken]
              /\ UNCHANGED <<connections, conn, toClient>>
           \/ /\ id \in connections /\ bytes = 0
              /\ PeerClosed(id, taken)
           \/ /\ id \in connections /\ bytes > 0 /\ ~conn[id].closing
              /\ Send(id, Message("DATA", bytes))
              /\ Update(id, c, IF WindowOpen(c.data_sent) THEN PostRead(taken) ELSE taken)
    /\ UNCHANGED <<acceptors, acc, seq, lost>>

\* WSASend of a non-empty buffer never completes with zero bytes.
ReceivedKept(c, bytes) ==       \* mutant: the count is not reset
    [c EXCEPT !.data_received = @ + bytes, !.write_buffer = Advance(@, bytes)]

Received(c, bytes) ==
    LET total == c.data_received + bytes
    IN  [c EXCEPT !.data_received = IF AckDue(total, c.ack_interval) THEN 0 ELSE total,
                  !.write_buffer = Advance(@, bytes)]

SendAckIfDue(id, total, interval) ==
    \/ AckDue(total, interval) /\ Send(id, Message("ACK", total))
    \/ ~AckDue(total, interval) /\ UNCHANGED toClient

HandleWrite(id) ==
    /\ IoHandles
    /\ ops[id].sent # <<>>
    /\ LET bytes == Head(ops[id].sent)
           taken == [ops[id] EXCEPT !.sent = Tail(@)]
           c     == Received(conn[id], bytes)
       IN  \/ /\ id \notin connections
              /\ ops' = [ops EXCEPT ![id] = taken]
              /\ UNCHANGED <<connections, conn, toClient>>
           \/ /\ id \in connections
              /\ SendAckIfDue(id, conn[id].data_received + bytes, conn[id].ack_interval)
              /\ \/ /\ c.write_buffer # <<>>
                    /\ Update(id, c, PostWrite(taken, c.write_buffer))
                 \/ /\ c.write_buffer = <<>> /\ ~c.closing
                    /\ Update(id, c, taken)
                 \/ /\ c.write_buffer = <<>> /\ c.closing
                    /\ EraseHandled(id, taken)
    /\ UNCHANGED <<acceptors, acc, seq, lost>>

HandleConnect(id) ==
    /\ IoHandles
    /\ ops[id].connected > 0
    /\ LET taken == [ops[id] EXCEPT !.connected = @ - 1]
       IN  \/ /\ id \notin connections
              /\ ops' = [ops EXCEPT ![id] = taken]
              /\ UNCHANGED <<connections, conn, toClient>>
           \/ /\ id \in connections
              /\ Send(id, Message("ACK", WINDOW_SIZE \div 2))
              /\ Update(id, [conn[id] EXCEPT !.acked = TRUE], PostRead(taken))
    /\ UNCHANGED <<acceptors, acc, seq, lost>>

\* The NULL packet of the destructor, or the closed port, ends the wait.
IoWakes ==
    /\ IoHandles
    /\ dtor = "waiting"
    /\ UNCHANGED tables

------------------------------------------------------------------------------
(***************************************************************************)
(* ~PortForwarder, run by the main thread when the agent stops.            *)
(***************************************************************************)
DtorClears ==
    /\ dtor = "none"
    /\ dtor' = "cleared"
    /\ has_client' = FALSE
    /\ Erase(connections)
    /\ EraseAcceptors(acceptors)
    /\ UNCHANGED <<seq, toClient, lost, io, world>>

DtorWakesThread ==
    /\ dtor = "cleared"
    /\ dtor' = "waiting"
    /\ UNCHANGED <<tables, has_client, io, world>>

DtorReturns ==
    /\ dtor = "waiting"
    /\ io = "stopped"
    /\ dtor' = "done"
    /\ UNCHANGED <<tables, has_client, io, world>>

------------------------------------------------------------------------------
(***************************************************************************)
(* The kernel, the peers and the client's receiving end (not under src/).  *)
(***************************************************************************)
PeerConnects(p) ==
    /\ acc[p].pend > 0
    /\ arrivals < MaxAccepted
    /\ arrivals' = arrivals + 1
    /\ acc' = [acc EXCEPT ![p].pend = @ - 1, ![p].done = @ + 1]
    /\ UNCHANGED <<acceptors, connections, conn, seq, ops, toClient, lost, thread, peer, cl>>

KernelMoves == UNCHANGED <<acceptors, connections, conn, seq, toClient, lost,
                           thread, arrivals, cl>>

KernelReads(id, bytes) ==
    /\ ops[id].recv > 0
    /\ peer[id].sent + bytes <= MaxFromGuest
    /\ peer[id].fin => bytes = 0
    /\ ops' = [ops EXCEPT ![id].recv = @ - 1, ![id].received = Append(@, bytes)]
    /\ peer' = [peer EXCEPT ![id].sent = @ + bytes, ![id].fin = (bytes = 0)]
    /\ KernelMoves /\ UNCHANGED acc

KernelWrites(id, bytes) ==
    /\ ops[id].send # <<>>
    /\ bytes <= Head(ops[id].send).len
    /\ ops' = [ops EXCEPT ![id].send = Tail(@), ![id].sent = Append(@, bytes)]
    /\ peer' = [peer EXCEPT ![id].got =
                   @ \o [i \in 1 .. bytes |-> Head(ops[id].send).from + i]]
    /\ KernelMoves /\ UNCHANGED acc

KernelConnects(id) ==
    /\ ops[id].connect > 0
    /\ ops' = [ops EXCEPT ![id].connect = @ - 1, ![id].connected = @ + 1]
    /\ KernelMoves /\ UNCHANGED <<acc, peer>>

\* An operation fails although its socket is open: a reset connection, a
\* refused host, a peer that went away before it was accepted.
KernelFailsAccept(p) ==
    /\ IoFailures
    /\ acc[p].pend > 0
    /\ acc' = [acc EXCEPT ![p].pend = @ - 1]
    /\ KernelMoves /\ UNCHANGED <<ops, peer>>

KernelFails(id) ==
    /\ IoFailures
    /\ \/ ops[id].recv > 0 /\ ops' = [ops EXCEPT ![id].recv = @ - 1]
       \/ ops[id].send # <<>> /\ ops' = [ops EXCEPT ![id].send = Tail(@)]
       \/ ops[id].connect > 0 /\ ops' = [ops EXCEPT ![id].connect = @ - 1]
    /\ KernelMoves /\ UNCHANGED <<acc, peer>>

\* What the client does with a message: the first ACK of a connection it
\* asked for opens it.
Understood(c, m) ==
    CASE m.type = "ACCEPTED" /\ c.state = "none" -> [c EXCEPT !.state = "accepted"]
      [] m.type = "ACK" /\ c.state = "connecting" -> [c EXCEPT !.state = "open"]
      [] m.type = "ACK" /\ c.state = "open" -> [c EXCEPT !.acked = @ + m.size]
      [] m.type = "DATA" /\ c.state = "open" -> [c EXCEPT !.toAck = @ + m.size]
      [] m.type = "CLOSE" /\ c.state # "left" -> [c EXCEPT !.state = "closed"]
      [] OTHER -> c

ClientReceives(id) ==
    /\ toClient[id] # <<>>
    /\ toClient' = [toClient EXCEPT ![id] = Tail(@)]
    /\ ClientMoves(id, Understood(cl[id], Head(toClient[id])))
    /\ UNCHANGED <<acceptors, acc, connections, conn, seq, ops, lost, thread, arrivals, peer>>

------------------------------------------------------------------------------
MainThread ==
    \/ \E p \in Ports : ListenTo(p) \/ ShutdownPort(p)
    \/ ShutdownAll
    \/ \E id \in ConnectIds, i \in AckIntervals : ConnectRemote(id, i)
    \/ \E id \in Ids, i \in AckIntervals : FirstAck(id, i)
    \/ \E id \in Ids : ClientAck(id) \/ StartClosing(id)
    \/ \E id \in Ids, size \in 1 .. BUFFER_SIZE : SendData(id, size)
    \/ DtorClears \/ DtorWakesThread \/ DtorReturns

IoThread ==
    \/ IoLoop \/ IoWakes
    \/ \E p \in Ports : HandleAccept(p)
    \/ \E id \in Ids : HandleRead(id) \/ HandleWrite(id) \/ HandleConnect(id)

Environment ==
    \/ \E p \in Ports : PeerConnects(p) \/ KernelFailsAccept(p)
    \/ \E id \in Ids :
          \/ \E bytes \in 0 .. BUFFER_SIZE : KernelReads(id, bytes)
          \/ \E bytes \in 1 .. BUFFER_SIZE : KernelWrites(id, bytes)
          \/ KernelConnects(id) \/ KernelFails(id) \/ ClientReceives(id)

Next == MainThread \/ IoThread \/ Environment

Spec == Init /\ [][Next]_vars

(***************************************************************************)
(* Fairness.  The I/O thread takes packets in the order they were queued   *)
(* and no handler blocks, so it goes on while there are packets; so does   *)
(* the destructor.  The peer goes on reading what is written to it, and    *)
(* the client goes on reading and acknowledging.  Nobody has to send.      *)
(***************************************************************************)
Fairness ==
    /\ WF_vars(IoThread)
    /\ WF_vars(DtorWakesThread) /\ WF_vars(DtorReturns)
    /\ \A id \in Ids :
          /\ WF_vars(\E bytes \in 1 .. BUFFER_SIZE : KernelWrites(id, bytes))
          /\ WF_vars(ClientReceives(id))
          /\ WF_vars(ClientAck(id))

FairSpec == Spec /\ Fairness

------------------------------------------------------------------------------
(***************************************************************************)
(* Safety.                                                                 *)
(***************************************************************************)
Reads(id) == ops[id].recv + Len(ops[id].received)
Writes(id) == Len(ops[id].send) + Len(ops[id].sent)

Total(s) ==
    LET sum[i \in 0 .. Len(s)] == IF i = 0 THEN 0 ELSE sum[i - 1] + s[i]
    IN  sum[Len(s)]

\* The sizes of the messages of one type on their way to the client.
Sizes(q, type) ==
    [i \in 1 .. Len(q) |-> IF q[i].type = type THEN q[i].size ELSE 0]
InFlight(id, type) == Total(Sizes(toClient[id], type))

\* The bytes the peer is still to be sent.
Left(wb) == [i \in 1 .. Len(wb) |-> wb[i].size - wb[i].pos]
Unwritten(id) == Total(Left(conn[id].write_buffer))

\* No connection ever has two reads outstanding (pending, or completed and not
\* handled): they would share the window, and their bytes could be reordered.
\* handle_connect, handle_read and ack_data all post reads.
OneRead == \A id \in connections : Reads(id) <= 1

\* Unless operations fail, an open connection has a read outstanding exactly
\* while its window is open: it never stops reading for good, and never reads
\* past the window (handle_read, ack_data).
ReadArmed ==
    ~IoFailures => \A id \in connections :
        ~conn[id].closing =>
            (Reads(id) = 1 <=> conn[id].acked /\ conn[id].data_sent < WINDOW_SIZE)

\* A connection has at most one write outstanding, and only while it has
\* something to write; unless operations fail it has one then.  Two writes
\* would send the same front buffer twice (send_data, handle_write).
OneWrite ==
    \A id \in connections :
        /\ Writes(id) <= 1
        /\ conn[id].write_buffer = <<>> => Writes(id) = 0
        /\ ~IoFailures /\ conn[id].write_buffer # <<>> => Writes(id) = 1

\* The bytes a connection has sent and the client has not acknowledged never
\* exceed the window by more than the last read.
WindowBound ==
    \A id \in connections : conn[id].data_sent < WINDOW_SIZE + BUFFER_SIZE

\* data_sent is what the client has still to acknowledge: the data on its way
\* and the data it has.  It is unsigned in the code, and this is why
\* ack_data never takes it below zero.
FlowConservation ==
    \A id \in connections :
        cl[id].state \notin {"left", "closed"} =>
            /\ conn[id].data_sent = InFlight(id, "DATA") + cl[id].toAck
            /\ conn[id].data_sent >= 0

\* Every byte the client sent is unwritten, counted for the next ACK, in an ACK
\* on its way, or acknowledged: handle_write loses and repeats none.
AckConservation ==
    \A id \in connections :
        cl[id].state = "open" =>
            cl[id].sent - cl[id].acked =
                InFlight(id, "ACK") + conn[id].data_received + Unwritten(id)

\* The peer receives the client's bytes in order, each once, without a gap,
\* however the writes are split, delayed or cut short by a close.
StreamIntact ==
    \A id \in Ids : \A i \in 1 .. Len(peer[id].got) : peer[id].got[i] = i

\* CLOSE is the last thing the client is told about a connection, and the
\* agent has forgotten the connection when it says so.
CloseIsFinal ==
    \A id \in Ids : \A i \in 1 .. Len(toClient[id]) :
        toClient[id][i].type = "CLOSE" => i = Len(toClient[id]) /\ id \notin connections

\* Unless operations fail, a port in the table has an accept outstanding: the
\* forwarder never stops accepting on a port it still listens on, even when
\* the port was shut down and opened again with an accept under way.
ListeningArmed ==
    ~IoFailures => \A p \in acceptors : acc[p].pend + acc[p].done >= 1

\* Once the client has closed a connection the agent sends it no more of the
\* peer's data, although a read may be outstanding and the connection may
\* live on to drain its writes.
QuietAfterClose ==
    [][\A id \in Ids :
          cl[id].state = "left" /\ Len(toClient'[id]) > Len(toClient[id])
              => toClient'[id][Len(toClient'[id])].type # "DATA"]_vars

(***************************************************************************)
(* Liveness, without failed operations.                                    *)
(***************************************************************************)
Gone(id) == id \notin connections

\* The client's own window opens again: handle_write acknowledges what it has
\* written, in intervals no longer than the window.
ClientWindowReturns ==
    \A id \in Ids :
        cl[id].state = "open" /\ cl[id].sent - cl[id].acked >= WINDOW_SIZE
            ~> cl[id].sent - cl[id].acked < WINDOW_SIZE \/ cl[id].state # "open" \/ Gone(id)

\* A connection that is closing is erased once its writes are done.
ClosingEnds ==
    \A id \in Ids : id \in connections /\ conn[id].closing ~> Gone(id)

\* What the client sends on a connection reaches the peer, although the client
\* closes right behind it, unless the peer closed, the client reset the
\* forwarder or the agent stops.
AllDelivered ==
    \A id \in Ids, n \in 1 .. MaxToGuest :
        id \in connections /\ cl[id].sent >= n
            ~> Len(peer[id].got) >= n
               \/ peer[id].fin \/ cl[id].state = "closed" \/ dtor # "none"

\* The destructor returns: the I/O thread always notices and ends.
DestructorReturns == dtor = "cleared" ~> dtor = "done"

==============================================================================
