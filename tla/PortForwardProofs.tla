-------------------------- MODULE PortForwardProofs --------------------------
(***************************************************************************)
(* Theorems of PortForward, for every value of the constants that          *)
(* satisfies the assumptions.  First the pacing of reads and writes and    *)
(* the bytes the peer receives; then, on a second invariant, that nothing  *)
(* that should go on stops for good (reads, writes, accepts), that nothing *)
(* is said after the last word (CLOSE, in either direction), and that no   *)
(* byte is lost or counted twice.                                          *)
(***************************************************************************)
EXTENDS PortForward, SequenceTheorems, WellFoundedInduction, TLAPS

------------------------------------------------------------------------------
(***************************************************************************)
(* Every action keeps the types, one lemma per action.  One of them,       *)
(* HandleWrite, needs more than the types: the invariant further down      *)
(* supplies it.                                                            *)
(***************************************************************************)
\* The initial state is typed.
LEMMA InitTyped == Init => TypeOK
BY BoundsAssumption, SMT DEF Init, TypeOK, ConnectionType, FreshConnection, OpsType,
   NoOps, Segments, Buffers, PeerType, ClientType, Messages

LEMMA ConnTyped ==
    ASSUME TypeOK, NEW id \in Ids
    PROVE  /\ conn[id] \in ConnectionType
           /\ ops[id] \in OpsType
           /\ toClient[id] \in Seq(Messages)
           /\ peer[id] \in PeerType
           /\ cl[id] \in ClientType
BY DEF TypeOK

\* Assigning the fields that the kernel and the handlers count in.
LEMMA AccFields ==
    ASSUME NEW a \in [pend : Nat, done : Nat], NEW m \in Nat, NEW n \in Nat
    PROVE  /\ [a EXCEPT !.pend = m] \in [pend : Nat, done : Nat]
           /\ [a EXCEPT !.done = n] \in [pend : Nat, done : Nat]
           /\ [a EXCEPT !.pend = m, !.done = n] \in [pend : Nat, done : Nat]
           /\ [a EXCEPT !.done = n, !.pend = m] \in [pend : Nat, done : Nat]
OBVIOUS

LEMMA OpsFields ==
    ASSUME NEW o \in OpsType, NEW m \in Nat, NEW n \in Nat
    PROVE  /\ [o EXCEPT !.recv = m] \in OpsType
           /\ [o EXCEPT !.connect = m] \in OpsType
           /\ [o EXCEPT !.connected = m] \in OpsType
           /\ [o EXCEPT !.connect = m, !.connected = n] \in OpsType
BY DEF OpsType

LEMMA OpsReceived ==
    ASSUME NEW o \in OpsType, NEW m \in Nat, NEW r \in Seq(0 .. BUFFER_SIZE)
    PROVE  [o EXCEPT !.recv = m, !.received = r] \in OpsType
BY DEF OpsType

LEMMA ClientFields ==
    ASSUME NEW c \in ClientType, NEW n \in Nat
    PROVE  /\ [c EXCEPT !.sent = n] \in ClientType
           /\ [c EXCEPT !.acked = n] \in ClientType
           /\ [c EXCEPT !.toAck = n] \in ClientType
BY DEF ClientType

LEMMA FreshTyped == FreshConnection \in ConnectionType
BY DEF FreshConnection, ConnectionType

LEMMA CloseSocketTyped ==
    ASSUME NEW o \in OpsType
    PROVE  CloseSocket(o) \in OpsType
<1>1. <<>> \in Seq(Segments)
  OBVIOUS
<1> QED
  BY <1>1 DEF CloseSocket, OpsType

LEMMA PostReadTyped ==
    ASSUME NEW o \in OpsType
    PROVE  PostRead(o) \in OpsType
<1>1. o.recv \in Nat /\ o.recv + 1 \in Nat
  BY DEF OpsType
<1> QED
  BY <1>1 DEF PostRead, OpsType

LEMMA PostWriteTyped ==
    ASSUME NEW o \in OpsType, NEW wb \in Seq(Buffers), wb # <<>>
    PROVE  PostWrite(o, wb) \in OpsType
<1>1. Head(wb) \in Buffers
  OBVIOUS
<1>2. Remaining(Head(wb)) \in Segments
  BY <1>1 DEF Buffers, Remaining, Segments
<1>3. Append(o.send, Remaining(Head(wb))) \in Seq(Segments)
  BY <1>2, AppendProperties DEF OpsType
<1> QED
  BY <1>3 DEF PostWrite, OpsType

LEMMA BufferAdvances ==
    ASSUME NEW b \in Buffers, NEW bytes \in Nat
    PROVE  [b EXCEPT !.pos = @ + bytes] \in Buffers
BY DEF Buffers

LEMMA AdvanceTyped ==
    ASSUME NEW wb \in Seq(Buffers), wb # <<>>, NEW bytes \in Nat
    PROVE  Advance(wb, bytes) \in Seq(Buffers)
<1>1. Head(wb) \in Buffers /\ Tail(wb) \in Seq(Buffers)
  OBVIOUS
<1>2. [Head(wb) EXCEPT !.pos = @ + bytes] \in Buffers
  BY <1>1, BufferAdvances
<1> DEFINE front == [Head(wb) EXCEPT !.pos = @ + bytes]
<1>3. <<front>> \in Seq(Buffers)
  BY <1>2
<1>4. <<front>> \o Tail(wb) \in Seq(Buffers)
  BY <1>1, <1>3, ConcatProperties
<1> QED
  BY <1>1, <1>4 DEF Advance


LEMMA UpdateTyped ==
    ASSUME TypeOK, NEW id \in Ids, NEW c \in ConnectionType, NEW o \in OpsType,
           Update(id, c, o)
    PROVE  /\ conn' \in [Ids -> ConnectionType]
           /\ ops' \in [Ids -> OpsType]
           /\ connections' \subseteq Ids
BY DEF TypeOK, Update

LEMMA EraseTyped ==
    ASSUME TypeOK, NEW ids, Erase(ids)
    PROVE  /\ conn' \in [Ids -> ConnectionType]
           /\ ops' \in [Ids -> OpsType]
           /\ connections' \subseteq Ids
BY FreshTyped, CloseSocketTyped DEF TypeOK, Erase

LEMMA EraseHandledTyped ==
    ASSUME TypeOK, NEW id \in Ids, NEW o \in OpsType, EraseHandled(id, o)
    PROVE  /\ conn' \in [Ids -> ConnectionType]
           /\ ops' \in [Ids -> OpsType]
           /\ connections' \subseteq Ids
BY FreshTyped, CloseSocketTyped DEF TypeOK, EraseHandled

LEMMA EraseAcceptorsTyped ==
    ASSUME TypeOK, NEW ps, EraseAcceptors(ps)
    PROVE  /\ acceptors' \subseteq Ports
           /\ acc' \in [Ports -> [pend : Nat, done : Nat]]
<1>1. \A p \in Ports : [acc[p] EXCEPT !.pend = 0] \in [pend : Nat, done : Nat]
  BY DEF TypeOK
<1> QED
  BY <1>1 DEF TypeOK, EraseAcceptors

LEMMA SendTyped ==
    ASSUME TypeOK, NEW id \in Ids, NEW m \in Messages, Send(id, m)
    PROVE  toClient' \in [Ids -> Seq(Messages)]
<1>1. Append(toClient[id], m) \in Seq(Messages)
  BY AppendProperties DEF TypeOK
<1> QED
  BY <1>1 DEF TypeOK, Send

LEMMA HalfWindow == WINDOW_SIZE \div 2 \in Nat
BY WindowAssumption

------------------------------------------------------------------------------
(***************************************************************************)
(* The main thread.                                                        *)
(***************************************************************************)
LEMMA ListenToTyped ==
    ASSUME TypeOK, NEW p \in Ports, ListenTo(p)
    PROVE  TypeOK'
<1>1. acc[p] \in [pend : Nat, done : Nat] /\ acc[p].pend + 1 \in Nat
  BY DEF TypeOK
<1>2. [acc[p] EXCEPT !.pend = @ + 1] \in [pend : Nat, done : Nat]
  BY <1>1, AccFields
<1> QED
  BY <1>2 DEF TypeOK, ListenTo, Dispatch

LEMMA ShutdownPortTyped ==
    ASSUME TypeOK, NEW p \in Ports, ShutdownPort(p)
    PROVE  TypeOK'
BY EraseAcceptorsTyped DEF TypeOK, ShutdownPort, Dispatch

LEMMA ShutdownAllTyped ==
    ASSUME TypeOK, ShutdownAll
    PROVE  TypeOK'
<1>1. cl' \in [Ids -> ClientType]
  BY DEF ShutdownAll, TypeOK, ClientType
<1> QED
  BY <1>1, EraseTyped, EraseAcceptorsTyped DEF TypeOK, ShutdownAll, Dispatch

LEMMA ClientMovesTyped ==
    ASSUME TypeOK, NEW id \in Ids, NEW c \in ClientType, ClientMoves(id, c)
    PROVE  cl' \in [Ids -> ClientType]
BY DEF TypeOK, ClientMoves

LEMMA ConnectRemoteTyped ==
    ASSUME TypeOK, NEW id \in ConnectIds, NEW i \in AckIntervals, ConnectRemote(id, i)
    PROVE  TypeOK'
<1>1. id \in Ids /\ i \in Nat
  BY WindowAssumption DEF Ids
<1>2. cl' \in [Ids -> ClientType]
  BY <1>1 DEF ConnectRemote, ClientMoves, TypeOK, ClientType
<1>3. conn' \in [Ids -> ConnectionType]
  <2>1. [conn[id] EXCEPT !.ack_interval = i] \in ConnectionType
    BY <1>1, ConnTyped DEF ConnectionType
  <2> QED
    BY <1>1, <2>1 DEF ConnectRemote, TypeOK
<1>4. ops' \in [Ids -> OpsType]
  <2>1. [ops[id] EXCEPT !.connect = @ + 1] \in OpsType
    <3>1. ops[id].connect + 1 \in Nat
      BY <1>1, ConnTyped DEF OpsType
    <3> QED
      BY <1>1, <3>1, ConnTyped, OpsFields
  <2> QED
    BY <1>1, <2>1 DEF ConnectRemote, TypeOK
<1> QED
  BY <1>1, <1>2, <1>3, <1>4 DEF TypeOK, ConnectRemote, Dispatch

LEMMA AckedTyped ==
    ASSUME NEW c \in ConnectionType, NEW size \in Nat
    PROVE  Acked(c, size) \in ConnectionType
<1>1. c.data_sent - size \in Int
  BY DEF ConnectionType
<1> QED
  BY <1>1 DEF Acked, ConnectionType

LEMMA AckDataTyped ==
    ASSUME TypeOK, NEW id \in Ids, NEW size \in Nat, AckData(id, size),
           cl' \in [Ids -> ClientType]
    PROVE  TypeOK'
<1>1. Acked(conn[id], size) \in ConnectionType
  BY ConnTyped, AckedTyped
<1>2. /\ conn' \in [Ids -> ConnectionType]
      /\ ops' \in [Ids -> OpsType]
      /\ connections' \subseteq Ids
  <2>1. CASE id \notin connections
    BY <2>1 DEF AckData, TypeOK
  <2>2. CASE id \in connections
    <3>1. \E o \in OpsType : Update(id, Acked(conn[id], size), o)
      BY <2>2, ConnTyped, PostReadTyped DEF AckData
    <3> QED
      BY <3>1, <1>1, UpdateTyped
  <2> QED
    BY <2>1, <2>2
<1> QED
  BY <1>2 DEF AckData, Dispatch, TypeOK

LEMMA FirstAckTyped ==
    ASSUME TypeOK, NEW id \in Ids, NEW i \in AckIntervals, FirstAck(id, i)
    PROVE  TypeOK'
<1>1. cl' \in [Ids -> ClientType]
  BY DEF FirstAck, ClientMoves, TypeOK, ClientType
<1>2. i \in Nat
  BY WindowAssumption
<1> QED
  BY <1>1, <1>2, AckDataTyped DEF FirstAck

LEMMA ClientAckTyped ==
    ASSUME TypeOK, NEW id \in Ids, ClientAck(id)
    PROVE  TypeOK'
<1>1. cl' \in [Ids -> ClientType]
  BY DEF ClientAck, ClientMoves, TypeOK, ClientType
<1>2. cl[id].toAck \in Nat
  BY DEF TypeOK, ClientType
<1> QED
  BY <1>1, <1>2, AckDataTyped DEF ClientAck

LEMMA StartClosingTyped ==
    ASSUME TypeOK, NEW id \in Ids, StartClosing(id)
    PROVE  TypeOK'
<1>1. cl' \in [Ids -> ClientType]
  BY DEF StartClosing, ClientMoves, TypeOK, ClientType
<1>2. ToClosing(conn[id]) \in ConnectionType
  BY ConnTyped DEF ToClosing, ConnectionType
<1>3. /\ conn' \in [Ids -> ConnectionType]
      /\ ops' \in [Ids -> OpsType]
      /\ connections' \subseteq Ids
  BY <1>2, ConnTyped, UpdateTyped, EraseTyped DEF StartClosing, TypeOK
<1> QED
  BY <1>1, <1>3 DEF StartClosing, Dispatch, TypeOK

LEMMA SendDataTyped ==
    ASSUME TypeOK, NEW id \in Ids, NEW size \in 1 .. BUFFER_SIZE, SendData(id, size)
    PROVE  TypeOK'
<1>0. size \in Nat /\ cl[id].sent \in Nat
  BY WindowAssumption DEF TypeOK, ClientType
<1>1. cl' \in [Ids -> ClientType]
  <2>1. [cl[id] EXCEPT !.sent = @ + size] \in ClientType
    BY <1>0, ConnTyped DEF ClientType
  <2> QED
    BY <2>1, ClientMovesTyped DEF SendData
<1>2. /\ conn' \in [Ids -> ConnectionType]
      /\ ops' \in [Ids -> OpsType]
      /\ connections' \subseteq Ids
  <2>1. CASE id \notin connections
    BY <2>1 DEF SendData, TypeOK
  <2>2. CASE id \in connections
    <3> DEFINE b == [first |-> cl[id].sent, size |-> size, pos |-> 0]
               wb == Append(conn[id].write_buffer, b)
               c == [conn[id] EXCEPT !.write_buffer = wb]
    <3>1. b \in Buffers
      BY <1>0 DEF Buffers
    <3>2. wb \in Seq(Buffers) /\ wb # <<>>
      BY <3>1, ConnTyped, AppendProperties DEF ConnectionType
    <3>3. c \in ConnectionType
      BY <3>2, ConnTyped DEF ConnectionType
    <3>4. PostWrite(ops[id], wb) \in OpsType
      BY <3>2, ConnTyped, PostWriteTyped
    <3>5. \E o \in OpsType : Update(id, c, o)
      BY <2>2, <3>4, ConnTyped DEF SendData
    <3> QED
      BY <3>3, <3>5, UpdateTyped
  <2> QED
    BY <2>1, <2>2
<1> QED
  BY <1>1, <1>2 DEF SendData, Dispatch, TypeOK

------------------------------------------------------------------------------
(***************************************************************************)
(* The I/O thread.                                                         *)
(***************************************************************************)
LEMMA HandleAcceptTyped ==
    ASSUME TypeOK, NEW p \in Ports, HandleAccept(p)
    PROVE  TypeOK'
<1>1. acc' \in [Ports -> [pend : Nat, done : Nat]]
  <2>0. /\ acc[p] \in [pend : Nat, done : Nat]
        /\ acc[p].done - 1 \in Nat
        /\ acc[p].pend + 1 \in Nat
    BY DEF HandleAccept, TypeOK
  <2>1. [acc[p] EXCEPT !.done = @ - 1] \in [pend : Nat, done : Nat]
    BY <2>0, AccFields
  <2>2. AcceptAgain(acc[p]) \in [pend : Nat, done : Nat]
    BY <2>0, AccFields DEF AcceptAgain
  <2> QED
    BY <2>1, <2>2 DEF HandleAccept, TypeOK
<1>2. CASE p \notin acceptors
  BY <1>1, <1>2 DEF HandleAccept, IoHandles, TypeOK, world
<1>3. CASE p \in acceptors
  <2>1. /\ seq' \in 0 .. MaxAccepted
        /\ seq' \in Ids
    BY <1>3, BoundsAssumption DEF HandleAccept, TypeOK, Ids, AcceptIds
  <2>2. Message("ACCEPTED", WINDOW_SIZE \div 2) \in Messages
    BY HalfWindow DEF Message, Messages
  <2>3. toClient' \in [Ids -> Seq(Messages)]
    BY <1>3, <2>1, <2>2, SendTyped DEF HandleAccept
  <2>4. conn' \in [Ids -> ConnectionType]
    BY <1>3, <2>1, FreshTyped DEF HandleAccept, TypeOK
  <2> QED
    BY <1>1, <1>3, <2>1, <2>3, <2>4 DEF HandleAccept, IoHandles, TypeOK, world
<1> QED
  BY <1>2, <1>3

LEMMA HandleReadTyped ==
    ASSUME TypeOK, NEW id \in Ids, HandleRead(id)
    PROVE  TypeOK'
<1> DEFINE bytes == Head(ops[id].received)
           taken == [ops[id] EXCEPT !.received = Tail(@)]
           c     == [conn[id] EXCEPT !.data_sent = @ + bytes]
<1>1. /\ bytes \in Nat
      /\ bytes \in 0 .. BUFFER_SIZE
      /\ Tail(ops[id].received) \in Seq(0 .. BUFFER_SIZE)
  <2>1. ops[id].received \in Seq(0 .. BUFFER_SIZE) /\ ops[id].received # <<>>
    BY ConnTyped DEF HandleRead, OpsType
  <2>2. bytes \in 0 .. BUFFER_SIZE /\ Tail(ops[id].received) \in Seq(0 .. BUFFER_SIZE)
    BY <2>1, HeadTailProperties
  <2> QED
    BY <2>2, WindowAssumption
<1>2. taken \in OpsType
  BY <1>1, ConnTyped DEF OpsType
<1>3. c \in ConnectionType
  <2>1. conn[id].data_sent + bytes \in Int
    BY <1>1, ConnTyped DEF ConnectionType
  <2> QED
    BY <2>1, ConnTyped DEF ConnectionType
<1>4. /\ Message("CLOSE", 0) \in Messages
      /\ Message("DATA", bytes) \in Messages
  BY <1>1 DEF Message, Messages
<1>5. \/ /\ id \notin connections \/ (bytes > 0 /\ conn[id].closing)
         /\ ops' = [ops EXCEPT ![id] = taken]
         /\ UNCHANGED <<connections, conn, toClient>>
      \/ id \in connections /\ bytes = 0 /\ PeerClosed(id, taken)
      \/ /\ id \in connections /\ bytes > 0 /\ ~conn[id].closing
         /\ Send(id, Message("DATA", bytes))
         /\ Update(id, c, IF WindowOpen(c.data_sent) THEN PostRead(taken) ELSE taken)
  BY DEF HandleRead
<1> HIDE DEF bytes, taken, c
<1>6. /\ conn' \in [Ids -> ConnectionType]
      /\ ops' \in [Ids -> OpsType]
      /\ connections' \subseteq Ids
      /\ toClient' \in [Ids -> Seq(Messages)]
  <2>1. CASE /\ ops' = [ops EXCEPT ![id] = taken]
             /\ UNCHANGED <<connections, conn, toClient>>
    BY <2>1, <1>2 DEF TypeOK
  <2>2. CASE PeerClosed(id, taken)
    BY <2>2, <1>2, <1>4, EraseHandledTyped, SendTyped DEF PeerClosed
  <2>3. CASE /\ Send(id, Message("DATA", bytes))
             /\ Update(id, c, IF WindowOpen(c.data_sent) THEN PostRead(taken) ELSE taken)
    BY <2>3, <1>2, <1>3, <1>4, PostReadTyped, UpdateTyped, SendTyped
  <2> QED
    BY <1>5, <2>1, <2>2, <2>3
<1> QED
  BY <1>6 DEF HandleRead, IoHandles, TypeOK, world

LEMMA ReceivedTyped ==
    ASSUME NEW c \in ConnectionType, NEW bytes \in Nat, c.write_buffer # <<>>
    PROVE  Received(c, bytes) \in ConnectionType
<1>1. Advance(c.write_buffer, bytes) \in Seq(Buffers)
  BY AdvanceTyped DEF ConnectionType
<1>2. c.data_received + bytes \in Nat
  BY DEF ConnectionType
<1> QED
  BY <1>1, <1>2 DEF Received, ConnectionType

LEMMA HandleWriteTyped ==
    ASSUME TypeOK, NEW id \in Ids, HandleWrite(id),
           id \in connections => conn[id].write_buffer # <<>>
    PROVE  TypeOK'
<1> DEFINE bytes == Head(ops[id].sent)
           taken == [ops[id] EXCEPT !.sent = Tail(@)]
           c     == Received(conn[id], bytes)
           total == conn[id].data_received + bytes
<1>1. bytes \in Nat /\ Tail(ops[id].sent) \in Seq(Nat)
  BY ConnTyped DEF HandleWrite, OpsType
<1>2. taken \in OpsType
  BY <1>1, ConnTyped DEF OpsType
<1>3. id \in connections => c \in ConnectionType
  BY <1>1, ConnTyped, ReceivedTyped
<1>4. Message("ACK", total) \in Messages
  <2>1. conn[id].data_received \in Nat
    BY ConnTyped DEF ConnectionType
  <2>2. total \in Nat
    BY <1>1, <2>1
  <2> QED
    BY <2>2 DEF Message, Messages
<1>5. \/ /\ ops' = [ops EXCEPT ![id] = taken]
         /\ UNCHANGED <<connections, conn, toClient>>
      \/ /\ id \in connections
         /\ SendAckIfDue(id, total, conn[id].ack_interval)
         /\ \/ c.write_buffer # <<>> /\ Update(id, c, PostWrite(taken, c.write_buffer))
            \/ Update(id, c, taken)
            \/ EraseHandled(id, taken)
  BY DEF HandleWrite
<1> HIDE DEF bytes, taken, c, total
<1>6. /\ conn' \in [Ids -> ConnectionType]
      /\ ops' \in [Ids -> OpsType]
      /\ connections' \subseteq Ids
      /\ toClient' \in [Ids -> Seq(Messages)]
  <2>1. CASE /\ ops' = [ops EXCEPT ![id] = taken]
             /\ UNCHANGED <<connections, conn, toClient>>
    BY <2>1, <1>2 DEF TypeOK
  <2>2. CASE /\ id \in connections
             /\ SendAckIfDue(id, total, conn[id].ack_interval)
             /\ \/ c.write_buffer # <<>> /\ Update(id, c, PostWrite(taken, c.write_buffer))
                \/ Update(id, c, taken)
                \/ EraseHandled(id, taken)
    <3>1. toClient' \in [Ids -> Seq(Messages)]
      BY <2>2, <1>4, SendTyped DEF SendAckIfDue, TypeOK
    <3>2. c \in ConnectionType /\ c.write_buffer \in Seq(Buffers)
      BY <2>2, <1>3 DEF ConnectionType
    <3>3. c.write_buffer # <<>> => PostWrite(taken, c.write_buffer) \in OpsType
      BY <3>2, <1>2, PostWriteTyped
    <3> QED
      BY <2>2, <3>1, <3>2, <3>3, <1>2, UpdateTyped, EraseHandledTyped
  <2> QED
    BY <1>5, <2>1, <2>2
<1> QED
  BY <1>6 DEF HandleWrite, IoHandles, TypeOK, world

LEMMA HandleConnectTyped ==
    ASSUME TypeOK, NEW id \in Ids, HandleConnect(id)
    PROVE  TypeOK'
<1> DEFINE taken == [ops[id] EXCEPT !.connected = @ - 1]
           c     == [conn[id] EXCEPT !.acked = TRUE]
           ack   == Message("ACK", WINDOW_SIZE \div 2)
<1>1. taken \in OpsType
  <2>1. ops[id].connected - 1 \in Nat
    BY ConnTyped DEF HandleConnect, OpsType
  <2> QED
    BY <2>1, ConnTyped DEF OpsType
<1>2. c \in ConnectionType
  BY ConnTyped DEF ConnectionType
<1>3. ack \in Messages
  BY HalfWindow DEF Message, Messages
<1>4. \/ /\ ops' = [ops EXCEPT ![id] = taken]
         /\ UNCHANGED <<connections, conn, toClient>>
      \/ Send(id, ack) /\ Update(id, c, PostRead(taken))
  BY DEF HandleConnect
<1> HIDE DEF taken, c, ack
<1>5. /\ conn' \in [Ids -> ConnectionType]
      /\ ops' \in [Ids -> OpsType]
      /\ connections' \subseteq Ids
      /\ toClient' \in [Ids -> Seq(Messages)]
  <2>1. CASE /\ ops' = [ops EXCEPT ![id] = taken]
             /\ UNCHANGED <<connections, conn, toClient>>
    BY <2>1, <1>1 DEF TypeOK
  <2>2. CASE Send(id, ack) /\ Update(id, c, PostRead(taken))
    BY <2>2, <1>1, <1>2, <1>3, PostReadTyped, UpdateTyped, SendTyped
  <2> QED
    BY <1>4, <2>1, <2>2
<1> QED
  BY <1>5 DEF HandleConnect, IoHandles, TypeOK, world

LEMMA LifeTyped ==
    ASSUME TypeOK, IoLoop \/ IoWakes \/ DtorClears \/ DtorWakesThread \/ DtorReturns
    PROVE  TypeOK'
<1>1. CASE IoLoop
  BY <1>1 DEF TypeOK, IoLoop, tables, world
<1>2. CASE IoWakes
  BY <1>2 DEF TypeOK, IoWakes, IoHandles, tables, world
<1>3. CASE DtorClears
  BY <1>3, EraseTyped, EraseAcceptorsTyped DEF TypeOK, DtorClears, world
<1>4. CASE DtorWakesThread
  BY <1>4 DEF TypeOK, DtorWakesThread, tables, world
<1>5. CASE DtorReturns
  BY <1>5 DEF TypeOK, DtorReturns, tables, world
<1> QED
  BY <1>1, <1>2, <1>3, <1>4, <1>5

------------------------------------------------------------------------------
(***************************************************************************)
(* The environment.                                                        *)
(***************************************************************************)
LEMMA PeerConnectsTyped ==
    ASSUME TypeOK, NEW p \in Ports, PeerConnects(p)
    PROVE  TypeOK'
<1>1. /\ acc[p] \in [pend : Nat, done : Nat]
      /\ acc[p].pend - 1 \in Nat /\ acc[p].done + 1 \in Nat
  BY DEF PeerConnects, TypeOK
<1>2. [acc[p] EXCEPT !.pend = @ - 1, !.done = @ + 1] \in [pend : Nat, done : Nat]
  BY <1>1, AccFields
<1>3. acc' = [acc EXCEPT ![p] = [acc[p] EXCEPT !.pend = @ - 1, !.done = @ + 1]]
  BY DEF PeerConnects, TypeOK
<1>4. arrivals' \in 0 .. MaxAccepted
  BY BoundsAssumption DEF PeerConnects, TypeOK
<1> QED
  BY <1>2, <1>3, <1>4 DEF PeerConnects, TypeOK, thread

LEMMA KernelFailsAcceptTyped ==
    ASSUME TypeOK, NEW p \in Ports, KernelFailsAccept(p)
    PROVE  TypeOK'
<1>1. /\ acc[p] \in [pend : Nat, done : Nat]
      /\ acc[p].pend - 1 \in Nat
  BY DEF KernelFailsAccept, TypeOK
<1>2. [acc[p] EXCEPT !.pend = @ - 1] \in [pend : Nat, done : Nat]
  BY <1>1
<1> QED
  BY <1>2 DEF KernelFailsAccept, KernelMoves, TypeOK, thread

LEMMA KernelReadsTyped ==
    ASSUME TypeOK, NEW id \in Ids, NEW bytes \in 0 .. BUFFER_SIZE, KernelReads(id, bytes)
    PROVE  TypeOK'
<1> DEFINE o == [ops[id] EXCEPT !.recv = @ - 1, !.received = Append(@, bytes)]
           q == [peer[id] EXCEPT !.sent = @ + bytes, !.fin = (bytes = 0)]
<1>1. o \in OpsType
  <2>1. ops[id].recv - 1 \in Nat
    BY ConnTyped DEF KernelReads, OpsType
  <2>2. Append(ops[id].received, bytes) \in Seq(0 .. BUFFER_SIZE)
    BY ConnTyped, AppendProperties DEF OpsType
  <2> QED
    BY <2>1, <2>2, ConnTyped, OpsReceived
<1>2. q \in PeerType
  <2>1. peer[id].sent + bytes \in Nat /\ (bytes = 0) \in BOOLEAN
    BY WindowAssumption, ConnTyped DEF PeerType
  <2> QED
    BY <2>1, ConnTyped DEF PeerType
<1>3. ops' = [ops EXCEPT ![id] = o] /\ peer' = [peer EXCEPT ![id] = q]
  BY DEF KernelReads, TypeOK
<1>4. KernelMoves /\ UNCHANGED acc
  BY DEF KernelReads
<1> HIDE DEF o, q
<1> QED
  BY <1>1, <1>2, <1>3, <1>4 DEF KernelMoves, TypeOK, thread

LEMMA KernelWritesTyped ==
    ASSUME TypeOK, NEW id \in Ids, NEW bytes \in 1 .. BUFFER_SIZE, KernelWrites(id, bytes)
    PROVE  TypeOK'
<1> DEFINE from == Head(ops[id].send).from
           o == [ops[id] EXCEPT !.send = Tail(@), !.sent = Append(@, bytes)]
           g == [i \in 1 .. bytes |-> from + i]
           q == [peer[id] EXCEPT !.got = @ \o g]
<1>0. bytes \in Nat
  BY WindowAssumption
<1>1. /\ Head(ops[id].send) \in Segments
      /\ Tail(ops[id].send) \in Seq(Segments)
  BY ConnTyped, HeadTailProperties DEF KernelWrites, OpsType
<1>2. o \in OpsType
  <2>1. Append(ops[id].sent, bytes) \in Seq(Nat)
    BY <1>0, ConnTyped, AppendProperties DEF OpsType
  <2> QED
    BY <1>1, <2>1, ConnTyped DEF OpsType
<1>3. q \in PeerType
  <2>1. from \in Nat
    BY <1>1 DEF Segments
  <2>2. g \in Seq(Nat)
    <3>1. g \in [1 .. bytes -> Nat]
      BY <2>1, <1>0
    <3> QED
      BY <3>1, <1>0, SeqDef
  <2>3. peer[id].got \o g \in Seq(Nat)
    BY <2>2, ConnTyped, ConcatProperties DEF PeerType
  <2> QED
    BY <2>3, ConnTyped DEF PeerType
<1>4. ops' = [ops EXCEPT ![id] = o] /\ peer' = [peer EXCEPT ![id] = q]
  BY DEF KernelWrites, TypeOK
<1>5. KernelMoves /\ UNCHANGED acc
  BY DEF KernelWrites
<1> HIDE DEF o, q
<1> QED
  BY <1>2, <1>3, <1>4, <1>5 DEF KernelMoves, TypeOK, thread

LEMMA KernelConnectsTyped ==
    ASSUME TypeOK, NEW id \in Ids, KernelConnects(id)
    PROVE  TypeOK'
<1> DEFINE o == [ops[id] EXCEPT !.connect = @ - 1, !.connected = @ + 1]
<1>1. o \in OpsType
  <2>1. ops[id].connect - 1 \in Nat /\ ops[id].connected + 1 \in Nat
    BY ConnTyped DEF KernelConnects, OpsType
  <2> QED
    BY <2>1, ConnTyped, OpsFields
<1>2. ops' = [ops EXCEPT ![id] = o]
  BY DEF KernelConnects, TypeOK
<1> HIDE DEF o
<1> QED
  BY <1>1, <1>2 DEF KernelConnects, KernelMoves, TypeOK, thread

LEMMA KernelFailsTyped ==
    ASSUME TypeOK, NEW id \in Ids, KernelFails(id)
    PROVE  TypeOK'
<1>0. /\ ops[id].recv > 0 => ops[id].recv - 1 \in Nat
      /\ ops[id].connect > 0 => ops[id].connect - 1 \in Nat
  BY ConnTyped DEF OpsType
<1>1. ops[id].recv > 0 => [ops[id] EXCEPT !.recv = @ - 1] \in OpsType
  BY <1>0, ConnTyped, OpsFields
<1>2. ops[id].send # <<>> => [ops[id] EXCEPT !.send = Tail(@)] \in OpsType
  <2>1. ops[id].send # <<>> => Tail(ops[id].send) \in Seq(Segments)
    BY ConnTyped, HeadTailProperties DEF OpsType
  <2> QED
    BY <2>1, ConnTyped DEF OpsType
<1>3. ops[id].connect > 0 => [ops[id] EXCEPT !.connect = @ - 1] \in OpsType
  BY <1>0, ConnTyped, OpsFields
<1>4. \E o \in OpsType : ops' = [ops EXCEPT ![id] = o]
  BY <1>1, <1>2, <1>3 DEF KernelFails, TypeOK
<1> QED
  BY <1>4 DEF KernelFails, KernelMoves, TypeOK, thread

LEMMA ClientReceivesTyped ==
    ASSUME TypeOK, NEW id \in Ids, ClientReceives(id)
    PROVE  TypeOK'
<1> DEFINE m == Head(toClient[id])
<1>1. m \in Messages /\ Tail(toClient[id]) \in Seq(Messages)
  BY ConnTyped, HeadTailProperties DEF ClientReceives
<1>2. /\ [cl[id] EXCEPT !.state = "accepted"] \in ClientType
      /\ [cl[id] EXCEPT !.state = "open"] \in ClientType
      /\ [cl[id] EXCEPT !.state = "closed"] \in ClientType
      /\ [cl[id] EXCEPT !.acked = @ + m.size] \in ClientType
      /\ [cl[id] EXCEPT !.toAck = @ + m.size] \in ClientType
  <2>1. cl[id].acked + m.size \in Nat /\ cl[id].toAck + m.size \in Nat
    BY <1>1, ConnTyped DEF ClientType, Messages
  <2> QED
    BY <2>1, ConnTyped, ClientFields DEF ClientType
<1>3. Understood(cl[id], m) \in ClientType
  BY <1>2, ConnTyped DEF Understood
<1>4. cl' \in [Ids -> ClientType]
  BY <1>3, ClientMovesTyped DEF ClientReceives
<1> QED
  BY <1>1, <1>4 DEF ClientReceives, TypeOK, thread

------------------------------------------------------------------------------
(***************************************************************************)
(* The inductive invariant, one connection at a time.  TypeOK alone is not *)
(* inductive: handle_write takes the front of write_buffer, which is there *)
(* only because a write is outstanding only while there is one.            *)
(***************************************************************************)
Unborn(id) ==
    \/ id \in AcceptIds /\ id > seq
    \/ id \in ConnectIds /\ cl[id].state = "none"

\* An id nobody has used yet has left no trace.
FreshPart(id) ==
    Unborn(id) =>
        /\ id \notin connections
        /\ ops[id] = NoOps
        /\ toClient[id] = <<>>
        /\ peer[id].got = <<>>
        /\ cl[id].sent = 0 /\ cl[id].state = "none"

\* Nothing is pending on the socket of an erased connection.
DeadPart(id) ==
    id \notin connections =>
        /\ conn[id] = FreshConnection
        /\ ops[id].recv = 0 /\ ops[id].send = <<>> /\ ops[id].connect = 0

\* A write is outstanding only while there is a buffer to write.
WritePart(id) ==
    id \in connections =>
        /\ Writes(id) <= 1
        /\ conn[id].write_buffer = <<>> => Writes(id) = 0

\* A read is outstanding only on an open connection with an open window; the
\* client acknowledges only connections it has opened and not closed.
ReadPart(id) ==
    id \in connections =>
        /\ Reads(id) <= 1
        /\ ~conn[id].acked /\ ~conn[id].closing => Reads(id) = 0 /\ conn[id].data_sent = 0
        /\ conn[id].acked /\ Reads(id) = 1 => conn[id].data_sent < WINDOW_SIZE
        /\ conn[id].data_sent < WINDOW_SIZE + BUFFER_SIZE
        /\ conn[id].closing => ~conn[id].acked /\ cl[id].state = "left"

\* A connect is under way only on a connection nothing else has happened to.
ConnectPart(id) ==
    id \in connections /\ ops[id].connect + ops[id].connected > 0 =>
        /\ ops[id].connect + ops[id].connected = 1
        /\ ~conn[id].acked /\ ~conn[id].closing
        /\ conn[id].write_buffer = <<>>
        /\ toClient[id] = <<>>
        /\ cl[id].state = "connecting"

\* Every buffer follows the one before it, and only the first is partly written.
Gapless(wb) ==
    /\ \A i \in 1 .. Len(wb) : wb[i].pos < wb[i].size /\ (i > 1 => wb[i].pos = 0)
    /\ \A i \in 1 .. Len(wb) - 1 : wb[i + 1].first = wb[i].first + wb[i].size

\* The buffers hold the client's bytes without a gap, and the outstanding write
\* starts, or has been done, where the peer's stream ends.
StreamPart(id) ==
    LET wb == conn[id].write_buffer
        o  == ops[id]
        n  == Len(peer[id].got)
    IN  /\ \A i \in 1 .. n : peer[id].got[i] = i
        /\ id \in connections =>
             /\ Gapless(wb)
             /\ wb # <<>> => wb[Len(wb)].first + wb[Len(wb)].size = cl[id].sent
             /\ wb = <<>> => n = cl[id].sent
             /\ o.send # <<>> => /\ o.send[1].from = n
                                 /\ wb[1].first + wb[1].pos = n
                                 /\ o.send[1].len = wb[1].size - wb[1].pos
             /\ o.sent # <<>> => /\ wb[1].first + wb[1].pos + o.sent[1] = n
                                 /\ wb[1].pos + o.sent[1] <= wb[1].size

ConnInv(id) ==
    FreshPart(id) /\ DeadPart(id) /\ WritePart(id) /\ ReadPart(id)
        /\ ConnectPart(id) /\ StreamPart(id)

IInv == TypeOK /\ \A id \in Ids : ConnInv(id)

\* A step that leaves a connection alone keeps its invariant.
LEMMA Frame ==
    ASSUME NEW j \in Ids, ConnInv(j),
           j \in connections' <=> j \in connections,
           conn'[j] = conn[j], ops'[j] = ops[j], toClient'[j] = toClient[j],
           cl'[j] = cl[j], peer'[j] = peer[j],
           Unborn(j)' => Unborn(j)
    PROVE  ConnInv(j)'
BY DEF ConnInv, FreshPart, DeadPart, WritePart, ReadPart, ConnectPart, StreamPart,
       Writes, Reads

LEMMA InitInv == Init => IInv
<1> SUFFICES ASSUME Init PROVE IInv
  OBVIOUS
<1>1. TypeOK
  BY InitTyped
<1>2. ASSUME NEW id \in Ids PROVE ConnInv(id)
  BY DEF Init, ConnInv, FreshPart, DeadPart, WritePart, ReadPart, ConnectPart,
         StreamPart, Gapless, Writes, Reads, NoOps, FreshConnection
<1> QED
  BY <1>1, <1>2 DEF IInv

LEMMA UnbornIsDead ==
    ASSUME NEW id \in Ids, ConnInv(id), id \in connections
    PROVE  ~Unborn(id)
BY DEF ConnInv, FreshPart

\* The number of outstanding operations, from the lengths of their sequences.
LEMMA Counts ==
    ASSUME TypeOK, NEW id \in Ids
    PROVE  /\ Reads(id) \in Nat /\ Writes(id) \in Nat
           /\ Reads(id) = 0 <=> ops[id].recv = 0 /\ ops[id].received = <<>>
           /\ Writes(id) = 0 <=> ops[id].send = <<>> /\ ops[id].sent = <<>>
<1>1. /\ Len(ops[id].received) \in Nat
      /\ Len(ops[id].received) = 0 <=> ops[id].received = <<>>
  BY ConnTyped, EmptySeq, LenProperties DEF OpsType
<1>2. /\ Len(ops[id].send) \in Nat
      /\ Len(ops[id].send) = 0 <=> ops[id].send = <<>>
  BY ConnTyped, EmptySeq, LenProperties DEF OpsType
<1>3. /\ Len(ops[id].sent) \in Nat
      /\ Len(ops[id].sent) = 0 <=> ops[id].sent = <<>>
  BY ConnTyped, EmptySeq, LenProperties DEF OpsType
<1>4. ops[id].recv \in Nat
  BY ConnTyped DEF OpsType
<1>5. Reads(id) \in Nat /\ (Reads(id) = 0 <=> ops[id].recv = 0 /\ ops[id].received = <<>>)
  BY <1>1, <1>4 DEF Reads
<1>6. Writes(id) \in Nat /\ (Writes(id) = 0 <=> ops[id].send = <<>> /\ ops[id].sent = <<>>)
  <2>1. \A m, n \in Nat : m + n \in Nat /\ (m + n = 0 <=> m = 0 /\ n = 0)
    OBVIOUS
  <2>2. Writes(id) = Len(ops[id].send) + Len(ops[id].sent)
    BY DEF Writes
  <2> QED
    BY <2>1, <2>2, <1>2, <1>3
<1> QED
  BY <1>5, <1>6

LEMMA ListenToConn ==
    ASSUME IInv, NEW p \in Ports, ListenTo(p) \/ ShutdownPort(p)
    PROVE  \A j \in Ids : ConnInv(j)'
<1>1. UNCHANGED <<connections, conn, ops, toClient, cl, peer, seq>>
  BY DEF ListenTo, ShutdownPort, Dispatch
<1> QED
  BY <1>1, Frame DEF IInv, Unborn

\* Erasing connections, by the destructor or by the client.
LEMMA EraseConn ==
    ASSUME IInv, NEW ids \in SUBSET connections, Erase(ids),
           UNCHANGED <<toClient, peer, seq>>,
           \A j \in Ids : /\ cl'[j].sent = cl[j].sent
                          /\ cl'[j].state = "none" <=> cl[j].state = "none"
                          /\ j \notin ids => cl'[j].state = cl[j].state
    PROVE  \A j \in Ids : ConnInv(j)'
<1> SUFFICES ASSUME NEW j \in Ids PROVE ConnInv(j)'
  OBVIOUS
<1>1. CASE j \in ids
  <2>1. /\ j \notin connections' /\ conn'[j] = FreshConnection
        /\ ops'[j] = CloseSocket(ops[j])
    BY <1>1 DEF Erase
  <2>2. /\ ops'[j].recv = 0 /\ ops'[j].send = <<>> /\ ops'[j].connect = 0
    BY <2>1, ConnTyped DEF CloseSocket, IInv, OpsType
  <2>3. ~Unborn(j)'
    BY <1>1, UnbornIsDead DEF IInv, Unborn
  <2>4. \A i \in 1 .. Len(peer[j].got) : peer[j].got[i] = i
    BY DEF IInv, ConnInv, StreamPart
  <2> QED
    BY <2>1, <2>2, <2>3, <2>4 DEF ConnInv, FreshPart, DeadPart, WritePart, ReadPart,
       ConnectPart, StreamPart
<1>2. CASE j \notin ids
  <2>1. /\ j \in connections' <=> j \in connections
        /\ conn'[j] = conn[j] /\ ops'[j] = ops[j]
    BY <1>2 DEF Erase, IInv, TypeOK
  <2>2. Unborn(j)' => Unborn(j)
    BY DEF Unborn
  <2>3. ConnInv(j)
    BY DEF IInv
  <2> QED
    BY <1>2, <2>1, <2>2, <2>3 DEF ConnInv, FreshPart, DeadPart, WritePart, ReadPart,
       ConnectPart, StreamPart, Writes, Reads
<1> QED
  BY <1>1, <1>2

LEMMA ConnectRemoteConn ==
    ASSUME IInv, NEW id \in ConnectIds, NEW i \in AckIntervals, ConnectRemote(id, i)
    PROVE  \A j \in Ids : ConnInv(j)'
<1>0. id \in Ids /\ TypeOK
  BY DEF Ids, IInv
<1>1. /\ id \notin connections /\ ops[id] = NoOps /\ toClient[id] = <<>>
      /\ peer[id].got = <<>> /\ cl[id].sent = 0 /\ conn[id] = FreshConnection
  BY <1>0 DEF ConnectRemote, IInv, ConnInv, FreshPart, DeadPart, Unborn
<1>2. /\ cl'[id].state = "connecting" /\ cl'[id].sent = 0
      /\ UNCHANGED <<toClient, peer, seq>>
  BY <1>0, <1>1 DEF ConnectRemote, Dispatch, ClientMoves, TypeOK, ClientType
<1>3. ~Unborn(id)'
  BY <1>0, <1>2, IdsAssumption DEF Unborn, ConnectRemote
<1>4. ASSUME NEW j \in Ids, j # id PROVE ConnInv(j)'
  <2>1. /\ j \in connections' <=> j \in connections
        /\ conn'[j] = conn[j] /\ ops'[j] = ops[j] /\ cl'[j] = cl[j]
    BY <1>0, <1>4 DEF ConnectRemote, ClientMoves, TypeOK
  <2> QED
    BY <2>1, <1>2, Frame DEF IInv, Unborn
<1>5. ConnInv(id)'
  <2>1. CASE UNCHANGED <<connections, conn, ops>>
    BY <2>1, <1>1, <1>2, <1>3 DEF ConnInv, FreshPart, DeadPart, WritePart, ReadPart,
       ConnectPart, StreamPart, NoOps
  <2>2. CASE /\ connections' = connections \cup {id}
             /\ conn' = [conn EXCEPT ![id].ack_interval = i]
             /\ ops' = [ops EXCEPT ![id].connect = @ + 1]
    <3>1. /\ conn'[id].acked = FALSE /\ conn'[id].closing = FALSE
          /\ conn'[id].write_buffer = <<>> /\ conn'[id].data_sent = 0
      BY <2>2, <1>0, <1>1 DEF TypeOK, FreshConnection
    <3>2. /\ ops'[id].recv = 0 /\ ops'[id].received = <<>>
          /\ ops'[id].send = <<>> /\ ops'[id].sent = <<>>
          /\ ops'[id].connect = 1 /\ ops'[id].connected = 0
      BY <2>2, <1>0, <1>1 DEF TypeOK, NoOps
    <3>3. id \in connections'
      BY <2>2
    <3> QED
      BY <3>1, <3>2, <3>3, <1>1, <1>2, <1>3, WindowAssumption
      DEF ConnInv, FreshPart, DeadPart, WritePart, ReadPart, ConnectPart, StreamPart, Gapless,
          Reads, Writes
  <2> QED
    BY <2>1, <2>2 DEF ConnectRemote
<1> QED
  BY <1>4, <1>5

LEMMA AckDataConn ==
    ASSUME IInv, NEW id \in Ids, NEW size \in Nat, AckData(id, size),
           NEW c \in ClientType, ClientMoves(id, c),
           cl[id].state \in {"accepted", "open"}, c.state = "open",
           c.sent = cl[id].sent
    PROVE  \A j \in Ids : ConnInv(j)'
<1>0. TypeOK
  BY DEF IInv
<1>1. cl'[id] = c /\ UNCHANGED <<toClient, peer, seq>>
  BY <1>0 DEF AckData, Dispatch, ClientMoves, TypeOK
<1>2. ASSUME NEW j \in Ids, j # id PROVE ConnInv(j)'
  <2>1. /\ j \in connections' <=> j \in connections
        /\ conn'[j] = conn[j] /\ ops'[j] = ops[j] /\ cl'[j] = cl[j]
    BY <1>0, <1>2 DEF AckData, Update, ClientMoves, TypeOK
  <2> QED
    BY <2>1, <1>1, Frame DEF IInv, Unborn
<1>3. Unborn(id)' => Unborn(id)
  BY <1>1 DEF Unborn
<1>4. CASE id \notin connections
  <2>1. UNCHANGED <<connections, conn, ops>>
    BY <1>4 DEF AckData
  <2> QED
    BY <2>1, <1>1, <1>2, <1>3, <1>4 DEF IInv, ConnInv, FreshPart, DeadPart, WritePart,
       ReadPart, ConnectPart, StreamPart
<1>5. CASE id \in connections
  <2> DEFINE after == Acked(conn[id], size)
             resume == conn[id].acked => Reopened(conn[id].data_sent, after.data_sent)
  <2>1. /\ id \in connections'
        /\ conn'[id] = after
        /\ ops'[id] = IF resume THEN PostRead(ops[id]) ELSE ops[id]
    BY <1>0, <1>5 DEF AckData, Update, TypeOK
  <2>2. /\ after.closing = conn[id].closing
        /\ after.write_buffer = conn[id].write_buffer
        /\ after.acked = TRUE
        /\ conn[id].acked => after.data_sent = conn[id].data_sent - size
        /\ ~conn[id].acked => after.data_sent = conn[id].data_sent
    BY <1>0, ConnTyped DEF Acked, ConnectionType
  <2>3. /\ ops'[id].received = ops[id].received
        /\ ops'[id].send = ops[id].send /\ ops'[id].sent = ops[id].sent
        /\ ops'[id].connect = ops[id].connect /\ ops'[id].connected = ops[id].connected
        /\ ops'[id].recv = IF resume THEN ops[id].recv + 1 ELSE ops[id].recv
    BY <1>0, <2>1, ConnTyped DEF PostRead, OpsType
  <2>4. /\ ~conn[id].closing
        /\ ~(ops[id].connect + ops[id].connected > 0)
    BY <1>5 DEF IInv, ConnInv, ReadPart, ConnectPart
  <2>5. conn[id].data_sent \in Int /\ Reads(id) \in Nat
    BY <1>0, ConnTyped, Counts DEF ConnectionType
  <2>6. Reads(id)' = IF resume THEN Reads(id) + 1 ELSE Reads(id)
    BY <1>0, <2>3, ConnTyped DEF Reads, OpsType
  <2>7. ReadPart(id)'
    <3>1. /\ Reads(id) <= 1
          /\ ~conn[id].acked => Reads(id) = 0 /\ conn[id].data_sent = 0
          /\ conn[id].acked /\ Reads(id) = 1 => conn[id].data_sent < WINDOW_SIZE
          /\ conn[id].data_sent < WINDOW_SIZE + BUFFER_SIZE
      BY <1>5, <2>4 DEF IInv, ConnInv, ReadPart
    <3> HIDE DEF after
    <3>2. CASE conn[id].acked
      BY <3>1, <3>2, <2>1, <2>2, <2>4, <2>5, <2>6, WindowAssumption
      DEF ReadPart, Reopened, WindowOpen
    <3>3. CASE ~conn[id].acked
      BY <3>1, <3>3, <2>1, <2>2, <2>4, <2>5, <2>6, WindowAssumption
      DEF ReadPart, Reopened, WindowOpen
    <3> QED
      BY <3>2, <3>3
  <2> HIDE DEF after, resume
  <2>8. WritePart(id)' /\ DeadPart(id)' /\ ConnectPart(id)'
    <3>1. WritePart(id)'
      BY <1>5, <2>1, <2>2, <2>3 DEF IInv, ConnInv, WritePart, Writes
    <3>2. DeadPart(id)'
      BY <2>1 DEF DeadPart
    <3>3. ConnectPart(id)'
      BY <2>1, <2>3, <2>4 DEF ConnectPart
    <3> QED
      BY <3>1, <3>2, <3>3
  <2>10. StreamPart(id)'
    <3>1. StreamPart(id)
      BY DEF IInv, ConnInv
    <3> QED
      BY <3>1, <1>1, <1>5, <2>1, <2>2, <2>3 DEF StreamPart
  <2>9. FreshPart(id)'
    BY <1>3, <1>5, UnbornIsDead DEF FreshPart, IInv
  <2> QED
    BY <1>2, <2>7, <2>8, <2>9, <2>10 DEF ConnInv
<1> QED
  BY <1>4, <1>5

\* A buffer that begins where the last one ends leaves no gap.
LEMMA GaplessAppend ==
    ASSUME NEW s \in Seq(Buffers), s # <<>>, Gapless(s),
           NEW b \in Buffers, b.pos = 0, b.size > 0,
           b.first = s[Len(s)].first + s[Len(s)].size
    PROVE  Gapless(Append(s, b))
<1> DEFINE t == Append(s, b)
           n == Len(s)
<1>1. /\ n \in Nat /\ n > 0 /\ Len(t) = n + 1 /\ t[n + 1] = b
      /\ \A i \in 1 .. n : t[i] = s[i]
  BY AppendProperties, EmptySeq, LenProperties
<1>2. /\ \A i \in 1 .. n : s[i].pos < s[i].size /\ (i > 1 => s[i].pos = 0)
      /\ \A i \in 1 .. n - 1 : s[i + 1].first = s[i].first + s[i].size
      /\ b.first = s[n].first + s[n].size
  BY DEF Gapless
<1> HIDE DEF t, n
<1>3. ASSUME NEW i \in 1 .. n + 1 PROVE t[i].pos < t[i].size /\ (i > 1 => t[i].pos = 0)
  <2>1. CASE i = n + 1
    BY <1>1, <2>1
  <2>2. CASE i # n + 1
    <3>1. i \in 1 .. n
      BY <1>1, <2>2
    <3> QED
      BY <1>1, <1>2, <3>1
  <2> QED
    BY <2>1, <2>2
<1>4. ASSUME NEW i \in 1 .. n PROVE t[i + 1].first = t[i].first + t[i].size
  <2>1. t[i] = s[i]
    BY <1>1
  <2>2. CASE i = n
    BY <1>1, <1>2, <2>1, <2>2
  <2>3. CASE i # n
    <3>1. i \in 1 .. n - 1 /\ i + 1 \in 1 .. n
      BY <1>1, <2>3
    <3> QED
      BY <1>1, <1>2, <2>1, <3>1
  <2> QED
    BY <2>2, <2>3
<1>5. Len(t) = n + 1 /\ Len(t) - 1 = n
  BY <1>1
<1>6. Gapless(t)
  BY <1>3, <1>4, <1>5 DEF Gapless
<1> QED
  BY <1>6 DEF t

LEMMA SendDataConn ==
    ASSUME IInv, NEW id \in Ids, NEW size \in 1 .. BUFFER_SIZE, SendData(id, size)
    PROVE  \A j \in Ids : ConnInv(j)'
<1>0. TypeOK /\ size \in Nat /\ size > 0 /\ cl[id].sent \in Nat /\ ConnInv(id)
  BY WindowAssumption, ConnTyped DEF IInv, ClientType
<1>1. /\ cl'[id].sent = cl[id].sent + size /\ cl'[id].state = "open" /\ cl[id].state = "open"
      /\ UNCHANGED <<toClient, peer, seq>>
  BY <1>0, ConnTyped DEF SendData, Dispatch, ClientMoves, TypeOK, ClientType
<1>2. ASSUME NEW j \in Ids, j # id PROVE ConnInv(j)'
  <2>1. /\ j \in connections' <=> j \in connections
        /\ conn'[j] = conn[j] /\ ops'[j] = ops[j] /\ cl'[j] = cl[j]
    BY <1>0, <1>2 DEF SendData, Update, ClientMoves, TypeOK
  <2> QED
    BY <2>1, <1>1, Frame DEF IInv, Unborn
<1>3. CASE id \notin connections
  <2>1. UNCHANGED <<connections, conn, ops>>
    BY <1>3 DEF SendData
  <2>2. ~Unborn(id)'
    <3>1. ~(id \in AcceptIds /\ id > seq)
      BY <1>0, <1>1 DEF ConnInv, FreshPart, Unborn
    <3> QED
      BY <3>1, <1>1 DEF Unborn
  <2> QED
    BY <2>1, <2>2, <1>0, <1>1, <1>2, <1>3 DEF ConnInv, FreshPart, DeadPart, WritePart,
       ReadPart, ConnectPart, StreamPart
<1>4. CASE id \in connections
  <2> DEFINE b == [first |-> cl[id].sent, size |-> size, pos |-> 0]
             old == conn[id].write_buffer
             wb == Append(old, b)
             c == [conn[id] EXCEPT !.write_buffer = wb]
             o == IF Len(wb) = 1 THEN PostWrite(ops[id], wb) ELSE ops[id]
  <2>1. Update(id, c, o)
    BY <1>4 DEF SendData, StartsWrite
  <2>2. b \in Buffers /\ old \in Seq(Buffers)
    BY <1>0, ConnTyped DEF Buffers, ConnectionType
  <2>3. /\ wb \in Seq(Buffers) /\ wb # <<>> /\ Len(wb) = Len(old) + 1 /\ Len(old) \in Nat
        /\ \A i \in 1 .. Len(old) : wb[i] = old[i]
        /\ wb[Len(old) + 1] = b
        /\ Len(old) = 0 <=> old = <<>>
    BY <2>2, AppendProperties, EmptySeq, LenProperties
  <2>4. /\ conn'[id].write_buffer = wb /\ conn'[id].acked = conn[id].acked
        /\ conn'[id].closing = conn[id].closing
        /\ conn'[id].data_sent = conn[id].data_sent
        /\ id \in connections' /\ ops'[id] = o
    <3> HIDE DEF o, wb
    <3> QED
      BY <1>0, <1>4, <2>1, ConnTyped DEF Update, TypeOK, ConnectionType
  <2>5. ~(ops[id].connect + ops[id].connected > 0)
    BY <1>0, <1>1, <1>4 DEF ConnInv, ConnectPart
  <2>6. /\ o.recv = ops[id].recv /\ o.received = ops[id].received
        /\ o.connect = ops[id].connect /\ o.connected = ops[id].connected
        /\ o.sent = ops[id].sent
        /\ old # <<>> => o.send = ops[id].send
        /\ old = <<>> => o.send = Append(ops[id].send, Remaining(Head(wb)))
    <3> DEFINE p == PostWrite(ops[id], wb)
    <3> HIDE DEF wb
    <3>1. /\ p.recv = ops[id].recv /\ p.received = ops[id].received
          /\ p.connect = ops[id].connect /\ p.connected = ops[id].connected
          /\ p.sent = ops[id].sent
          /\ p.send = Append(ops[id].send, Remaining(Head(wb)))
      BY <1>0, ConnTyped DEF PostWrite, OpsType
    <3>2. Len(wb) = 1 <=> old = <<>>
      BY <2>3
    <3> HIDE DEF p
    <3>3. o = IF Len(wb) = 1 THEN p ELSE ops[id]
      BY DEF p
    <3> HIDE DEF o
    <3> QED
      BY <3>1, <3>2, <3>3
  <2>7. old = <<>> => /\ Len(wb) = 1 /\ wb[1] = b
                      /\ Len(o.sent) = 0 /\ o.sent = <<>>
                      /\ Len(o.send) = 1
                      /\ o.send[1] = [from |-> cl[id].sent, len |-> size]
    <3> SUFFICES ASSUME old = <<>>
                 PROVE  /\ Len(wb) = 1 /\ wb[1] = b
                        /\ Len(o.sent) = 0 /\ o.sent = <<>>
                        /\ Len(o.send) = 1
                        /\ o.send[1] = [from |-> cl[id].sent, len |-> size]
      OBVIOUS
    <3> DEFINE r == [from |-> cl[id].sent, len |-> size]
    <3>1. Len(wb) = 1 /\ wb[1] = b
      BY <2>3
    <3>2. Head(wb) = b
      BY <2>2, HeadTailAppend
    <3>3. ops[id].send = <<>> /\ ops[id].sent = <<>>
      BY <1>0, <1>4, Counts DEF ConnInv, WritePart
    <3>4. Remaining(b) = r /\ r \in Segments
      BY <1>0 DEF Remaining, Segments
    <3>5. Len(Append(<<>>, r)) = 1 /\ Append(<<>>, r)[1] = r
      OBVIOUS
    <3> HIDE DEF r
    <3>6. o.send = Append(<<>>, r) /\ o.sent = <<>>
      BY <2>6, <3>2, <3>3, <3>4
    <3> QED
      BY <3>1, <3>5, <3>6 DEF r
  <2> HIDE DEF o, wb, old, b, c
  <2>8. FreshPart(id)' /\ DeadPart(id)' /\ ConnectPart(id)'
    <3>1. ~Unborn(id)'
      BY <1>0, <1>1, <1>4, UnbornIsDead DEF Unborn
    <3> QED
      BY <3>1, <2>4, <2>5, <2>6 DEF FreshPart, DeadPart, ConnectPart
  <2>9. ReadPart(id)'
    BY <1>0, <1>1, <1>4, <2>4, <2>6 DEF ConnInv, ReadPart, Reads
  <2>10. WritePart(id)'
    <3>1. CASE old = <<>>
      <4>1. Len(ops'[id].send) = 1 /\ Len(ops'[id].sent) = 0
        BY <3>1, <2>4, <2>7
      <4>2. Writes(id)' = 1
        BY <4>1 DEF Writes
      <4>3. conn'[id].write_buffer # <<>>
        BY <2>3, <2>4
      <4> QED
        BY <4>2, <4>3 DEF WritePart
    <3>2. CASE old # <<>>
      BY <3>2, <1>0, <1>4, <2>3, <2>4, <2>6 DEF ConnInv, WritePart, Writes, old
    <3> QED
      BY <3>1, <3>2
  <2>11. StreamPart(id)'
    <3>0. StreamPart(id) /\ peer'[id] = peer[id] /\ Len(peer[id].got) \in Nat
      BY <1>0, <1>1, ConnTyped, LenProperties DEF ConnInv, PeerType
    <3>1. CASE old = <<>>
      <4>1. Len(peer[id].got) = cl[id].sent
        BY <1>4, <3>0, <3>1 DEF StreamPart, old
      <4>2. b.first = cl[id].sent /\ b.size = size /\ b.pos = 0
        BY DEF b
      <4>3. /\ Len(wb) = 1 /\ wb[1] = b /\ wb # <<>> /\ o.sent = <<>>
            /\ o.send[1].from = cl[id].sent /\ o.send[1].len = size
        BY <3>1, <2>3, <2>7
      <4>4. Gapless(wb)
        BY <1>0, <4>2, <4>3 DEF Gapless
      <4>6. wb[Len(wb)].first + wb[Len(wb)].size = cl[id].sent + size
        BY <4>2, <4>3
      <4>7. /\ o.send[1].from = Len(peer[id].got)
            /\ wb[1].first + wb[1].pos = Len(peer[id].got)
            /\ o.send[1].len = wb[1].size - wb[1].pos
        BY <1>0, <4>1, <4>2, <4>3
      <4> QED
        BY <1>1, <3>0, <4>3, <4>4, <4>6, <4>7, <2>4 DEF StreamPart
    <3>2. CASE old # <<>>
      <4>1. b.first = cl[id].sent /\ b.size = size /\ b.pos = 0
        BY DEF b
      <4>2. /\ Gapless(old)
            /\ old[Len(old)].first + old[Len(old)].size = cl[id].sent
        BY <1>4, <3>0, <3>2 DEF StreamPart, old
      <4>3. /\ Gapless(wb)
            /\ wb[Len(wb)].first + wb[Len(wb)].size = cl[id].sent + size
        <5>1. wb[Len(wb)] = b
          BY <2>3
        <5>2. /\ b \in Buffers /\ old \in Seq(Buffers) /\ old # <<>> /\ Gapless(old)
              /\ b.pos = 0 /\ b.size > 0 /\ b.first = old[Len(old)].first + old[Len(old)].size
          BY <1>0, <2>2, <3>2, <4>1, <4>2
        <5>3. Gapless(wb)
          BY <5>2, GaplessAppend DEF wb
        <5> QED
          BY <4>1, <5>1, <5>3
      <4>4. wb[1] = old[1]
        BY <2>3, <3>2
      <4>5. /\ o.send # <<>> => /\ o.send[1].from = Len(peer[id].got)
                                /\ wb[1].first + wb[1].pos = Len(peer[id].got)
                                /\ o.send[1].len = wb[1].size - wb[1].pos
            /\ o.sent # <<>> => /\ wb[1].first + wb[1].pos + o.sent[1] = Len(peer[id].got)
                                /\ wb[1].pos + o.sent[1] <= wb[1].size
        BY <1>4, <2>6, <3>0, <3>2, <4>4 DEF StreamPart, old
      <4> QED
        BY <1>1, <2>3, <2>4, <3>0, <4>3, <4>5 DEF StreamPart
    <3> QED
      BY <3>1, <3>2
  <2> QED
    BY <1>2, <2>8, <2>9, <2>10, <2>11 DEF ConnInv
<1> QED
  BY <1>3, <1>4

LEMMA HandleAcceptConn ==
    ASSUME IInv, NEW p \in Ports, HandleAccept(p)
    PROVE  \A j \in Ids : ConnInv(j)'
<1>0. TypeOK /\ seq \in Nat
  BY DEF IInv, TypeOK
<1>1. CASE p \notin acceptors
  <2>1. UNCHANGED <<connections, conn, ops, toClient, cl, peer, seq>>
    BY <1>1 DEF HandleAccept, IoHandles, world
  <2> QED
    BY <2>1, Frame DEF IInv, Unborn
<1>2. CASE p \in acceptors
  <2>0. seq + 1 \in Ids
    BY <1>0, <1>2, BoundsAssumption DEF HandleAccept, Ids, AcceptIds, TypeOK
  <2> PICK id \in Ids : id = seq + 1
    BY <2>0
  <2>1. /\ id \in Ids /\ id \in AcceptIds /\ id > seq /\ seq' = id
    BY <1>0, <1>2, BoundsAssumption DEF HandleAccept, Ids, AcceptIds, TypeOK
  <2>2. /\ connections' = connections \cup {id}
        /\ conn' = [conn EXCEPT ![id] = FreshConnection]
        /\ toClient' = [toClient EXCEPT ![id] =
                            Append(@, Message("ACCEPTED", WINDOW_SIZE \div 2))]
        /\ UNCHANGED <<ops, cl, peer>>
    BY <1>2, <2>1 DEF HandleAccept, IoHandles, Send, world
  <2>3. /\ ops[id] = NoOps /\ peer[id].got = <<>> /\ cl[id].sent = 0
    BY <2>1 DEF IInv, ConnInv, FreshPart, Unborn
  <2>4. ASSUME NEW j \in Ids, j # id PROVE ConnInv(j)'
    <3>1. /\ j \in connections' <=> j \in connections
          /\ conn'[j] = conn[j] /\ toClient'[j] = toClient[j]
      BY <1>0, <2>2, <2>4 DEF TypeOK
    <3>2. Unborn(j)' => Unborn(j)
      BY <1>0, <2>1, <2>2 DEF Unborn, AcceptIds
    <3> QED
      BY <2>2, <3>1, <3>2, Frame DEF IInv
  <2>5. ConnInv(id)'
    <3>0. id \notin ConnectIds
      BY <2>1, IdsAssumption
    <3>1. ~Unborn(id)'
      BY <1>0, <2>1, <3>0 DEF Unborn
    <3>2. id \in connections' /\ conn'[id] = FreshConnection
      BY <1>0, <2>1, <2>2 DEF TypeOK
    <3> QED
      BY <2>2, <2>3, <3>1, <3>2, WindowAssumption
      DEF ConnInv, FreshPart, DeadPart, WritePart, ReadPart, ConnectPart, StreamPart, Gapless,
          FreshConnection, NoOps, Reads, Writes
  <2> QED
    BY <2>4, <2>5
<1> QED
  BY <1>1, <1>2

\* Erasing a connection in the handler of one of its packets.
LEMMA EraseHandledConn ==
    ASSUME IInv, NEW id \in Ids, id \in connections, NEW taken \in OpsType,
           EraseHandled(id, taken), UNCHANGED <<cl, peer, seq>>,
           \A j \in Ids : j # id => toClient'[j] = toClient[j]
    PROVE  \A j \in Ids : ConnInv(j)'
<1>0. TypeOK
  BY DEF IInv
<1>1. ASSUME NEW j \in Ids, j # id PROVE ConnInv(j)'
  <2>1. /\ j \in connections' <=> j \in connections
        /\ conn'[j] = conn[j] /\ ops'[j] = ops[j]
    BY <1>0, <1>1 DEF EraseHandled, TypeOK
  <2> QED
    BY <2>1, <1>1, Frame DEF IInv, Unborn
<1>2. ConnInv(id)'
  <2>1. /\ id \notin connections' /\ conn'[id] = FreshConnection
        /\ ops'[id] = CloseSocket(taken)
    BY <1>0 DEF EraseHandled, TypeOK
  <2>2. /\ ops'[id].recv = 0 /\ ops'[id].send = <<>> /\ ops'[id].connect = 0
    BY <2>1 DEF CloseSocket, OpsType
  <2>3. ~Unborn(id)'
    BY UnbornIsDead DEF IInv, Unborn
  <2>4. \A i \in 1 .. Len(peer[id].got) : peer[id].got[i] = i
    BY DEF IInv, ConnInv, StreamPart
  <2> QED
    BY <2>1, <2>2, <2>3, <2>4 DEF ConnInv, FreshPart, DeadPart, WritePart, ReadPart,
       ConnectPart, StreamPart
<1> QED
  BY <1>1, <1>2

\* The client closes a connection that still has something to write.
LEMMA DrainConn ==
    ASSUME IInv, NEW id \in connections, conn[id].write_buffer # <<>>,
           Update(id, ToClosing(conn[id]), ops[id]),
           UNCHANGED <<toClient, peer, seq>>, cl[id].state # "none",
           ClientMoves(id, [cl[id] EXCEPT !.state = "left"])
    PROVE  \A j \in Ids : ConnInv(j)'
<1>0. TypeOK /\ id \in Ids /\ ConnInv(id)
  BY DEF IInv, TypeOK
<1>1. cl'[id].state = "left" /\ cl'[id].sent = cl[id].sent
  BY <1>0, ConnTyped DEF ClientMoves, TypeOK, ClientType
<1>2. /\ conn'[id].closing = TRUE /\ conn'[id].acked = FALSE
      /\ conn'[id].write_buffer = conn[id].write_buffer
      /\ conn'[id].data_sent = conn[id].data_sent
      /\ ops'[id] = ops[id] /\ id \in connections'
  BY <1>0, ConnTyped DEF Update, ToClosing, TypeOK, ConnectionType
<1>3. ASSUME NEW j \in Ids, j # id PROVE ConnInv(j)'
  <2>1. /\ j \in connections' <=> j \in connections
        /\ conn'[j] = conn[j] /\ ops'[j] = ops[j] /\ cl'[j] = cl[j]
    BY <1>0, <1>3 DEF Update, ClientMoves, TypeOK
  <2> QED
    BY <2>1, Frame DEF IInv, Unborn
<1>4. FreshPart(id)' /\ DeadPart(id)' /\ WritePart(id)' /\ StreamPart(id)'
  <2>1. ~Unborn(id)'
    BY <1>0, <1>1, UnbornIsDead DEF Unborn
  <2> QED
    BY <2>1, <1>0, <1>1, <1>2
    DEF FreshPart, DeadPart, WritePart, StreamPart, Writes, ConnInv
<1>5. ReadPart(id)'
  BY <1>0, <1>1, <1>2 DEF ConnInv, ReadPart, Reads
<1>6. ConnectPart(id)'
  BY <1>0, <1>2 DEF ConnInv, ConnectPart
<1> QED
  BY <1>3, <1>4, <1>5, <1>6 DEF ConnInv

LEMMA StartClosingConn ==
    ASSUME IInv, NEW id \in Ids, StartClosing(id)
    PROVE  \A j \in Ids : ConnInv(j)'
<1>0. TypeOK
  BY DEF IInv
<1>1. /\ UNCHANGED <<toClient, peer, seq>> /\ cl[id].state # "none"
      /\ ClientMoves(id, [cl[id] EXCEPT !.state = "left"])
  BY DEF StartClosing, Dispatch
<1>2. /\ cl'[id].state = "left" /\ cl'[id].sent = cl[id].sent
      /\ \A j \in Ids : j # id => cl'[j] = cl[j]
  BY <1>0, <1>1, ConnTyped DEF ClientMoves, TypeOK, ClientType
<1>3. CASE /\ id \in connections /\ MustDrain(conn[id])
           /\ Update(id, ToClosing(conn[id]), ops[id])
  BY <1>1, <1>3, DrainConn DEF MustDrain
<1>4. CASE id \in connections /\ Erase({id})
  <2>1. {id} \in SUBSET connections
    BY <1>4
  <2>2. \A j \in Ids : /\ cl'[j].sent = cl[j].sent
                       /\ cl'[j].state = "none" <=> cl[j].state = "none"
                       /\ j \notin {id} => cl'[j].state = cl[j].state
    BY <1>1, <1>2
  <2> QED
    BY <1>1, <1>4, <2>1, <2>2, EraseConn
<1>5. CASE id \notin connections /\ UNCHANGED <<connections, conn, ops>>
  <2>1. ASSUME NEW j \in Ids, j # id PROVE ConnInv(j)'
    BY <1>1, <1>2, <1>5, <2>1, Frame DEF IInv, Unborn
  <2>2. ~Unborn(id)'
    <3>1. ~Unborn(id)
      BY <1>1 DEF IInv, ConnInv, FreshPart
    <3> QED
      BY <3>1, <1>1, <1>2 DEF Unborn
  <2>3. ConnInv(id)
    BY DEF IInv
  <2>4. ConnInv(id)'
    BY <1>1, <1>2, <1>5, <2>2, <2>3 DEF ConnInv, FreshPart, DeadPart, WritePart, ReadPart,
       ConnectPart, StreamPart
  <2> QED
    BY <2>1, <2>4
<1> QED
  BY <1>3, <1>4, <1>5 DEF StartClosing

LEMMA HandleReadConn ==
    ASSUME IInv, NEW id \in Ids, HandleRead(id)
    PROVE  \A j \in Ids : ConnInv(j)'
<1> DEFINE bytes == Head(ops[id].received)
           taken == [ops[id] EXCEPT !.received = Tail(@)]
           c     == [conn[id] EXCEPT !.data_sent = @ + bytes]
<1>0. TypeOK /\ ConnInv(id) /\ UNCHANGED <<cl, peer, seq>>
  BY DEF IInv, HandleRead, IoHandles, world
<1>1. \/ /\ id \notin connections \/ (bytes > 0 /\ conn[id].closing)
         /\ ops' = [ops EXCEPT ![id] = taken]
         /\ UNCHANGED <<connections, conn, toClient>>
      \/ id \in connections /\ bytes = 0 /\ PeerClosed(id, taken)
      \/ /\ id \in connections /\ bytes > 0 /\ ~conn[id].closing
         /\ Send(id, Message("DATA", bytes))
         /\ Update(id, c, IF WindowOpen(c.data_sent) THEN PostRead(taken) ELSE taken)
  BY DEF HandleRead
<1>2. /\ bytes \in 0 .. BUFFER_SIZE
      /\ Tail(ops[id].received) \in Seq(0 .. BUFFER_SIZE)
      /\ Len(Tail(ops[id].received)) = Len(ops[id].received) - 1
      /\ Len(ops[id].received) \in Nat
  <2>1. ops[id].received \in Seq(0 .. BUFFER_SIZE) /\ ops[id].received # <<>>
    BY <1>0, ConnTyped DEF HandleRead, OpsType
  <2> QED
    BY <2>1, HeadTailProperties, LenProperties
<1>3. /\ taken \in OpsType
      /\ taken.recv = ops[id].recv /\ taken.send = ops[id].send /\ taken.sent = ops[id].sent
      /\ taken.connect = ops[id].connect /\ taken.connected = ops[id].connected
      /\ taken.received = Tail(ops[id].received)
  BY <1>0, <1>2, ConnTyped DEF OpsType
<1>4. /\ c.acked = conn[id].acked /\ c.closing = conn[id].closing
      /\ c.write_buffer = conn[id].write_buffer
      /\ c.data_sent = conn[id].data_sent + bytes
      /\ conn[id].data_sent \in Int
  BY <1>0, ConnTyped DEF ConnectionType
<1> HIDE DEF bytes, taken, c
<1>5. CASE /\ id \notin connections \/ (bytes > 0 /\ conn[id].closing)
           /\ ops' = [ops EXCEPT ![id] = taken]
           /\ UNCHANGED <<connections, conn, toClient>>
  <2>1. ASSUME NEW j \in Ids, j # id PROVE ConnInv(j)'
    <3>1. ops'[j] = ops[j]
      BY <1>0, <1>5, <2>1 DEF TypeOK
    <3> QED
      BY <1>0, <1>5, <3>1, Frame DEF IInv, Unborn
  <2>2. ops'[id] = taken
    BY <1>0, <1>5 DEF TypeOK
  <2>3. ~Unborn(id)'
    <3>1. ops[id].received # <<>>
      BY DEF HandleRead
    <3>2. ~Unborn(id)
      BY <1>0, <3>1 DEF ConnInv, FreshPart, NoOps
    <3> QED
      BY <1>0, <3>2 DEF Unborn
  <2>4. ReadPart(id)'
    <3>1. id \in connections => conn[id].closing /\ ~conn[id].acked
      BY <1>0, <1>5 DEF ConnInv, ReadPart
    <3>2. ops[id].recv \in Nat /\ Reads(id)' = Reads(id) - 1 /\ Reads(id) \in Nat
      <4>1. ops[id].recv \in Nat /\ Reads(id) \in Nat
        BY <1>0, ConnTyped, Counts DEF OpsType
      <4>2. Reads(id)' = ops[id].recv + Len(Tail(ops[id].received))
        BY <1>3, <2>2 DEF Reads
      <4>3. Reads(id) = ops[id].recv + Len(ops[id].received)
        BY DEF Reads
      <4>4. \A m, n, k \in Nat : k = n - 1 => m + k = (m + n) - 1
        OBVIOUS
      <4>5. Len(Tail(ops[id].received)) \in Nat
        BY <1>2, LenProperties
      <4> QED
        BY <4>1, <4>2, <4>3, <4>4, <4>5, <1>2
    <3> QED
      BY <1>0, <1>5, <3>1, <3>2 DEF ConnInv, ReadPart
  <2>5. ConnInv(id)'
    BY <1>0, <1>3, <1>5, <2>2, <2>3, <2>4 DEF ConnInv, FreshPart, DeadPart, WritePart,
       ConnectPart, StreamPart, Writes
  <2> QED
    BY <2>1, <2>5
<1>6. CASE id \in connections /\ PeerClosed(id, taken)
  <2>1. EraseHandled(id, taken)
    BY <1>6 DEF PeerClosed
  <2>2. \A j \in Ids : j # id => toClient'[j] = toClient[j]
    BY <1>0, <1>6 DEF PeerClosed, Send, TypeOK
  <2> QED
    BY <1>0, <1>3, <1>6, <2>1, <2>2, EraseHandledConn
<1>7. CASE /\ id \in connections /\ bytes > 0 /\ ~conn[id].closing
           /\ Send(id, Message("DATA", bytes))
           /\ Update(id, c, IF WindowOpen(c.data_sent) THEN PostRead(taken) ELSE taken)
  <2> DEFINE o == IF WindowOpen(c.data_sent) THEN PostRead(taken) ELSE taken
  <2>1. ASSUME NEW j \in Ids, j # id PROVE ConnInv(j)'
    <3>1. /\ j \in connections' <=> j \in connections
          /\ conn'[j] = conn[j] /\ ops'[j] = ops[j] /\ toClient'[j] = toClient[j]
      BY <1>0, <1>7, <2>1 DEF Update, Send, TypeOK
    <3> QED
      BY <1>0, <3>1, Frame DEF IInv, Unborn
  <2>2. /\ conn'[id] = c /\ ops'[id] = o /\ id \in connections'
    BY <1>0, <1>7 DEF Update, TypeOK
  <2>3. /\ o.received = Tail(ops[id].received)
        /\ o.recv = IF WindowOpen(c.data_sent) THEN ops[id].recv + 1 ELSE ops[id].recv
        /\ o.send = ops[id].send /\ o.sent = ops[id].sent
        /\ o.connect = ops[id].connect /\ o.connected = ops[id].connected
    BY <1>3 DEF PostRead, OpsType
  <2> HIDE DEF o
  <2>4. Reads(id) = 1 /\ ops[id].recv = 0 /\ Len(ops[id].received) = 1
    <3>1. Reads(id) <= 1 /\ ops[id].recv \in Nat /\ Len(ops[id].received) > 0
      BY <1>0, <1>2, <1>7, ConnTyped, LenProperties DEF ConnInv, ReadPart, OpsType, HandleRead
    <3>2. \A m, n \in Nat : m + n <= 1 /\ n > 0 => m = 0 /\ n = 1 /\ m + n = 1
      OBVIOUS
    <3>3. Reads(id) = ops[id].recv + Len(ops[id].received)
      BY DEF Reads
    <3>4. ops[id].recv + Len(ops[id].received) <= 1
      BY <3>1, <3>3
    <3> QED
      BY <3>1, <3>2, <3>3, <3>4, <1>2
  <2>5. conn[id].acked /\ conn[id].data_sent < WINDOW_SIZE
    BY <1>0, <1>7, <2>4 DEF ConnInv, ReadPart
  <2>6. ~(ops[id].connect + ops[id].connected > 0)
    BY <1>0, <1>7, <2>5 DEF ConnInv, ConnectPart
  <2>7. Reads(id)' = IF WindowOpen(c.data_sent) THEN 1 ELSE 0
    <3>1. Reads(id)' = o.recv + Len(o.received)
      BY <2>2 DEF Reads
    <3>2. Len(o.received) = 0
      BY <1>2, <2>3, <2>4
    <3>3. o.recv = IF WindowOpen(c.data_sent) THEN 1 ELSE 0
      BY <2>3, <2>4
    <3> QED
      BY <3>1, <3>2, <3>3
  <2>8. ReadPart(id)'
    <3>1. c.data_sent < WINDOW_SIZE + BUFFER_SIZE
      BY <1>2, <1>4, <2>5, WindowAssumption
    <3> QED
      <4>1. Reads(id)' <= 1 /\ (Reads(id)' = 1 => c.data_sent < WINDOW_SIZE)
        BY <2>7 DEF WindowOpen
      <4> QED
        BY <4>1, <1>4, <1>7, <2>2, <2>5, <3>1 DEF ReadPart
  <2>9. FreshPart(id)' /\ DeadPart(id)' /\ ConnectPart(id)'
    <3>1. ~Unborn(id)'
      BY <1>0, <1>7, UnbornIsDead DEF Unborn
    <3> QED
      BY <3>1, <2>2, <2>3, <2>6 DEF FreshPart, DeadPart, ConnectPart
  <2>10. WritePart(id)' /\ StreamPart(id)'
    BY <1>0, <1>4, <1>7, <2>2, <2>3 DEF ConnInv, WritePart, StreamPart, Writes
  <2> QED
    BY <2>1, <2>8, <2>9, <2>10 DEF ConnInv
<1> QED
  BY <1>1, <1>5, <1>6, <1>7

LEMMA FrontFields ==
    ASSUME NEW b \in Buffers, NEW bytes \in Nat, NEW f, f = [b EXCEPT !.pos = @ + bytes]
    PROVE  /\ f \in Buffers /\ f.first = b.first /\ f.size = b.size
           /\ f.pos = b.pos + bytes
BY DEF Buffers

\* Writing the front of a gapless list leaves a gapless list, whose first byte
\* is the one after the last written.
LEMMA AdvanceStream ==
    ASSUME NEW wb \in Seq(Buffers), wb # <<>>, NEW bytes \in Nat,
           Gapless(wb), wb[1].pos + bytes <= wb[1].size,
           NEW new, new = Advance(wb, bytes)
    PROVE  /\ Gapless(new)
           /\ new # <<>> =>
                /\ new[Len(new)].first + new[Len(new)].size
                       = wb[Len(wb)].first + wb[Len(wb)].size
                /\ new[1].first + new[1].pos = wb[1].first + wb[1].pos + bytes
           /\ new = <<>> =>
                wb[1].first + wb[1].pos + bytes = wb[Len(wb)].first + wb[Len(wb)].size
<1> DEFINE front == [Head(wb) EXCEPT !.pos = @ + bytes]
<1>1. /\ Len(wb) \in Nat /\ Len(wb) >= 1 /\ Head(wb) = wb[1]
      /\ \A i \in 1 .. Len(wb) : wb[i] \in Buffers
  BY LenProperties, EmptySeq
<1>2. /\ Tail(wb) \in Seq(Buffers) /\ Len(Tail(wb)) = Len(wb) - 1
      /\ \A i \in 1 .. Len(wb) - 1 : Tail(wb)[i] = wb[i + 1]
  BY HeadTailProperties, <1>1
<1>4. /\ wb[1] \in Buffers /\ wb[1].pos \in Nat /\ wb[1].first \in Nat /\ wb[1].size \in Nat
  BY <1>1 DEF Buffers
<1>3. /\ front \in Buffers /\ front.first = wb[1].first /\ front.size = wb[1].size
      /\ front.pos = wb[1].pos + bytes
  BY <1>1, <1>4, FrontFields
<1> HIDE DEF front
<1>5. new = IF front.pos = front.size THEN Tail(wb) ELSE <<front>> \o Tail(wb)
  BY DEF Advance, front
<1>8. /\ \A i \in 1 .. Len(wb) : wb[i].pos < wb[i].size /\ (i > 1 => wb[i].pos = 0)
      /\ \A i \in 1 .. Len(wb) - 1 : wb[i + 1].first = wb[i].first + wb[i].size
  BY DEF Gapless
<1>6. CASE front.pos = front.size
  <2>1. new = Tail(wb) /\ Len(new) = Len(wb) - 1
    BY <1>5, <1>6, <1>2
  <2>2. \A i \in 1 .. Len(new) : /\ i + 1 \in 1 .. Len(wb) /\ i + 1 > 1
                                 /\ new[i] = wb[i + 1]
    BY <2>1, <1>1, <1>2
  <2>3. \A i \in 1 .. Len(new) : new[i].pos < new[i].size /\ (i > 1 => new[i].pos = 0)
    BY <2>2, <1>8
  <2>4. \A i \in 1 .. Len(new) - 1 : new[i + 1].first = new[i].first + new[i].size
    <3>1. \A i \in 1 .. Len(new) - 1 :
             i \in 1 .. Len(new) /\ i + 1 \in 1 .. Len(new) /\ i + 1 \in 1 .. Len(wb) - 1
      BY <2>1, <1>1
    <3> QED
      BY <3>1, <2>2, <1>8
  <2>5. CASE new # <<>>
    <3>1. Len(new) >= 1 /\ Len(new) \in 1 .. Len(new) /\ 1 \in 1 .. Len(new) /\ Len(new) + 1 = Len(wb)
      BY <2>1, <2>5, <1>1, <1>2, EmptySeq
    <3>2. new[Len(new)] = wb[Len(wb)] /\ new[1] = wb[2]
      BY <3>1, <2>2
    <3>3. wb[2].first = wb[1].first + wb[1].size /\ wb[2].pos = 0
      BY <3>1, <2>1, <1>1, <1>8
    <3> QED
      BY <2>3, <2>4, <2>5, <3>2, <3>3, <1>3, <1>4, <1>6 DEF Gapless
  <2>6. CASE new = <<>>
    <3>1. Len(wb) = 1
      <4>1. Len(new) = 0
        BY <2>6
      <4> QED
        BY <4>1, <2>1, <1>1
    <3> QED
      BY <2>3, <2>4, <2>6, <3>1, <1>3, <1>4, <1>6 DEF Gapless
  <2> QED
    BY <2>5, <2>6
<1>7. CASE front.pos # front.size
  <2>1. <<front>> \in Seq(Buffers) /\ Len(<<front>>) = 1 /\ <<front>>[1] = front
    BY <1>3
  <2>2. /\ Len(new) = Len(wb) /\ new # <<>> /\ new[1] = front
        /\ \A i \in 2 .. Len(wb) : new[i] = wb[i]
    <3>1. new = <<front>> \o Tail(wb)
      BY <1>5, <1>7
    <3>2. /\ new \in Seq(Buffers) /\ Len(new) = 1 + Len(Tail(wb))
          /\ \A i \in 1 .. 1 + Len(Tail(wb)) :
                new[i] = IF i <= 1 THEN <<front>>[i] ELSE Tail(wb)[i - 1]
      BY <3>1, <2>1, <1>2, ConcatProperties
    <3>3. Len(new) = Len(wb) /\ new[1] = front
      BY <3>2, <2>1, <1>1, <1>2
    <3>4. \A i \in 2 .. Len(wb) : new[i] = wb[i]
      <4> TAKE i \in 2 .. Len(wb)
      <4>1. i \in 1 .. 1 + Len(Tail(wb)) /\ ~(i <= 1) /\ i - 1 \in 1 .. Len(wb) - 1
        BY <1>1, <1>2
      <4>2. new[i] = Tail(wb)[i - 1]
        BY <4>1, <3>2
      <4>3. Tail(wb)[i - 1] = wb[(i - 1) + 1]
        BY <4>1, <1>2
      <4> QED
        BY <4>1, <4>2, <4>3
    <3> QED
      BY <3>2, <3>3, <3>4, <1>1, EmptySeq
  <2>3. front.pos < front.size
    <3>1. wb[1].pos + bytes <= wb[1].size /\ wb[1].pos + bytes # wb[1].size
      BY <1>3, <1>7
    <3> QED
      BY <3>1, <1>3, <1>4
  <2>4. \A i \in 1 .. Len(new) : new[i].pos < new[i].size /\ (i > 1 => new[i].pos = 0)
    <3> TAKE i \in 1 .. Len(new)
    <3>1. CASE i = 1
      BY <3>1, <2>2, <2>3
    <3>2. CASE i # 1
      BY <3>2, <2>2, <1>1, <1>8
    <3> QED
      BY <3>1, <3>2
  <2>5. \A i \in 1 .. Len(new) - 1 : new[i + 1].first = new[i].first + new[i].size
    <3> TAKE i \in 1 .. Len(new) - 1
    <3>1. wb[i + 1].first = wb[i].first + wb[i].size /\ new[i + 1] = wb[i + 1]
      BY <2>2, <1>1, <1>8
    <3>2. CASE i = 1
      BY <3>1, <3>2, <2>2, <1>3
    <3>3. CASE i # 1
      BY <3>1, <3>3, <2>2, <1>1
    <3> QED
      BY <3>2, <3>3
  <2>6. new[Len(new)].first + new[Len(new)].size = wb[Len(wb)].first + wb[Len(wb)].size
    <3>1. CASE Len(wb) = 1
      BY <3>1, <2>2, <1>3
    <3>2. CASE Len(wb) # 1
      BY <3>2, <2>2, <1>1
    <3> QED
      BY <3>1, <3>2
  <2>7. new[1].first + new[1].pos = wb[1].first + wb[1].pos + bytes
    BY <2>2, <1>3, <1>4
  <2> QED
    BY <2>2, <2>4, <2>5, <2>6, <2>7 DEF Gapless
<1> QED
  BY <1>6, <1>7

LEMMA HandleWriteConn ==
    ASSUME IInv, NEW id \in Ids, HandleWrite(id)
    PROVE  \A j \in Ids : ConnInv(j)'
<1> DEFINE bytes == Head(ops[id].sent)
           taken == [ops[id] EXCEPT !.sent = Tail(@)]
           c     == Received(conn[id], bytes)
<1>0. TypeOK /\ ConnInv(id) /\ UNCHANGED <<cl, peer, seq>>
  BY DEF IInv, HandleWrite, IoHandles, world
<1>1. \/ /\ id \notin connections
         /\ ops' = [ops EXCEPT ![id] = taken]
         /\ UNCHANGED <<connections, conn, toClient>>
      \/ /\ id \in connections
         /\ SendAckIfDue(id, conn[id].data_received + bytes, conn[id].ack_interval)
         /\ \/ c.write_buffer # <<>> /\ Update(id, c, PostWrite(taken, c.write_buffer))
            \/ c.write_buffer = <<>> /\ Update(id, c, taken)
            \/ c.write_buffer = <<>> /\ EraseHandled(id, taken)
  BY DEF HandleWrite
<1>2. /\ bytes \in Nat /\ bytes = ops[id].sent[1]
      /\ Tail(ops[id].sent) \in Seq(Nat)
      /\ Len(Tail(ops[id].sent)) = Len(ops[id].sent) - 1
      /\ Len(ops[id].sent) \in Nat /\ Len(ops[id].sent) > 0
      /\ ops[id].sent # <<>>
  <2>1. ops[id].sent \in Seq(Nat) /\ ops[id].sent # <<>>
    BY <1>0, ConnTyped DEF HandleWrite, OpsType
  <2> QED
    BY <2>1, HeadTailProperties, LenProperties, EmptySeq
<1>3. /\ taken \in OpsType
      /\ taken.recv = ops[id].recv /\ taken.send = ops[id].send
      /\ taken.received = ops[id].received
      /\ taken.connect = ops[id].connect /\ taken.connected = ops[id].connected
      /\ taken.sent = Tail(ops[id].sent)
  BY <1>0, <1>2, ConnTyped DEF OpsType
<1>4. /\ c.acked = conn[id].acked /\ c.closing = conn[id].closing
      /\ c.write_buffer = Advance(conn[id].write_buffer, bytes)
      /\ c.data_sent = conn[id].data_sent
  BY <1>0, ConnTyped DEF Received, ConnectionType
<1> HIDE DEF bytes, taken, c
<1>5. CASE /\ id \notin connections
           /\ ops' = [ops EXCEPT ![id] = taken]
           /\ UNCHANGED <<connections, conn, toClient>>
  <2>1. ASSUME NEW j \in Ids, j # id PROVE ConnInv(j)'
    <3>1. ops'[j] = ops[j]
      BY <1>0, <1>5, <2>1 DEF TypeOK
    <3> QED
      BY <1>0, <1>5, <3>1, Frame DEF IInv, Unborn
  <2>2. ops'[id] = taken
    BY <1>0, <1>5 DEF TypeOK
  <2>3. ~Unborn(id)'
    <3>1. ~Unborn(id)
      BY <1>0, <1>2 DEF ConnInv, FreshPart, NoOps
    <3> QED
      BY <1>0, <3>1 DEF Unborn
  <2>4. ConnInv(id)'
    BY <1>0, <1>3, <1>5, <2>2, <2>3 DEF ConnInv, FreshPart, DeadPart, WritePart,
       ReadPart, ConnectPart, StreamPart
  <2> QED
    BY <2>1, <2>4
<1>6. ASSUME id \in connections,
             SendAckIfDue(id, conn[id].data_received + bytes, conn[id].ack_interval)
      PROVE  \A j \in Ids : j # id => toClient'[j] = toClient[j]
  BY <1>0, <1>6 DEF SendAckIfDue, Send, TypeOK
<1>7. CASE /\ id \in connections /\ EraseHandled(id, taken)
           /\ SendAckIfDue(id, conn[id].data_received + bytes, conn[id].ack_interval)
  BY <1>0, <1>3, <1>6, <1>7, EraseHandledConn
<1>8. ASSUME id \in connections,
             SendAckIfDue(id, conn[id].data_received + bytes, conn[id].ack_interval),
             NEW o, Update(id, c, o),
             \/ c.write_buffer # <<>> /\ o = PostWrite(taken, c.write_buffer)
             \/ c.write_buffer = <<>> /\ o = taken
      PROVE  \A j \in Ids : ConnInv(j)'
  <2> DEFINE wb == conn[id].write_buffer
             new == c.write_buffer
             n == Len(peer[id].got)
  <2>1. ASSUME NEW j \in Ids, j # id PROVE ConnInv(j)'
    <3>1. /\ j \in connections' <=> j \in connections
          /\ conn'[j] = conn[j] /\ ops'[j] = ops[j] /\ toClient'[j] = toClient[j]
      BY <1>0, <1>6, <1>8, <2>1 DEF Update, TypeOK
    <3> QED
      BY <1>0, <3>1, Frame DEF IInv, Unborn
  <2>2. conn'[id] = c /\ ops'[id] = o /\ id \in connections'
    BY <1>0, <1>8 DEF Update, TypeOK
  <2>3. /\ Len(ops[id].sent) = 1 /\ ops[id].send = <<>> /\ taken.sent = <<>>
        /\ wb # <<>> /\ wb \in Seq(Buffers)
    <3>1. /\ ops[id].send \in Seq(Segments) /\ wb \in Seq(Buffers)
      BY <1>0, ConnTyped DEF OpsType, ConnectionType
    <3>2. Writes(id) <= 1 /\ Writes(id) = Len(ops[id].send) + Len(ops[id].sent)
      BY <1>0, <1>8 DEF ConnInv, WritePart, Writes
    <3>3. Len(ops[id].send) \in Nat
      BY <3>1, LenProperties
    <3>4. \A k, m \in Nat : k + m <= 1 /\ m > 0 => m = 1 /\ k = 0
      OBVIOUS
    <3>5. Len(ops[id].send) + Len(ops[id].sent) <= 1
      BY <3>2
    <3>6. Len(ops[id].sent) = 1 /\ Len(ops[id].send) = 0
      BY <3>3, <3>4, <3>5, <1>2
    <3>7. Writes(id) # 0
      BY <3>2, <3>6
    <3>8. wb # <<>>
      BY <1>0, <1>8, <3>7 DEF ConnInv, WritePart
    <3>9. taken.sent = <<>>
      <4>1. Len(taken.sent) = 0
        BY <1>2, <1>3, <3>6
      <4> QED
        BY <4>1, <1>2, <1>3, EmptySeq
    <3> QED
      BY <3>1, <3>6, <3>8, <3>9, EmptySeq
  <2>4. /\ Gapless(wb)
        /\ wb[Len(wb)].first + wb[Len(wb)].size = cl[id].sent
        /\ wb[1].first + wb[1].pos + bytes = n
        /\ wb[1].pos + bytes <= wb[1].size
    BY <1>0, <1>2, <1>8, <2>3 DEF ConnInv, StreamPart
  <2>5. new = Advance(wb, bytes) /\ new \in Seq(Buffers)
    BY <1>2, <1>4, <2>3, AdvanceTyped
  <2> HIDE DEF new
  <2>6. /\ Gapless(new)
        /\ new # <<>> =>
              /\ new[Len(new)].first + new[Len(new)].size = cl[id].sent
              /\ new[1].first + new[1].pos = n
        /\ new = <<>> => n = cl[id].sent
    <3> HIDE DEF n, wb
    <3>1. /\ Gapless(new)
          /\ new # <<>> =>
                /\ new[Len(new)].first + new[Len(new)].size
                       = wb[Len(wb)].first + wb[Len(wb)].size
                /\ new[1].first + new[1].pos = wb[1].first + wb[1].pos + bytes
          /\ new = <<>> =>
                wb[1].first + wb[1].pos + bytes = wb[Len(wb)].first + wb[Len(wb)].size
      BY <1>2, <2>3, <2>4, <2>5, AdvanceStream
    <3> QED
      BY <2>4, <3>1
  <2>7. /\ o.recv = ops[id].recv /\ o.received = ops[id].received
        /\ o.connect = ops[id].connect /\ o.connected = ops[id].connected
        /\ o.sent = <<>>
        /\ new = <<>> => o.send = <<>>
        /\ new # <<>> => o.send = Append(<<>>, Remaining(Head(new)))
    BY <1>3, <1>8, <2>3 DEF PostWrite, OpsType, new
  <2>8. new # <<>> => /\ Len(o.send) = 1
                      /\ o.send[1].from = new[1].first + new[1].pos
                      /\ o.send[1].len = new[1].size - new[1].pos
    <3>1. \A r : Len(Append(<<>>, r)) = 1 /\ Append(<<>>, r)[1] = r
      OBVIOUS
    <3>2. new # <<>> => Head(new) = new[1]
      BY <2>5
    <3>3. new # <<>> => o.send[1] = Remaining(new[1]) /\ Len(o.send) = 1
      BY <2>7, <3>1, <3>2
    <3> QED
      BY <3>3 DEF Remaining
  <2>9. FreshPart(id)' /\ DeadPart(id)'
    <3>1. ~Unborn(id)'
      BY <1>0, <1>8, UnbornIsDead DEF Unborn
    <3> QED
      BY <3>1, <2>2 DEF FreshPart, DeadPart
  <2>10. ConnectPart(id)'
    <3>1. ~(ops[id].connect + ops[id].connected > 0)
      BY <1>0, <1>8, <2>3 DEF ConnInv, ConnectPart
    <3> QED
      BY <3>1, <2>2, <2>7 DEF ConnectPart
  <2>11. ReadPart(id)'
    BY <1>0, <1>4, <1>8, <2>2, <2>7 DEF ConnInv, ReadPart, Reads
  <2>12. WritePart(id)'
    <3>1. Writes(id)' = Len(o.send) + Len(o.sent)
      BY <2>2 DEF Writes
    <3>2. Len(o.sent) = 0
      BY <2>7
    <3>3. CASE new = <<>>
      <4>1. Len(o.send) = 0
        BY <2>7, <3>3
      <4>2. Writes(id)' = 0
        BY <4>1, <3>1, <3>2
      <4> QED
        BY <4>2 DEF WritePart
    <3>4. CASE new # <<>>
      <4>1. conn'[id].write_buffer # <<>>
        BY <2>2, <3>4 DEF new
      <4>2. Writes(id)' = 1
        BY <2>8, <3>1, <3>2, <3>4
      <4> QED
        BY <4>1, <4>2 DEF WritePart
    <3> QED
      BY <3>3, <3>4
  <2>13. StreamPart(id)'
    <3>1. conn'[id].write_buffer = new /\ peer'[id] = peer[id] /\ cl'[id] = cl[id]
      BY <1>0, <2>2 DEF new
    <3>2. \A i \in 1 .. n : peer[id].got[i] = i
      BY <1>0 DEF ConnInv, StreamPart
    <3>3. CASE new = <<>>
      BY <2>2, <2>6, <2>7, <3>1, <3>2, <3>3 DEF StreamPart
    <3>4. CASE new # <<>>
      BY <2>2, <2>6, <2>7, <2>8, <3>1, <3>2, <3>4 DEF StreamPart
    <3> QED
      BY <3>3, <3>4
  <2> QED
    BY <2>1, <2>9, <2>10, <2>11, <2>12, <2>13 DEF ConnInv
<1> QED
  BY <1>1, <1>5, <1>7, <1>8

LEMMA HandleConnectConn ==
    ASSUME IInv, NEW id \in Ids, HandleConnect(id)
    PROVE  \A j \in Ids : ConnInv(j)'
<1> DEFINE taken == [ops[id] EXCEPT !.connected = @ - 1]
           c == [conn[id] EXCEPT !.acked = TRUE]
<1>0. /\ TypeOK /\ ConnInv(id) /\ UNCHANGED <<cl, peer, seq>>
      /\ ops[id].connected > 0
  BY DEF IInv, HandleConnect, IoHandles, world
<1>1. \/ /\ id \notin connections
         /\ ops' = [ops EXCEPT ![id] = taken]
         /\ UNCHANGED <<connections, conn, toClient>>
      \/ /\ id \in connections
         /\ Send(id, Message("ACK", WINDOW_SIZE \div 2))
         /\ Update(id, c, PostRead(taken))
  BY DEF HandleConnect
<1>2. /\ taken.recv = ops[id].recv /\ taken.received = ops[id].received
      /\ taken.send = ops[id].send /\ taken.sent = ops[id].sent
      /\ taken.connect = ops[id].connect /\ taken.connected = ops[id].connected - 1
      /\ PostRead(taken).recv = ops[id].recv + 1
      /\ PostRead(taken).received = ops[id].received
      /\ PostRead(taken).send = ops[id].send /\ PostRead(taken).sent = ops[id].sent
      /\ PostRead(taken).connect = ops[id].connect
      /\ PostRead(taken).connected = ops[id].connected - 1
      /\ ops[id].connect \in Nat /\ ops[id].connected \in Nat
  BY <1>0, ConnTyped DEF OpsType, PostRead
<1>3. /\ c.acked = TRUE /\ c.closing = conn[id].closing
      /\ c.write_buffer = conn[id].write_buffer /\ c.data_sent = conn[id].data_sent
  BY <1>0, ConnTyped DEF ConnectionType
<1> DEFINE o == PostRead(taken)
<1>4. /\ o.recv = ops[id].recv + 1 /\ o.received = ops[id].received
      /\ o.send = ops[id].send /\ o.sent = ops[id].sent
      /\ o.connect = ops[id].connect /\ o.connected = ops[id].connected - 1
  BY <1>2
<1> HIDE DEF taken, c, o
<1>5. CASE /\ id \notin connections
           /\ ops' = [ops EXCEPT ![id] = taken]
           /\ UNCHANGED <<connections, conn, toClient>>
  <2>1. ASSUME NEW j \in Ids, j # id PROVE ConnInv(j)'
    <3>1. ops'[j] = ops[j]
      BY <1>0, <1>5, <2>1 DEF TypeOK
    <3> QED
      BY <1>0, <1>5, <3>1, Frame DEF IInv, Unborn
  <2>2. ops'[id] = taken
    BY <1>0, <1>5 DEF TypeOK
  <2>3. ~Unborn(id)'
    <3>1. ~Unborn(id)
      BY <1>0 DEF ConnInv, FreshPart, NoOps
    <3> QED
      BY <1>0, <3>1 DEF Unborn
  <2>4. ConnInv(id)'
    BY <1>0, <1>2, <1>5, <2>2, <2>3 DEF ConnInv, FreshPart, DeadPart, WritePart,
       ReadPart, ConnectPart, StreamPart
  <2> QED
    BY <2>1, <2>4
<1>6. CASE /\ id \in connections
           /\ Send(id, Message("ACK", WINDOW_SIZE \div 2))
           /\ Update(id, c, o)
  <2>1. ASSUME NEW j \in Ids, j # id PROVE ConnInv(j)'
    <3>1. /\ j \in connections' <=> j \in connections
          /\ conn'[j] = conn[j] /\ ops'[j] = ops[j] /\ toClient'[j] = toClient[j]
      BY <1>0, <1>6, <2>1 DEF Update, Send, TypeOK
    <3> QED
      BY <1>0, <3>1, Frame DEF IInv, Unborn
  <2>2. conn'[id] = c /\ ops'[id] = o /\ id \in connections'
    BY <1>0, <1>6 DEF Update, TypeOK
  <2>3. /\ ops[id].connect = 0 /\ ops[id].connected = 1
        /\ ~conn[id].acked /\ ~conn[id].closing
        /\ Reads(id) = 0 /\ conn[id].data_sent = 0
    <3>1. \A m, k \in Nat : k > 0 => m + k > 0 /\ (m + k = 1 => m = 0 /\ k = 1)
      OBVIOUS
    <3>2. ops[id].connect + ops[id].connected > 0
      BY <1>0, <1>2, <3>1
    <3>3. /\ ops[id].connect + ops[id].connected = 1
          /\ ~conn[id].acked /\ ~conn[id].closing
      BY <1>0, <1>6, <3>2 DEF ConnInv, ConnectPart
    <3>4. Reads(id) = 0 /\ conn[id].data_sent = 0
      BY <1>0, <1>6, <3>3 DEF ConnInv, ReadPart
    <3> QED
      BY <1>0, <1>2, <3>1, <3>3, <3>4
  <2>4. Reads(id)' = 1
    <3>1. ops[id].recv = 0 /\ ops[id].received = <<>>
      BY <1>0, <2>3, Counts
    <3>2. Len(o.received) = 0 /\ o.recv = 1
      BY <1>4, <3>1
    <3>3. Reads(id)' = o.recv + Len(o.received)
      BY <2>2 DEF Reads
    <3> QED
      BY <3>2, <3>3
  <2>5. ReadPart(id)'
    BY <1>3, <2>2, <2>3, <2>4, WindowAssumption DEF ReadPart
  <2>6. FreshPart(id)' /\ DeadPart(id)'
    <3>1. ~Unborn(id)'
      BY <1>0, <1>6, UnbornIsDead DEF Unborn
    <3> QED
      BY <3>1, <2>2 DEF FreshPart, DeadPart
  <2>7. ConnectPart(id)'
    BY <1>4, <2>2, <2>3 DEF ConnectPart
  <2>8. WritePart(id)' /\ StreamPart(id)'
    BY <1>0, <1>3, <1>4, <1>6, <2>2 DEF ConnInv, WritePart, StreamPart, Writes
  <2> QED
    BY <2>1, <2>5, <2>6, <2>7, <2>8 DEF ConnInv
<1> QED
  BY <1>1, <1>5, <1>6 DEF o


LEMMA ShutdownAllConn ==
    ASSUME IInv, ShutdownAll
    PROVE  \A j \in Ids : ConnInv(j)'
<1>1. Erase(connections) /\ UNCHANGED <<toClient, peer, seq>>
  BY DEF ShutdownAll, Dispatch
<1>2. \A j \in Ids : /\ cl'[j].sent = cl[j].sent
                     /\ cl'[j].state = "none" <=> cl[j].state = "none"
                     /\ j \notin connections => cl'[j].sent = cl[j].sent
  BY DEF ShutdownAll, IInv, TypeOK, ClientType
<1>3. ASSUME NEW j \in Ids PROVE ConnInv(j)'
  <2>1. ConnInv(j) /\ TypeOK
    BY DEF IInv
  <2>2. /\ j \notin connections' /\ conn'[j] = FreshConnection
        /\ Unborn(j)' => Unborn(j)
    BY <1>1, <1>2, <2>1 DEF Erase, TypeOK, ConnInv, DeadPart, Unborn
  <2>3. /\ ops'[j].recv = 0 /\ ops'[j].send = <<>> /\ ops'[j].connect = 0
        /\ j \notin connections => ops'[j] = ops[j]
    BY <1>1, <2>1, ConnTyped DEF Erase, CloseSocket, OpsType, ConnInv, DeadPart
  <2> QED
    BY <1>1, <1>2, <2>1, <2>2, <2>3 DEF ConnInv, FreshPart, DeadPart, WritePart,
       ReadPart, ConnectPart, StreamPart
<1> QED
  BY <1>3

LEMMA FirstAckConn ==
    ASSUME IInv, NEW id \in Ids, NEW i \in AckIntervals, FirstAck(id, i)
    PROVE  \A j \in Ids : ConnInv(j)'
<1> DEFINE c == [cl[id] EXCEPT !.state = "open"]
<1>1. c \in ClientType /\ c.state = "open" /\ c.sent = cl[id].sent
  BY ConnTyped DEF IInv, ClientType
<1>2. cl[id].state = "accepted" /\ ClientMoves(id, c) /\ AckData(id, i)
  BY DEF FirstAck
<1>3. i \in Nat
  BY WindowAssumption
<1> HIDE DEF c
<1> QED
  BY <1>1, <1>2, <1>3, AckDataConn

LEMMA ClientAckConn ==
    ASSUME IInv, NEW id \in Ids, ClientAck(id)
    PROVE  \A j \in Ids : ConnInv(j)'
<1> DEFINE c == [cl[id] EXCEPT !.toAck = 0]
<1>1. /\ c \in ClientType /\ c.state = cl[id].state /\ c.sent = cl[id].sent
      /\ cl[id].toAck \in Nat
  BY ConnTyped DEF IInv, ClientType
<1>2. cl[id].state = "open" /\ ClientMoves(id, c) /\ AckData(id, cl[id].toAck)
  BY DEF ClientAck
<1> HIDE DEF c
<1> QED
  BY <1>1, <1>2, AckDataConn

\* The destructor erases the connections; the client's end does not see it.
LEMMA DtorClearsConn ==
    ASSUME IInv, DtorClears
    PROVE  \A j \in Ids : ConnInv(j)'
<1>1. Erase(connections) /\ UNCHANGED <<toClient, peer, seq, cl>>
  BY DEF DtorClears, world
<1> QED
  BY <1>1, EraseConn

LEMMA ConnUnchanged ==
    ASSUME IInv, UNCHANGED <<connections, conn, ops, toClient, cl, peer, seq>>
    PROVE  \A j \in Ids : ConnInv(j)'
BY Frame DEF IInv, Unborn

LEMMA KernelReadsConn ==
    ASSUME IInv, NEW id \in Ids, NEW bytes \in 0 .. BUFFER_SIZE, KernelReads(id, bytes)
    PROVE  \A j \in Ids : ConnInv(j)'
<1>0. /\ TypeOK /\ ConnInv(id) /\ UNCHANGED <<connections, conn, toClient, cl, seq>>
      /\ ops[id].recv \in Nat /\ ops[id].recv > 0
      /\ ops[id].received \in Seq(0 .. BUFFER_SIZE)
  BY ConnTyped DEF IInv, KernelReads, KernelMoves, OpsType
<1>1. /\ ops'[id].recv = ops[id].recv - 1
      /\ ops'[id].received = Append(ops[id].received, bytes)
      /\ ops'[id].send = ops[id].send /\ ops'[id].sent = ops[id].sent
      /\ ops'[id].connect = ops[id].connect /\ ops'[id].connected = ops[id].connected
      /\ peer'[id].got = peer[id].got
  BY <1>0, ConnTyped DEF KernelReads, TypeOK, OpsType, PeerType
<1>2. ASSUME NEW j \in Ids, j # id PROVE ConnInv(j)'
  <2>1. ops'[j] = ops[j] /\ peer'[j] = peer[j]
    BY <1>0, <1>2 DEF KernelReads, TypeOK
  <2> QED
    BY <1>0, <2>1, Frame DEF IInv, Unborn
<1>3. Reads(id)' = Reads(id)
  <2>1. /\ Len(Append(ops[id].received, bytes)) = Len(ops[id].received) + 1
        /\ Len(ops[id].received) \in Nat
    BY <1>0, AppendProperties, LenProperties
  <2>2. Reads(id)' = (ops[id].recv - 1) + (Len(ops[id].received) + 1)
    BY <1>1, <2>1 DEF Reads
  <2>3. Reads(id) = ops[id].recv + Len(ops[id].received)
    BY DEF Reads
  <2>4. \A m, n \in Nat : (m - 1) + (n + 1) = m + n
    OBVIOUS
  <2> QED
    BY <1>0, <2>1, <2>2, <2>3, <2>4
<1>4. id \in connections
  BY <1>0 DEF ConnInv, DeadPart
<1>5. ~Unborn(id)'
  BY <1>0, <1>4, UnbornIsDead DEF Unborn
<1>6. ConnInv(id)'
  BY <1>0, <1>1, <1>3, <1>4, <1>5 DEF ConnInv, FreshPart, DeadPart, WritePart, ReadPart,
     ConnectPart, StreamPart, Writes
<1> QED
  BY <1>2, <1>6

LEMMA KernelConnectsConn ==
    ASSUME IInv, NEW id \in Ids, KernelConnects(id)
    PROVE  \A j \in Ids : ConnInv(j)'
<1>0. /\ TypeOK /\ ConnInv(id) /\ UNCHANGED <<connections, conn, toClient, cl, seq, peer>>
      /\ ops[id].connect \in Nat /\ ops[id].connect > 0 /\ ops[id].connected \in Nat
  BY ConnTyped DEF IInv, KernelConnects, KernelMoves, OpsType
<1>1. /\ ops'[id].recv = ops[id].recv /\ ops'[id].received = ops[id].received
      /\ ops'[id].send = ops[id].send /\ ops'[id].sent = ops[id].sent
      /\ ops'[id].connect = ops[id].connect - 1
      /\ ops'[id].connected = ops[id].connected + 1
  BY <1>0, ConnTyped DEF KernelConnects, TypeOK, OpsType
<1>2. ASSUME NEW j \in Ids, j # id PROVE ConnInv(j)'
  <2>1. ops'[j] = ops[j]
    BY <1>0, <1>2 DEF KernelConnects, TypeOK
  <2> QED
    BY <1>0, <2>1, Frame DEF IInv, Unborn
<1>4. id \in connections
  BY <1>0 DEF ConnInv, DeadPart
<1>5. ~Unborn(id)'
  BY <1>0, <1>4, UnbornIsDead DEF Unborn
<1>6. ConnectPart(id)'
  <2>1. \A m, n \in Nat : m > 0 => m + n > 0 /\ (m - 1) + (n + 1) = m + n
    OBVIOUS
  <2> QED
    BY <1>0, <1>1, <1>4, <2>1 DEF ConnInv, ConnectPart
<1>7. ConnInv(id)'
  BY <1>0, <1>1, <1>4, <1>5, <1>6 DEF ConnInv, FreshPart, DeadPart, WritePart, ReadPart,
     StreamPart, Reads, Writes
<1> QED
  BY <1>2, <1>7

\* A write that is outstanding is the only one, on a connection with a buffer.
LEMMA PendingWrite ==
    ASSUME IInv, NEW id \in Ids, ops[id].send # <<>>
    PROVE  /\ id \in connections /\ Len(ops[id].send) = 1 /\ ops[id].sent = <<>>
           /\ conn[id].write_buffer # <<>> /\ Writes(id) = 1
           /\ Tail(ops[id].send) = <<>> /\ Head(ops[id].send) = ops[id].send[1]
           /\ Head(ops[id].send) \in Segments
<1>0. /\ TypeOK /\ ConnInv(id)
      /\ ops[id].send \in Seq(Segments) /\ ops[id].sent \in Seq(Nat)
  BY ConnTyped DEF IInv, OpsType
<1>1. id \in connections
  BY <1>0 DEF ConnInv, DeadPart
<1>2. /\ Len(ops[id].send) \in Nat /\ Len(ops[id].send) > 0 /\ Len(ops[id].sent) \in Nat
  BY <1>0, LenProperties, EmptySeq
<1>3. \A m, n \in Nat : m + n <= 1 /\ m > 0 => m = 1 /\ n = 0 /\ m + n = 1
  OBVIOUS
<1>4. Writes(id) = Len(ops[id].send) + Len(ops[id].sent)
  BY DEF Writes
<1>5. Len(ops[id].send) + Len(ops[id].sent) <= 1
  BY <1>0, <1>1, <1>4 DEF ConnInv, WritePart
<1>6. Len(ops[id].send) = 1 /\ Len(ops[id].sent) = 0 /\ Writes(id) = 1
  BY <1>2, <1>3, <1>4, <1>5
<1>7. conn[id].write_buffer # <<>>
  BY <1>0, <1>1, <1>6 DEF ConnInv, WritePart
<1>8. /\ Tail(ops[id].send) \in Seq(Segments) /\ Len(Tail(ops[id].send)) = 0
      /\ Head(ops[id].send) = ops[id].send[1] /\ Head(ops[id].send) \in Segments
  <2>1. /\ Tail(ops[id].send) \in Seq(Segments)
        /\ Len(Tail(ops[id].send)) = Len(ops[id].send) - 1
        /\ Head(ops[id].send) = ops[id].send[1] /\ Head(ops[id].send) \in Segments
    BY <1>0, HeadTailProperties
  <2> QED
    BY <2>1, <1>6
<1> QED
  BY <1>0, <1>1, <1>6, <1>7, <1>8, EmptySeq

\* The peer's stream grows by the bytes the write carried.
LEMMA StreamGrows ==
    ASSUME NEW got \in Seq(Nat), \A i \in 1 .. Len(got) : got[i] = i,
           NEW bytes \in Nat, NEW new, new = got \o [i \in 1 .. bytes |-> Len(got) + i]
    PROVE  Len(new) = Len(got) + bytes /\ \A i \in 1 .. Len(new) : new[i] = i
<1> DEFINE s == [i \in 1 .. bytes |-> Len(got) + i]
<1>1. Len(got) \in Nat
  BY LenProperties
<1>2. s \in Seq(Nat) /\ Len(s) = bytes /\ \A i \in 1 .. bytes : s[i] = Len(got) + i
  BY <1>1
<1>3. new = got \o s
  OBVIOUS
<1> HIDE DEF s
<1>4. /\ Len(new) = Len(got) + bytes
      /\ \A i \in 1 .. Len(got) + bytes :
            new[i] = IF i <= Len(got) THEN got[i] ELSE s[i - Len(got)]
  BY <1>1, <1>2, <1>3, ConcatProperties
<1>5. ASSUME NEW i \in 1 .. Len(new) PROVE new[i] = i
  <2>1. CASE i <= Len(got)
    BY <1>1, <1>4, <2>1
  <2>2. CASE ~(i <= Len(got))
    <3>1. i - Len(got) \in 1 .. bytes
      BY <1>1, <1>4, <2>2
    <3> QED
      BY <1>1, <1>2, <1>4, <2>2, <3>1
  <2> QED
    BY <2>1, <2>2
<1> QED
  BY <1>4, <1>5

LEMMA KernelWritesConn ==
    ASSUME IInv, NEW id \in Ids, NEW bytes \in 1 .. BUFFER_SIZE, KernelWrites(id, bytes)
    PROVE  \A j \in Ids : ConnInv(j)'
<1> DEFINE n == Len(peer[id].got)
           wb == conn[id].write_buffer
<1>0. /\ TypeOK /\ ConnInv(id) /\ UNCHANGED <<connections, conn, toClient, cl, seq>>
      /\ bytes \in Nat /\ ops[id].send # <<>> /\ peer[id].got \in Seq(Nat)
      /\ n \in Nat /\ wb \in Seq(Buffers)
  BY WindowAssumption, ConnTyped, LenProperties
  DEF IInv, KernelWrites, KernelMoves, PeerType, ConnectionType
<1>1. /\ id \in connections /\ ops[id].sent = <<>> /\ wb # <<>>
      /\ Tail(ops[id].send) = <<>> /\ Head(ops[id].send) = ops[id].send[1]
      /\ ~(ops[id].connect + ops[id].connected > 0)
  BY <1>0, PendingWrite DEF ConnInv, ConnectPart
<1>2. /\ ops'[id].recv = ops[id].recv /\ ops'[id].received = ops[id].received
      /\ ops'[id].send = <<>> /\ ops'[id].sent = Append(<<>>, bytes)
      /\ ops'[id].connect = ops[id].connect /\ ops'[id].connected = ops[id].connected
  BY <1>0, <1>1, ConnTyped DEF KernelWrites, TypeOK, OpsType
<1>3. ASSUME NEW j \in Ids, j # id PROVE ConnInv(j)'
  <2>1. ops'[j] = ops[j] /\ peer'[j] = peer[j]
    BY <1>0, <1>3 DEF KernelWrites, TypeOK
  <2> QED
    BY <1>0, <2>1, Frame DEF IInv, Unborn
<1>4. Len(ops'[id].sent) = 1 /\ ops'[id].sent[1] = bytes /\ Len(ops'[id].send) = 0
  BY <1>2
<1>5. /\ ops[id].send[1].from = n /\ wb[1].first + wb[1].pos = n
      /\ ops[id].send[1].len = wb[1].size - wb[1].pos
      /\ bytes <= ops[id].send[1].len
      /\ \A i \in 1 .. n : peer[id].got[i] = i
  BY <1>0, <1>1 DEF ConnInv, StreamPart, KernelWrites
<1>6. peer'[id].got = peer[id].got \o [i \in 1 .. bytes |-> n + i]
  BY <1>0, <1>1, <1>5, ConnTyped DEF KernelWrites, TypeOK, PeerType
<1>7. /\ Len(peer'[id].got) = n + bytes
      /\ \A i \in 1 .. Len(peer'[id].got) : peer'[id].got[i] = i
  BY <1>0, <1>5, <1>6, StreamGrows
<1>8. wb[1].pos + bytes <= wb[1].size /\ wb[1].first + wb[1].pos + bytes = n + bytes
  <2>1. wb[1] \in Buffers
    BY <1>0, <1>1, LenProperties, EmptySeq
  <2> DEFINE p == wb[1].pos
             z == wb[1].size
             f == wb[1].first
  <2>2. p \in Nat /\ z \in Nat /\ f \in Nat
    BY <2>1 DEF Buffers
  <2>3. f + p = n /\ bytes <= z - p
    BY <1>5
  <2>4. n \in Nat /\ bytes \in Nat
    BY <1>0
  <2> HIDE DEF p, z, f, n
  <2>5. p + bytes <= z /\ f + p + bytes = n + bytes
    BY <2>2, <2>3, <2>4
  <2> QED
    BY <2>5 DEF p, z, f
<1>9. ~Unborn(id)'
  BY <1>0, <1>1, UnbornIsDead DEF Unborn
<1>10. WritePart(id)'
  <2>1. Writes(id)' = 1
    BY <1>4 DEF Writes
  <2> QED
    BY <2>1, <1>0, <1>1 DEF WritePart
<1>11. StreamPart(id)'
  <2>1. StreamPart(id) /\ conn'[id].write_buffer = wb /\ cl'[id] = cl[id]
    BY <1>0 DEF ConnInv
  <2> QED
    BY <2>1, <1>1, <1>2, <1>4, <1>7, <1>8 DEF StreamPart
<1>12. /\ FreshPart(id)' /\ DeadPart(id)' /\ ReadPart(id)' /\ ConnectPart(id)'
  BY <1>0, <1>1, <1>2, <1>9 DEF ConnInv, FreshPart, DeadPart, ReadPart, ConnectPart, Reads
<1> QED
  BY <1>3, <1>10, <1>11, <1>12 DEF ConnInv

\* A failed operation leaves one operation less.
LEMMA KernelFailsConn ==
    ASSUME IInv, NEW id \in Ids, KernelFails(id)
    PROVE  \A j \in Ids : ConnInv(j)'
<1>0. /\ TypeOK /\ ConnInv(id)
      /\ UNCHANGED <<connections, conn, toClient, cl, seq, peer>>
      /\ ops[id] \in OpsType
  BY ConnTyped DEF IInv, KernelFails, KernelMoves
<1>1. ASSUME NEW j \in Ids, j # id PROVE ConnInv(j)'
  <2>1. ops'[j] = ops[j]
    BY <1>0, <1>1 DEF KernelFails, TypeOK
  <2> QED
    BY <1>0, <2>1, Frame DEF IInv, Unborn
<1>2. id \in connections
  BY <1>0 DEF ConnInv, DeadPart, KernelFails
<1>3. ~Unborn(id)'
  BY <1>0, <1>2, UnbornIsDead DEF Unborn
<1>4. CASE ops[id].recv > 0 /\ ops' = [ops EXCEPT ![id].recv = @ - 1]
  <2>1. /\ ops'[id].recv = ops[id].recv - 1 /\ ops'[id].received = ops[id].received
        /\ ops'[id].send = ops[id].send /\ ops'[id].sent = ops[id].sent
        /\ ops'[id].connect = ops[id].connect /\ ops'[id].connected = ops[id].connected
        /\ ops[id].recv \in Nat
    BY <1>0, <1>4 DEF TypeOK, OpsType
  <2>2. /\ Reads(id) \in Nat /\ Reads(id)' = Reads(id) - 1 /\ Reads(id) >= 1
    <3>1. Len(ops[id].received) \in Nat
      BY <1>0, LenProperties DEF OpsType
    <3>2. \A m, k \in Nat : m > 0 => (m - 1) + k = (m + k) - 1 /\ m + k \in Nat /\ m + k >= 1
      OBVIOUS
    <3>3. Reads(id)' = (ops[id].recv - 1) + Len(ops[id].received)
      BY <2>1 DEF Reads
    <3>4. Reads(id) = ops[id].recv + Len(ops[id].received)
      BY DEF Reads
    <3> QED
      BY <1>4, <2>1, <3>1, <3>2, <3>3, <3>4
  <2>3. ReadPart(id)'
    BY <1>0, <1>2, <2>2 DEF ConnInv, ReadPart
  <2> QED
    <3>1. FreshPart(id)' /\ DeadPart(id)'
      BY <1>0, <1>2, <1>3 DEF FreshPart, DeadPart
    <3>2. WritePart(id)' /\ StreamPart(id)'
      BY <1>0, <2>1 DEF ConnInv, WritePart, StreamPart, Writes
    <3>3. ConnectPart(id)'
      BY <1>0, <2>1 DEF ConnInv, ConnectPart
    <3> QED
      BY <1>1, <2>3, <3>1, <3>2, <3>3 DEF ConnInv
<1>5. CASE ops[id].send # <<>> /\ ops' = [ops EXCEPT ![id].send = Tail(@)]
  <2>1. /\ ops'[id].recv = ops[id].recv /\ ops'[id].received = ops[id].received
        /\ ops'[id].send = <<>> /\ ops'[id].sent = <<>>
        /\ ops'[id].connect = ops[id].connect /\ ops'[id].connected = ops[id].connected
    BY <1>0, <1>5, PendingWrite DEF TypeOK, OpsType
  <2>2. Writes(id)' = 0
    <3>1. Len(ops'[id].send) = 0 /\ Len(ops'[id].sent) = 0
      BY <2>1
    <3> QED
      BY <3>1 DEF Writes
  <2>3. WritePart(id)'
    BY <2>2 DEF WritePart
  <2> QED
    BY <1>0, <1>1, <1>2, <1>3, <2>1, <2>3 DEF ConnInv, FreshPart, DeadPart, ReadPart,
       ConnectPart, StreamPart, Reads
<1>6. CASE ops[id].connect > 0 /\ ops' = [ops EXCEPT ![id].connect = @ - 1]
  <2>1. /\ ops'[id].recv = ops[id].recv /\ ops'[id].received = ops[id].received
        /\ ops'[id].send = ops[id].send /\ ops'[id].sent = ops[id].sent
        /\ ops'[id].connect = ops[id].connect - 1 /\ ops'[id].connected = ops[id].connected
        /\ ops[id].connect \in Nat /\ ops[id].connected \in Nat
    BY <1>0, <1>6 DEF TypeOK, OpsType
  <2>2. ConnectPart(id)'
    <3>1. \A m, k \in Nat : m > 0 /\ m + k = 1 => (m - 1) + k = 0
      OBVIOUS
    <3>2. ops[id].connect + ops[id].connected = 1
      <4>1. \A m, k \in Nat : m > 0 => m + k > 0
        OBVIOUS
      <4>2. ops[id].connect + ops[id].connected > 0
        BY <1>6, <2>1, <4>1
      <4> QED
        BY <1>0, <1>2, <4>2 DEF ConnInv, ConnectPart
    <3>3. ops'[id].connect + ops'[id].connected = 0
      BY <1>6, <2>1, <3>1, <3>2
    <3> QED
      BY <3>3 DEF ConnectPart
  <2> QED
    <3>1. FreshPart(id)' /\ DeadPart(id)'
      BY <1>0, <1>2, <1>3 DEF FreshPart, DeadPart
    <3>2. WritePart(id)' /\ StreamPart(id)'
      BY <1>0, <2>1 DEF ConnInv, WritePart, StreamPart, Writes
    <3>3. ReadPart(id)'
      BY <1>0, <2>1 DEF ConnInv, ReadPart, Reads
    <3> QED
      BY <1>1, <2>2, <3>1, <3>2, <3>3 DEF ConnInv
<1> QED
  BY <1>4, <1>5, <1>6 DEF KernelFails

LEMMA UnderstoodKeeps ==
    ASSUME NEW c \in ClientType, NEW m \in Messages
    PROVE  /\ Understood(c, m).sent = c.sent
           /\ Understood(c, m).state = "none" => c.state = "none"
           /\ c.state = "left" => Understood(c, m).state = "left"
BY DEF Understood, ClientType, Messages

LEMMA ClientReceivesConn ==
    ASSUME IInv, NEW id \in Ids, ClientReceives(id)
    PROVE  \A j \in Ids : ConnInv(j)'
<1>0. /\ TypeOK /\ ConnInv(id) /\ UNCHANGED <<connections, conn, ops, peer, seq>>
      /\ toClient[id] # <<>> /\ cl[id] \in ClientType /\ Head(toClient[id]) \in Messages
  <2>1. toClient[id] \in Seq(Messages) /\ toClient[id] # <<>> /\ cl[id] \in ClientType
    BY ConnTyped DEF IInv, ClientReceives
  <2>2. Head(toClient[id]) \in Messages
    BY <2>1, HeadTailProperties
  <2> QED
    BY <2>1, <2>2 DEF IInv, ClientReceives
<1>1. /\ cl'[id].sent = cl[id].sent /\ (cl'[id].state = "none" => cl[id].state = "none")
      /\ cl[id].state = "left" => cl'[id].state = "left"
  <2>1. cl'[id] = Understood(cl[id], Head(toClient[id]))
    BY <1>0 DEF ClientReceives, ClientMoves, TypeOK
  <2> QED
    BY <2>1, <1>0, UnderstoodKeeps
<1>2. ASSUME NEW j \in Ids, j # id PROVE ConnInv(j)'
  <2>1. cl'[j] = cl[j] /\ toClient'[j] = toClient[j]
    BY <1>0, <1>2 DEF ClientReceives, ClientMoves, TypeOK
  <2> QED
    BY <1>0, <2>1, Frame DEF IInv, Unborn
<1>3. ~Unborn(id)'
  <2>1. ~Unborn(id)
    BY <1>0 DEF ConnInv, FreshPart
  <2> QED
    BY <2>1, <1>0, <1>1 DEF Unborn
<1>4. ConnInv(id)'
  BY <1>0, <1>1, <1>3 DEF ConnInv, FreshPart, DeadPart, WritePart, ReadPart, ConnectPart,
     StreamPart, Reads, Writes
<1> QED
  BY <1>2, <1>4

------------------------------------------------------------------------------
(***************************************************************************)
(* The steps of Next, one thread at a time.                                *)
(***************************************************************************)
LEMMA WriteNeedsBuffer ==
    ASSUME IInv, NEW id \in Ids, ops[id].sent # <<>>
    PROVE  id \in connections => conn[id].write_buffer # <<>>
<1>1. TypeOK /\ ConnInv(id)
  BY DEF IInv
<1>2. Writes(id) # 0
  BY <1>1, Counts
<1> QED
  BY <1>1, <1>2 DEF ConnInv, WritePart

LEMMA MainThreadStep == IInv /\ MainThread => IInv'
<1> SUFFICES ASSUME IInv, MainThread PROVE IInv'
  OBVIOUS
<1>0. TypeOK
  BY DEF IInv
<1>1. ASSUME NEW p \in Ports, ListenTo(p) \/ ShutdownPort(p) PROVE IInv'
  BY <1>0, <1>1, ListenToTyped, ShutdownPortTyped, ListenToConn DEF IInv
<1>2. CASE ShutdownAll
  BY <1>0, <1>2, ShutdownAllTyped, ShutdownAllConn DEF IInv
<1>3. ASSUME NEW id \in ConnectIds, NEW i \in AckIntervals, ConnectRemote(id, i)
      PROVE  IInv'
  BY <1>0, <1>3, ConnectRemoteTyped, ConnectRemoteConn DEF IInv
<1>4. ASSUME NEW id \in Ids, NEW i \in AckIntervals, FirstAck(id, i)
      PROVE  IInv'
  BY <1>0, <1>4, FirstAckTyped, FirstAckConn DEF IInv
<1>5. ASSUME NEW id \in Ids, ClientAck(id) PROVE IInv'
  BY <1>0, <1>5, ClientAckTyped, ClientAckConn DEF IInv
<1>6. ASSUME NEW id \in Ids, StartClosing(id) PROVE IInv'
  BY <1>0, <1>6, StartClosingTyped, StartClosingConn DEF IInv
<1>7. ASSUME NEW id \in Ids, NEW size \in 1 .. BUFFER_SIZE, SendData(id, size)
      PROVE  IInv'
  BY <1>0, <1>7, SendDataTyped, SendDataConn DEF IInv
<1>8. CASE DtorClears
  BY <1>0, <1>8, LifeTyped, DtorClearsConn DEF IInv
<1>9. CASE DtorWakesThread \/ DtorReturns
  <2>1. UNCHANGED <<connections, conn, ops, toClient, cl, peer, seq>>
    BY <1>9 DEF DtorWakesThread, DtorReturns, tables, world
  <2> QED
    BY <1>0, <1>9, <2>1, LifeTyped, ConnUnchanged DEF IInv
<1> QED
  BY <1>1, <1>2, <1>3, <1>4, <1>5, <1>6, <1>7, <1>8, <1>9 DEF MainThread

LEMMA IoThreadStep == IInv /\ IoThread => IInv'
<1> SUFFICES ASSUME IInv, IoThread PROVE IInv'
  OBVIOUS
<1>0. TypeOK
  BY DEF IInv
<1>1. CASE IoLoop \/ IoWakes
  <2>1. UNCHANGED <<connections, conn, ops, toClient, cl, peer, seq>>
    BY <1>1 DEF IoLoop, IoWakes, IoHandles, tables, world
  <2> QED
    BY <1>0, <1>1, <2>1, LifeTyped, ConnUnchanged DEF IInv
<1>2. ASSUME NEW p \in Ports, HandleAccept(p) PROVE IInv'
  BY <1>0, <1>2, HandleAcceptTyped, HandleAcceptConn DEF IInv
<1>3. ASSUME NEW id \in Ids, HandleRead(id) PROVE IInv'
  BY <1>0, <1>3, HandleReadTyped, HandleReadConn DEF IInv
<1>4. ASSUME NEW id \in Ids, HandleWrite(id) PROVE IInv'
  <2>1. id \in connections => conn[id].write_buffer # <<>>
    BY <1>4, WriteNeedsBuffer DEF HandleWrite
  <2> QED
    BY <1>0, <1>4, <2>1, HandleWriteTyped, HandleWriteConn DEF IInv
<1>5. ASSUME NEW id \in Ids, HandleConnect(id) PROVE IInv'
  BY <1>0, <1>5, HandleConnectTyped, HandleConnectConn DEF IInv
<1> QED
  BY <1>1, <1>2, <1>3, <1>4, <1>5 DEF IoThread

LEMMA EnvironmentStep == IInv /\ Environment => IInv'
<1> SUFFICES ASSUME IInv, Environment PROVE IInv'
  OBVIOUS
<1>0. TypeOK
  BY DEF IInv
<1>1. ASSUME NEW p \in Ports, PeerConnects(p) \/ KernelFailsAccept(p) PROVE IInv'
  <2>1. UNCHANGED <<connections, conn, ops, toClient, cl, peer, seq>>
    BY <1>1 DEF PeerConnects, KernelFailsAccept, KernelMoves
  <2> QED
    BY <1>0, <1>1, <2>1, PeerConnectsTyped, KernelFailsAcceptTyped, ConnUnchanged DEF IInv
<1>2. ASSUME NEW id \in Ids, NEW bytes \in 0 .. BUFFER_SIZE, KernelReads(id, bytes)
      PROVE  IInv'
  BY <1>0, <1>2, KernelReadsTyped, KernelReadsConn DEF IInv
<1>3. ASSUME NEW id \in Ids, NEW bytes \in 1 .. BUFFER_SIZE, KernelWrites(id, bytes)
      PROVE  IInv'
  BY <1>0, <1>3, KernelWritesTyped, KernelWritesConn DEF IInv
<1>4. ASSUME NEW id \in Ids, KernelConnects(id) PROVE IInv'
  BY <1>0, <1>4, KernelConnectsTyped, KernelConnectsConn DEF IInv
<1>5. ASSUME NEW id \in Ids, KernelFails(id) PROVE IInv'
  BY <1>0, <1>5, KernelFailsTyped, KernelFailsConn DEF IInv
<1>6. ASSUME NEW id \in Ids, ClientReceives(id) PROVE IInv'
  BY <1>0, <1>6, ClientReceivesTyped, ClientReceivesConn DEF IInv
<1> QED
  BY <1>1, <1>2, <1>3, <1>4, <1>5, <1>6 DEF Environment

LEMMA StutterStep == IInv /\ UNCHANGED vars => IInv'
<1> SUFFICES ASSUME IInv, UNCHANGED vars PROVE IInv'
  OBVIOUS
<1>1. TypeOK'
  BY DEF IInv, TypeOK, vars, tables, thread, world
<1>2. \A j \in Ids : ConnInv(j)'
  BY ConnUnchanged DEF vars, tables, thread, world
<1> QED
  BY <1>1, <1>2 DEF IInv

THEOREM Inductive == Spec => []IInv
<1>1. IInv /\ [Next]_vars => IInv'
  BY MainThreadStep, IoThreadStep, EnvironmentStep, StutterStep DEF Next
<1> QED
  BY InitInv, <1>1, PTL DEF Spec

------------------------------------------------------------------------------
(***************************************************************************)
(* The theorems.                                                           *)
(***************************************************************************)
\* Every variable keeps its type, on every interleaving of the two threads,
\* the kernel and the client: no handler takes the front of an empty
\* write_buffer, and no operation count falls below zero.
THEOREM TypesAreKept == Spec => []TypeOK
BY Inductive, PTL DEF IInv

\* Whatever the order of the completions, the acknowledgements and the closes,
\* a connection has at most one read outstanding.
THEOREM OneReadOutstanding == Spec => []OneRead
<1>1. IInv => OneRead
  BY DEF IInv, TypeOK, ConnInv, ReadPart, OneRead
<1> QED
  BY <1>1, Inductive, PTL

\* The unacknowledged bytes of a connection stay within the window and one
\* read, for every window and buffer size and any ack behaviour.
THEOREM WindowIsBounded == Spec => []WindowBound
<1>1. IInv => WindowBound
  BY DEF IInv, TypeOK, ConnInv, ReadPart, WindowBound
<1> QED
  BY <1>1, Inductive, PTL

\* The peer gets the client's bytes in order, each once, without a gap, for
\* every way of splitting, delaying, failing and closing the writes.
THEOREM StreamStaysIntact == Spec => []StreamIntact
<1>1. IInv => StreamIntact
  BY DEF IInv, ConnInv, StreamPart, StreamIntact
<1> QED
  BY <1>1, Inductive, PTL

------------------------------------------------------------------------------
(***************************************************************************)
(* The second invariant: what keeps a connection going, and what ends it.  *)
(***************************************************************************)
\* Nothing follows a CLOSE on its way to the client.
Final(id) ==
    \A i \in 1 .. Len(toClient[id]) :
        toClient[id][i].type = "CLOSE" => i = Len(toClient[id]) /\ id \notin connections

\* A connection the client has closed and the agent has not is closing.
Leaving(id) == id \in connections /\ cl[id].state = "left" => conn[id].closing

\* Unless operations fail, a read is outstanding exactly while the window is
\* open, and a write while there is something to write.
Armed(id) ==
    ~IoFailures /\ id \in connections =>
        /\ ~conn[id].closing =>
              (Reads(id) = 1 <=> conn[id].acked /\ conn[id].data_sent < WINDOW_SIZE)
        /\ conn[id].write_buffer # <<>> => Writes(id) = 1

Safe(id) == Final(id) /\ Leaving(id) /\ Armed(id)

\* The second invariant, which is inductive on top of the first.
SafetyInv == IInv /\ ListeningArmed /\ \A id \in Ids : Safe(id)

------------------------------------------------------------------------------
(***************************************************************************)
(* What keeps the three parts.                                             *)
(***************************************************************************)
LEMMA SafeFrame ==
    ASSUME NEW j \in Ids, Safe(j),
           j \in connections' => j \in connections,
           conn'[j] = conn[j], ops'[j] = ops[j], toClient'[j] = toClient[j],
           cl'[j].state = "left" => cl[j].state = "left"
    PROVE  Safe(j)'
BY DEF Safe, Final, Leaving, Armed, Reads, Writes

LEMMA FinalKept ==
    ASSUME NEW j \in Ids, Final(j), toClient'[j] = toClient[j],
           j \in connections' => j \in connections
    PROVE  Final(j)'
BY DEF Final

LEMMA FinalSent ==
    ASSUME TypeOK, NEW id \in Ids, Final(id), NEW m \in Messages, Send(id, m),
           id \in connections \/ toClient[id] = <<>>,
           m.type = "CLOSE" => id \notin connections'
    PROVE  /\ Final(id)'
           /\ \A j \in Ids \ {id} : toClient'[j] = toClient[j]
<1> DEFINE q == toClient[id]
           r == toClient'[id]
<1>1. q \in Seq(Messages) /\ r = Append(q, m)
  BY DEF TypeOK, Send
<1>2. /\ Len(q) \in Nat /\ Len(r) = Len(q) + 1 /\ r[Len(q) + 1] = m
      /\ \A i \in 1 .. Len(q) : r[i] = q[i]
  BY <1>1, AppendProperties, LenProperties
<1>3. \A i \in 1 .. Len(q) : q[i].type # "CLOSE"
  <2>1. CASE q = <<>>
    BY <2>1
  <2>2. CASE id \in connections
    BY <2>2 DEF Final
  <2> QED
    BY <2>1, <2>2
<1>4. Final(id)'
  <2> HIDE DEF q, r
  <2>1. \A i \in 1 .. Len(r) : r[i].type = "CLOSE" => i = Len(r) /\ id \notin connections'
    BY <1>2, <1>3
  <2> QED
    BY <2>1 DEF Final, r
<1>5. \A j \in Ids \ {id} : toClient'[j] = toClient[j]
  BY DEF TypeOK, Send
<1> QED
  BY <1>4, <1>5

\* A connection that is gone needs nothing, if nothing is sent about it.
LEMMA GoneIsSafe ==
    ASSUME NEW j \in Ids, Final(j), toClient'[j] = toClient[j], j \notin connections'
    PROVE  Safe(j)'
BY DEF Safe, Final, Leaving, Armed

LEMMA SafeInit == Init => SafetyInv
<1> SUFFICES ASSUME Init PROVE SafetyInv
  OBVIOUS
<1>1. ListeningArmed
  BY DEF Init, ListeningArmed
<1>2. ASSUME NEW id \in Ids PROVE Safe(id)
  BY <1>1 DEF Init, Safe, Final, Leaving, Armed
<1> QED
  BY <1>1, <1>2, InitInv DEF SafetyInv

------------------------------------------------------------------------------
(***************************************************************************)
(* The accepts.                                                            *)
(***************************************************************************)
LEMMA ListenToArmed ==
    ASSUME TypeOK, ListeningArmed, NEW p \in Ports, ListenTo(p)
    PROVE  ListeningArmed'
<1>1. /\ acceptors' = acceptors \cup {p}
      /\ acc'[p].pend = acc[p].pend + 1 /\ acc'[p].done = acc[p].done
      /\ \A q \in Ports \ {p} : acc'[q] = acc[q]
      /\ acc[p].pend \in Nat /\ acc[p].done \in Nat
  BY DEF ListenTo, TypeOK
<1> QED
  BY <1>1 DEF ListeningArmed, TypeOK

LEMMA ShutArmed ==
    ASSUME TypeOK, ListeningArmed, NEW ps \in SUBSET Ports, EraseAcceptors(ps)
    PROVE  ListeningArmed'
<1>1. \A q \in acceptors' : q \in acceptors /\ acc'[q] = acc[q]
  BY DEF EraseAcceptors, TypeOK
<1> QED
  BY <1>1 DEF ListeningArmed

LEMMA HandleAcceptArmed ==
    ASSUME TypeOK, ListeningArmed, NEW p \in Ports, HandleAccept(p)
    PROVE  ListeningArmed'
<1>1. /\ acceptors' = acceptors /\ acceptors \subseteq Ports
      /\ acc[p].pend \in Nat /\ acc[p].done \in Nat /\ acc[p].done > 0
  BY DEF HandleAccept, TypeOK
<1>2. CASE p \notin acceptors
  BY <1>1, <1>2 DEF HandleAccept, ListeningArmed, TypeOK
<1>3. CASE p \in acceptors
  <2>1. acc' = [acc EXCEPT ![p] = AcceptAgain(@)]
    BY <1>3 DEF HandleAccept
  <2>2. /\ acc'[p].pend = acc[p].pend + 1 /\ acc'[p].done = acc[p].done - 1
        /\ \A q \in Ports \ {p} : acc'[q] = acc[q]
    BY <2>1 DEF AcceptAgain, TypeOK
  <2> QED
    BY <1>1, <2>2 DEF ListeningArmed
<1> QED
  BY <1>2, <1>3

LEMMA PeerConnectsArmed ==
    ASSUME TypeOK, ListeningArmed, NEW p \in Ports, PeerConnects(p)
    PROVE  ListeningArmed'
<1>1. /\ acceptors' = acceptors /\ acceptors \subseteq Ports
      /\ acc'[p].pend = acc[p].pend - 1 /\ acc'[p].done = acc[p].done + 1
      /\ \A q \in Ports \ {p} : acc'[q] = acc[q]
      /\ acc[p].pend \in Nat /\ acc[p].done \in Nat
  BY DEF PeerConnects, TypeOK
<1> QED
  BY <1>1 DEF ListeningArmed

------------------------------------------------------------------------------
(***************************************************************************)
(* The connections: the main thread.                                       *)
(***************************************************************************)
LEMMA UntouchedSafe ==
    ASSUME \A j \in Ids : Safe(j), UNCHANGED <<connections, conn, ops, toClient, cl>>
    PROVE  \A j \in Ids : Safe(j)'
BY SafeFrame

LEMMA EraseSafe ==
    ASSUME IInv, \A j \in Ids : Safe(j), NEW ids \in SUBSET connections, Erase(ids),
           UNCHANGED toClient,
           \A j \in Ids : cl'[j].state = "left" => cl[j].state = "left" \/ j \in ids
    PROVE  \A j \in Ids : Safe(j)'
<1> SUFFICES ASSUME NEW j \in Ids PROVE Safe(j)'
  OBVIOUS
<1>1. CASE j \in ids
  BY <1>1, GoneIsSafe DEF Erase, Safe
<1>2. CASE j \notin ids
  BY <1>2, SafeFrame DEF Erase
<1> QED
  BY <1>1, <1>2

LEMMA ConnectRemoteSafe ==
    ASSUME IInv, \A j \in Ids : Safe(j),
           NEW id \in ConnectIds, NEW i \in AckIntervals, ConnectRemote(id, i)
    PROVE  \A j \in Ids : Safe(j)'
<1>0. id \in Ids /\ TypeOK
  BY DEF Ids, IInv
<1>1. /\ ops[id] = NoOps /\ toClient[id] = <<>> /\ conn[id] = FreshConnection
      /\ id \notin connections
  BY <1>0 DEF ConnectRemote, IInv, ConnInv, FreshPart, DeadPart, Unborn
<1>2. toClient' = toClient /\ cl'[id].state = "connecting"
  BY <1>0 DEF ConnectRemote, ClientMoves, TypeOK, ClientType
<1>3. ASSUME NEW j \in Ids, j # id PROVE Safe(j)'
  <2>1. /\ j \in connections' <=> j \in connections
        /\ conn'[j] = conn[j] /\ ops'[j] = ops[j] /\ cl'[j] = cl[j]
    BY <1>0, <1>3 DEF ConnectRemote, ClientMoves, TypeOK
  <2> QED
    BY <2>1, <1>2, SafeFrame
<1>4. Safe(id)'
  <2>1. Final(id)' /\ Leaving(id)'
    BY <1>1, <1>2 DEF Final, Leaving
  <2>2. CASE UNCHANGED <<connections, conn, ops>>
    BY <2>1, <2>2, <1>1 DEF Safe, Armed
  <2>3. CASE /\ conn' = [conn EXCEPT ![id].ack_interval = i]
             /\ ops' = [ops EXCEPT ![id].connect = @ + 1]
    <3>1. /\ conn'[id].acked = FALSE /\ conn'[id].write_buffer = <<>>
          /\ ops'[id].recv = 0 /\ ops'[id].received = <<>>
      BY <2>3, <1>0, <1>1 DEF TypeOK, FreshConnection, NoOps
    <3>2. Reads(id)' = 0
      BY <3>1 DEF Reads
    <3> QED
      BY <2>1, <3>1, <3>2 DEF Safe, Armed
  <2> QED
    BY <2>2, <2>3 DEF ConnectRemote
<1> QED
  BY <1>3, <1>4

LEMMA AckDataSafe ==
    ASSUME IInv, \A j \in Ids : Safe(j),
           NEW id \in Ids, NEW size \in Nat, AckData(id, size),
           NEW c \in ClientType, ClientMoves(id, c),
           cl[id].state \in {"accepted", "open"}, c.state = "open"
    PROVE  \A j \in Ids : Safe(j)'
<1>0. TypeOK
  BY DEF IInv
<1>1. cl'[id] = c /\ toClient' = toClient
  BY <1>0 DEF AckData, ClientMoves, TypeOK
<1>2. ASSUME NEW j \in Ids, j # id PROVE Safe(j)'
  <2>1. /\ j \in connections' <=> j \in connections
        /\ conn'[j] = conn[j] /\ ops'[j] = ops[j] /\ cl'[j] = cl[j]
    BY <1>0, <1>2 DEF AckData, Update, ClientMoves, TypeOK
  <2> QED
    BY <2>1, <1>1, SafeFrame
<1>3. CASE id \notin connections
  BY <1>1, <1>2, <1>3, GoneIsSafe DEF AckData, Safe
<1>4. CASE id \in connections
  <2> DEFINE after == Acked(conn[id], size)
             resume == conn[id].acked => Reopened(conn[id].data_sent, after.data_sent)
  <2>1. /\ id \in connections'
        /\ conn'[id] = after
        /\ ops'[id] = IF resume THEN PostRead(ops[id]) ELSE ops[id]
    BY <1>0, <1>4 DEF AckData, Update, TypeOK
  <2>2. /\ after.closing = conn[id].closing
        /\ after.write_buffer = conn[id].write_buffer
        /\ after.acked = TRUE
        /\ conn[id].acked => after.data_sent = conn[id].data_sent - size
        /\ ~conn[id].acked => after.data_sent = conn[id].data_sent
    BY <1>0, ConnTyped DEF Acked, ConnectionType
  <2>3. /\ ops'[id].received = ops[id].received
        /\ ops'[id].send = ops[id].send /\ ops'[id].sent = ops[id].sent
        /\ ops'[id].recv = IF resume THEN ops[id].recv + 1 ELSE ops[id].recv
    BY <1>0, <2>1, ConnTyped DEF PostRead, OpsType
  <2>4. /\ conn[id].data_sent \in Int /\ Reads(id) \in Nat /\ ~conn[id].closing
        /\ Reads(id) <= 1
        /\ ~conn[id].acked => Reads(id) = 0 /\ conn[id].data_sent = 0
    BY <1>0, <1>4, ConnTyped, Counts DEF ConnectionType, IInv, ConnInv, ReadPart
  <2>5. Reads(id)' = IF resume THEN Reads(id) + 1 ELSE Reads(id)
    BY <1>0, <2>3, ConnTyped DEF Reads, OpsType
  <2>6. ~IoFailures =>
          /\ Reads(id) = 1 <=> conn[id].acked /\ conn[id].data_sent < WINDOW_SIZE
          /\ conn[id].write_buffer # <<>> => Writes(id) = 1
    BY <1>4, <2>4 DEF Safe, Armed
  <2> HIDE DEF after
  <2>7. ~IoFailures =>
          (Reads(id)' = 1 <=> after.acked /\ after.data_sent < WINDOW_SIZE)
    BY <2>2, <2>4, <2>5, <2>6, WindowAssumption DEF Reopened, WindowOpen
  <2>8. Armed(id)'
    BY <2>1, <2>2, <2>3, <2>6, <2>7 DEF Armed, Writes
  <2>9. Final(id)' /\ Leaving(id)'
    BY <1>1, <1>4, FinalKept DEF Safe, Leaving
  <2> QED
    BY <1>2, <2>8, <2>9 DEF Safe
<1> QED
  BY <1>3, <1>4

LEMMA SendDataSafe ==
    ASSUME IInv, \A j \in Ids : Safe(j),
           NEW id \in Ids, NEW size \in 1 .. BUFFER_SIZE, SendData(id, size)
    PROVE  \A j \in Ids : Safe(j)'
<1>0. TypeOK /\ size \in Nat /\ cl[id].sent \in Nat
  BY WindowAssumption, ConnTyped DEF IInv, ClientType
<1>1. cl'[id].state = "open" /\ toClient' = toClient
  BY <1>0, ConnTyped DEF SendData, ClientMoves, TypeOK, ClientType
<1>2. ASSUME NEW j \in Ids, j # id PROVE Safe(j)'
  <2>1. /\ j \in connections' <=> j \in connections
        /\ conn'[j] = conn[j] /\ ops'[j] = ops[j] /\ cl'[j] = cl[j]
    BY <1>0, <1>2 DEF SendData, Update, ClientMoves, TypeOK
  <2> QED
    BY <2>1, <1>1, SafeFrame
<1>3. CASE id \notin connections
  BY <1>1, <1>2, <1>3, GoneIsSafe DEF SendData, Safe
<1>4. CASE id \in connections
  <2> DEFINE b == [first |-> cl[id].sent, size |-> size, pos |-> 0]
             old == conn[id].write_buffer
             wb == Append(old, b)
             o == IF Len(wb) = 1 THEN PostWrite(ops[id], wb) ELSE ops[id]
  <2>1. Update(id, [conn[id] EXCEPT !.write_buffer = wb], o)
    BY <1>4 DEF SendData, StartsWrite
  <2>2. b \in Buffers /\ old \in Seq(Buffers)
    BY <1>0, ConnTyped DEF Buffers, ConnectionType
  <2>3. Len(wb) = Len(old) + 1 /\ Len(old) \in Nat /\ (Len(old) = 0 <=> old = <<>>)
    BY <2>2, AppendProperties, EmptySeq, LenProperties
  <2>4. /\ conn'[id].acked = conn[id].acked /\ conn'[id].closing = conn[id].closing
        /\ conn'[id].data_sent = conn[id].data_sent
        /\ ops'[id] = o
    <3> HIDE DEF o, wb
    <3> QED
      BY <1>0, <2>1, ConnTyped DEF Update, TypeOK, ConnectionType
  <2>5. /\ o.recv = ops[id].recv /\ o.received = ops[id].received
        /\ o.sent = ops[id].sent
        /\ old # <<>> => o.send = ops[id].send
        /\ old = <<>> => o.send = Append(ops[id].send, Remaining(Head(wb)))
    <3> DEFINE p == PostWrite(ops[id], wb)
    <3> HIDE DEF wb
    <3>1. /\ p.recv = ops[id].recv /\ p.received = ops[id].received
          /\ p.sent = ops[id].sent
          /\ p.send = Append(ops[id].send, Remaining(Head(wb)))
      BY <1>0, ConnTyped DEF PostWrite, OpsType
    <3>2. Len(wb) = 1 <=> old = <<>>
      BY <2>3
    <3> HIDE DEF p, old
    <3>3. o = IF Len(wb) = 1 THEN p ELSE ops[id]
      BY DEF p
    <3> HIDE DEF o
    <3> QED
      BY <3>1, <3>2, <3>3
  <2>6. old = <<>> => ops[id].send = <<>> /\ ops[id].sent = <<>>
    BY <1>0, <1>4, Counts DEF IInv, ConnInv, WritePart
  <2>7. old = <<>> => Len(o.send) = 1 /\ Len(o.sent) = 0
    <3> DEFINE r == Remaining(Head(wb))
    <3> HIDE DEF r
    <3>1. Len(Append(<<>>, r)) = 1 /\ Len(<<>>) = 0
      OBVIOUS
    <3> HIDE DEF o, old, wb
    <3> QED
      BY <2>5, <2>6, <3>1 DEF r
  <2> HIDE DEF o, wb, b
  <2>8. ~IoFailures => Writes(id)' = 1
    <3>1. Writes(id)' = Len(o.send) + Len(o.sent)
      BY <2>4 DEF Writes
    <3>2. CASE old = <<>>
      <4>1. Len(o.send) = 1 /\ Len(o.sent) = 0
        BY <2>7, <3>2
      <4>2. Writes(id)' = 1
        BY <3>1, <4>1
      <4> QED
        BY <4>2
    <3>3. CASE old # <<>>
      <4>1. ~IoFailures => Writes(id) = 1
        BY <1>4, <3>3 DEF Safe, Armed, old
      <4>2. Writes(id)' = Writes(id)
        BY <2>5, <3>1, <3>3 DEF Writes
      <4> QED
        BY <4>1, <4>2
    <3> QED
      BY <3>2, <3>3
  <2>9. Reads(id)' = Reads(id)
    BY <2>4, <2>5 DEF Reads
  <2>10. Armed(id)'
    BY <1>4, <2>4, <2>8, <2>9 DEF Safe, Armed
  <2>11. Final(id)' /\ Leaving(id)'
    BY <1>1, <1>4, FinalKept DEF Safe, Leaving
  <2> QED
    BY <1>2, <2>10, <2>11 DEF Safe
<1> QED
  BY <1>3, <1>4

LEMMA StartClosingSafe ==
    ASSUME IInv, \A j \in Ids : Safe(j), NEW id \in Ids, StartClosing(id)
    PROVE  \A j \in Ids : Safe(j)'
<1>0. TypeOK
  BY DEF IInv
<1>1. toClient' = toClient /\ \A j \in Ids \ {id} : cl'[j] = cl[j]
  BY <1>0 DEF StartClosing, ClientMoves, TypeOK
<1>2. CASE id \in connections /\ Update(id, ToClosing(conn[id]), ops[id])
  <2>1. /\ \A j \in Ids \ {id} : conn'[j] = conn[j]
        /\ connections' = connections /\ ops' = ops
        /\ conn'[id].closing = TRUE /\ conn'[id].write_buffer = conn[id].write_buffer
    BY <1>0, <1>2, ConnTyped DEF Update, ToClosing, TypeOK, ConnectionType
  <2>2. ASSUME NEW j \in Ids, j # id PROVE Safe(j)'
    BY <2>1, <2>2, <1>1, SafeFrame
  <2>3. Safe(id)'
    BY <1>1, <1>2, <2>1, FinalKept DEF Safe, Leaving, Armed, Writes
  <2> QED
    BY <2>2, <2>3
<1>3. CASE id \in connections /\ Erase({id})
  BY <1>1, <1>3, EraseSafe
<1>4. CASE id \notin connections /\ UNCHANGED <<connections, conn, ops>>
  <2>1. Safe(id)'
    BY <1>1, <1>4, GoneIsSafe DEF Safe
  <2>2. ASSUME NEW j \in Ids, j # id PROVE Safe(j)'
    BY <2>2, <1>1, <1>4, SafeFrame
  <2> QED
    BY <2>1, <2>2
<1> QED
  BY <1>2, <1>3, <1>4 DEF StartClosing

------------------------------------------------------------------------------
(***************************************************************************)
(* The connections: the I/O thread.                                        *)
(***************************************************************************)
LEMMA MessageTyped ==
    ASSUME NEW t \in {"ACCEPTED", "DATA", "ACK", "CLOSE"}, NEW n \in Nat
    PROVE  /\ Message(t, n) \in Messages
           /\ Message(t, n).type = t
BY DEF Message, Messages

\* A packet of a connection that is gone, or that is closing, changes the
\* operations only.
LEMMA PacketDropped ==
    ASSUME TypeOK, \A j \in Ids : Safe(j), NEW id \in Ids, NEW o \in OpsType,
           ops' = [ops EXCEPT ![id] = o],
           id \in connections => conn[id].closing /\ o.send = ops[id].send /\ o.sent = ops[id].sent,
           UNCHANGED <<connections, conn, toClient, cl>>
    PROVE  \A j \in Ids : Safe(j)'
<1>1. /\ \A j \in Ids \ {id} : ops'[j] = ops[j]
      /\ ops'[id] = o
  BY DEF TypeOK
<1>2. Final(id)' /\ Leaving(id)'
  BY FinalKept DEF Safe, Leaving
<1>3. Armed(id)'
  <2>1. CASE id \in connections
    <3>1. Writes(id)' = Writes(id)
      BY <1>1, <2>1 DEF Writes
    <3> QED
      BY <2>1, <3>1 DEF Safe, Armed
  <2>2. CASE id \notin connections
    BY <2>2 DEF Armed
  <2> QED
    BY <2>1, <2>2
<1> QED
  BY <1>1, <1>2, <1>3, SafeFrame DEF Safe

\* The connection is erased by the handler of one of its packets.
LEMMA EraseHandledSafe ==
    ASSUME TypeOK, \A j \in Ids : Safe(j), NEW id \in Ids, NEW o \in OpsType,
           EraseHandled(id, o), UNCHANGED cl, Final(id)',
           \A j \in Ids \ {id} : toClient'[j] = toClient[j]
    PROVE  \A j \in Ids : Safe(j)'
<1>1. /\ connections' = connections \ {id}
      /\ \A j \in Ids \ {id} : conn'[j] = conn[j] /\ ops'[j] = ops[j]
  BY DEF EraseHandled, TypeOK
<1>2. ASSUME NEW j \in Ids, j # id PROVE Safe(j)'
  BY <1>1, <1>2, SafeFrame
<1>3. Safe(id)'
  BY <1>1 DEF Safe, Leaving, Armed
<1> QED
  BY <1>2, <1>3

LEMMA HandleAcceptSafe ==
    ASSUME IInv, \A j \in Ids : Safe(j), NEW p \in Ports, HandleAccept(p)
    PROVE  \A j \in Ids : Safe(j)'
<1>0. TypeOK
  BY DEF IInv
<1>1. CASE p \notin acceptors
  BY <1>1, UntouchedSafe DEF HandleAccept, IoHandles, world
<1>2. CASE p \in acceptors
  <2>0. seq + 1 \in Ids
    BY <1>0, <1>2, BoundsAssumption DEF HandleAccept, Ids, AcceptIds, TypeOK
  <2> PICK id \in Ids : id = seq + 1
    BY <2>0
  <2> DEFINE m == Message("ACCEPTED", WINDOW_SIZE \div 2)
  <2>1. /\ connections' = connections \cup {id}
        /\ conn' = [conn EXCEPT ![id] = FreshConnection]
        /\ Send(id, m)
        /\ ops' = ops /\ cl' = cl
    BY <1>2 DEF HandleAccept, IoHandles, Send, world
  <2>2. id \in AcceptIds /\ id > seq
    BY <1>0, <1>2, BoundsAssumption DEF HandleAccept, Ids, AcceptIds, TypeOK
  <2>4. /\ id \notin connections /\ ops[id] = NoOps /\ toClient[id] = <<>>
        /\ cl[id].state = "none"
    BY <2>2 DEF IInv, ConnInv, FreshPart, Unborn
  <2>5. m \in Messages /\ m.type = "ACCEPTED"
    BY HalfWindow, MessageTyped
  <2> HIDE DEF m
  <2>6. Final(id)' /\ \A j \in Ids \ {id} : toClient'[j] = toClient[j]
    BY <1>0, <2>1, <2>4, <2>5, FinalSent DEF Safe
  <2>7. ASSUME NEW j \in Ids, j # id PROVE Safe(j)'
    <3>1. conn'[j] = conn[j] /\ (j \in connections' => j \in connections)
      BY <1>0, <2>1, <2>7 DEF TypeOK
    <3> QED
      BY <2>1, <2>6, <2>7, <3>1, SafeFrame
  <2>8. conn'[id] = FreshConnection
    BY <1>0, <2>1 DEF TypeOK
  <2>9. Armed(id)'
    <3>1. ops'[id].recv = 0 /\ ops'[id].received = <<>>
      BY <2>1, <2>4 DEF NoOps
    <3>2. Reads(id)' = 0
      BY <3>1 DEF Reads
    <3>3. conn'[id].acked = FALSE /\ conn'[id].write_buffer = <<>>
      BY <2>8 DEF FreshConnection
    <3> QED
      BY <3>2, <3>3 DEF Armed
  <2>10. Leaving(id)'
    BY <2>1, <2>4 DEF Leaving
  <2> QED
    BY <2>6, <2>7, <2>9, <2>10 DEF Safe
<1> QED
  BY <1>1, <1>2

LEMMA HandleReadSafe ==
    ASSUME IInv, \A j \in Ids : Safe(j), NEW id \in Ids, HandleRead(id)
    PROVE  \A j \in Ids : Safe(j)'
<1> DEFINE bytes == Head(ops[id].received)
           taken == [ops[id] EXCEPT !.received = Tail(@)]
           c == [conn[id] EXCEPT !.data_sent = @ + bytes]
<1>0. TypeOK /\ ops[id].received # <<>> /\ cl' = cl
  BY DEF IInv, HandleRead, IoHandles, world
<1>2. /\ bytes \in 0 .. BUFFER_SIZE
      /\ Tail(ops[id].received) \in Seq(0 .. BUFFER_SIZE)
      /\ Len(Tail(ops[id].received)) = Len(ops[id].received) - 1
      /\ Len(ops[id].received) \in Nat /\ Len(ops[id].received) > 0
  <2>1. ops[id].received \in Seq(0 .. BUFFER_SIZE) /\ ops[id].received # <<>>
    BY <1>0, ConnTyped DEF OpsType
  <2>2. Len(ops[id].received) \in Nat /\ Len(ops[id].received) > 0
    BY <2>1, LenProperties, EmptySeq
  <2> QED
    BY <2>1, <2>2, HeadTailProperties
<1>3. bytes \in Nat
  BY <1>2, WindowAssumption
<1>4. /\ taken \in OpsType
      /\ taken.send = ops[id].send /\ taken.sent = ops[id].sent
      /\ taken.recv = ops[id].recv
      /\ taken.received = Tail(ops[id].received)
  BY <1>0, <1>2, ConnTyped DEF OpsType
<1> HIDE DEF bytes, taken
<1>5. CASE /\ id \notin connections \/ (bytes > 0 /\ conn[id].closing)
           /\ ops' = [ops EXCEPT ![id] = taken]
           /\ UNCHANGED <<connections, conn, toClient>>
  BY <1>0, <1>4, <1>5, PacketDropped
<1>6. CASE id \in connections /\ bytes = 0 /\ PeerClosed(id, taken)
  <2> DEFINE m == Message("CLOSE", 0)
  <2>1. m \in Messages /\ Send(id, m) /\ EraseHandled(id, taken)
    BY <1>6, MessageTyped DEF PeerClosed
  <2>2. id \notin connections'
    BY <2>1 DEF EraseHandled
  <2> HIDE DEF m
  <2>3. Final(id)' /\ \A j \in Ids \ {id} : toClient'[j] = toClient[j]
    BY <1>0, <1>6, <2>1, <2>2, FinalSent DEF Safe
  <2> QED
    BY <1>0, <1>4, <2>1, <2>3, EraseHandledSafe
<1>7. CASE /\ id \in connections /\ bytes > 0 /\ ~conn[id].closing
           /\ Send(id, Message("DATA", bytes))
           /\ Update(id, c, IF WindowOpen(c.data_sent) THEN PostRead(taken) ELSE taken)
  <2> DEFINE m == Message("DATA", bytes)
             o == IF WindowOpen(c.data_sent) THEN PostRead(taken) ELSE taken
  <2>1. m \in Messages /\ m.type = "DATA"
    BY <1>3, MessageTyped
  <2> HIDE DEF m
  <2>2. Final(id)' /\ \A j \in Ids \ {id} : toClient'[j] = toClient[j]
    BY <1>0, <1>7, <2>1, FinalSent DEF Safe, m
  <2>3. /\ c.closing = conn[id].closing /\ c.acked = conn[id].acked
        /\ c.write_buffer = conn[id].write_buffer
        /\ c.data_sent = conn[id].data_sent + bytes
        /\ conn[id].data_sent \in Int
    BY <1>0, ConnTyped DEF ConnectionType
  <2> HIDE DEF c
  <2>4. /\ connections' = connections
        /\ conn'[id] = c /\ ops'[id] = o
        /\ \A j \in Ids \ {id} : conn'[j] = conn[j] /\ ops'[j] = ops[j]
    BY <1>0, <1>7 DEF Update, TypeOK
  <2>5. ASSUME NEW j \in Ids, j # id PROVE Safe(j)'
    BY <1>0, <2>2, <2>4, <2>5, SafeFrame
  <2>6. /\ o.received = Tail(ops[id].received)
        /\ o.send = ops[id].send /\ o.sent = ops[id].sent
        /\ o.recv = IF WindowOpen(c.data_sent) THEN ops[id].recv + 1 ELSE ops[id].recv
    BY <1>4 DEF PostRead, OpsType
  <2> HIDE DEF o
  <2>7. ops[id].recv = 0 /\ Len(ops[id].received) = 1 /\ Reads(id) = 1
    <3>1. Reads(id) <= 1 /\ ops[id].recv \in Nat
      BY <1>0, <1>7, ConnTyped DEF IInv, ConnInv, ReadPart, OpsType
    <3>2. \A x, y \in Nat : x + y <= 1 /\ y > 0 => x = 0 /\ y = 1 /\ x + y = 1
      OBVIOUS
    <3>3. Reads(id) = ops[id].recv + Len(ops[id].received)
      BY DEF Reads
    <3>4. ops[id].recv + Len(ops[id].received) <= 1
      BY <3>1, <3>3
    <3> QED
      BY <1>2, <3>1, <3>2, <3>3, <3>4
  <2>8. conn[id].acked
    BY <1>7, <2>7 DEF IInv, ConnInv, ReadPart
  <2>9. Reads(id)' = IF WindowOpen(c.data_sent) THEN 1 ELSE 0
    <3>1. Reads(id)' = o.recv + Len(o.received)
      BY <2>4 DEF Reads
    <3>2. Len(o.received) = 0
      BY <1>2, <2>6, <2>7
    <3>3. o.recv = IF WindowOpen(c.data_sent) THEN 1 ELSE 0
      BY <2>6, <2>7
    <3> QED
      BY <3>1, <3>2, <3>3
  <2>10. Writes(id)' = Writes(id)
    BY <2>4, <2>6 DEF Writes
  <2>11. Armed(id)'
    <3>1. Reads(id)' = 1 <=> c.data_sent < WINDOW_SIZE
      BY <2>9 DEF WindowOpen
    <3> QED
      BY <1>7, <2>3, <2>4, <2>8, <2>10, <3>1 DEF Safe, Armed
  <2>12. Leaving(id)'
    BY <1>0, <1>7, <2>3, <2>4 DEF Safe, Leaving
  <2> QED
    BY <2>2, <2>5, <2>11, <2>12 DEF Safe
<1> QED
  BY <1>5, <1>6, <1>7 DEF HandleRead, bytes, taken

\* An acknowledgement, if one is due.
LEMMA AckSafe ==
    ASSUME TypeOK, NEW id \in Ids, Final(id), id \in connections,
           NEW n \in Nat, NEW i, SendAckIfDue(id, n, i),
           id \in connections' => id \in connections
    PROVE  Final(id)' /\ \A j \in Ids \ {id} : toClient'[j] = toClient[j]
<1>1. CASE Send(id, Message("ACK", n))
  <2> DEFINE m == Message("ACK", n)
  <2>1. m \in Messages /\ m.type = "ACK" /\ Send(id, m)
    BY <1>1, MessageTyped
  <2> HIDE DEF m
  <2> QED
    BY <2>1, FinalSent
<1>2. CASE UNCHANGED toClient
  BY <1>2, FinalKept
<1> QED
  BY <1>1, <1>2 DEF SendAckIfDue

LEMMA HandleWriteSafe ==
    ASSUME IInv, \A j \in Ids : Safe(j), NEW id \in Ids, HandleWrite(id)
    PROVE  \A j \in Ids : Safe(j)'
<1> DEFINE bytes == Head(ops[id].sent)
           taken == [ops[id] EXCEPT !.sent = Tail(@)]
           c == Received(conn[id], bytes)
<1>0. TypeOK /\ ops[id].sent # <<>> /\ cl' = cl
  BY DEF IInv, HandleWrite, IoHandles, world
<1>1. /\ ops[id].sent \in Seq(Nat) /\ ops[id].send \in Seq(Segments)
      /\ Len(ops[id].send) \in Nat
  BY <1>0, ConnTyped, LenProperties DEF OpsType
<1>2. /\ bytes \in Nat /\ Tail(ops[id].sent) \in Seq(Nat)
      /\ Len(Tail(ops[id].sent)) = Len(ops[id].sent) - 1
      /\ Len(ops[id].sent) \in Nat /\ Len(ops[id].sent) > 0
  BY <1>0, <1>1, HeadTailProperties, LenProperties, EmptySeq
<1>4. /\ taken \in OpsType
      /\ taken.send = ops[id].send /\ taken.sent = Tail(ops[id].sent)
      /\ taken.recv = ops[id].recv /\ taken.received = ops[id].received
  BY <1>0, <1>2, ConnTyped DEF OpsType
<1> HIDE DEF bytes, taken
<1>5. CASE /\ id \notin connections
           /\ ops' = [ops EXCEPT ![id] = taken]
           /\ UNCHANGED <<connections, conn, toClient>>
  BY <1>0, <1>4, <1>5, PacketDropped
<1>6. CASE id \in connections
  <2>1. c.closing = conn[id].closing /\ c.acked = conn[id].acked
        /\ c.data_sent = conn[id].data_sent
    BY <1>0, ConnTyped DEF Received, ConnectionType
  <2>2. conn[id].data_received + bytes \in Nat
    BY <1>0, <1>2, ConnTyped DEF ConnectionType
  <2> DEFINE n == conn[id].data_received + bytes
  <2>3. SendAckIfDue(id, n, conn[id].ack_interval)
    BY <1>6 DEF HandleWrite, bytes
  <2> HIDE DEF n, c
  <2>4. Final(id)' /\ \A j \in Ids \ {id} : toClient'[j] = toClient[j]
    BY <1>0, <1>6, <2>2, <2>3, AckSafe DEF Safe, n
  <2>5. Len(ops[id].sent) = 1 /\ Len(ops[id].send) = 0
    <3>1. Len(ops[id].send) + Len(ops[id].sent) <= 1
      BY <1>0, <1>6 DEF IInv, ConnInv, WritePart, Writes
    <3>2. \A k, l \in Nat : k + l <= 1 /\ l > 0 => l = 1 /\ k = 0
      OBVIOUS
    <3> QED
      BY <1>1, <1>2, <3>1, <3>2
  <2>6. ASSUME NEW o \in OpsType, Update(id, c, o),
               o.recv = ops[id].recv, o.received = ops[id].received,
               c.write_buffer # <<>> => Len(o.send) = 1 /\ Len(o.sent) = 0
        PROVE  \A j \in Ids : Safe(j)'
    <3>1. /\ connections' = connections
          /\ conn'[id] = c /\ ops'[id] = o
          /\ \A j \in Ids \ {id} : conn'[j] = conn[j] /\ ops'[j] = ops[j]
      BY <1>0, <2>6 DEF Update, TypeOK
    <3>2. ASSUME NEW j \in Ids, j # id PROVE Safe(j)'
      BY <1>0, <2>4, <3>1, <3>2, SafeFrame
    <3>3. Reads(id)' = Reads(id)
      BY <2>6, <3>1 DEF Reads
    <3>4. c.write_buffer # <<>> => Writes(id)' = 1
      <4>1. Writes(id)' = Len(o.send) + Len(o.sent)
        BY <3>1 DEF Writes
      <4>2. Len(o.send) = 1 /\ Len(o.sent) = 0 => Writes(id)' = 1
        BY <4>1
      <4> QED
        BY <2>6, <4>2
    <3>5. Armed(id)'
      BY <1>6, <2>1, <3>1, <3>3, <3>4 DEF Safe, Armed
    <3>6. Leaving(id)'
      BY <1>0, <1>6, <2>1, <3>1 DEF Safe, Leaving
    <3> QED
      BY <2>4, <3>2, <3>5, <3>6 DEF Safe
  <2>7. CASE c.write_buffer # <<>> /\ Update(id, c, PostWrite(taken, c.write_buffer))
    <3> DEFINE r == Remaining(Head(c.write_buffer))
               o == PostWrite(taken, c.write_buffer)
    <3>1. c.write_buffer \in Seq(Buffers)
      <4>1. conn[id].write_buffer \in Seq(Buffers) /\ conn[id].write_buffer # <<>>
        BY <1>0, <1>6, ConnTyped, WriteNeedsBuffer DEF ConnectionType
      <4>2. c.write_buffer = Advance(conn[id].write_buffer, bytes)
        BY <1>0, ConnTyped DEF Received, ConnectionType, c
      <4> QED
        BY <1>2, <4>1, <4>2, AdvanceTyped
    <3>2. o \in OpsType
      BY <1>4, <2>7, <3>1, PostWriteTyped
    <3>3. /\ o.recv = ops[id].recv /\ o.received = ops[id].received
          /\ o.sent = Tail(ops[id].sent) /\ o.send = Append(ops[id].send, r)
      BY <1>4 DEF PostWrite, OpsType
    <3>4. Len(Append(ops[id].send, r)) = Len(ops[id].send) + 1
      <4>1. r \in Segments
        <5>1. Head(c.write_buffer) \in Buffers
          BY <2>7, <3>1
        <5> QED
          BY <5>1 DEF Remaining, Segments, Buffers
      <4> HIDE DEF r
      <4> QED
        BY <1>1, <4>1, AppendProperties
    <3>5. Len(o.send) = 1 /\ Len(o.sent) = 0
      BY <1>2, <2>5, <3>3, <3>4
    <3> HIDE DEF o
    <3> QED
      BY <2>6, <2>7, <3>2, <3>3, <3>5 DEF o
  <2>8. CASE c.write_buffer = <<>> /\ Update(id, c, taken)
    BY <1>4, <2>6, <2>8
  <2>9. CASE EraseHandled(id, taken)
    BY <1>0, <1>4, <2>4, <2>9, EraseHandledSafe
  <2> QED
    BY <1>6, <2>7, <2>8, <2>9 DEF HandleWrite, bytes, taken, c
<1> QED
  BY <1>5, <1>6 DEF HandleWrite, taken, bytes

LEMMA HandleConnectSafe ==
    ASSUME IInv, \A j \in Ids : Safe(j), NEW id \in Ids, HandleConnect(id)
    PROVE  \A j \in Ids : Safe(j)'
<1> DEFINE taken == [ops[id] EXCEPT !.connected = @ - 1]
           c == [conn[id] EXCEPT !.acked = TRUE]
           o == PostRead(taken)
<1>0. TypeOK /\ ConnInv(id) /\ cl' = cl /\ ops[id].connected > 0
  BY DEF IInv, HandleConnect, IoHandles, world
<1>1. ops[id].connect \in Nat /\ ops[id].connected \in Nat
  BY <1>0, ConnTyped DEF OpsType
<1>2. taken \in OpsType
  <2>1. ops[id].connected - 1 \in Nat
    BY <1>0, <1>1
  <2> QED
    BY <1>0, <2>1, ConnTyped, OpsFields
<1>3. /\ taken.send = ops[id].send /\ taken.sent = ops[id].sent
      /\ o.recv = ops[id].recv + 1 /\ o.received = ops[id].received
      /\ o.send = ops[id].send /\ o.sent = ops[id].sent
  BY <1>0, ConnTyped DEF OpsType, PostRead
<1>4. /\ c.acked = TRUE /\ c.closing = conn[id].closing
      /\ c.write_buffer = conn[id].write_buffer /\ c.data_sent = conn[id].data_sent
  BY <1>0, ConnTyped DEF ConnectionType
<1> HIDE DEF taken, c, o
<1>5. CASE /\ id \notin connections
           /\ ops' = [ops EXCEPT ![id] = taken]
           /\ UNCHANGED <<connections, conn, toClient>>
  BY <1>0, <1>2, <1>5, PacketDropped
<1>6. CASE /\ id \in connections
           /\ Send(id, Message("ACK", WINDOW_SIZE \div 2))
           /\ Update(id, c, o)
  <2> DEFINE m == Message("ACK", WINDOW_SIZE \div 2)
  <2>1. m \in Messages /\ m.type = "ACK" /\ Send(id, m)
    BY <1>6, HalfWindow, MessageTyped
  <2> HIDE DEF m
  <2>2. Final(id)' /\ \A j \in Ids \ {id} : toClient'[j] = toClient[j]
    BY <1>0, <1>6, <2>1, FinalSent DEF Safe
  <2>3. /\ connections' = connections
        /\ conn'[id] = c /\ ops'[id] = o
        /\ \A j \in Ids \ {id} : conn'[j] = conn[j] /\ ops'[j] = ops[j]
    BY <1>0, <1>6 DEF Update, TypeOK
  <2>4. ASSUME NEW j \in Ids, j # id PROVE Safe(j)'
    BY <1>0, <2>2, <2>3, <2>4, SafeFrame
  <2>5. /\ ~conn[id].closing /\ conn[id].write_buffer = <<>>
        /\ Reads(id) = 0 /\ conn[id].data_sent = 0
    <3>1. \A k, l \in Nat : l > 0 => k + l > 0
      OBVIOUS
    <3>2. ops[id].connect + ops[id].connected > 0
      BY <1>0, <1>1, <3>1
    <3>3. ~conn[id].acked /\ ~conn[id].closing /\ conn[id].write_buffer = <<>>
      BY <1>0, <1>6, <3>2 DEF ConnInv, ConnectPart
    <3> QED
      BY <1>0, <1>6, <3>3 DEF ConnInv, ReadPart
  <2>6. Reads(id)' = 1
    <3>1. ops[id].recv = 0 /\ ops[id].received = <<>>
      BY <1>0, <2>5, Counts
    <3>2. Len(o.received) = 0 /\ o.recv = 1
      BY <1>3, <3>1
    <3>3. Reads(id)' = o.recv + Len(o.received)
      BY <2>3 DEF Reads
    <3> QED
      BY <3>2, <3>3
  <2>7. Armed(id)'
    BY <1>4, <2>3, <2>5, <2>6, WindowAssumption DEF Armed
  <2>8. Leaving(id)'
    BY <1>0, <1>4, <1>6, <2>3 DEF Safe, Leaving
  <2> QED
    BY <2>2, <2>4, <2>7, <2>8 DEF Safe
<1> QED
  BY <1>5, <1>6 DEF HandleConnect, taken, c, o

------------------------------------------------------------------------------
(***************************************************************************)
(* The connections: the kernel and the client.                             *)
(***************************************************************************)
\* The kernel moves an operation from pending to completed.
LEMMA OpsMovedSafe ==
    ASSUME TypeOK, \A j \in Ids : Safe(j), NEW id \in Ids, NEW o,
           ops' = [ops EXCEPT ![id] = o],
           UNCHANGED <<connections, conn, toClient, cl>>,
           o.recv + Len(o.received) = Reads(id), Len(o.send) + Len(o.sent) = Writes(id)
    PROVE  \A j \in Ids : Safe(j)'
<1>1. /\ \A j \in Ids \ {id} : ops'[j] = ops[j]
      /\ ops'[id] = o
  BY DEF TypeOK
<1>2. Reads(id)' = Reads(id) /\ Writes(id)' = Writes(id)
  BY <1>1 DEF Reads, Writes
<1>3. Safe(id)'
  BY <1>2, FinalKept DEF Safe, Leaving, Armed
<1> QED
  BY <1>1, <1>3, SafeFrame

LEMMA KernelReadsSafe ==
    ASSUME IInv, \A j \in Ids : Safe(j), NEW id \in Ids, NEW bytes \in 0 .. BUFFER_SIZE,
           KernelReads(id, bytes)
    PROVE  \A j \in Ids : Safe(j)'
<1> DEFINE r == Append(ops[id].received, bytes)
           o == [ops[id] EXCEPT !.recv = @ - 1, !.received = r]
<1>0. TypeOK /\ ops' = [ops EXCEPT ![id] = o] /\ ops[id].recv > 0
  BY DEF IInv, KernelReads
<1>1. UNCHANGED <<connections, conn, toClient, cl>>
  BY DEF KernelReads, KernelMoves
<1>2. /\ Len(r) = Len(ops[id].received) + 1 /\ Len(ops[id].received) \in Nat
      /\ ops[id].recv \in Nat
  BY <1>0, ConnTyped, AppendProperties, LenProperties DEF OpsType
<1> HIDE DEF r
<1>3. /\ o.recv = ops[id].recv - 1 /\ o.received = r
      /\ o.send = ops[id].send /\ o.sent = ops[id].sent
  BY <1>0, ConnTyped DEF OpsType
<1> HIDE DEF o
<1>4. o.recv + Len(o.received) = Reads(id)
  <2>1. \A x, y \in Nat : (x - 1) + (y + 1) = x + y
    OBVIOUS
  <2>2. o.recv + Len(o.received) = (ops[id].recv - 1) + (Len(ops[id].received) + 1)
    BY <1>2, <1>3
  <2> QED
    BY <1>2, <2>1, <2>2 DEF Reads
<1>5. Len(o.send) + Len(o.sent) = Writes(id)
  BY <1>3 DEF Writes
<1> QED
  BY <1>0, <1>1, <1>4, <1>5, OpsMovedSafe

LEMMA KernelWritesSafe ==
    ASSUME IInv, \A j \in Ids : Safe(j), NEW id \in Ids, NEW bytes \in 1 .. BUFFER_SIZE,
           KernelWrites(id, bytes)
    PROVE  \A j \in Ids : Safe(j)'
<1> DEFINE s == Append(ops[id].sent, bytes)
           t == Tail(ops[id].send)
           o == [ops[id] EXCEPT !.send = t, !.sent = s]
<1>0. TypeOK /\ ops' = [ops EXCEPT ![id] = o] /\ ops[id].send # <<>> /\ bytes \in Nat
  <2>1. ops' = [ops EXCEPT ![id] = o] /\ ops[id].send # <<>>
    BY DEF KernelWrites
  <2> QED
    BY <2>1, WindowAssumption DEF IInv
<1>1. UNCHANGED <<connections, conn, toClient, cl>>
  BY DEF KernelWrites, KernelMoves
<1>2. Len(s) = Len(ops[id].sent) + 1 /\ Len(ops[id].sent) \in Nat
  BY <1>0, ConnTyped, AppendProperties, LenProperties DEF OpsType
<1>3. Len(t) = Len(ops[id].send) - 1 /\ Len(ops[id].send) \in Nat
  BY <1>0, ConnTyped, HeadTailProperties, LenProperties DEF OpsType
<1> HIDE DEF s, t
<1>4. /\ o.recv = ops[id].recv /\ o.received = ops[id].received
      /\ o.send = t /\ o.sent = s
  BY <1>0, ConnTyped DEF OpsType
<1> HIDE DEF o
<1>5. Len(o.send) + Len(o.sent) = Writes(id)
  <2>1. \A x, y \in Nat : (x - 1) + (y + 1) = x + y
    OBVIOUS
  <2>2. Len(o.send) + Len(o.sent) = (Len(ops[id].send) - 1) + (Len(ops[id].sent) + 1)
    BY <1>2, <1>3, <1>4
  <2> QED
    BY <1>2, <1>3, <2>1, <2>2 DEF Writes
<1>6. o.recv + Len(o.received) = Reads(id)
  BY <1>4 DEF Reads
<1> QED
  BY <1>0, <1>1, <1>5, <1>6, OpsMovedSafe

LEMMA KernelConnectsSafe ==
    ASSUME IInv, \A j \in Ids : Safe(j), NEW id \in Ids, KernelConnects(id)
    PROVE  \A j \in Ids : Safe(j)'
<1> DEFINE o == [ops[id] EXCEPT !.connect = @ - 1, !.connected = @ + 1]
<1>0. TypeOK /\ ops' = [ops EXCEPT ![id] = o]
  BY DEF IInv, KernelConnects
<1>1. UNCHANGED <<connections, conn, toClient, cl>>
  BY DEF KernelConnects, KernelMoves
<1>2. /\ o.recv = ops[id].recv /\ o.received = ops[id].received
      /\ o.send = ops[id].send /\ o.sent = ops[id].sent
  BY <1>0, ConnTyped DEF OpsType
<1> HIDE DEF o
<1>3. o.recv + Len(o.received) = Reads(id) /\ Len(o.send) + Len(o.sent) = Writes(id)
  BY <1>2 DEF Reads, Writes
<1> QED
  BY <1>0, <1>1, <1>3, OpsMovedSafe

\* Where operations fail nothing is armed.
LEMMA KernelFailsSafe ==
    ASSUME IInv, \A j \in Ids : Safe(j), NEW id \in Ids, KernelFails(id)
    PROVE  \A j \in Ids : Safe(j)'
BY FinalKept DEF KernelFails, KernelMoves, Safe, Leaving, Armed

LEMMA ClientReceivesSafe ==
    ASSUME IInv, \A j \in Ids : Safe(j), NEW id \in Ids, ClientReceives(id)
    PROVE  \A j \in Ids : Safe(j)'
<1> DEFINE q == toClient[id]
           r == toClient'[id]
<1>0. TypeOK /\ UNCHANGED <<connections, conn, ops>>
  BY DEF IInv, ClientReceives
<1>1. /\ \A j \in Ids \ {id} : toClient'[j] = toClient[j] /\ cl'[j] = cl[j]
      /\ r = Tail(q) /\ q # <<>> /\ q \in Seq(Messages)
      /\ cl'[id] = Understood(cl[id], Head(q))
  BY <1>0 DEF ClientReceives, ClientMoves, TypeOK
<1>2. /\ Len(r) = Len(q) - 1 /\ Len(q) \in Nat /\ Len(q) > 0
      /\ \A i \in 1 .. Len(r) : r[i] = q[i + 1]
  BY <1>1, HeadTailProperties, LenProperties, EmptySeq
<1>3. Final(id)'
  <2>1. \A i \in 1 .. Len(q) :
          q[i].type = "CLOSE" => i = Len(q) /\ id \notin connections
    BY DEF Safe, Final
  <2> HIDE DEF q, r
  <2>2. \A i \in 1 .. Len(r) : i + 1 \in 1 .. Len(q) /\ (i + 1 = Len(q) => i = Len(r))
    BY <1>2
  <2>3. \A i \in 1 .. Len(r) :
          r[i].type = "CLOSE" => i = Len(r) /\ id \notin connections
    BY <1>2, <2>1, <2>2
  <2> QED
    BY <1>0, <2>3 DEF Final, r
<1>4. cl'[id].state = "left" => cl[id].state = "left"
  BY <1>0, <1>1, ConnTyped DEF Understood, ClientType
<1>5. Safe(id)'
  BY <1>0, <1>3, <1>4 DEF Safe, Leaving, Armed, Reads, Writes
<1>6. ASSUME NEW j \in Ids, j # id PROVE Safe(j)'
  BY <1>0, <1>1, <1>6, SafeFrame
<1> QED
  BY <1>5, <1>6

------------------------------------------------------------------------------
(***************************************************************************)
(* The steps of Next, one thread at a time.                                *)
(***************************************************************************)
LEMMA SafeMainThread == SafetyInv /\ MainThread => SafetyInv'
<1> SUFFICES ASSUME SafetyInv, MainThread PROVE SafetyInv'
  OBVIOUS
<1>0. IInv /\ TypeOK /\ ListeningArmed /\ \A j \in Ids : Safe(j)
  BY DEF SafetyInv, IInv
<1>1. IInv'
  BY <1>0, MainThreadStep
<1>2. ASSUME NEW p \in Ports, ListenTo(p) PROVE SafetyInv'
  <2>1. UNCHANGED <<connections, conn, ops, toClient, cl>>
    BY <1>2 DEF ListenTo
  <2> QED
    BY <1>0, <1>1, <1>2, <2>1, ListenToArmed, UntouchedSafe DEF SafetyInv
<1>3. ASSUME NEW p \in Ports, ShutdownPort(p) PROVE SafetyInv'
  <2>1. UNCHANGED <<connections, conn, ops, toClient, cl>> /\ EraseAcceptors({p})
    BY <1>3 DEF ShutdownPort
  <2>2. ListeningArmed'
    BY <1>0, <2>1, ShutArmed
  <2> QED
    BY <1>0, <1>1, <2>1, <2>2, UntouchedSafe DEF SafetyInv
<1>4. CASE ShutdownAll
  <2>1. ListeningArmed'
    BY <1>0, <1>4, ShutArmed DEF ShutdownAll, TypeOK
  <2>2. \A j \in Ids : cl'[j].state # "left"
    BY <1>0, <1>4, ConnTyped DEF ShutdownAll, ClientType
  <2>3. \A j \in Ids : Safe(j)'
    BY <1>0, <1>4, <2>2, EraseSafe DEF ShutdownAll
  <2> QED
    BY <1>1, <2>1, <2>3 DEF SafetyInv
<1>5. ASSUME NEW id \in ConnectIds, NEW i \in AckIntervals, ConnectRemote(id, i)
      PROVE  SafetyInv'
  <2>1. UNCHANGED <<acceptors, acc>>
    BY <1>5 DEF ConnectRemote
  <2> QED
    BY <1>0, <1>1, <1>5, <2>1, ConnectRemoteSafe DEF SafetyInv, ListeningArmed
<1>6. ASSUME NEW id \in Ids, NEW i \in AckIntervals, FirstAck(id, i) PROVE SafetyInv'
  <2> DEFINE c == [cl[id] EXCEPT !.state = "open"]
  <2>1. /\ c \in ClientType /\ c.state = "open" /\ i \in Nat
        /\ cl[id].state \in {"accepted", "open"}
        /\ ClientMoves(id, c) /\ AckData(id, i)
    BY <1>0, <1>6, ConnTyped, WindowAssumption DEF FirstAck, ClientType
  <2>2. \A j \in Ids : Safe(j)'
    BY <1>0, <2>1, AckDataSafe
  <2>3. UNCHANGED <<acceptors, acc>>
    BY <2>1 DEF AckData
  <2> QED
    BY <1>0, <1>1, <2>2, <2>3 DEF SafetyInv, ListeningArmed
<1>7. ASSUME NEW id \in Ids, ClientAck(id) PROVE SafetyInv'
  <2> DEFINE c == [cl[id] EXCEPT !.toAck = 0]
  <2>1. /\ c \in ClientType /\ c.state = "open" /\ cl[id].toAck \in Nat
        /\ cl[id].state \in {"accepted", "open"}
        /\ ClientMoves(id, c) /\ AckData(id, cl[id].toAck)
    BY <1>0, <1>7, ConnTyped DEF ClientAck, ClientType
  <2>2. \A j \in Ids : Safe(j)'
    BY <1>0, <2>1, AckDataSafe
  <2>3. UNCHANGED <<acceptors, acc>>
    BY <2>1 DEF AckData
  <2> QED
    BY <1>0, <1>1, <2>2, <2>3 DEF SafetyInv, ListeningArmed
<1>8. ASSUME NEW id \in Ids, StartClosing(id) PROVE SafetyInv'
  <2>1. UNCHANGED <<acceptors, acc>>
    BY <1>8 DEF StartClosing
  <2> QED
    BY <1>0, <1>1, <1>8, <2>1, StartClosingSafe DEF SafetyInv, ListeningArmed
<1>9. ASSUME NEW id \in Ids, NEW size \in 1 .. BUFFER_SIZE, SendData(id, size)
      PROVE  SafetyInv'
  <2>1. UNCHANGED <<acceptors, acc>>
    BY <1>9 DEF SendData
  <2> QED
    BY <1>0, <1>1, <1>9, <2>1, SendDataSafe DEF SafetyInv, ListeningArmed
<1>10. CASE DtorClears
  <2>1. ListeningArmed'
    BY <1>0, <1>10, ShutArmed DEF DtorClears, TypeOK
  <2>2. \A j \in Ids : Safe(j)'
    BY <1>0, <1>10, EraseSafe DEF DtorClears, world
  <2> QED
    BY <1>1, <2>1, <2>2 DEF SafetyInv
<1>11. CASE DtorWakesThread \/ DtorReturns
  <2>1. UNCHANGED <<acceptors, acc, connections, conn, ops, toClient, cl>>
    BY <1>11 DEF DtorWakesThread, DtorReturns, tables, world
  <2> QED
    BY <1>0, <1>1, <2>1, UntouchedSafe DEF SafetyInv, ListeningArmed
<1> QED
  BY <1>2, <1>3, <1>4, <1>5, <1>6, <1>7, <1>8, <1>9, <1>10, <1>11 DEF MainThread

LEMMA SafeIoThread == SafetyInv /\ IoThread => SafetyInv'
<1> SUFFICES ASSUME SafetyInv, IoThread PROVE SafetyInv'
  OBVIOUS
<1>0. IInv /\ TypeOK /\ ListeningArmed /\ \A j \in Ids : Safe(j)
  BY DEF SafetyInv, IInv
<1>1. IInv'
  BY <1>0, IoThreadStep
<1>2. CASE IoLoop \/ IoWakes
  <2>1. UNCHANGED <<acceptors, acc, connections, conn, ops, toClient, cl>>
    BY <1>2 DEF IoLoop, IoWakes, IoHandles, tables, world
  <2> QED
    BY <1>0, <1>1, <2>1, UntouchedSafe DEF SafetyInv, ListeningArmed
<1>3. ASSUME NEW p \in Ports, HandleAccept(p) PROVE SafetyInv'
  BY <1>0, <1>1, <1>3, HandleAcceptArmed, HandleAcceptSafe DEF SafetyInv
<1>4. ASSUME NEW id \in Ids, HandleRead(id) PROVE SafetyInv'
  <2>1. UNCHANGED <<acceptors, acc>>
    BY <1>4 DEF HandleRead
  <2> QED
    BY <1>0, <1>1, <1>4, <2>1, HandleReadSafe DEF SafetyInv, ListeningArmed
<1>5. ASSUME NEW id \in Ids, HandleWrite(id) PROVE SafetyInv'
  <2>1. UNCHANGED <<acceptors, acc>>
    BY <1>5 DEF HandleWrite
  <2> QED
    BY <1>0, <1>1, <1>5, <2>1, HandleWriteSafe DEF SafetyInv, ListeningArmed
<1>6. ASSUME NEW id \in Ids, HandleConnect(id) PROVE SafetyInv'
  <2>1. UNCHANGED <<acceptors, acc>>
    BY <1>6 DEF HandleConnect
  <2> QED
    BY <1>0, <1>1, <1>6, <2>1, HandleConnectSafe DEF SafetyInv, ListeningArmed
<1> QED
  BY <1>2, <1>3, <1>4, <1>5, <1>6 DEF IoThread

LEMMA SafeEnvironment == SafetyInv /\ Environment => SafetyInv'
<1> SUFFICES ASSUME SafetyInv, Environment PROVE SafetyInv'
  OBVIOUS
<1>0. IInv /\ TypeOK /\ ListeningArmed /\ \A j \in Ids : Safe(j)
  BY DEF SafetyInv, IInv
<1>1. IInv'
  BY <1>0, EnvironmentStep
<1>2. ASSUME NEW p \in Ports, PeerConnects(p) PROVE SafetyInv'
  <2>1. UNCHANGED <<connections, conn, ops, toClient, cl>>
    BY <1>2 DEF PeerConnects
  <2> QED
    BY <1>0, <1>1, <1>2, <2>1, PeerConnectsArmed, UntouchedSafe DEF SafetyInv
<1>3. ASSUME NEW p \in Ports, KernelFailsAccept(p) PROVE SafetyInv'
  <2>1. UNCHANGED <<connections, conn, ops, toClient, cl>> /\ IoFailures
    BY <1>3 DEF KernelFailsAccept, KernelMoves
  <2>2. ListeningArmed'
    BY <2>1 DEF ListeningArmed
  <2> QED
    BY <1>0, <1>1, <2>1, <2>2, UntouchedSafe DEF SafetyInv
<1>4. ASSUME NEW id \in Ids, NEW bytes \in 0 .. BUFFER_SIZE, KernelReads(id, bytes)
      PROVE  SafetyInv'
  <2>1. UNCHANGED <<acceptors, acc>>
    BY <1>4 DEF KernelReads, KernelMoves
  <2> QED
    BY <1>0, <1>1, <1>4, <2>1, KernelReadsSafe DEF SafetyInv, ListeningArmed
<1>5. ASSUME NEW id \in Ids, NEW bytes \in 1 .. BUFFER_SIZE, KernelWrites(id, bytes)
      PROVE  SafetyInv'
  <2>1. UNCHANGED <<acceptors, acc>>
    BY <1>5 DEF KernelWrites, KernelMoves
  <2> QED
    BY <1>0, <1>1, <1>5, <2>1, KernelWritesSafe DEF SafetyInv, ListeningArmed
<1>6. ASSUME NEW id \in Ids, KernelConnects(id) PROVE SafetyInv'
  <2>1. UNCHANGED <<acceptors, acc>>
    BY <1>6 DEF KernelConnects, KernelMoves
  <2> QED
    BY <1>0, <1>1, <1>6, <2>1, KernelConnectsSafe DEF SafetyInv, ListeningArmed
<1>7. ASSUME NEW id \in Ids, KernelFails(id) PROVE SafetyInv'
  <2>1. UNCHANGED <<acceptors, acc>>
    BY <1>7 DEF KernelFails, KernelMoves
  <2> QED
    BY <1>0, <1>1, <1>7, <2>1, KernelFailsSafe DEF SafetyInv, ListeningArmed
<1>8. ASSUME NEW id \in Ids, ClientReceives(id) PROVE SafetyInv'
  <2>1. UNCHANGED <<acceptors, acc>>
    BY <1>8 DEF ClientReceives
  <2> QED
    BY <1>0, <1>1, <1>8, <2>1, ClientReceivesSafe DEF SafetyInv, ListeningArmed
<1> QED
  BY <1>2, <1>3, <1>4, <1>5, <1>6, <1>7, <1>8 DEF Environment

LEMMA SafetyInvariant == Spec => []SafetyInv
<1>1. SafetyInv /\ UNCHANGED vars => SafetyInv'
  <2> SUFFICES ASSUME SafetyInv, UNCHANGED vars PROVE SafetyInv'
    OBVIOUS
  <2>1. UNCHANGED <<acceptors, acc, connections, conn, ops, toClient, cl>>
    BY DEF vars, tables, world
  <2> QED
    BY <2>1, StutterStep, UntouchedSafe DEF SafetyInv, ListeningArmed
<1>2. SafetyInv /\ [Next]_vars => SafetyInv'
  BY <1>1, SafeMainThread, SafeIoThread, SafeEnvironment DEF Next
<1> QED
  BY SafeInit, <1>2, PTL DEF Spec

------------------------------------------------------------------------------
(***************************************************************************)
(* The messages of one step.                                               *)
(***************************************************************************)
\* One message is sent: it is the last, and the queues of the others stay.
LEMMA SentLast ==
    ASSUME TypeOK, NEW id \in Ids, NEW m \in Messages, Send(id, m), m.type # "DATA",
           NEW j \in Ids, Len(toClient'[j]) > Len(toClient[j])
    PROVE  toClient'[j][Len(toClient'[j])].type # "DATA"
<1>1. CASE j = id
  <2>1. toClient[id] \in Seq(Messages) /\ toClient'[id] = Append(toClient[id], m)
    BY DEF TypeOK, Send
  <2>2. toClient'[id][Len(toClient'[id])] = m
    BY <2>1, AppendProperties, LenProperties
  <2> QED
    BY <1>1, <2>2
<1>2. CASE j # id
  <2>1. toClient'[j] = toClient[j] /\ Len(toClient[j]) \in Nat
    BY <1>2, LenProperties DEF TypeOK, Send
  <2> QED
    BY <2>1
<1> QED
  BY <1>1, <1>2

LEMMA QuietStep ==
    ASSUME TypeOK, \A j \in Ids : Safe(j), [Next]_vars,
           NEW j \in Ids, cl[j].state = "left", Len(toClient'[j]) > Len(toClient[j])
    PROVE  toClient'[j][Len(toClient'[j])].type # "DATA"
<1>0. toClient'[j] # toClient[j]
  <2>1. Len(toClient[j]) \in Nat
    BY LenProperties DEF TypeOK
  <2> QED
    BY <2>1
<1>1. ASSUME NEW p \in Ports, HandleAccept(p)
      PROVE  toClient'[j][Len(toClient'[j])].type # "DATA"
  <2>1. seq < MaxAccepted /\ Send(seq + 1, Message("ACCEPTED", WINDOW_SIZE \div 2))
    BY <1>0, <1>1 DEF HandleAccept, Send
  <2>2. seq + 1 \in Ids
    BY <2>1, BoundsAssumption DEF TypeOK, Ids, AcceptIds
  <2> DEFINE m == Message("ACCEPTED", WINDOW_SIZE \div 2)
  <2>3. m \in Messages /\ m.type # "DATA"
    BY HalfWindow, MessageTyped
  <2> HIDE DEF m
  <2> QED
    BY <2>1, <2>2, <2>3, SentLast DEF m
<1>2. ASSUME NEW id \in Ids, HandleRead(id)
      PROVE  toClient'[j][Len(toClient'[j])].type # "DATA"
  <2>1. CASE Send(id, Message("CLOSE", 0))
    <3> DEFINE m == Message("CLOSE", 0)
    <3>1. m \in Messages /\ m.type # "DATA"
      BY MessageTyped
    <3> HIDE DEF m
    <3> QED
      BY <2>1, <3>1, SentLast DEF m
  <2>2. ASSUME NEW bytes, Send(id, Message("DATA", bytes)),
               id \in connections, ~conn[id].closing
        PROVE  FALSE
    <3>1. id # j
      BY <2>2 DEF Safe, Leaving
    <3> QED
      BY <1>0, <2>2, <3>1 DEF Send, TypeOK
  <2> QED
    BY <1>0, <1>2, <2>1, <2>2 DEF HandleRead, PeerClosed
<1>3. ASSUME NEW id \in Ids, HandleWrite(id)
      PROVE  toClient'[j][Len(toClient'[j])].type # "DATA"
  <2>1. PICK n \in Nat : Send(id, Message("ACK", n))
    <3>1. ops[id].sent \in Seq(Nat) /\ ops[id].sent # <<>> /\ conn[id].data_received \in Nat
      BY <1>3, ConnTyped DEF HandleWrite, OpsType, ConnectionType
    <3> DEFINE n == conn[id].data_received + Head(ops[id].sent)
    <3>2. n \in Nat
      BY <3>1
    <3>3. Send(id, Message("ACK", n))
      BY <1>0, <1>3 DEF HandleWrite, SendAckIfDue
    <3> QED
      BY <3>2, <3>3
  <2> DEFINE m == Message("ACK", n)
  <2>2. m \in Messages /\ m.type # "DATA"
    BY MessageTyped
  <2> HIDE DEF m
  <2> QED
    BY <2>1, <2>2, SentLast DEF m
<1>4. ASSUME NEW id \in Ids, HandleConnect(id)
      PROVE  toClient'[j][Len(toClient'[j])].type # "DATA"
  <2> DEFINE m == Message("ACK", WINDOW_SIZE \div 2)
  <2>1. Send(id, m)
    BY <1>0, <1>4 DEF HandleConnect
  <2>2. m \in Messages /\ m.type # "DATA"
    BY HalfWindow, MessageTyped
  <2> HIDE DEF m
  <2> QED
    BY <2>1, <2>2, SentLast
<1>5. ASSUME NEW id \in Ids, ClientReceives(id) PROVE FALSE
  <2>1. CASE j = id
    <3>1. toClient[id] \in Seq(Messages) /\ toClient[id] # <<>>
          /\ toClient'[id] = Tail(toClient[id])
      BY <1>5 DEF ClientReceives, TypeOK
    <3>2. Len(toClient'[id]) = Len(toClient[id]) - 1 /\ Len(toClient[id]) \in Nat
      BY <3>1, HeadTailProperties, LenProperties
    <3> QED
      BY <2>1, <3>2
  <2>2. CASE j # id
    BY <1>0, <1>5, <2>2 DEF ClientReceives, TypeOK
  <2> QED
    BY <2>1, <2>2
<1>6. CASE MainThread
  BY <1>0, <1>6 DEF MainThread, ListenTo, ShutdownPort, ShutdownAll, ConnectRemote, FirstAck,
     ClientAck, AckData, StartClosing, SendData, DtorClears, DtorWakesThread, DtorReturns,
     tables
<1>7. CASE IoLoop \/ IoWakes
  BY <1>0, <1>7 DEF IoLoop, IoWakes, tables
<1>8. ASSUME NEW p \in Ports, PeerConnects(p) \/ KernelFailsAccept(p) PROVE FALSE
  BY <1>0, <1>8 DEF PeerConnects, KernelFailsAccept, KernelMoves
<1>9. ASSUME NEW id \in Ids, NEW bytes, KernelReads(id, bytes) \/ KernelWrites(id, bytes)
      PROVE  FALSE
  BY <1>0, <1>9 DEF KernelReads, KernelWrites, KernelMoves
<1>10. ASSUME NEW id \in Ids, KernelConnects(id) \/ KernelFails(id) PROVE FALSE
  BY <1>0, <1>10 DEF KernelConnects, KernelFails, KernelMoves
<1>11. CASE UNCHANGED vars
  BY <1>0, <1>11 DEF vars, tables
<1> QED
  BY <1>1, <1>2, <1>3, <1>4, <1>5, <1>6, <1>7, <1>8, <1>9, <1>10, <1>11
  DEF Next, IoThread, Environment

------------------------------------------------------------------------------
(***************************************************************************)
(* The theorems.                                                           *)
(***************************************************************************)
\* Without failed operations a connection reads exactly while its window is
\* open: neither handle_read, handle_connect nor ack_data forgets to post the
\* next read, whatever order they come in.
THEOREM ReadingNeverStalls == Spec => []ReadArmed
<1>1. SafetyInv => ReadArmed
  BY DEF SafetyInv, IInv, TypeOK, Safe, Armed, ReadArmed
<1> QED
  BY <1>1, SafetyInvariant, PTL

\* One write at a time, none without data, and without failed operations one
\* whenever there is data (send_data, handle_write).
THEOREM WritingNeverStalls == Spec => []OneWrite
<1>1. SafetyInv => OneWrite
  BY DEF SafetyInv, IInv, TypeOK, ConnInv, WritePart, Safe, Armed, OneWrite
<1> QED
  BY <1>1, SafetyInvariant, PTL

\* Without failed operations every port in the table accepts, however often it
\* is shut down and listened to again.
THEOREM AcceptingNeverStalls == Spec => []ListeningArmed
BY SafetyInvariant, PTL DEF SafetyInv

\* The agent's CLOSE is the last message about a connection, and the agent has
\* forgotten the connection then.
THEOREM CloseIsTheLastWord == Spec => []CloseIsFinal
<1>1. SafetyInv => CloseIsFinal
  BY DEF SafetyInv, Safe, Final, CloseIsFinal
<1> QED
  BY <1>1, SafetyInvariant, PTL

\* After the client's CLOSE no data of the peer is sent to it, although a read
\* may be outstanding and the writes are still being drained.
THEOREM NothingAfterClientsClose == Spec => QuietAfterClose
<1> DEFINE Quiet == \A id \in Ids :
          cl[id].state = "left" /\ Len(toClient'[id]) > Len(toClient[id])
              => toClient'[id][Len(toClient'[id])].type # "DATA"
<1>1. SafetyInv /\ [Next]_vars => Quiet
  BY QuietStep DEF SafetyInv, IInv
<1>2. SafetyInv /\ [Next]_vars => [Quiet]_vars
  BY <1>1
<1> QED
  BY <1>2, SafetyInvariant, PTL DEF Spec, QuietAfterClose

------------------------------------------------------------------------------
(***************************************************************************)
(* Sums.  Total is defined by a recursive function, so its first facts are *)
(* proved by induction: over a set of numbers, because the provers take no *)
(* operator for a parameter.                                               *)
(***************************************************************************)
\* Induction over the natural numbers, for a set instead of a formula.
LEMMA Induction ==
    ASSUME NEW T, 0 \in T, \A n \in Nat : n \in T => n + 1 \in T
    PROVE  Nat \subseteq T
<1> DEFINE R == OpToRel(<, Nat)
           B == Nat \ T
<1>1. R = {ss \in Nat \X Nat : ss[1] < ss[2]}
  BY DEF OpToRel
<1>2. IsWellFoundedOn(R, Nat)
  BY NatLessThanWellFounded, Zenon
<1> HIDE DEF R
<1>3. SUFFICES ASSUME B # {} PROVE FALSE
  OBVIOUS
<1>4. \E x \in B : \A y \in B : ~(<<y, x>> \in R)
  BY <1>2, <1>3, WFMin
<1>5. PICK m \in B : \A y \in B : ~(<<y, m>> \in R)
  BY <1>4
<1>6. m \in Nat /\ m # 0 /\ m - 1 \in Nat /\ m - 1 \in B
  OBVIOUS
<1>7. <<m - 1, m>> \in R
  BY <1>1, <1>6
<1> QED
  BY <1>5, <1>6, <1>7

\* The partial sums of a sequence of numbers.
PartialSums(f, s) ==
    /\ f[0] = 0
    /\ \A i \in 1 .. Len(s) : f[i] = f[i - 1] + s[i]

LEMMA SumsExist ==
    ASSUME NEW S \in SUBSET Int, 0 \in S, \A a, b \in S : a + b \in S, NEW s \in Seq(S)
    PROVE  \E f \in [0 .. Len(s) -> S] : PartialSums(f, s)
<1> DEFINE N == Len(s)
           T == {n \in Nat : n <= N =>
                    \E f \in [0 .. n -> S] :
                        f[0] = 0 /\ \A i \in 1 .. n : f[i] = f[i - 1] + s[i]}
<1>1. N \in Nat /\ \A i \in 1 .. N : s[i] \in S
  OBVIOUS
<1>2. 0 \in T
  <2> DEFINE f == [i \in 0 .. 0 |-> 0]
  <2>1. f \in [0 .. 0 -> S] /\ f[0] = 0
    OBVIOUS
  <2> HIDE DEF f
  <2>2. \A i \in 1 .. 0 : f[i] = f[i - 1] + s[i]
    OBVIOUS
  <2> QED
    BY <2>1, <2>2
<1>3. ASSUME NEW n \in Nat, n \in T PROVE n + 1 \in T
  <2>1. SUFFICES ASSUME n + 1 <= N
                 PROVE  \E g \in [0 .. n + 1 -> S] :
                            g[0] = 0 /\ \A i \in 1 .. n + 1 : g[i] = g[i - 1] + s[i]
    OBVIOUS
  <2>2. PICK f \in [0 .. n -> S] : f[0] = 0 /\ \A i \in 1 .. n : f[i] = f[i - 1] + s[i]
    BY <1>1, <1>3, <2>1
  <2> DEFINE g == [i \in 0 .. n + 1 |-> IF i = n + 1 THEN f[n] + s[n + 1] ELSE f[i]]
  <2>3. \A i \in 0 .. n : f[i] \in S
    BY <2>2
  <2>4. f[n] + s[n + 1] \in S
    <3>1. f[n] \in S /\ s[n + 1] \in S
      BY <1>1, <2>1, <2>3
    <3> QED
      BY <3>1
  <2>5. g \in [0 .. n + 1 -> S]
    BY <2>3, <2>4
  <2>6. g[0] = 0 /\ g[n + 1] = g[n] + s[n + 1] /\ \A i \in 0 .. n : g[i] = f[i]
    BY <2>2
  <2>7. \A i \in 1 .. n + 1 : g[i] = g[i - 1] + s[i]
    <3> HIDE DEF g
    <3> QED
      BY <2>2, <2>6
  <2> QED
    BY <2>5, <2>6, <2>7
<1> HIDE DEF T
<1>4. Nat \subseteq T
  BY <1>2, <1>3, Induction
<1>5. N \in T
  BY <1>1, <1>4
<1> QED
  BY <1>1, <1>5 DEF T, PartialSums

\* They are determined, so Total is the last of them.
LEMMA TotalIs ==
    ASSUME NEW s \in Seq(Int), NEW f \in [0 .. Len(s) -> Int], PartialSums(f, s)
    PROVE  Total(s) = f[Len(s)]
<1> DEFINE N == Len(s)
           G(h) == [i \in 0 .. N |-> IF i = 0 THEN 0 ELSE h[i - 1] + s[i]]
           h == CHOOSE x : x = G(x)
<1>1. N \in Nat
  OBVIOUS
<1>2. f = G(f)
  BY DEF PartialSums
<1>3. h = G(h)
  BY <1>2
<1> DEFINE T == {n \in Nat : n <= N => h[n] = f[n]}
<1> HIDE DEF h
<1>4. h[0] = 0 /\ \A i \in 1 .. N : h[i] = h[i - 1] + s[i]
  <2>1. \A i \in 0 .. N : h[i] = IF i = 0 THEN 0 ELSE h[i - 1] + s[i]
    BY <1>3
  <2> HIDE DEF N
  <2> QED
    BY <1>1, <2>1
<1>5. 0 \in T
  BY <1>4 DEF PartialSums
<1>6. ASSUME NEW n \in Nat, n \in T PROVE n + 1 \in T
  BY <1>1, <1>4, <1>6 DEF PartialSums
<1> HIDE DEF T
<1>7. Nat \subseteq T
  BY <1>5, <1>6, Induction
<1>8. h[N] = f[N]
  BY <1>1, <1>7 DEF T
<1> QED
  BY <1>8 DEF Total, h

LEMMA SumsOf ==
    ASSUME NEW s \in Seq(Int)
    PROVE  \E f \in [0 .. Len(s) -> Int] : PartialSums(f, s) /\ Total(s) = f[Len(s)]
<1>1. \E f \in [0 .. Len(s) -> Int] : PartialSums(f, s)
  BY SumsExist
<1> QED
  BY <1>1, TotalIs

LEMMA TotalInt ==
    ASSUME NEW s \in Seq(Int)
    PROVE  Total(s) \in Int
<1>1. PICK f \in [0 .. Len(s) -> Int] : Total(s) = f[Len(s)]
  BY SumsOf
<1>2. Len(s) \in 0 .. Len(s)
  OBVIOUS
<1> QED
  BY <1>1, <1>2

LEMMA TotalNat ==
    ASSUME NEW s \in Seq(Nat)
    PROVE  Total(s) \in Nat
<1>1. PICK f \in [0 .. Len(s) -> Nat] : PartialSums(f, s)
  BY SumsExist
<1>2. s \in Seq(Int) /\ f \in [0 .. Len(s) -> Int] /\ Len(s) \in 0 .. Len(s)
  BY <1>1
<1>3. Total(s) = f[Len(s)]
  BY <1>1, <1>2, TotalIs
<1> QED
  BY <1>2, <1>3

LEMMA TotalEmpty == Total(<<>>) = 0
<1>1. <<>> \in Seq(Int)
  BY EmptySeq
<1>2. PICK f \in [0 .. 0 -> Int] : PartialSums(f, <<>>) /\ Total(<<>>) = f[0]
  BY <1>1, SumsOf
<1> QED
  BY <1>2 DEF PartialSums

LEMMA TotalAppend ==
    ASSUME NEW s \in Seq(Int), NEW x \in Int
    PROVE  Total(Append(s, x)) = Total(s) + x
<1> DEFINE n == Len(s)
           t == Append(s, x)
<1>1. PICK f \in [0 .. n -> Int] : PartialSums(f, s) /\ Total(s) = f[n]
  BY SumsOf
<1>2. n \in Nat /\ t \in Seq(Int) /\ Len(t) = n + 1 /\ t[n + 1] = x
      /\ \A i \in 1 .. n : t[i] = s[i]
  BY AppendProperties
<1>3. f[0] = 0 /\ \A i \in 1 .. n : f[i] = f[i - 1] + s[i]
  BY <1>1 DEF PartialSums
<1>4. \A i \in 0 .. n : f[i] \in Int
  BY <1>1
<1> HIDE DEF n, t
<1> DEFINE g == [i \in 0 .. n + 1 |-> IF i = n + 1 THEN f[n] + x ELSE f[i]]
<1>5. g \in [0 .. n + 1 -> Int]
  BY <1>2, <1>4
<1>6. g[0] = 0 /\ g[n + 1] = f[n] + x /\ \A i \in 0 .. n : g[i] = f[i]
  BY <1>2, <1>3
<1> HIDE DEF g
<1>7. ASSUME NEW i \in 1 .. n + 1 PROVE g[i] = g[i - 1] + t[i]
  <2>1. CASE i = n + 1
    <3>1. n \in 0 .. n /\ i - 1 = n
      BY <1>2, <2>1
    <3> QED
      BY <1>2, <1>6, <2>1, <3>1
  <2>2. CASE i # n + 1
    <3>1. i \in 1 .. n /\ i \in 0 .. n /\ i - 1 \in 0 .. n
      BY <1>2, <2>2
    <3> QED
      BY <1>2, <1>3, <1>6, <3>1
  <2> QED
    BY <2>1, <2>2
<1>8. Total(t) = g[Len(t)]
  BY <1>2, <1>5, <1>6, <1>7, TotalIs DEF PartialSums
<1> QED
  BY <1>1, <1>2, <1>6, <1>8 DEF t

LEMMA TotalTail ==
    ASSUME NEW s \in Seq(Int), s # <<>>
    PROVE  Total(s) = Head(s) + Total(Tail(s))
<1> DEFINE n == Len(s) - 1
           t == Tail(s)
<1>1. PICK f \in [0 .. Len(s) -> Int] : PartialSums(f, s) /\ Total(s) = f[Len(s)]
  BY SumsOf
<1>2. n \in Nat /\ t \in Seq(Int) /\ Len(t) = n /\ Len(s) = n + 1 /\ Head(s) = s[1]
      /\ s[1] \in Int /\ \A i \in 1 .. n : t[i] = s[i + 1]
  BY HeadTailProperties, EmptySeq
<1> HIDE DEF n, t
<1>3. f[0] = 0 /\ \A i \in 1 .. n + 1 : f[i] = f[i - 1] + s[i]
  BY <1>1, <1>2 DEF PartialSums
<1>4. \A i \in 0 .. n + 1 : f[i] \in Int
  BY <1>1, <1>2
<1> DEFINE g == [i \in 0 .. n |-> f[i + 1] - s[1]]
<1>5. g \in [0 .. n -> Int]
  BY <1>2, <1>4
<1>6. \A i \in 0 .. n : g[i] = f[i + 1] - s[1]
  OBVIOUS
<1> HIDE DEF g
<1>7. g[0] = 0
  <2>1. 0 \in 0 .. n /\ 1 \in 1 .. n + 1
    BY <1>2
  <2>2. g[0] = f[1] - s[1] /\ f[1] = f[0] + s[1]
    BY <1>3, <1>6, <2>1
  <2> QED
    BY <1>2, <1>3, <2>2
<1>8. ASSUME NEW i \in 1 .. n PROVE g[i] = g[i - 1] + t[i]
  <2>1. i \in 0 .. n /\ i - 1 \in 0 .. n /\ i + 1 \in 1 .. n + 1 /\ i \in 0 .. n + 1
        /\ (i - 1) + 1 = i /\ (i + 1) - 1 = i
    BY <1>2
  <2>2. g[i] = f[i + 1] - s[1] /\ g[i - 1] = f[i] - s[1]
    BY <1>6, <2>1
  <2>3. f[i + 1] = f[i] + s[i + 1] /\ f[i] \in Int
    BY <1>3, <1>4, <2>1
  <2>4. t[i] = s[i + 1] /\ s[i + 1] \in Int /\ s[1] \in Int
    BY <1>2, <2>1
  <2> DEFINE a == f[i]
             b == s[i + 1]
             first == s[1]
  <2>5. /\ a \in Int /\ b \in Int /\ first \in Int
        /\ g[i] = (a + b) - first /\ g[i - 1] = a - first /\ t[i] = b
    BY <2>2, <2>3, <2>4
  <2> HIDE DEF a, b, first
  <2> QED
    BY <2>5
<1>9. Total(t) = g[Len(t)]
  BY <1>2, <1>5, <1>7, <1>8, TotalIs DEF PartialSums
<1>10. Total(t) = f[n + 1] - s[1] /\ f[n + 1] \in Int
  BY <1>2, <1>4, <1>6, <1>9
<1> QED
  BY <1>1, <1>2, <1>10 DEF t


\* What a message counts for in the sum of one type.
Weight(m, type) == IF m.type = type THEN m.size ELSE 0

LEMMA SizesSent ==
    ASSUME NEW q \in Seq(Messages), NEW m \in Messages, NEW type
    PROVE  /\ Total(Sizes(q, type)) \in Nat
           /\ Total(Sizes(Append(q, m), type)) = Total(Sizes(q, type)) + Weight(m, type)
<1> DEFINE s == Sizes(q, type)
<1>1. Len(q) \in Nat /\ \A i \in 1 .. Len(q) : q[i] \in Messages
  OBVIOUS
<1>2. s \in Seq(Nat) /\ Len(s) = Len(q) /\ Weight(m, type) \in Nat
  <2>1. \A i \in 1 .. Len(q) : (IF q[i].type = type THEN q[i].size ELSE 0) \in Nat
    BY <1>1 DEF Messages
  <2> QED
    BY <1>1, <2>1, SeqDef, LenProperties DEF Sizes, Weight, Messages
<1>3. Sizes(Append(q, m), type) = Append(s, Weight(m, type))
  BY <1>1, <1>2, AppendProperties DEF Sizes, Weight
<1>4. s \in Seq(Int) /\ Weight(m, type) \in Int
  BY <1>2
<1> QED
  BY <1>2, <1>3, <1>4, TotalNat, TotalAppend

LEMMA SizesTaken ==
    ASSUME NEW q \in Seq(Messages), q # <<>>, NEW type
    PROVE  Total(Sizes(q, type)) = Weight(Head(q), type) + Total(Sizes(Tail(q), type))
<1> DEFINE s == Sizes(q, type)
<1>1. Len(q) \in Nat /\ \A i \in 1 .. Len(q) : q[i] \in Messages
  OBVIOUS
<1>2. /\ Len(q) # 0 /\ Head(q) = q[1] /\ Tail(q) \in Seq(Messages)
      /\ Len(Tail(q)) = Len(q) - 1 /\ \A i \in 1 .. Len(q) - 1 : Tail(q)[i] = q[i + 1]
  BY HeadTailProperties, EmptySeq
<1>3. s \in Seq(Nat) /\ Len(s) = Len(q)
  <2>1. \A i \in 1 .. Len(q) : (IF q[i].type = type THEN q[i].size ELSE 0) \in Nat
    BY <1>1 DEF Messages
  <2> QED
    BY <1>1, <2>1, SeqDef, LenProperties DEF Sizes
<1>4. s # <<>> /\ s \in Seq(Int)
  BY <1>2, <1>3
<1>5. /\ Head(s) = s[1] /\ Tail(s) \in Seq(Int) /\ Len(Tail(s)) = Len(s) - 1
      /\ \A i \in 1 .. Len(s) - 1 : Tail(s)[i] = s[i + 1]
  BY <1>4, HeadTailProperties
<1>6. Head(s) = Weight(Head(q), type)
  BY <1>1, <1>2, <1>5 DEF Sizes, Weight
<1>7. Tail(s) = Sizes(Tail(q), type)
  BY <1>1, <1>2, <1>3, <1>5, SeqEqual DEF Sizes
<1> QED
  BY <1>4, <1>6, <1>7, TotalTail

LEMMA LeftTyped ==
    ASSUME NEW wb \in Seq(Buffers)
    PROVE  Left(wb) \in Seq(Int) /\ Len(Left(wb)) = Len(wb)
<1>1. ASSUME NEW i \in 1 .. Len(wb) PROVE wb[i].size - wb[i].pos \in Int
  <2>1. wb[i] \in Buffers
    OBVIOUS
  <2> QED
    BY <2>1 DEF Buffers
<1> QED
  BY <1>1, SeqDef, LenProperties DEF Left

LEMMA LeftQueued ==
    ASSUME NEW wb \in Seq(Buffers), NEW b \in Buffers
    PROVE  Total(Left(Append(wb, b))) = Total(Left(wb)) + b.size - b.pos
<1>1. Left(Append(wb, b)) = Append(Left(wb), b.size - b.pos)
  BY LeftTyped, AppendProperties DEF Left
<1>2. b.size - b.pos \in Int /\ b.size \in Int /\ b.pos \in Int
  BY DEF Buffers
<1> QED
  BY <1>1, <1>2, LeftTyped, TotalAppend


LEMMA LeftTaken ==
    ASSUME NEW wb \in Seq(Buffers), wb # <<>>
    PROVE  Total(Left(wb)) = (Head(wb).size - Head(wb).pos) + Total(Left(Tail(wb)))
<1> DEFINE s == Left(wb)
<1>1. /\ Len(wb) \in Nat /\ Len(wb) # 0 /\ Head(wb) = wb[1] /\ Tail(wb) \in Seq(Buffers)
      /\ Len(Tail(wb)) = Len(wb) - 1 /\ \A i \in 1 .. Len(wb) - 1 : Tail(wb)[i] = wb[i + 1]
  BY HeadTailProperties, EmptySeq
<1>2. s \in Seq(Int) /\ Len(s) = Len(wb) /\ s # <<>>
  BY <1>1, LeftTyped
<1>3. /\ Head(s) = s[1] /\ Tail(s) \in Seq(Int) /\ Len(Tail(s)) = Len(s) - 1
      /\ \A i \in 1 .. Len(s) - 1 : Tail(s)[i] = s[i + 1]
  BY <1>2, HeadTailProperties
<1>4. Head(s) = Head(wb).size - Head(wb).pos
  BY <1>1, <1>3 DEF Left
<1>5. Left(Tail(wb)) \in Seq(Int) /\ Len(Left(Tail(wb))) = Len(wb) - 1
  BY <1>1, LeftTyped
<1>6. \A i \in 1 .. Len(wb) - 1 : Left(Tail(wb))[i] = Tail(s)[i]
  BY <1>1, <1>2, <1>3 DEF Left
<1>7. Tail(s) = Left(Tail(wb))
  BY <1>2, <1>3, <1>5, <1>6, SeqEqual
<1> QED
  BY <1>2, <1>4, <1>7, TotalTail

\* What handle_write takes from the front is what the peer got.
LEMMA LeftAdvanced ==
    ASSUME NEW wb \in Seq(Buffers), wb # <<>>, NEW bytes \in Nat
    PROVE  /\ Advance(wb, bytes) \in Seq(Buffers)
           /\ Total(Left(Advance(wb, bytes))) = Total(Left(wb)) - bytes
<1> DEFINE front == [Head(wb) EXCEPT !.pos = @ + bytes]
           rest == Tail(wb)
           one == <<front>> \o rest
<1>1. Head(wb) \in Buffers /\ rest \in Seq(Buffers)
  BY HeadTailProperties, EmptySeq
<1>2. /\ Head(wb).size \in Nat /\ Head(wb).pos \in Nat /\ front \in Buffers
      /\ front.size = Head(wb).size /\ front.pos = Head(wb).pos + bytes
  <2>1. Head(wb).size \in Nat /\ Head(wb).pos \in Nat
    BY <1>1 DEF Buffers
  <2> QED
    BY <1>1, <2>1, FrontFields
<1>3. Total(Left(rest)) \in Int
  BY <1>1, LeftTyped, TotalInt
<1>4. Total(Left(wb)) = (Head(wb).size - Head(wb).pos) + Total(Left(rest))
  BY LeftTaken
<1> HIDE DEF front
<1>5. CASE front.pos = front.size
  <2>1. Advance(wb, bytes) = rest
    BY <1>5 DEF Advance, front
  <2> QED
    BY <1>1, <1>2, <1>3, <1>4, <1>5, <2>1
<1>6. CASE front.pos # front.size
  <2>1. Advance(wb, bytes) = one
    BY <1>6 DEF Advance, front
  <2>2. one \in Seq(Buffers) /\ one # <<>> /\ Head(one) = front /\ Tail(one) = rest
    BY <1>1, <1>2
  <2>3. Total(Left(one)) = (front.size - front.pos) + Total(Left(rest))
    <3> HIDE DEF one
    <3> QED
      BY <2>2, LeftTaken
  <2> QED
    BY <1>2, <1>3, <1>4, <2>1, <2>2, <2>3
<1> QED
  BY <1>5, <1>6


------------------------------------------------------------------------------
(***************************************************************************)
(* What one connection c, the client's end k of it and the messages q on   *)
(* their way to the client owe each other.  Before the connection is open  *)
(* on both sides nothing has been counted, and the first ACK of a          *)
(* connection the client asked for comes before everything else.           *)
(***************************************************************************)
OnTheWay(q, type) == Total(Sizes(q, type))

NewClient(k) ==
    k.state \in {"none", "connecting", "accepted"} =>
        k.sent = 0 /\ k.acked = 0 /\ k.toAck = 0

Balanced(c, k, q) ==
    /\ c.data_sent = OnTheWay(q, "DATA") + k.toAck
    /\ k.state # "open" => c.data_received = 0 /\ c.write_buffer = <<>>
    /\ k.state \in {"none", "accepted"} =>
          ~c.acked /\ OnTheWay(q, "DATA") = 0 /\ OnTheWay(q, "ACK") = 0
    /\ k.state = "connecting" =>
          /\ c.acked <=> q # <<>>
          /\ q # <<>> => Head(q).type = "ACK" /\ OnTheWay(q, "ACK") = Head(q).size
    /\ k.state = "open" =>
          /\ c.acked
          /\ k.sent - k.acked =
                OnTheWay(q, "ACK") + c.data_received + Total(Left(c.write_buffer))

Kept(id) ==
    /\ NewClient(cl[id])
    /\ id \in connections /\ cl[id].state \notin {"left", "closed"} =>
          Balanced(conn[id], cl[id], toClient[id])

LEMMA OnTheWayNat ==
    ASSUME NEW q \in Seq(Messages)
    PROVE  OnTheWay(q, "DATA") \in Nat /\ OnTheWay(q, "ACK") \in Nat
<1>1. Message("ACK", 0) \in Messages
  BY MessageTyped
<1> QED
  BY <1>1, SizesSent DEF OnTheWay

LEMMA OnTheWayEmpty == OnTheWay(<<>>, "DATA") = 0 /\ OnTheWay(<<>>, "ACK") = 0
<1>1. \A t : Sizes(<<>>, t) = <<>>
  BY DEF Sizes
<1> QED
  BY <1>1, TotalEmpty DEF OnTheWay

LEMMA UnwrittenInt ==
    ASSUME NEW c \in ConnectionType
    PROVE  c.write_buffer \in Seq(Buffers) /\ Total(Left(c.write_buffer)) \in Int
<1>1. c.write_buffer \in Seq(Buffers)
  BY DEF ConnectionType
<1> QED
  BY <1>1, LeftTyped, TotalInt

LEMMA UnwrittenNone == Total(Left(<<>>)) = 0
<1>1. Left(<<>>) = <<>>
  BY DEF Left
<1> QED
  BY <1>1, TotalEmpty

LEMMA ConnFields ==
    ASSUME NEW c \in ConnectionType
    PROVE  c.data_sent \in Int /\ c.data_received \in Nat
BY DEF ConnectionType

LEMMA ClientCounts ==
    ASSUME NEW x \in ClientType
    PROVE  x.sent \in Nat /\ x.acked \in Nat /\ x.toAck \in Nat
BY DEF ClientType

\* Bytes move from one account to another.
LEMMA MoreSent ==
    ASSUME NEW s \in Nat, NEW a \in Nat, NEW way \in Nat, NEW got \in Nat,
           NEW left \in Int, NEW n \in Nat, s - a = way + got + left
    PROVE  (s + n) - a = way + got + (left + n)
OBVIOUS

LEMMA MoreAcked ==
    ASSUME NEW s \in Nat, NEW a \in Nat, NEW way \in Nat, NEW got \in Nat,
           NEW left \in Int, NEW n \in Nat, s - a = (n + way) + got + left
    PROVE  s - (a + n) = way + got + left
OBVIOUS

\* ConnectRemote, and the accept of a peer.
LEMMA BalancedNew ==
    ASSUME NEW c \in ConnectionType, NEW k \in ClientType, NewClient(k),
           c.data_sent = 0, c.data_received = 0, c.write_buffer = <<>>, ~c.acked,
           NEW q, \/ k.state = "none" /\ \E n \in Nat : q = Append(<<>>, Message("ACCEPTED", n))
                  \/ k.state = "connecting" /\ q = <<>>
    PROVE  Balanced(c, k, q)
<1>1. OnTheWay(q, "DATA") = 0 /\ OnTheWay(q, "ACK") = 0
  <2>1. CASE q = <<>>
    BY <2>1, OnTheWayEmpty
  <2>2. ASSUME NEW n \in Nat, q = Append(<<>>, Message("ACCEPTED", n))
        PROVE  OnTheWay(q, "DATA") = 0 /\ OnTheWay(q, "ACK") = 0
    <3> DEFINE m == Message("ACCEPTED", n)
    <3>1. m \in Messages /\ m.type = "ACCEPTED" /\ <<>> \in Seq(Messages)
      BY MessageTyped, EmptySeq
    <3> HIDE DEF m
    <3>2. Weight(m, "DATA") = 0 /\ Weight(m, "ACK") = 0
      BY <3>1 DEF Weight
    <3>3. q = Append(<<>>, m)
      BY <2>2 DEF m
    <3>4. \A t : OnTheWay(Append(<<>>, m), t) = OnTheWay(<<>>, t) + Weight(m, t)
      BY <3>1, SizesSent DEF OnTheWay
    <3> QED
      BY <3>2, <3>3, <3>4, OnTheWayEmpty
  <2> QED
    BY <2>1, <2>2
<1>2. k.toAck = 0
  BY DEF NewClient
<1> QED
  BY <1>1, <1>2 DEF Balanced

\* ack_data: the first ACK of the client, and the others.
LEMMA BalancedFirstAck ==
    ASSUME NEW c \in ConnectionType, NEW k \in ClientType, NEW q \in Seq(Messages),
           Balanced(c, k, q), NewClient(k), k.state = "accepted", NEW size \in Nat
    PROVE  Balanced(Acked(c, size), [k EXCEPT !.state = "open"], q)
<1> DEFINE d == Acked(c, size)
           l == [k EXCEPT !.state = "open"]
<1>1. /\ ~c.acked /\ OnTheWay(q, "DATA") = 0 /\ OnTheWay(q, "ACK") = 0
      /\ c.data_sent = OnTheWay(q, "DATA") + k.toAck
      /\ c.data_received = 0 /\ c.write_buffer = <<>>
      /\ k.sent = 0 /\ k.acked = 0 /\ k.toAck = 0
  BY DEF Balanced, NewClient
<1>2. /\ d.acked /\ d.data_sent = c.data_sent /\ d.data_received = 0
      /\ d.write_buffer = <<>>
  BY <1>1 DEF Acked, ConnectionType
<1>3. l.state = "open" /\ l.sent = 0 /\ l.acked = 0 /\ l.toAck = 0
  BY <1>1 DEF ClientType
<1> HIDE DEF d, l
<1>4. Balanced(d, l, q)
  BY <1>1, <1>2, <1>3, UnwrittenNone DEF Balanced
<1> QED
  BY <1>4 DEF d, l

LEMMA BalancedAck ==
    ASSUME NEW c \in ConnectionType, NEW k \in ClientType, NEW q \in Seq(Messages),
           Balanced(c, k, q), k.state = "open"
    PROVE  Balanced(Acked(c, k.toAck), [k EXCEPT !.toAck = 0], q)
<1> DEFINE d == Acked(c, k.toAck)
           l == [k EXCEPT !.toAck = 0]
<1>1. /\ c.acked /\ c.data_sent = OnTheWay(q, "DATA") + k.toAck
      /\ k.sent - k.acked =
            OnTheWay(q, "ACK") + c.data_received + Total(Left(c.write_buffer))
  BY DEF Balanced
<1>2. /\ d.acked /\ d.data_sent = c.data_sent - k.toAck
      /\ d.data_received = c.data_received /\ d.write_buffer = c.write_buffer
  BY <1>1 DEF Acked, ConnectionType
<1>3. l.state = "open" /\ l.sent = k.sent /\ l.acked = k.acked /\ l.toAck = 0
  BY DEF ClientType
<1> HIDE DEF d, l
<1>4. d.data_sent = OnTheWay(q, "DATA") + l.toAck
  <2>1. OnTheWay(q, "DATA") \in Nat /\ k.toAck \in Nat
    BY OnTheWayNat, ClientCounts
  <2> QED
    BY <1>1, <1>2, <1>3, <2>1
<1>5. Balanced(d, l, q)
  BY <1>1, <1>2, <1>3, <1>4 DEF Balanced
<1> QED
  BY <1>5 DEF d, l

\* send_data.
LEMMA BalancedSend ==
    ASSUME NEW c \in ConnectionType, NEW k \in ClientType, NEW q \in Seq(Messages),
           Balanced(c, k, q), k.state = "open", NEW size \in Nat, NEW b \in Buffers,
           b.size = size, b.pos = 0
    PROVE  Balanced([c EXCEPT !.write_buffer = Append(c.write_buffer, b)],
                    [k EXCEPT !.sent = @ + size], q)
<1> DEFINE wb == Append(c.write_buffer, b)
           d == [c EXCEPT !.write_buffer = wb]
           l == [k EXCEPT !.sent = @ + size]
<1>1. /\ c.acked /\ c.data_sent = OnTheWay(q, "DATA") + k.toAck
      /\ k.sent - k.acked =
            OnTheWay(q, "ACK") + c.data_received + Total(Left(c.write_buffer))
  BY DEF Balanced
<1>2. Total(Left(wb)) = Total(Left(c.write_buffer)) + size
  <2>1. Total(Left(wb)) = Total(Left(c.write_buffer)) + b.size - b.pos
    BY UnwrittenInt, LeftQueued
  <2> QED
    BY <2>1, UnwrittenInt
<1> HIDE DEF wb
<1>3. /\ d.acked = c.acked /\ d.data_sent = c.data_sent
      /\ d.data_received = c.data_received /\ d.write_buffer = wb
  BY DEF ConnectionType
<1>4. l.state = "open" /\ l.sent = k.sent + size /\ l.acked = k.acked /\ l.toAck = k.toAck
  BY DEF ClientType
<1> HIDE DEF d, l
<1>5. l.sent - l.acked = OnTheWay(q, "ACK") + d.data_received + Total(Left(wb))
  <2>1. /\ OnTheWay(q, "ACK") \in Nat /\ k.sent \in Nat /\ k.acked \in Nat
        /\ Total(Left(c.write_buffer)) \in Int /\ c.data_received \in Nat
    BY OnTheWayNat, ClientCounts, UnwrittenInt, ConnFields
  <2> DEFINE way == OnTheWay(q, "ACK")
             left == Total(Left(c.write_buffer))
             more == Total(Left(wb))
  <2>2. /\ k.sent - k.acked = way + c.data_received + left /\ more = left + size
        /\ way \in Nat /\ left \in Int
    BY <1>1, <1>2, <2>1
  <2> DEFINE s == k.sent
             a == k.acked
             got == c.data_received
  <2>3. /\ s \in Nat /\ a \in Nat /\ got \in Nat /\ way \in Nat /\ left \in Int
        /\ s - a = way + got + left
    BY <2>1, <2>2
  <2> HIDE DEF way, left, more, s, a, got
  <2>4. (s + size) - a = way + got + (left + size)
    BY <2>3, MoreSent
  <2> QED
    BY <1>3, <1>4, <2>2, <2>4 DEF way, more, s, a, got
<1>6. Balanced(d, l, q)
  BY <1>1, <1>3, <1>4, <1>5 DEF Balanced
<1> QED
  BY <1>6 DEF d, l, wb


\* One more message, of either kind.
LEMMA OnTheWaySent ==
    ASSUME NEW q \in Seq(Messages), NEW n \in Nat, NEW r
    PROVE  /\ r = Append(q, Message("DATA", n)) =>
                 /\ OnTheWay(r, "DATA") = OnTheWay(q, "DATA") + n
                 /\ OnTheWay(r, "ACK") = OnTheWay(q, "ACK")
           /\ r = Append(q, Message("ACK", n)) =>
                 /\ OnTheWay(r, "ACK") = OnTheWay(q, "ACK") + n
                 /\ OnTheWay(r, "DATA") = OnTheWay(q, "DATA")
<1>1. ASSUME NEW t \in {"DATA", "ACK"}, r = Append(q, Message(t, n))
      PROVE  /\ OnTheWay(r, t) = OnTheWay(q, t) + n
             /\ \A u \in {"DATA", "ACK"} \ {t} : OnTheWay(r, u) = OnTheWay(q, u)
  <2> DEFINE m == Message(t, n)
  <2>1. m \in Messages /\ m.type = t
    BY MessageTyped
  <2>2. m.size = n
    BY DEF Message
  <2> HIDE DEF m
  <2>3. Weight(m, t) = n /\ \A u \in {"DATA", "ACK"} \ {t} : Weight(m, u) = 0
    BY <2>1, <2>2 DEF Weight
  <2>4. \A u : OnTheWay(r, u) = OnTheWay(q, u) + Weight(m, u)
    BY <1>1, <2>1, SizesSent DEF OnTheWay, m
  <2> QED
    BY <2>3, <2>4, OnTheWayNat
<1> QED
  BY <1>1

\* handle_read: the data is counted as it is sent.
LEMMA BalancedRead ==
    ASSUME NEW c \in ConnectionType, NEW k \in ClientType, NEW q \in Seq(Messages),
           Balanced(c, k, q), c.acked, NEW n \in Nat
    PROVE  Balanced([c EXCEPT !.data_sent = @ + n], k, Append(q, Message("DATA", n)))
<1> DEFINE d == [c EXCEPT !.data_sent = @ + n]
           r == Append(q, Message("DATA", n))
<1>1. /\ d.acked = c.acked /\ d.data_sent = c.data_sent + n
      /\ d.data_received = c.data_received /\ d.write_buffer = c.write_buffer
  BY DEF ConnectionType
<1>2. /\ OnTheWay(r, "DATA") = OnTheWay(q, "DATA") + n
      /\ OnTheWay(r, "ACK") = OnTheWay(q, "ACK")
  BY OnTheWaySent
<1>3. r # <<>> /\ (q # <<>> => Head(r) = Head(q))
  <2>1. Message("DATA", n) \in Messages
    BY MessageTyped
  <2> QED
    BY <2>1, AppendProperties
<1> HIDE DEF d, r
<1>4. d.data_sent = OnTheWay(r, "DATA") + k.toAck
  <2>1. /\ c.data_sent = OnTheWay(q, "DATA") + k.toAck
        /\ OnTheWay(q, "DATA") \in Nat /\ k.toAck \in Nat
    BY OnTheWayNat, ClientCounts DEF Balanced
  <2> QED
    BY <1>1, <1>2, <2>1
<1>5. Balanced(d, k, r)
  BY <1>1, <1>2, <1>3, <1>4 DEF Balanced
<1> QED
  BY <1>5 DEF d, r

\* handle_connect: the first ACK.
LEMMA BalancedConnected ==
    ASSUME NEW c \in ConnectionType, NEW k \in ClientType, k.state = "connecting",
           NEW q \in Seq(Messages), q = <<>>, Balanced(c, k, q), NEW n \in Nat
    PROVE  Balanced([c EXCEPT !.acked = TRUE], k, Append(q, Message("ACK", n)))
<1> DEFINE d == [c EXCEPT !.acked = TRUE]
           m == Message("ACK", n)
           r == Append(q, m)
<1>1. /\ d.acked = TRUE /\ d.data_sent = c.data_sent
      /\ d.data_received = c.data_received /\ d.write_buffer = c.write_buffer
  BY DEF ConnectionType
<1>2. m \in Messages /\ m.type = "ACK" /\ m.size = n
  BY MessageTyped DEF Message
<1>3. OnTheWay(r, "DATA") = OnTheWay(q, "DATA") /\ OnTheWay(r, "ACK") = n
  <2>1. OnTheWay(q, "ACK") = 0
    BY OnTheWayEmpty
  <2>2. r = Append(q, Message("ACK", n))
    OBVIOUS
  <2> HIDE DEF r
  <2>3. OnTheWay(r, "DATA") = OnTheWay(q, "DATA") /\ OnTheWay(r, "ACK") = OnTheWay(q, "ACK") + n
    BY <2>2, OnTheWaySent, ZenonT(30)
  <2> QED
    BY <2>1, <2>3
<1> HIDE DEF m
<1>4. r # <<>> /\ Head(r) = m
  BY <1>2, AppendProperties
<1> HIDE DEF d, r
<1>5. Balanced(d, k, r)
  BY <1>1, <1>2, <1>3, <1>4 DEF Balanced
<1> QED
  BY <1>5 DEF d, r, m

\* handle_write: what was written is counted for the next ACK, or in it.
LEMMA BalancedWrite ==
    ASSUME NEW c \in ConnectionType, NEW k \in ClientType, NEW q \in Seq(Messages),
           Balanced(c, k, q), c.write_buffer # <<>>, k.state \notin {"left", "closed"},
           NEW bytes \in Nat, NEW r,
           IF AckDue(c.data_received + bytes, c.ack_interval)
           THEN r = Append(q, Message("ACK", c.data_received + bytes))
           ELSE r = q
    PROVE  Balanced(Received(c, bytes), k, r)
<1> DEFINE d == Received(c, bytes)
           total == c.data_received + bytes
           due == AckDue(total, c.ack_interval)
           wb == c.write_buffer
<1>1. /\ c.data_received \in Nat /\ total \in Nat /\ c.data_sent \in Int
      /\ k.sent \in Nat /\ k.acked \in Nat /\ OnTheWay(q, "ACK") \in Nat
  BY ConnFields, ClientCounts, OnTheWayNat
<1> HIDE DEF total
<1>2. k.state = "open"
  BY DEF Balanced, ClientType
<1>3. /\ c.acked /\ c.data_sent = OnTheWay(q, "DATA") + k.toAck
      /\ k.sent - k.acked = OnTheWay(q, "ACK") + c.data_received + Total(Left(wb))
  BY <1>2 DEF Balanced
<1>4. /\ d.acked = c.acked /\ d.data_sent = c.data_sent
      /\ d.data_received = IF due THEN 0 ELSE total
      /\ d.write_buffer = Advance(wb, bytes)
  BY DEF Received, ConnectionType, total
<1>5. Total(Left(d.write_buffer)) = Total(Left(wb)) - bytes /\ Total(Left(wb)) \in Int
  BY <1>4, UnwrittenInt, LeftAdvanced
<1>6. /\ OnTheWay(r, "DATA") = OnTheWay(q, "DATA")
      /\ OnTheWay(r, "ACK") = IF due THEN OnTheWay(q, "ACK") + total ELSE OnTheWay(q, "ACK")
  BY <1>1, OnTheWaySent DEF total
<1> HIDE DEF d, due, wb
<1>7. k.sent - k.acked = OnTheWay(r, "ACK") + d.data_received + Total(Left(d.write_buffer))
  <2>1. total = c.data_received + bytes
    BY DEF total
  <2>2. \A s, way, got, left \in Int :
           /\ way + got + left = (way + (got + bytes)) + 0 + (left - bytes)
           /\ way + got + left = way + (got + bytes) + (left - bytes)
    OBVIOUS
  <2>3. CASE due
    BY <1>1, <1>3, <1>4, <1>5, <1>6, <2>1, <2>2, <2>3
  <2>4. CASE ~due
    BY <1>1, <1>3, <1>4, <1>5, <1>6, <2>1, <2>2, <2>4
  <2> QED
    BY <2>3, <2>4
<1>8. Balanced(d, k, r)
  BY <1>2, <1>3, <1>4, <1>6, <1>7 DEF Balanced
<1> QED
  BY <1>8 DEF d

\* The client takes the first message.
LEMMA BalancedReceive ==
    ASSUME NEW c \in ConnectionType, NEW k \in ClientType, NEW q \in Seq(Messages),
           Balanced(c, k, q), NewClient(k), k.state \notin {"left", "closed"},
           q # <<>>, Head(q).type # "CLOSE"
    PROVE  Balanced(c, Understood(k, Head(q)), Tail(q))
<1> DEFINE m == Head(q)
           l == Understood(k, m)
           r == Tail(q)
<1>1. /\ m \in Messages /\ r \in Seq(Messages) /\ m.size \in Nat
      /\ m.type \in {"ACCEPTED", "DATA", "ACK"}
  <2>1. m \in Messages /\ r \in Seq(Messages)
    BY HeadTailProperties
  <2> QED
    BY <2>1 DEF Messages
<1>2. \A t : OnTheWay(q, t) = Weight(m, t) + OnTheWay(r, t)
  BY SizesTaken DEF OnTheWay
<1>3. /\ OnTheWay(r, "DATA") \in Nat /\ OnTheWay(r, "ACK") \in Nat
      /\ k.sent \in Nat /\ k.acked \in Nat /\ k.toAck \in Nat /\ c.data_received \in Nat
      /\ Total(Left(c.write_buffer)) \in Int
  BY <1>1, OnTheWayNat, ClientCounts, ConnFields, UnwrittenInt
<1>4. /\ Weight(m, "DATA") = IF m.type = "DATA" THEN m.size ELSE 0
      /\ Weight(m, "ACK") = IF m.type = "ACK" THEN m.size ELSE 0
  BY DEF Weight
<1>5. k.state \in {"none", "connecting", "accepted", "open"}
  BY DEF ClientType
<1> HIDE DEF m, r
<1>6. CASE k.state \in {"none", "accepted"}
  <2>1. /\ OnTheWay(q, "DATA") = 0 /\ OnTheWay(q, "ACK") = 0
        /\ c.data_sent = OnTheWay(q, "DATA") + k.toAck
        /\ c.data_received = 0 /\ c.write_buffer = <<>> /\ ~c.acked
    BY <1>6 DEF Balanced
  <2>2. OnTheWay(r, "DATA") = 0 /\ OnTheWay(r, "ACK") = 0
    BY <1>1, <1>2, <1>3, <1>4, <2>1
  <2>3. l.state \in {"none", "accepted"} /\ l.toAck = k.toAck
    BY <1>1, <1>6 DEF Understood, ClientType
  <2> HIDE DEF l
  <2>4. Balanced(c, l, r)
    BY <2>1, <2>2, <2>3 DEF Balanced
  <2> QED
    BY <2>4 DEF l, m, r
<1>7. CASE k.state = "connecting"
  <2>1. /\ m.type = "ACK" /\ OnTheWay(q, "ACK") = m.size
        /\ c.data_sent = OnTheWay(q, "DATA") + k.toAck
        /\ c.data_received = 0 /\ c.write_buffer = <<>> /\ c.acked
        /\ k.sent = 0 /\ k.acked = 0 /\ k.toAck = 0
    BY <1>7 DEF Balanced, NewClient, m
  <2>2. OnTheWay(r, "DATA") = OnTheWay(q, "DATA") /\ OnTheWay(r, "ACK") = 0
    BY <1>1, <1>2, <1>3, <1>4, <2>1
  <2>3. l.state = "open" /\ l.toAck = 0 /\ l.sent = 0 /\ l.acked = 0
    BY <1>7, <2>1 DEF Understood, ClientType
  <2> HIDE DEF l
  <2>4. l.sent - l.acked = OnTheWay(r, "ACK") + c.data_received + Total(Left(c.write_buffer))
    BY <2>1, <2>2, <2>3, UnwrittenNone
  <2>5. Balanced(c, l, r)
    BY <2>1, <2>2, <2>3, <2>4 DEF Balanced
  <2> QED
    BY <2>5 DEF l, m, r
<1>8. CASE k.state = "open"
  <2>1. /\ c.acked /\ c.data_sent = OnTheWay(q, "DATA") + k.toAck
        /\ k.sent - k.acked = OnTheWay(q, "ACK") + c.data_received + Total(Left(c.write_buffer))
    BY <1>8 DEF Balanced
  <2>2. /\ l.state = "open" /\ l.sent = k.sent
        /\ l.acked = IF m.type = "ACK" THEN k.acked + m.size ELSE k.acked
        /\ l.toAck = IF m.type = "DATA" THEN k.toAck + m.size ELSE k.toAck
    BY <1>1, <1>8 DEF Understood, ClientType
  <2> HIDE DEF l
  <2>3. c.data_sent = OnTheWay(r, "DATA") + l.toAck
    BY <1>1, <1>2, <1>3, <1>4, <2>1, <2>2
  <2>4. l.sent - l.acked = OnTheWay(r, "ACK") + c.data_received + Total(Left(c.write_buffer))
    <3> DEFINE way == OnTheWay(r, "ACK")
               left == Total(Left(c.write_buffer))
               n == Weight(m, "ACK")
    <3>1. /\ way \in Nat /\ left \in Int /\ n \in Nat
          /\ k.sent - k.acked = (n + way) + c.data_received + left
      BY <1>1, <1>2, <1>3, <1>4, <2>1
    <3>2. l.acked = k.acked + n
      BY <1>3, <1>4, <2>2
    <3> DEFINE s == k.sent
               a == k.acked
               got == c.data_received
    <3>3. /\ s \in Nat /\ a \in Nat /\ got \in Nat /\ way \in Nat /\ left \in Int /\ n \in Nat
          /\ s - a = (n + way) + got + left
      BY <1>3, <3>1
    <3> HIDE DEF way, left, n, s, a, got
    <3>4. s - (a + n) = way + got + left
      BY <3>3, MoreAcked
    <3> QED
      BY <2>2, <3>2, <3>4 DEF way, left, s, a, got
  <2>5. Balanced(c, l, r)
    BY <2>1, <2>2, <2>3, <2>4 DEF Balanced
  <2> QED
    BY <2>5 DEF l, m, r
<1> QED
  BY <1>5, <1>6, <1>7, <1>8 DEF m, r


------------------------------------------------------------------------------
(***************************************************************************)
(* Every step keeps the accounts of every connection.                      *)
(***************************************************************************)
LEMMA KeptFrame ==
    ASSUME NEW j \in Ids, Kept(j), j \in connections' => j \in connections,
           conn'[j] = conn[j], toClient'[j] = toClient[j], cl'[j] = cl[j]
    PROVE  Kept(j)'
BY DEF Kept

LEMMA KeptGone ==
    ASSUME NEW j \in Ids, j \notin connections' \/ cl'[j].state \in {"left", "closed"},
           NewClient(cl'[j])
    PROVE  Kept(j)'
BY DEF Kept

LEMMA KeptUntouched ==
    ASSUME \A j \in Ids : Kept(j), UNCHANGED <<connections, conn, toClient, cl>>
    PROVE  \A j \in Ids : Kept(j)'
BY KeptFrame

LEMMA KeptInit == Init => \A j \in Ids : Kept(j)
BY DEF Init, Kept, NewClient

LEMMA EraseKept ==
    ASSUME TypeOK, \A j \in Ids : Kept(j), NEW ids \in SUBSET connections, Erase(ids),
           UNCHANGED <<toClient, cl>>
    PROVE  \A j \in Ids : Kept(j)'
<1> SUFFICES ASSUME NEW j \in Ids PROVE Kept(j)'
  OBVIOUS
<1>1. CASE j \in ids
  <2>1. j \notin connections' /\ NewClient(cl'[j])
    BY <1>1 DEF Erase, Kept
  <2> QED
    BY <2>1, KeptGone
<1>2. CASE j \notin ids
  BY <1>2, KeptFrame DEF Erase
<1> QED
  BY <1>1, <1>2

LEMMA ShutdownAllKept ==
    ASSUME TypeOK, \A j \in Ids : Kept(j), ShutdownAll
    PROVE  \A j \in Ids : Kept(j)'
<1> SUFFICES ASSUME NEW j \in Ids PROVE Kept(j)'
  OBVIOUS
<1>1. j \notin connections'
  BY DEF ShutdownAll, Erase
<1>2. cl'[j] = IF cl[j].state = "none" THEN cl[j] ELSE [cl[j] EXCEPT !.state = "closed"]
  BY DEF ShutdownAll
<1>3. NewClient(cl'[j])
  <2>1. CASE cl[j].state = "none"
    BY <1>2, <2>1 DEF Kept
  <2>2. CASE cl[j].state # "none"
    BY <1>2, <2>2, ConnTyped DEF NewClient, ClientType
  <2> QED
    BY <2>1, <2>2
<1> QED
  BY <1>1, <1>3, KeptGone

LEMMA ConnectRemoteKept ==
    ASSUME IInv, \A j \in Ids : Kept(j),
           NEW id \in ConnectIds, NEW i \in AckIntervals, ConnectRemote(id, i)
    PROVE  \A j \in Ids : Kept(j)'
<1> DEFINE k == [cl[id] EXCEPT !.state = "connecting"]
<1>0. id \in Ids /\ TypeOK /\ i \in Nat
  BY WindowAssumption DEF Ids, IInv
<1>1. /\ toClient[id] = <<>> /\ conn[id] = FreshConnection
      /\ id \notin connections /\ cl[id].state = "none"
  BY <1>0 DEF ConnectRemote, IInv, ConnInv, FreshPart, DeadPart, Unborn
<1>2. toClient' = toClient /\ cl'[id] = k
  BY <1>0 DEF ConnectRemote, ClientMoves, TypeOK
<1>3. ASSUME NEW j \in Ids, j # id PROVE Kept(j)'
  <2>1. /\ j \in connections' <=> j \in connections
        /\ conn'[j] = conn[j] /\ cl'[j] = cl[j]
    BY <1>0, <1>3 DEF ConnectRemote, ClientMoves, TypeOK
  <2> QED
    BY <2>1, <1>2, KeptFrame
<1>4. k \in ClientType /\ k.state = "connecting" /\ NewClient(k)
  BY <1>0, <1>1, ConnTyped DEF Kept, NewClient, ClientType
<1> HIDE DEF k
<1>5. CASE UNCHANGED <<connections, conn, ops>>
  <2>1. id \notin connections' /\ NewClient(cl'[id])
    BY <1>1, <1>2, <1>4, <1>5
  <2> QED
    BY <1>0, <1>3, <2>1, KeptGone
<1>6. CASE conn' = [conn EXCEPT ![id].ack_interval = i]
  <2> DEFINE c == [FreshConnection EXCEPT !.ack_interval = i]
  <2>1. /\ conn'[id] = c /\ c \in ConnectionType
        /\ c.data_sent = 0 /\ c.data_received = 0 /\ c.write_buffer = <<>> /\ ~c.acked
    <3>1. conn'[id] = c
      BY <1>0, <1>1, <1>6 DEF TypeOK
    <3>2. FreshConnection \in ConnectionType
      BY <1>0, <1>1, ConnTyped
    <3>3. c \in ConnectionType
      BY <1>0, <3>2 DEF ConnectionType
    <3>4. c.data_sent = 0 /\ c.data_received = 0 /\ c.write_buffer = <<>> /\ ~c.acked
      BY DEF FreshConnection
    <3> QED
      BY <3>1, <3>3, <3>4
  <2> HIDE DEF c
  <2>2. Balanced(c, k, toClient[id])
    BY <1>1, <1>4, <2>1, BalancedNew
  <2>3. Kept(id)'
    BY <1>2, <1>4, <2>1, <2>2 DEF Kept
  <2> QED
    BY <1>3, <2>3
<1> QED
  BY <1>5, <1>6 DEF ConnectRemote

\* What ack_data does to the accounts is up to the caller.
LEMMA AckDataKept ==
    ASSUME TypeOK, \A j \in Ids : Kept(j), NEW id \in Ids, NEW size \in Nat,
           AckData(id, size), NEW k \in ClientType, ClientMoves(id, k), k.state = "open",
           id \in connections => Balanced(Acked(conn[id], size), k, toClient[id])
    PROVE  \A j \in Ids : Kept(j)'
<1>1. cl'[id] = k /\ toClient' = toClient /\ NewClient(k)
  BY DEF AckData, ClientMoves, TypeOK, NewClient
<1>2. ASSUME NEW j \in Ids, j # id PROVE Kept(j)'
  <2>1. /\ j \in connections' <=> j \in connections
        /\ conn'[j] = conn[j] /\ cl'[j] = cl[j]
    BY <1>2 DEF AckData, Update, ClientMoves, TypeOK
  <2> QED
    BY <2>1, <1>1, KeptFrame
<1>3. CASE id \notin connections
  BY <1>1, <1>2, <1>3, KeptGone DEF AckData
<1>4. CASE id \in connections
  <2>1. id \in connections' /\ conn'[id] = Acked(conn[id], size)
    BY <1>4 DEF AckData, Update, TypeOK
  <2>2. Kept(id)'
    BY <1>1, <1>4, <2>1 DEF Kept
  <2> QED
    BY <1>2, <2>2
<1> QED
  BY <1>3, <1>4

LEMMA FirstAckKept ==
    ASSUME IInv, \A j \in Ids : Kept(j), NEW id \in Ids, NEW i \in AckIntervals,
           FirstAck(id, i)
    PROVE  \A j \in Ids : Kept(j)'
<1> DEFINE k == [cl[id] EXCEPT !.state = "open"]
<1>1. /\ TypeOK /\ i \in Nat /\ cl[id].state = "accepted"
      /\ ClientMoves(id, k) /\ AckData(id, i)
  BY WindowAssumption DEF FirstAck, IInv
<1>2. k \in ClientType /\ k.state = "open"
  BY <1>1, ConnTyped DEF ClientType
<1>3. id \in connections => Balanced(Acked(conn[id], i), k, toClient[id])
  BY <1>1, ConnTyped, BalancedFirstAck DEF Kept
<1> HIDE DEF k
<1> QED
  BY <1>1, <1>2, <1>3, AckDataKept

LEMMA ClientAckKept ==
    ASSUME IInv, \A j \in Ids : Kept(j), NEW id \in Ids, ClientAck(id)
    PROVE  \A j \in Ids : Kept(j)'
<1> DEFINE k == [cl[id] EXCEPT !.toAck = 0]
           size == cl[id].toAck
<1>1. /\ TypeOK /\ cl[id].state = "open"
      /\ ClientMoves(id, k) /\ AckData(id, size)
  BY DEF ClientAck, IInv
<1>2. k \in ClientType /\ k.state = "open" /\ size \in Nat
  BY <1>1, ConnTyped DEF ClientType
<1>3. id \in connections => Balanced(Acked(conn[id], size), k, toClient[id])
  BY <1>1, ConnTyped, BalancedAck DEF Kept
<1> HIDE DEF k, size
<1> QED
  BY <1>1, <1>2, <1>3, AckDataKept

LEMMA SendDataKept ==
    ASSUME IInv, \A j \in Ids : Kept(j),
           NEW id \in Ids, NEW size \in 1 .. BUFFER_SIZE, SendData(id, size)
    PROVE  \A j \in Ids : Kept(j)'
<1> DEFINE b == [first |-> cl[id].sent, size |-> size, pos |-> 0]
           wb == Append(conn[id].write_buffer, b)
           c == [conn[id] EXCEPT !.write_buffer = wb]
           k == [cl[id] EXCEPT !.sent = @ + size]
<1>0. TypeOK /\ size \in Nat /\ cl[id].sent \in Nat /\ cl[id].state = "open"
  BY WindowAssumption, ConnTyped DEF IInv, ClientType, SendData
<1>1. cl'[id] = k /\ toClient' = toClient /\ NewClient(k)
  BY <1>0, ConnTyped DEF SendData, ClientMoves, TypeOK, ClientType, NewClient
<1>2. ASSUME NEW j \in Ids, j # id PROVE Kept(j)'
  <2>1. /\ j \in connections' <=> j \in connections
        /\ conn'[j] = conn[j] /\ cl'[j] = cl[j]
    BY <1>0, <1>2 DEF SendData, Update, ClientMoves, TypeOK
  <2> QED
    BY <2>1, <1>1, KeptFrame
<1>3. CASE id \notin connections
  <2>1. id \notin connections'
    BY <1>3 DEF SendData
  <2> QED
    BY <1>1, <1>2, <2>1, KeptGone
<1>4. CASE id \in connections
  <2>1. conn'[id] = c
    <3>1. conn' = [conn EXCEPT ![id] = c]
      BY <1>4 DEF SendData, Update
    <3> HIDE DEF c
    <3> QED
      BY <1>0, <3>1 DEF TypeOK
  <2>2. b \in Buffers /\ b.size = size /\ b.pos = 0
    BY <1>0 DEF Buffers
  <2>3. Balanced(conn[id], cl[id], toClient[id])
    BY <1>0, <1>4 DEF Kept
  <2> HIDE DEF b
  <2>4. Balanced(c, k, toClient[id])
    BY <1>0, <2>2, <2>3, ConnTyped, BalancedSend
  <2> HIDE DEF c, k
  <2>5. Kept(id)'
    BY <1>1, <2>1, <2>4 DEF Kept
  <2> QED
    BY <1>2, <2>5
<1> QED
  BY <1>3, <1>4

LEMMA StartClosingKept ==
    ASSUME IInv, \A j \in Ids : Kept(j), NEW id \in Ids, StartClosing(id)
    PROVE  \A j \in Ids : Kept(j)'
<1>0. TypeOK
  BY DEF IInv
<1>1. /\ toClient' = toClient /\ \A j \in Ids \ {id} : cl'[j] = cl[j]
      /\ cl'[id].state = "left"
  BY <1>0, ConnTyped DEF StartClosing, ClientMoves, TypeOK, ClientType
<1>2. Kept(id)'
  BY <1>1, KeptGone DEF NewClient
<1>3. ASSUME NEW j \in Ids, j # id PROVE Kept(j)'
  <2>1. (j \in connections' => j \in connections) /\ conn'[j] = conn[j]
    BY <1>0, <1>3 DEF StartClosing, Update, Erase, TypeOK
  <2> QED
    BY <1>1, <1>3, <2>1, KeptFrame
<1> QED
  BY <1>2, <1>3


LEMMA HandleAcceptKept ==
    ASSUME IInv, \A j \in Ids : Kept(j), NEW p \in Ports, HandleAccept(p)
    PROVE  \A j \in Ids : Kept(j)'
<1>0. TypeOK
  BY DEF IInv
<1>1. CASE p \notin acceptors
  BY <1>1, KeptUntouched DEF HandleAccept, IoHandles, world
<1>2. CASE p \in acceptors
  <2>0. seq + 1 \in Ids
    BY <1>0, <1>2, BoundsAssumption DEF HandleAccept, Ids, AcceptIds, TypeOK
  <2> PICK id \in Ids : id = seq + 1
    BY <2>0
  <2> DEFINE n == WINDOW_SIZE \div 2
             m == Message("ACCEPTED", n)
  <2>1. /\ connections' = connections \cup {id}
        /\ conn' = [conn EXCEPT ![id] = FreshConnection]
        /\ Send(id, m)
        /\ cl' = cl
    BY <1>2 DEF HandleAccept, IoHandles, Send, world
  <2>2. id \in AcceptIds /\ id > seq
    BY <1>0, <1>2, BoundsAssumption DEF HandleAccept, Ids, AcceptIds, TypeOK
  <2>3. /\ id \notin connections /\ toClient[id] = <<>> /\ conn[id] = FreshConnection
        /\ cl[id].state = "none"
    BY <2>2 DEF IInv, ConnInv, FreshPart, DeadPart, Unborn
  <2>4. n \in Nat
    BY HalfWindow
  <2> HIDE DEF n
  <2>5. toClient'[id] = Append(<<>>, m) /\ \A j \in Ids \ {id} : toClient'[j] = toClient[j]
    BY <1>0, <2>1, <2>3 DEF Send, TypeOK
  <2>6. ASSUME NEW j \in Ids, j # id PROVE Kept(j)'
    <3>1. conn'[j] = conn[j] /\ (j \in connections' => j \in connections)
      BY <1>0, <2>1, <2>6 DEF TypeOK
    <3> QED
      BY <2>1, <2>5, <2>6, <3>1, KeptFrame
  <2>7. conn'[id] = FreshConnection /\ FreshConnection \in ConnectionType
    BY <1>0, <2>1, <2>3, ConnTyped DEF TypeOK
  <2>8. Balanced(FreshConnection, cl[id], toClient'[id])
    <3>1. LET c == FreshConnection
          IN  c.data_sent = 0 /\ c.data_received = 0 /\ c.write_buffer = <<>> /\ ~c.acked
      BY DEF FreshConnection
    <3>2. cl[id] \in ClientType /\ NewClient(cl[id])
      BY <1>0, ConnTyped DEF Kept
    <3> QED
      BY <2>3, <2>4, <2>5, <2>7, <3>1, <3>2, BalancedNew
  <2>9. Kept(id)'
    BY <2>1, <2>7, <2>8 DEF Kept
  <2> QED
    BY <2>6, <2>9
<1> QED
  BY <1>1, <1>2

\* A handler that erases the connection.
LEMMA ErasedKept ==
    ASSUME \A j \in Ids : Kept(j), NEW id \in Ids, cl' = cl,
           connections' \subseteq connections, id \notin connections',
           \A j \in Ids \ {id} : conn'[j] = conn[j] /\ toClient'[j] = toClient[j]
    PROVE  \A j \in Ids : Kept(j)'
<1>1. Kept(id)'
  BY KeptGone DEF Kept
<1>2. ASSUME NEW j \in Ids, j # id PROVE Kept(j)'
  BY <1>2, KeptFrame
<1> QED
  BY <1>1, <1>2

\* A handler that goes on with the connection.
LEMMA UpdateKept ==
    ASSUME TypeOK, \A j \in Ids : Kept(j), NEW id \in Ids, UNCHANGED cl,
           NEW c, NEW o, Update(id, c, o), id \in connections,
           \A j \in Ids \ {id} : toClient'[j] = toClient[j],
           cl[id].state \notin {"left", "closed"} => Balanced(c, cl[id], toClient'[id])
    PROVE  \A j \in Ids : Kept(j)'
<1>1. connections' = connections /\ conn'[id] = c /\ \A j \in Ids \ {id} : conn'[j] = conn[j]
  BY DEF Update, TypeOK
<1>2. Kept(id)'
  BY <1>1 DEF Kept
<1>3. ASSUME NEW j \in Ids, j # id PROVE Kept(j)'
  BY <1>1, <1>3, KeptFrame
<1> QED
  BY <1>2, <1>3

LEMMA SendTo ==
    ASSUME TypeOK, NEW id \in Ids, NEW m, Send(id, m)
    PROVE  /\ toClient'[id] = Append(toClient[id], m)
           /\ \A j \in Ids \ {id} : toClient'[j] = toClient[j]
BY DEF Send, TypeOK

LEMMA HandleReadKept ==
    ASSUME IInv, \A j \in Ids : Kept(j), NEW id \in Ids, HandleRead(id)
    PROVE  \A j \in Ids : Kept(j)'
<1> DEFINE bytes == Head(ops[id].received)
           taken == [ops[id] EXCEPT !.received = Tail(@)]
           c == [conn[id] EXCEPT !.data_sent = @ + bytes]
<1>0. TypeOK /\ ops[id].received # <<>> /\ cl' = cl
  BY DEF IInv, HandleRead, IoHandles, world
<1>1. bytes \in Nat
  <2>1. ops[id].received \in Seq(0 .. BUFFER_SIZE)
    BY <1>0, ConnTyped DEF OpsType
  <2>2. bytes \in 0 .. BUFFER_SIZE
    BY <1>0, <2>1, HeadTailProperties
  <2> QED
    BY <2>2, WindowAssumption
<1> HIDE DEF bytes, taken
<1>2. CASE UNCHANGED <<connections, conn, toClient>>
  BY <1>0, <1>2, KeptUntouched
<1>3. CASE id \in connections /\ PeerClosed(id, taken)
  <2>1. \A j \in Ids \ {id} : toClient'[j] = toClient[j]
    BY <1>0, <1>3, SendTo DEF PeerClosed
  <2>2. /\ connections' \subseteq connections /\ id \notin connections'
        /\ \A j \in Ids \ {id} : conn'[j] = conn[j]
    BY <1>0, <1>3 DEF PeerClosed, EraseHandled, TypeOK
  <2>3. \A j \in Ids \ {id} : conn'[j] = conn[j] /\ toClient'[j] = toClient[j]
    BY <2>1, <2>2
  <2> QED
    BY <1>0, <2>2, <2>3, ErasedKept
<1>4. CASE /\ id \in connections /\ ~conn[id].closing
           /\ Send(id, Message("DATA", bytes))
           /\ Update(id, c, IF WindowOpen(c.data_sent) THEN PostRead(taken) ELSE taken)
  <2>1. conn[id].acked
    <3>1. Len(ops[id].received) \in Nat /\ Len(ops[id].received) > 0 /\ ops[id].recv \in Nat
      BY <1>0, ConnTyped, LenProperties, EmptySeq DEF OpsType
    <3>2. Reads(id) # 0
      BY <3>1 DEF Reads
    <3> QED
      BY <1>4, <3>2 DEF IInv, ConnInv, ReadPart
  <2>2. /\ toClient'[id] = Append(toClient[id], Message("DATA", bytes))
        /\ \A j \in Ids \ {id} : toClient'[j] = toClient[j]
    BY <1>0, <1>4, SendTo
  <2>3. cl[id].state \notin {"left", "closed"} => Balanced(c, cl[id], toClient'[id])
    BY <1>0, <1>1, <1>4, <2>1, <2>2, ConnTyped, BalancedRead DEF Kept
  <2> HIDE DEF c
  <2> QED
    BY <1>0, <1>4, <2>2, <2>3, UpdateKept
<1> QED
  BY <1>2, <1>3, <1>4 DEF HandleRead, bytes, taken

LEMMA HandleWriteKept ==
    ASSUME IInv, \A j \in Ids : Kept(j), NEW id \in Ids, HandleWrite(id)
    PROVE  \A j \in Ids : Kept(j)'
<1> DEFINE bytes == Head(ops[id].sent)
           taken == [ops[id] EXCEPT !.sent = Tail(@)]
           c == Received(conn[id], bytes)
           n == conn[id].data_received + bytes
<1>0. TypeOK /\ ops[id].sent # <<>> /\ cl' = cl
  BY DEF IInv, HandleWrite, IoHandles, world
<1>1. bytes \in Nat
  <2>1. ops[id].sent \in Seq(Nat)
    BY <1>0, ConnTyped DEF OpsType
  <2> QED
    BY <1>0, <2>1, HeadTailProperties
<1> HIDE DEF bytes, taken
<1>2. CASE id \notin connections
  <2>1. UNCHANGED <<connections, conn, toClient>>
    BY <1>2 DEF HandleWrite
  <2> QED
    BY <1>0, <2>1, KeptUntouched
<1>3. CASE id \in connections
  <2>1. SendAckIfDue(id, n, conn[id].ack_interval)
    BY <1>3 DEF HandleWrite, bytes
  <2>2. /\ \A j \in Ids \ {id} : toClient'[j] = toClient[j]
        /\ IF AckDue(n, conn[id].ack_interval)
           THEN toClient'[id] = Append(toClient[id], Message("ACK", n))
           ELSE toClient'[id] = toClient[id]
    <3> DEFINE m == Message("ACK", n)
    <3> HIDE DEF m
    <3>1. CASE AckDue(n, conn[id].ack_interval)
      BY <1>0, <2>1, <3>1, SendTo DEF SendAckIfDue, m
    <3>2. CASE ~AckDue(n, conn[id].ack_interval)
      BY <2>1, <3>2 DEF SendAckIfDue
    <3> QED
      BY <3>1, <3>2 DEF m
  <2>3. conn[id].write_buffer # <<>>
    BY <1>0, <1>3, WriteNeedsBuffer
  <2>4. cl[id].state \notin {"left", "closed"} => Balanced(c, cl[id], toClient'[id])
    BY <1>0, <1>1, <1>3, <2>2, <2>3, ConnTyped, BalancedWrite DEF Kept
  <2> HIDE DEF c, n
  <2>5. CASE \E o : Update(id, c, o)
    BY <1>0, <1>3, <2>2, <2>4, <2>5, UpdateKept
  <2>6. CASE EraseHandled(id, taken)
    <3>1. /\ connections' \subseteq connections /\ id \notin connections'
          /\ \A j \in Ids \ {id} : conn'[j] = conn[j]
      BY <1>0, <2>6 DEF EraseHandled, TypeOK
    <3>2. \A j \in Ids \ {id} : conn'[j] = conn[j] /\ toClient'[j] = toClient[j]
      BY <2>2, <3>1
    <3> QED
      BY <1>0, <3>1, <3>2, ErasedKept
  <2> QED
    BY <1>3, <2>5, <2>6 DEF HandleWrite, bytes, taken, c
<1> QED
  BY <1>2, <1>3

LEMMA HandleConnectKept ==
    ASSUME IInv, \A j \in Ids : Kept(j), NEW id \in Ids, HandleConnect(id)
    PROVE  \A j \in Ids : Kept(j)'
<1> DEFINE taken == [ops[id] EXCEPT !.connected = @ - 1]
           c == [conn[id] EXCEPT !.acked = TRUE]
           n == WINDOW_SIZE \div 2
<1>0. TypeOK /\ ConnInv(id) /\ cl' = cl /\ ops[id].connected > 0
  BY DEF IInv, HandleConnect, IoHandles, world
<1> HIDE DEF taken
<1>1. CASE UNCHANGED <<connections, conn, toClient>>
  BY <1>0, <1>1, KeptUntouched
<1>2. CASE /\ id \in connections
           /\ Send(id, Message("ACK", n))
           /\ Update(id, c, PostRead(taken))
  <2>1. n \in Nat
    BY HalfWindow
  <2> HIDE DEF n
  <2>2. /\ toClient'[id] = Append(toClient[id], Message("ACK", n))
        /\ \A j \in Ids \ {id} : toClient'[j] = toClient[j]
    BY <1>0, <1>2, SendTo
  <2>3. toClient[id] = <<>> /\ cl[id].state = "connecting"
    <3>1. ops[id].connect \in Nat /\ ops[id].connected \in Nat
      BY <1>0, ConnTyped DEF OpsType
    <3>2. ops[id].connect + ops[id].connected > 0
      BY <1>0, <3>1
    <3> QED
      BY <1>0, <1>2, <3>2 DEF ConnInv, ConnectPart
  <2>4. Balanced(c, cl[id], toClient'[id])
    BY <1>0, <1>2, <2>1, <2>2, <2>3, ConnTyped, BalancedConnected DEF Kept
  <2> HIDE DEF c
  <2> QED
    BY <1>0, <1>2, <2>2, <2>4, UpdateKept
<1> QED
  BY <1>1, <1>2 DEF HandleConnect, taken

LEMMA ClientReceivesKept ==
    ASSUME IInv, \A j \in Ids : Safe(j), \A j \in Ids : Kept(j), NEW id \in Ids,
           ClientReceives(id)
    PROVE  \A j \in Ids : Kept(j)'
<1> DEFINE q == toClient[id]
           k == Understood(cl[id], Head(q))
<1>0. TypeOK /\ UNCHANGED <<connections, conn>>
  BY DEF IInv, ClientReceives
<1>1. /\ \A j \in Ids \ {id} : toClient'[j] = toClient[j] /\ cl'[j] = cl[j]
      /\ toClient'[id] = Tail(q) /\ q # <<>> /\ q \in Seq(Messages)
      /\ cl'[id] = k
  BY <1>0 DEF ClientReceives, ClientMoves, TypeOK
<1>2. /\ k.state \in {"left", "closed"} <=>
            cl[id].state \in {"left", "closed"} \/ Head(q).type = "CLOSE"
      /\ NewClient(k)
  <2>1. NewClient(cl[id]) /\ cl[id] \in ClientType
    BY <1>0, ConnTyped DEF Kept
  <2> QED
    BY <2>1 DEF Understood, ClientType, NewClient
<1>3. ASSUME NEW j \in Ids, j # id PROVE Kept(j)'
  BY <1>0, <1>1, <1>3, KeptFrame
<1>4. CASE k.state \in {"left", "closed"}
  BY <1>1, <1>2, <1>3, <1>4, KeptGone
<1>5. CASE k.state \notin {"left", "closed"}
  <2>1. id \in connections => Balanced(conn[id], k, Tail(q))
    BY <1>0, <1>1, <1>2, <1>5, ConnTyped, BalancedReceive DEF Kept
  <2> HIDE DEF k, q
  <2>2. Kept(id)'
    BY <1>0, <1>1, <1>2, <2>1 DEF Kept
  <2> QED
    BY <1>3, <2>2
<1> QED
  BY <1>4, <1>5


\* Every step, on top of the two invariants above.
LEMMA KeptStep ==
    ASSUME SafetyInv, \A j \in Ids : Kept(j), [Next]_vars
    PROVE  \A j \in Ids : Kept(j)'
<1>0. IInv /\ TypeOK /\ \A j \in Ids : Safe(j)
  BY DEF SafetyInv, IInv
<1>1. CASE MainThread
  <2>1. ASSUME NEW p \in Ports, ListenTo(p) \/ ShutdownPort(p) PROVE \A j \in Ids : Kept(j)'
    BY <2>1, KeptUntouched DEF ListenTo, ShutdownPort
  <2>2. CASE ShutdownAll
    BY <1>0, <2>2, ShutdownAllKept
  <2>3. ASSUME NEW id \in ConnectIds, NEW i \in AckIntervals, ConnectRemote(id, i)
        PROVE  \A j \in Ids : Kept(j)'
    BY <1>0, <2>3, ConnectRemoteKept
  <2>4. ASSUME NEW id \in Ids, NEW i \in AckIntervals, FirstAck(id, i)
        PROVE  \A j \in Ids : Kept(j)'
    BY <1>0, <2>4, FirstAckKept
  <2>5. ASSUME NEW id \in Ids, ClientAck(id) PROVE \A j \in Ids : Kept(j)'
    BY <1>0, <2>5, ClientAckKept
  <2>6. ASSUME NEW id \in Ids, StartClosing(id) PROVE \A j \in Ids : Kept(j)'
    BY <1>0, <2>6, StartClosingKept
  <2>7. ASSUME NEW id \in Ids, NEW size \in 1 .. BUFFER_SIZE, SendData(id, size)
        PROVE  \A j \in Ids : Kept(j)'
    BY <1>0, <2>7, SendDataKept
  <2>8. CASE DtorClears
    BY <1>0, <2>8, EraseKept DEF DtorClears, world
  <2>9. CASE DtorWakesThread \/ DtorReturns
    BY <2>9, KeptUntouched DEF DtorWakesThread, DtorReturns, tables, world
  <2> QED
    BY <1>1, <2>1, <2>2, <2>3, <2>4, <2>5, <2>6, <2>7, <2>8, <2>9 DEF MainThread
<1>2. CASE IoThread
  <2>1. CASE IoLoop \/ IoWakes
    BY <2>1, KeptUntouched DEF IoLoop, IoWakes, IoHandles, tables, world
  <2>2. ASSUME NEW p \in Ports, HandleAccept(p) PROVE \A j \in Ids : Kept(j)'
    BY <1>0, <2>2, HandleAcceptKept
  <2>3. ASSUME NEW id \in Ids, HandleRead(id) PROVE \A j \in Ids : Kept(j)'
    BY <1>0, <2>3, HandleReadKept
  <2>4. ASSUME NEW id \in Ids, HandleWrite(id) PROVE \A j \in Ids : Kept(j)'
    BY <1>0, <2>4, HandleWriteKept
  <2>5. ASSUME NEW id \in Ids, HandleConnect(id) PROVE \A j \in Ids : Kept(j)'
    BY <1>0, <2>5, HandleConnectKept
  <2> QED
    BY <1>2, <2>1, <2>2, <2>3, <2>4, <2>5 DEF IoThread
<1>3. CASE Environment
  <2>1. ASSUME NEW p \in Ports, PeerConnects(p) \/ KernelFailsAccept(p)
        PROVE  \A j \in Ids : Kept(j)'
    BY <2>1, KeptUntouched DEF PeerConnects, KernelFailsAccept, KernelMoves
  <2>2. ASSUME NEW id \in Ids,
               \/ \E bytes \in 0 .. BUFFER_SIZE : KernelReads(id, bytes)
               \/ \E bytes \in 1 .. BUFFER_SIZE : KernelWrites(id, bytes)
               \/ KernelConnects(id) \/ KernelFails(id)
        PROVE  \A j \in Ids : Kept(j)'
    BY <2>2, KeptUntouched
       DEF KernelReads, KernelWrites, KernelConnects, KernelFails, KernelMoves
  <2>3. ASSUME NEW id \in Ids, ClientReceives(id) PROVE \A j \in Ids : Kept(j)'
    BY <1>0, <2>3, ClientReceivesKept
  <2> QED
    BY <1>3, <2>1, <2>2, <2>3 DEF Environment
<1>4. CASE UNCHANGED vars
  BY <1>4, KeptUntouched DEF vars, tables, world
<1> QED
  BY <1>1, <1>2, <1>3, <1>4 DEF Next

LEMMA AccountsAreKept == Spec => [](SafetyInv /\ \A j \in Ids : Kept(j))
<1>1. Init => \A j \in Ids : Kept(j)
  BY KeptInit
<1>2. SafetyInv /\ (\A j \in Ids : Kept(j)) /\ [Next]_vars => (\A j \in Ids : Kept(j))'
  BY KeptStep
<1> QED
  BY <1>1, <1>2, SafetyInvariant, PTL DEF Spec

\* data_sent is what the client has still to acknowledge, on its way or there,
\* so ack_data never takes it below zero (handle_read, ack_data).
THEOREM WindowIsConserved == Spec => []FlowConservation
<1>1. SafetyInv /\ (\A j \in Ids : Kept(j)) => FlowConservation
  <2> SUFFICES ASSUME SafetyInv, \A j \in Ids : Kept(j), NEW id \in connections,
                      cl[id].state \notin {"left", "closed"}
               PROVE  /\ conn[id].data_sent = InFlight(id, "DATA") + cl[id].toAck
                      /\ conn[id].data_sent >= 0
    BY DEF FlowConservation
  <2>1. id \in Ids /\ TypeOK
    BY DEF SafetyInv, IInv, TypeOK
  <2>2. conn[id].data_sent = OnTheWay(toClient[id], "DATA") + cl[id].toAck
    BY <2>1 DEF Kept, Balanced
  <2>3. OnTheWay(toClient[id], "DATA") \in Nat /\ cl[id].toAck \in Nat
    BY <2>1, ConnTyped, OnTheWayNat, ClientCounts
  <2> QED
    BY <2>2, <2>3 DEF InFlight, OnTheWay
<1> QED
  BY <1>1, AccountsAreKept, PTL

\* Every byte of the client is unwritten, counted for the next ACK, in an ACK on
\* its way or acknowledged: handle_write loses and repeats none.
THEOREM AcksAreConserved == Spec => []AckConservation
<1>1. SafetyInv /\ (\A j \in Ids : Kept(j)) => AckConservation
  BY DEF SafetyInv, IInv, TypeOK, Kept, Balanced, AckConservation, InFlight, OnTheWay,
         Unwritten
<1> QED
  BY <1>1, AccountsAreKept, PTL

==============================================================================
