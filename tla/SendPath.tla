------------------------------- MODULE SendPath -------------------------------
(***************************************************************************)
(* The way of a message out of the agent (vdagent/vdagent.cpp): from the   *)
(* port forwarder's I/O thread through VDAgentSendPFCommand and the control*)
(* queue to the main thread, and from the main thread through the message  *)
(* queue to the virtio-serial port, which takes one overlapped write at a  *)
(* time and may take it in pieces.                                         *)
(*                                                                         *)
(* Three threads set control commands: the I/O thread, the desktop event   *)
(* thread and the main thread.  Four mutexes are involved:                 *)
(*   PortForwarder::mutex    held by the I/O thread during a handler;      *)
(*   VDAgentSendPFCommand::mutex   held in send() while set_control_event  *)
(*                           takes the next one;                           *)
(*   _control_mutex          held in handle_control_event, where get_chunk *)
(*                           takes the previous one;                       *)
(*   _message_mutex          only ever taken by the main thread.           *)
(* They are not variables: who holds one follows from where the threads    *)
(* are.  A critical section in which nothing blocks is one action.         *)
(***************************************************************************)
EXTENDS Integers, Sequences, FiniteSets

CONSTANTS
    ChunkSize,      \* the bytes of a chunk, header included
    MaxSends,       \* bound: messages of the port forwarder
    MaxOwn,         \* bound: messages of the main thread itself
    MaxControl      \* bound: the control queue, for commands other than DATA

ASSUME SizesAssumption ==
    /\ ChunkSize \in Nat \ {0}
    /\ MaxSends \in Nat /\ MaxOwn \in Nat /\ MaxControl \in Nat

VARIABLES
    running,        \* VDAgent::_running
    main,           \* where the main thread is
    io,             \* where the I/O thread is
    event,          \* where the desktop event thread is
    has_client,     \* PortForwarder::has_client
    commands,       \* VDAgentSendPFCommand::commands
    control_queue,  \* VDAgent::_control_queue
    control_event,  \* VDAgent::_control_event, reset by the wait
    message_queue,  \* VDAgent::_message_queue
    write_pos,      \* VDAgent::_write_pos
    writes,         \* the WriteFileEx calls that have not completed
    wire,           \* the bytes the port has taken
    sends, own      \* how many messages each side has sent

queues == <<commands, control_queue, control_event>>
port   == <<message_queue, write_pos, writes, wire>>
vars   == <<running, main, io, event, has_client, queues, port, sends, own>>

Chunks == [from : {"pf", "main"}, n : Nat]
Controls == {"DATA", "RESET", "CLIPBOARD", "STOP", "DESKTOP_SWITCH"}

TypeOK ==
    /\ running \in BOOLEAN
    /\ main \in {"loop", "woken", "control", "getting", "dispatch", "cleanup", "joining", "done"}
    /\ io \in {"idle", "handler", "sending", "stopped"}
    /\ event \in {"loop", "waiting", "stopped"}
    /\ has_client \in BOOLEAN
    /\ commands \in Seq(Chunks)
    /\ control_queue \in Seq(Controls)
    /\ control_event \in BOOLEAN
    /\ message_queue \in Seq(Chunks)
    /\ write_pos \in 0 .. ChunkSize - 1
    /\ writes \in Seq([chunk : Chunks, pos : Nat, count : 1 .. ChunkSize])
    /\ wire \in Seq([chunk : Chunks, byte : 1 .. ChunkSize])
    /\ sends \in 0 .. MaxSends /\ own \in 0 .. MaxOwn

Init ==
    /\ running = TRUE /\ main = "loop" /\ io = "idle" /\ event = "loop" /\ has_client = TRUE
    /\ commands = <<>> /\ control_queue = <<>> /\ control_event = FALSE
    /\ message_queue = <<>> /\ write_pos = 0 /\ writes = <<>> /\ wire = <<>>
    /\ sends = 0 /\ own = 0

------------------------------------------------------------------------------
(***************************************************************************)
(* The locks.  The I/O thread is in "sending" with the mutex of commands   *)
(* and PortForwarder::mutex, the main thread in "control" and "getting"    *)
(* with _control_mutex.                                                    *)
(***************************************************************************)
ForwarderLocked == io \in {"handler", "sending"}
CommandsLocked  == io = "sending"
ControlLocked   == main \in {"control", "getting"}

\* Each thread holds the mutex the other one waits for.
Deadlocked == main = "getting" /\ io = "sending"

(***************************************************************************)
(* set_control_event and the virtio-serial queue.  cleanup closes the      *)
(* event, but the queue is still filled: SetEvent then fails and is logged.*)
(***************************************************************************)
EventClosed == main \in {"cleanup", "joining", "done"}

ControlTwice(c) ==              \* mutant: one push too many
    control_queue' = control_queue \o <<c, c>> /\ control_event' = ~EventClosed

SetControl(c) ==
    /\ control_queue' = Append(control_queue, c)
    /\ control_event' = ~EventClosed

Requested(chunk, pos, count) == [chunk |-> chunk, pos |-> pos, count |-> count]

\* enqueue_chunk starts a write only for the first chunk of the queue.
StartsAlways(queue) == TRUE             \* mutant: dropped guard
StartsWrite(queue) == Len(queue) = 1

Enqueue(chunk) ==
    LET queue == Append(message_queue, chunk)
    IN  /\ message_queue' = queue
        /\ writes' = IF StartsWrite(queue)
                     THEN Append(writes, Requested(Head(queue), write_pos, ChunkSize - write_pos)) ELSE writes
        /\ UNCHANGED <<write_pos, wire>>

------------------------------------------------------------------------------
(***************************************************************************)
(* The I/O thread: a packet is handled under PortForwarder::mutex, and the *)
(* handler sends at most one message.                                      *)
(***************************************************************************)
IoHandles ==
    /\ io = "idle" /\ has_client
    /\ io' = "handler"
    /\ UNCHANGED <<running, main, event, has_client, queues, port, sends, own>>

\* send(): the message is pushed, and the mutex kept for set_control_event.
IoSends ==
    /\ io = "handler" /\ sends < MaxSends
    /\ io' = "sending"
    /\ sends' = sends + 1
    /\ commands' = Append(commands, [from |-> "pf", n |-> sends'])
    /\ UNCHANGED <<running, main, event, has_client, control_queue, control_event, port, own>>

IoPosts ==
    /\ io = "sending" /\ ~ControlLocked
    /\ io' = "idle"
    /\ SetControl("DATA")
    /\ UNCHANGED <<running, main, event, has_client, commands, port, sends, own>>

IoLeavesHandler ==              \* mutant: the loop condition is not read
    /\ io = "handler" /\ io' = "idle"
    /\ UNCHANGED <<running, main, event, has_client, queues, port, sends, own>>

IoLeaves ==
    /\ \/ io = "handler" /\ io' = "idle"
       \/ io = "idle" /\ ~has_client /\ io' = "stopped"
    /\ UNCHANGED <<running, main, event, has_client, queues, port, sends, own>>

\* The desktop event thread.  It looks at _running, then waits without end.
\* Nobody waits for it: after "done" the agent it uses is deleted.
EventLoops ==
    /\ event = "loop" /\ main # "done"
    /\ event' = IF running THEN "waiting" ELSE "stopped"
    /\ UNCHANGED <<running, main, io, has_client, queues, port, sends, own>>

EventThread ==
    /\ event = "waiting" /\ main # "done" /\ ~ControlLocked
    /\ Len(control_queue) < MaxControl
    /\ event' = "loop"
    /\ SetControl("DESKTOP_SWITCH")
    /\ UNCHANGED <<running, main, io, has_client, commands, port, sends, own>>

------------------------------------------------------------------------------
(***************************************************************************)
(* The main thread.  In "loop" it is in event_dispatcher's wait, which     *)
(* also runs window messages and the completion routines of the port.      *)
(***************************************************************************)
MainWakes ==
    /\ main = "loop" /\ running /\ control_event
    /\ main' = "woken"
    /\ control_event' = FALSE
    /\ UNCHANGED <<running, io, event, has_client, commands, control_queue, port, sends, own>>

\* handle_control_event goes through the whole queue under the mutex.
MainLocksControl ==
    /\ main = "woken"
    /\ main' = "control"
    /\ UNCHANGED <<running, io, event, has_client, queues, port, sends, own>>

RestKept(queue) == queue                \* mutant: the command is not popped
Rest(queue) == Tail(queue)

MainPops ==
    /\ main = "control" /\ control_queue # <<>>
    /\ Head(control_queue) # "RESET"
    /\ LET c == Head(control_queue)
       IN  /\ main' = IF c = "DATA" THEN "getting" ELSE "control"
           /\ running' = (running /\ c # "STOP")
           /\ control_queue' = Rest(control_queue)
    /\ UNCHANGED <<io, event, has_client, commands, control_event, port, sends, own>>

\* RESET queues a command under the mutex it holds, and tells the client when
\* the clipboard was the guest's.
MainResets ==
    /\ main = "control" /\ control_queue # <<>>
    /\ Head(control_queue) = "RESET"
    /\ control_queue' = Append(Rest(control_queue), "CLIPBOARD")
    /\ control_event' = TRUE
    /\ \/ UNCHANGED <<port, own>>
       \/ /\ own < MaxOwn
          /\ own' = own + 1
          /\ Enqueue([from |-> "main", n |-> own'])
    /\ UNCHANGED <<running, main, io, event, has_client, commands, sends>>

\* get_chunk takes the oldest command.
TakenLast(queue) == queue[Len(queue)]   \* mutant: the newest
Taken(queue) == Head(queue)

MainGetsChunk ==
    /\ main = "getting" /\ ~CommandsLocked
    /\ commands # <<>>
    /\ Enqueue(Taken(commands))
    /\ commands' = Tail(commands)
    /\ main' = "control"
    /\ UNCHANGED <<running, io, event, has_client, control_queue, control_event, sends, own>>

DrainedOne == TRUE                      \* mutant: one command per event
Drained == control_queue = <<>>

MainUnlocksControl ==
    /\ main = "control" /\ Drained
    /\ main' = "loop"
    /\ UNCHANGED <<running, io, event, has_client, queues, port, sends, own>>

\* A message of the port forwarder is dispatched under PortForwarder::mutex.
MainDispatches ==
    /\ \/ main = "loop" /\ running /\ main' = "dispatch"
       \/ main = "dispatch" /\ ~ForwarderLocked /\ main' = "loop"
    /\ UNCHANGED <<running, io, event, has_client, queues, port, sends, own>>

\* write_message, for a reply or for something that happened in the guest.
MainSends ==
    /\ main = "loop" /\ running /\ own < MaxOwn
    /\ own' = own + 1
    /\ Enqueue([from |-> "main", n |-> own'])
    /\ UNCHANGED <<running, main, io, event, has_client, queues, sends>>

\* The client disconnected, or the session ended.
MainSetsControl(c) ==
    /\ main = "loop" /\ running
    /\ Len(control_queue) < MaxControl
    /\ SetControl(c)
    /\ UNCHANGED <<running, main, io, event, has_client, commands, port, sends, own>>

\* write_completion: the rest of the front chunk, or the next chunk.
PosAfterPopKept(pos) == pos           \* mutant: the position is not reset
PosAfterPop(pos) == 0

WriteCompletes(bytes) ==
    /\ main = "loop" /\ running /\ writes # <<>>
    /\ bytes <= Head(writes).count
    /\ LET w   == Head(writes)
           pos == write_pos + bytes
           old == Tail(writes)
       IN  /\ wire' = wire \o [i \in 1 .. bytes |-> [chunk |-> w.chunk, byte |-> w.pos + i]]
           /\ \/ /\ pos = ChunkSize
                 /\ message_queue' = Tail(message_queue)
                 /\ write_pos' = PosAfterPop(pos)
                 /\ writes' = IF Tail(message_queue) = <<>> THEN old
                              ELSE Append(old, Requested(message_queue[2], write_pos', ChunkSize))
              \/ /\ pos < ChunkSize
                 /\ write_pos' = pos
                 /\ writes' = Append(old, Requested(Head(message_queue), pos, ChunkSize - pos))
                 /\ UNCHANGED message_queue
    /\ UNCHANGED <<running, main, io, event, has_client, queues, sends, own>>

\* A failed write or read of the port, the stop event, a failed handler.
MainStops ==
    /\ main = "loop" /\ running
    /\ running' = FALSE
    /\ UNCHANGED <<main, io, event, has_client, queues, port, sends, own>>

\* cleanup closes the port and the events, then deletes the port forwarder.
MainCleansUp ==
    /\ main = "loop" /\ ~running
    /\ main' = "cleanup"
    /\ control_event' = FALSE
    /\ writes' = <<>>
    /\ UNCHANGED <<running, io, event, has_client, commands, control_queue, message_queue,
                   write_pos, wire, sends, own>>

\* ~PortForwarder takes its mutex, and waits for the thread without it.
MainDestroys ==
    /\ \/ main = "cleanup" /\ ~ForwarderLocked /\ main' = "joining"
       \/ main = "joining" /\ io = "stopped" /\ main' = "done"
    /\ has_client' = FALSE
    /\ UNCHANGED <<running, io, event, queues, port, sends, own>>

------------------------------------------------------------------------------
IoThread == IoHandles \/ IoSends \/ IoPosts \/ IoLeaves

\* What the main thread does by itself; the rest waits for an event.
MainGoesOn ==
    \/ MainWakes \/ MainLocksControl \/ MainPops \/ MainResets \/ MainGetsChunk
    \/ MainUnlocksControl
    \/ main = "dispatch" /\ MainDispatches
    \/ MainCleansUp \/ MainDestroys

Next ==
    \/ IoThread \/ EventLoops \/ EventThread \/ MainGoesOn
    \/ MainDispatches \/ MainSends \/ MainStops
    \/ \E c \in {"RESET", "STOP"} : MainSetsControl(c)
    \/ \E bytes \in 1 .. ChunkSize : WriteCompletes(bytes)

Spec == Init /\ [][Next]_vars

(***************************************************************************)
(* Fairness: a thread that can run does, a mutex that is free again and    *)
(* again is got, the wait returns for a control event that stays set (its  *)
(* handle is the first), and the port takes what is written.  The I/O      *)
(* thread need not get packets, but a handler it has begun ends.           *)
(***************************************************************************)
Fairness ==
    /\ SF_vars(IoPosts) /\ WF_vars(IoLeaves)
    /\ SF_vars(MainWakes)
    /\ WF_vars(MainLocksControl) /\ WF_vars(MainPops) /\ WF_vars(MainResets) /\ SF_vars(MainGetsChunk)
    /\ WF_vars(MainUnlocksControl)
    /\ SF_vars(main = "dispatch" /\ MainDispatches)
    /\ WF_vars(MainCleansUp) /\ SF_vars(MainDestroys)
    /\ SF_vars(\E bytes \in 1 .. ChunkSize : WriteCompletes(bytes))

FairSpec == Spec /\ Fairness

------------------------------------------------------------------------------
(***************************************************************************)
(* Safety.                                                                 *)
(***************************************************************************)
Places(queue, c) == {i \in 1 .. Len(queue) : queue[i] = c}
Count(queue, c) == Cardinality(Places(queue, c))
One(b) == IF b THEN 1 ELSE 0

\* There is a DATA command for every message in commands, whatever is pushed
\* between the two queues: get_chunk never returns NULL, which enqueue_chunk
\* would write, and no message is left behind.
CommandsAnnounced ==
    Len(commands) = Count(control_queue, "DATA") + One(main = "getting") + One(io = "sending")

\* The one overlapped structure is in use exactly while there is something to
\* write: enqueue_chunk and write_completion start the writes between them.
OneOverlapped == ~EventClosed => Len(writes) = One(message_queue # <<>>)

\* Chunks are whole on the wire, never torn or mixed, however the port splits
\* the writes.
WireIntact ==
    \A i \in 1 .. Len(wire) :
        IF wire[i].byte = 1 THEN i > 1 => wire[i - 1].byte = ChunkSize
        ELSE i > 1 /\ wire[i - 1] = [wire[i] EXCEPT !.byte = @ - 1]

\* The numbers of the port forwarder's messages in a queue, in its order, and
\* those messages whose last byte is on the wire.
Forwarded(queue) ==
    LET numbers[i \in 0 .. Len(queue)] ==
            IF i = 0 THEN <<>>
            ELSE IF queue[i].from = "pf" THEN Append(numbers[i - 1], queue[i].n)
            ELSE numbers[i - 1]
    IN  numbers[Len(queue)]
Complete == {i \in 1 .. Len(wire) : wire[i].chunk.from = "pf" /\ wire[i].byte = ChunkSize}

\* The messages of the port forwarder go out once each and in order: the path
\* implements Outbox.
Box == INSTANCE Outbox WITH
          queued <- Forwarded(message_queue) \o [i \in 1 .. Len(commands) |-> commands[i].n],
          written <- Cardinality(Complete)
ImplementsOutbox == Box!Spec

(***************************************************************************)
(* Liveness.                                                               *)
(***************************************************************************)
\* A stopping agent gets out of its destructors, unless the two threads hold
\* each other up: nothing else keeps the port forwarder's thread from ending.
StopFinishes == ~running ~> main = "done" \/ Deadlocked

\* A message of the port forwarder that has left send() reaches the port while
\* the agent runs, unless the two threads hold each other up.
SendsGoOut ==
    \A n \in 1 .. MaxSends :
        sends >= n ~> Cardinality(Complete) >= n \/ ~running \/ Deadlocked

------------------------------------------------------------------------------
(***************************************************************************)
(* What the code says of itself and does not do.                           *)
(***************************************************************************)
\* send() logs that it is "Sending command" (line 202): the message should
\* reach the port while the agent runs.  The main thread may have popped the
\* DATA command of an earlier message, and wait for the mutex of commands that
\* the sender keeps while it waits for _control_mutex.
SentIsDelivered ==
    \A n \in 1 .. MaxSends : sends >= n ~> Cardinality(Complete) >= n \/ ~running

==============================================================================
