---------------------------- MODULE SendPathProofs ----------------------------
(***************************************************************************)
(* TypeOK, CommandsAnnounced, OneOverlapped and WireIntact of SendPath, and*)
(* that it implements Outbox, for any size of chunks and any number of     *)
(* messages and commands.                                                  *)
(***************************************************************************)
EXTENDS SendPath, SequenceTheorems, FiniteSetTheorems, WellFoundedInduction, TLAPS

\* The write under way is for what is left of the front chunk.
Describes ==
    \A i \in 1 .. Len(writes) :
        writes[i] = Requested(Head(message_queue), write_pos, ChunkSize - write_pos)

\* The last byte on the wire is where write_pos says.
Ending ==
    /\ message_queue = <<>> => write_pos = 0
    /\ write_pos = 0 => wire = <<>> \/ wire[Len(wire)].byte = ChunkSize
    /\ write_pos > 0 => /\ wire # <<>>
                        /\ wire[Len(wire)] = [chunk |-> Head(message_queue), byte |-> write_pos]

\* What enqueue_chunk and write_completion keep between them.
PortInv ==
    /\ OneOverlapped
    /\ EventClosed => writes = <<>>
    /\ Describes
    /\ Ending
    /\ WireIntact

\* The inductive invariant.
SendInv == TypeOK /\ PortInv /\ CommandsAnnounced

------------------------------------------------------------------------------
(***************************************************************************)
(* Counting in a queue.                                                    *)
(***************************************************************************)
LEMMA ControlNames ==
    /\ \A c \in {"DATA", "RESET", "CLIPBOARD", "STOP", "DESKTOP_SWITCH"} : c \in Controls
    /\ "RESET" # "DATA" /\ "CLIPBOARD" # "DATA" /\ "STOP" # "DATA" /\ "DESKTOP_SWITCH" # "DATA"
BY DEF Controls

LEMMA CountType ==
    ASSUME NEW S, NEW queue \in Seq(S), NEW c
    PROVE  IsFiniteSet(Places(queue, c)) /\ Count(queue, c) \in Nat
<1>1. Len(queue) \in Nat
  BY LenProperties
<1>2. IsFiniteSet(1 .. Len(queue))
  BY <1>1, FS_Interval
<1>3. Places(queue, c) \in SUBSET (1 .. Len(queue))
  BY DEF Places
<1>4. IsFiniteSet(Places(queue, c))
  BY <1>2, <1>3, FS_Subset
<1> QED
  BY <1>4, FS_CardinalityType DEF Count

LEMMA CountAppend ==
    ASSUME NEW S, NEW queue \in Seq(S), NEW e \in S, NEW c
    PROVE  Count(Append(queue, e), c) = Count(queue, c) + One(e = c)
<1> DEFINE n == Len(queue) + 1
           new == Append(queue, e)
<1>1. /\ Len(queue) \in Nat /\ Len(new) = n
      /\ \A i \in 1 .. Len(queue) : new[i] = queue[i]
      /\ new[n] = e
  BY AppendProperties, LenProperties
<1> HIDE DEF new
<1>2. 1 .. n = (1 .. Len(queue)) \cup {n} /\ n \notin 1 .. Len(queue)
  BY <1>1
<1>3. IsFiniteSet(Places(queue, c)) /\ Count(queue, c) \in Nat
  BY CountType
<1>4. CASE e = c
  <2>1. Places(new, c) = Places(queue, c) \cup {n}
    BY <1>1, <1>2, <1>4 DEF Places
  <2>2. n \notin Places(queue, c)
    BY <1>2 DEF Places
  <2>3. Cardinality(Places(new, c)) = Cardinality(Places(queue, c)) + 1
    BY <1>3, <2>1, <2>2, FS_AddElement
  <2> QED
    BY <1>4, <2>3 DEF Count, One, new
<1>5. CASE e # c
  <2>1. Places(new, c) = Places(queue, c)
    BY <1>1, <1>2, <1>5 DEF Places
  <2> QED
    BY <1>3, <1>5, <2>1 DEF Count, One, new
<1> QED
  BY <1>4, <1>5

LEMMA CountTail ==
    ASSUME NEW S, NEW queue \in Seq(S), queue # <<>>, NEW c
    PROVE  Count(queue, c) = Count(Tail(queue), c) + One(Head(queue) = c)
<1> DEFINE rest == Tail(queue)
           A == Places(rest, c)
           B == Places(queue, c) \ {1}
           f == [i \in A |-> i + 1]
<1>1. /\ rest \in Seq(S) /\ Len(rest) = Len(queue) - 1 /\ Head(queue) = queue[1]
      /\ \A i \in 1 .. Len(rest) : rest[i] = queue[i + 1]
      /\ Len(queue) \in Nat /\ Len(queue) > 0
  BY HeadTailProperties, LenProperties, EmptySeq
<1>2. /\ IsFiniteSet(A) /\ Count(rest, c) \in Nat
      /\ IsFiniteSet(Places(queue, c)) /\ Count(queue, c) \in Nat
  BY <1>1, CountType
<1> HIDE DEF rest
<1>3. /\ \A i \in A : i \in Nat /\ i + 1 \in B
      /\ \A k \in B : k \in Nat /\ k - 1 \in A /\ (k - 1) + 1 = k
  BY <1>1 DEF Places
<1>4. f \in Bijection(A, B)
  <2>1. f \in [A -> B]
    BY <1>3
  <2>2. \A i, k \in A : f[i] = f[k] => i = k
    BY <1>3
  <2>3. \A k \in B : \E i \in A : f[i] = k
    BY <1>3
  <2> QED
    BY <2>1, <2>2, <2>3 DEF Bijection, Injection, Surjection, IsInjective
<1>5. Cardinality(B) = Cardinality(A)
  BY <1>2, <1>4, FS_Bijection DEF ExistsBijection
<1>6. Cardinality(B) = IF 1 \in Places(queue, c) THEN Cardinality(Places(queue, c)) - 1
                       ELSE Cardinality(Places(queue, c))
  BY <1>2, FS_RemoveElement
<1>7. 1 \in Places(queue, c) <=> Head(queue) = c
  BY <1>1 DEF Places
<1> HIDE DEF A, B, f
<1>8. Count(rest, c) = Cardinality(A) /\ Count(queue, c) = Cardinality(Places(queue, c))
  BY DEF Count, A
<1> QED
  BY <1>2, <1>5, <1>6, <1>7, <1>8 DEF One, rest

------------------------------------------------------------------------------
(***************************************************************************)
(* What a step may do to the queues.                                       *)
(***************************************************************************)
\* set_control_event pushes one command.
LEMMA ControlSet ==
    ASSUME TypeOK, NEW c \in Controls, SetControl(c)
    PROVE  /\ control_queue' \in Seq(Controls) /\ control_event' \in BOOLEAN
           /\ Count(control_queue, "DATA")' = Count(control_queue, "DATA") + One(c = "DATA")
<1>1. control_queue \in Seq(Controls) /\ control_queue' = Append(control_queue, c)
  BY DEF TypeOK, SetControl
<1>2. Count(Append(control_queue, c), "DATA") = Count(control_queue, "DATA") + One(c = "DATA")
  BY <1>1, CountAppend
<1>3. Append(control_queue, c) \in Seq(Controls)
  BY <1>1, AppendProperties
<1> QED
  BY <1>1, <1>2, <1>3 DEF SetControl, EventClosed

\* handle_control_event pops one.
LEMMA ControlPopped ==
    ASSUME TypeOK, control_queue # <<>>
    PROVE  /\ Tail(control_queue) \in Seq(Controls)
           /\ Head(control_queue) \in Controls
           /\ Count(control_queue, "DATA")
                = Count(Tail(control_queue), "DATA") + One(Head(control_queue) = "DATA")
           /\ Count(Tail(control_queue), "DATA") \in Nat
<1>1. control_queue \in Seq(Controls)
  BY DEF TypeOK
<1>2. Tail(control_queue) \in Seq(Controls) /\ Head(control_queue) \in Controls
  BY <1>1, HeadTailProperties
<1> QED
  BY <1>1, <1>2, CountTail, CountType

\* A step that leaves the port alone.
LEMMA PortKept ==
    ASSUME PortInv, UNCHANGED port, EventClosed' => EventClosed, EventClosed => EventClosed'
    PROVE  PortInv'
BY DEF PortInv, OneOverlapped, Describes, Ending, WireIntact, port, EventClosed

\* enqueue_chunk.
LEMMA Enqueued ==
    ASSUME TypeOK, PortInv, ~EventClosed, ~EventClosed', NEW chunk \in Chunks, Enqueue(chunk)
    PROVE  /\ PortInv'
           /\ message_queue' \in Seq(Chunks)
           /\ writes' \in Seq([chunk : Chunks, pos : Nat, count : 1 .. ChunkSize])
           /\ UNCHANGED <<write_pos, wire>>
<1> DEFINE Writes == [chunk : Chunks, pos : Nat, count : 1 .. ChunkSize]
           queue == Append(message_queue, chunk)
           w == Requested(Head(queue), write_pos, ChunkSize - write_pos)
<1>1. /\ message_queue' = queue
      /\ writes' = IF Len(queue) = 1 THEN Append(writes, w) ELSE writes
      /\ UNCHANGED <<write_pos, wire>>
  BY DEF Enqueue, StartsWrite
<1>2. /\ message_queue \in Seq(Chunks) /\ writes \in Seq(Writes)
      /\ write_pos \in 0 .. ChunkSize - 1
      /\ Len(writes) \in Nat
  BY LenProperties DEF TypeOK
<1>3. /\ queue \in Seq(Chunks) /\ queue # <<>> /\ Head(queue) \in Chunks
      /\ Len(queue) = Len(message_queue) + 1
      /\ Len(message_queue) \in Nat
      /\ message_queue # <<>> => Head(queue) = Head(message_queue) /\ Len(message_queue) > 0
      /\ message_queue = <<>> => Len(message_queue) = 0
  <2>1. Len(message_queue) \in Nat /\ (message_queue = <<>> => Len(message_queue) = 0)
        /\ (message_queue # <<>> => Len(message_queue) > 0)
    BY <1>2, LenProperties, EmptySeq
  <2>2. queue \in Seq(Chunks) /\ queue # <<>> /\ Len(queue) = Len(message_queue) + 1
    BY <1>2, <2>1, AppendProperties, EmptySeq
  <2>3. Head(queue) \in Chunks /\ Head(queue) = queue[1]
    BY <2>2
  <2>4. message_queue # <<>> => queue[1] = message_queue[1] /\ Head(message_queue) = message_queue[1]
    BY <1>2, <2>1, AppendProperties
  <2> QED
    BY <2>1, <2>2, <2>3, <2>4
<1>4. w \in Writes
  BY <1>2, <1>3, SizesAssumption DEF Requested
<1> HIDE DEF queue, w, Writes
<1>5. writes' \in Seq(Writes)
  BY <1>1, <1>2, <1>4, AppendProperties
<1>6. Len(writes) = One(message_queue # <<>>)
  BY DEF PortInv, OneOverlapped
<1>7. CASE message_queue = <<>>
  <2>1. Len(writes) = 0 /\ Len(queue) = 1
    BY <1>3, <1>6, <1>7 DEF One
  <2>2. writes' = Append(writes, w)
    BY <1>1, <2>1
  <2>3. Len(writes') = 1 /\ writes'[1] = w
    BY <1>2, <1>4, <2>1, <2>2, AppendProperties
  <2>4. OneOverlapped' /\ Describes'
    BY <1>1, <1>3, <2>3 DEF OneOverlapped, One, Describes, w
  <2>5. Ending' /\ WireIntact'
    BY <1>1, <1>3, <1>7 DEF PortInv, Ending, WireIntact
  <2> QED
    BY <1>1, <1>3, <1>5, <2>4, <2>5 DEF PortInv, Writes
<1>8. CASE message_queue # <<>>
  <2>1. writes' = writes /\ Len(writes) = 1
    BY <1>1, <1>3, <1>6, <1>8 DEF One
  <2>2. OneOverlapped' /\ Describes'
    BY <1>1, <1>3, <1>8, <2>1 DEF OneOverlapped, One, Describes, PortInv
  <2>3. Ending' /\ WireIntact'
    BY <1>1, <1>3, <1>8 DEF PortInv, Ending, WireIntact
  <2> QED
    BY <1>1, <1>3, <1>5, <2>2, <2>3 DEF PortInv, Writes
<1> QED
  BY <1>7, <1>8

------------------------------------------------------------------------------
(***************************************************************************)
(* write_completion: the port has taken some more of the front chunk.      *)
(***************************************************************************)
\* The bytes of a chunk, one after the other.
Taking(chunk, pos, bytes) == [i \in 1 .. bytes |-> [chunk |-> chunk, byte |-> pos + i]]

LEMMA BackOne ==
    ASSUME NEW chunk, NEW m, NEW n, NEW b, b = [chunk |-> chunk, byte |-> m], m - 1 = n
    PROVE  b.byte = m /\ [b EXCEPT !.byte = @ - 1] = [chunk |-> chunk, byte |-> n]
OBVIOUS

\* They continue the wire where write_pos says.
LEMMA WireGrows ==
    ASSUME TypeOK, PortInv, message_queue # <<>>, NEW bytes \in 1 .. ChunkSize,
           write_pos + bytes <= ChunkSize,
           wire' = wire \o Taking(Head(message_queue), write_pos, bytes)
    PROVE  /\ wire' \in Seq([chunk : Chunks, byte : 1 .. ChunkSize])
           /\ WireIntact'
           /\ wire' # <<>>
           /\ wire'[Len(wire')] = [chunk |-> Head(message_queue), byte |-> write_pos + bytes]
<1> DEFINE Bytes == [chunk : Chunks, byte : 1 .. ChunkSize]
           front == Head(message_queue)
           t == Taking(front, write_pos, bytes)
<1>1. /\ wire \in Seq(Bytes) /\ Len(wire) \in Nat /\ front \in Chunks
      /\ write_pos \in Nat /\ bytes \in Nat /\ bytes > 0 /\ ChunkSize \in Nat
      /\ write_pos + bytes <= ChunkSize
  BY SizesAssumption, LenProperties, HeadTailProperties DEF TypeOK
<1> HIDE DEF Bytes, front
<1>2. /\ t \in Seq(Bytes) /\ Len(t) = bytes
      /\ \A i \in 1 .. bytes : t[i] = [chunk |-> front, byte |-> write_pos + i]
  <2>1. \A i \in 1 .. bytes : write_pos + i \in 1 .. ChunkSize
    BY <1>1
  <2>2. \A i \in 1 .. bytes : [chunk |-> front, byte |-> write_pos + i] \in Bytes
    BY <1>1, <2>1 DEF Bytes
  <2>3. /\ t \in [1 .. bytes -> Bytes]
        /\ \A i \in 1 .. bytes : t[i] = [chunk |-> front, byte |-> write_pos + i]
    BY <2>2 DEF Taking
  <2> HIDE DEF t
  <2>4. t \in Seq(Bytes) /\ Len(t) = bytes
    BY <1>1, <2>3
  <2> QED
    BY <2>3, <2>4
<1> HIDE DEF t
<1>3. /\ wire' \in Seq(Bytes) /\ Len(wire') = Len(wire) + bytes
      /\ \A i \in 1 .. Len(wire) + bytes :
            wire'[i] = IF i <= Len(wire) THEN wire[i] ELSE t[i - Len(wire)]
  <2>1. wire' = wire \o t
    BY DEF t, front
  <2>2. wire \in Seq(Bytes) /\ t \in Seq(Bytes)
    BY <1>1, <1>2
  <2>3. /\ wire \o t \in Seq(Bytes)
        /\ Len(wire \o t) = Len(wire) + Len(t)
        /\ \A i \in 1 .. Len(wire) + Len(t) :
              (wire \o t)[i] = IF i <= Len(wire) THEN wire[i] ELSE t[i - Len(wire)]
    BY <2>2, ConcatProperties, Zenon
  <2>4. Len(t) = bytes
    BY <1>2
  <2> QED
    BY <2>1, <2>3, <2>4, Zenon
<1>4. \A i \in 1 .. Len(wire) : wire'[i] = wire[i]
  BY <1>1, <1>3
<1>5. \A i \in 1 .. bytes :
        wire'[Len(wire) + i] = [chunk |-> front, byte |-> write_pos + i]
  <2> SUFFICES ASSUME NEW i \in 1 .. bytes
               PROVE  wire'[Len(wire) + i] = [chunk |-> front, byte |-> write_pos + i]
    OBVIOUS
  <2>1. /\ Len(wire) + i \in 1 .. Len(wire) + bytes
        /\ ~(Len(wire) + i <= Len(wire))
        /\ (Len(wire) + i) - Len(wire) = i
    BY <1>1
  <2> QED
    BY <1>2, <1>3, <2>1
<1>6. wire' # <<>> /\ wire'[Len(wire')] = [chunk |-> front, byte |-> write_pos + bytes]
  <2>1. Len(wire') > 0
    BY <1>1, <1>3
  <2>2. bytes \in 1 .. bytes
    BY <1>1
  <2> QED
    BY <1>1, <1>3, <1>5, <2>1, <2>2
<1>7. ASSUME NEW k \in 1 .. Len(wire')
      PROVE  IF wire'[k].byte = 1 THEN k > 1 => wire'[k - 1].byte = ChunkSize
             ELSE k > 1 /\ wire'[k - 1] = [wire'[k] EXCEPT !.byte = @ - 1]
  <2>1. CASE k <= Len(wire)
    <3>1. k \in 1 .. Len(wire) /\ (k > 1 => k - 1 \in 1 .. Len(wire))
      BY <1>1, <1>7, <2>1
    <3>2. wire'[k] = wire[k] /\ (k > 1 => wire'[k - 1] = wire[k - 1])
      BY <1>4, <3>1
    <3>3. IF wire[k].byte = 1 THEN k > 1 => wire[k - 1].byte = ChunkSize
          ELSE k > 1 /\ wire[k - 1] = [wire[k] EXCEPT !.byte = @ - 1]
      BY <3>1 DEF PortInv, WireIntact
    <3> QED
      BY <3>2, <3>3
  <2>2. CASE k = Len(wire) + 1
    <3>1. wire'[k] = [chunk |-> front, byte |-> write_pos + 1]
      BY <1>1, <1>5, <2>2
    <3>2. CASE write_pos = 0
      <4>1. k > 1 => wire # <<>> /\ Len(wire) \in 1 .. Len(wire) /\ k - 1 = Len(wire)
        BY <1>1, <2>2
      <4>2. k > 1 => wire'[k - 1].byte = ChunkSize
        BY <1>4, <3>2, <4>1 DEF PortInv, Ending
      <4> QED
        BY <3>1, <3>2, <4>2
    <3>3. CASE write_pos > 0
      <4>1. wire # <<>> /\ wire[Len(wire)] = [chunk |-> front, byte |-> write_pos]
        BY <3>3 DEF PortInv, Ending, front
      <4>2. Len(wire) > 0
        BY <1>1, <4>1, EmptySeq
      <4>3. k > 1 /\ k - 1 = Len(wire) /\ Len(wire) \in 1 .. Len(wire)
        BY <1>1, <2>2, <4>2
      <4>4. wire'[k - 1] = [chunk |-> front, byte |-> write_pos]
        BY <1>4, <4>1, <4>3
      <4>5. write_pos + 1 # 1 /\ (write_pos + 1) - 1 = write_pos
        BY <1>1, <3>3
      <4>6. /\ wire'[k].byte = write_pos + 1
            /\ [wire'[k] EXCEPT !.byte = @ - 1] = [chunk |-> front, byte |-> write_pos]
        BY <3>1, <4>5, BackOne
      <4> QED
        BY <4>3, <4>4, <4>5, <4>6, Zenon
    <3>4. write_pos = 0 \/ write_pos > 0
      BY <1>1
    <3> QED
      BY <3>2, <3>3, <3>4, Zenon
  <2>3. CASE k > Len(wire) + 1
    <3> DEFINE i == k - Len(wire)
    <3>1. /\ i \in 1 .. bytes /\ i - 1 \in 1 .. bytes
          /\ k = Len(wire) + i /\ k - 1 = Len(wire) + (i - 1)
          /\ write_pos + i # 1 /\ (write_pos + i) - 1 = write_pos + (i - 1) /\ k > 1
      BY <1>1, <1>3, <1>7, <2>3
    <3>2. /\ wire'[k] = [chunk |-> front, byte |-> write_pos + i]
          /\ wire'[k - 1] = [chunk |-> front, byte |-> write_pos + (i - 1)]
      BY <1>5, <3>1
    <3> HIDE DEF i
    <3>3. (write_pos + i) - 1 = write_pos + (i - 1) /\ write_pos + i # 1 /\ k > 1
      BY <3>1
    <3>4. /\ wire'[k].byte = write_pos + i
          /\ [wire'[k] EXCEPT !.byte = @ - 1] = [chunk |-> front, byte |-> write_pos + (i - 1)]
      BY <3>2, <3>3, BackOne
    <3> QED
      BY <3>2, <3>3, <3>4, Zenon
  <2>4. k \in Nat
    BY <1>1, <1>3
  <2>5. k <= Len(wire) \/ k = Len(wire) + 1 \/ k > Len(wire) + 1
    BY <1>1, <2>4
  <2> QED
    BY <2>1, <2>2, <2>3, <2>5
<1> QED
  BY <1>3, <1>6, <1>7 DEF WireIntact, Bytes, front

\* The write that has completed is replaced.
LEMMA OnlyOne ==
    ASSUME NEW S, NEW s \in Seq(S), Len(s) = 1, NEW e \in S
    PROVE  /\ Tail(s) \in Seq(S) /\ Len(Tail(s)) = 0
           /\ Append(Tail(s), e) \in Seq(S) /\ Len(Append(Tail(s), e)) = 1
           /\ Append(Tail(s), e)[1] = e
<1>1. s # <<>>
  BY EmptySeq
<1>2. Tail(s) \in Seq(S) /\ Len(Tail(s)) = 0
  BY <1>1, HeadTailProperties
<1> DEFINE t == Tail(s)
<1> HIDE DEF t
<1>3. t \in Seq(S) /\ Len(t) = 0
  BY <1>2 DEF t
<1>4. Append(t, e) \in Seq(S) /\ Len(Append(t, e)) = 1 /\ Append(t, e)[1] = e
  BY <1>3, AppendProperties
<1> QED
  BY <1>3, <1>4 DEF t

LEMMA Second ==
    ASSUME NEW S, NEW s \in Seq(S), s # <<>>, Tail(s) # <<>>
    PROVE  s[2] = Head(Tail(s)) /\ s[2] \in S
<1>1. /\ Tail(s) \in Seq(S) /\ Len(Tail(s)) = Len(s) - 1 /\ Len(s) \in Nat
      /\ \A i \in 1 .. Len(Tail(s)) : Tail(s)[i] = s[i + 1]
  BY HeadTailProperties, LenProperties
<1> DEFINE t == Tail(s)
<1> HIDE DEF t
<1>2. /\ t \in Seq(S) /\ t # <<>> /\ Len(t) \in Nat
      /\ \A i \in 1 .. Len(t) : t[i] = s[i + 1]
  BY <1>1, LenProperties DEF t
<1>3. Len(t) > 0
  BY <1>2, EmptySeq
<1>4. 1 \in 1 .. Len(t) /\ 1 + 1 = 2
  BY <1>2, <1>3
<1>5. t[1] = s[2]
  BY <1>2, <1>4
<1>6. Head(t) = t[1] /\ Head(t) \in S
  BY <1>2, <1>3
<1> QED
  BY <1>5, <1>6 DEF t

\* The completed write is of the front chunk, from where write_pos is.
LEMMA FrontTaken ==
    ASSUME TypeOK, PortInv, NEW bytes \in 1 .. ChunkSize, WriteCompletes(bytes)
    PROVE  /\ message_queue # <<>> /\ Len(writes) = 1 /\ ~EventClosed'
           /\ Head(message_queue) \in Chunks /\ Tail(message_queue) \in Seq(Chunks)
           /\ write_pos + bytes <= ChunkSize
           /\ wire' = wire \o Taking(Head(message_queue), write_pos, bytes)
<1> DEFINE Writes == [chunk : Chunks, pos : Nat, count : 1 .. ChunkSize]
           w == Head(writes)
           front == Head(message_queue)
           rest == Tail(message_queue)
           pos == write_pos + bytes
<1>1. /\ message_queue \in Seq(Chunks) /\ writes \in Seq(Writes)
      /\ write_pos \in Nat /\ bytes \in Nat /\ bytes > 0 /\ ChunkSize \in Nat /\ ChunkSize > 0
      /\ writes # <<>> /\ bytes <= w.count /\ ~EventClosed /\ ~EventClosed'
  BY SizesAssumption DEF TypeOK, WriteCompletes, EventClosed
<1>2. message_queue # <<>> /\ Len(writes) = 1
  <2>1. Len(writes) \in Nat \ {0}
    BY <1>1, EmptySeq
  <2> QED
    BY <1>1, <2>1 DEF PortInv, OneOverlapped, One
<1>3. w = Requested(front, write_pos, ChunkSize - write_pos)
  <2>1. w = writes[1] /\ 1 \in 1 .. Len(writes)
    BY <1>1, <1>2
  <2> QED
    BY <2>1 DEF PortInv, Describes
<1>4. /\ w.chunk = front /\ w.pos = write_pos /\ w.count = ChunkSize - write_pos
      /\ pos <= ChunkSize /\ pos \in Nat /\ pos > 0
  BY <1>1, <1>3 DEF Requested
<1>5. front \in Chunks /\ rest \in Seq(Chunks)
  BY <1>1, <1>2, HeadTailProperties
<1>6. wire' = wire \o Taking(front, write_pos, bytes)
  <2>1. wire' = wire \o [i \in 1 .. bytes |-> [chunk |-> w.chunk, byte |-> w.pos + i]]
    BY DEF WriteCompletes
  <2>2. w.chunk = front /\ w.pos = write_pos
    BY <1>4
  <2> HIDE DEF w, front
  <2> QED
    BY <2>1, <2>2 DEF Taking
<1> QED
  BY <1>1, <1>2, <1>4, <1>5, <1>6

LEMMA Completed ==
    ASSUME TypeOK, PortInv, NEW bytes \in 1 .. ChunkSize, WriteCompletes(bytes)
    PROVE  /\ PortInv'
           /\ message_queue' \in Seq(Chunks) /\ write_pos' \in 0 .. ChunkSize - 1
           /\ writes' \in Seq([chunk : Chunks, pos : Nat, count : 1 .. ChunkSize])
           /\ wire' \in Seq([chunk : Chunks, byte : 1 .. ChunkSize])
<1> DEFINE Writes == [chunk : Chunks, pos : Nat, count : 1 .. ChunkSize]
           w == Head(writes)
           front == Head(message_queue)
           rest == Tail(message_queue)
           pos == write_pos + bytes
<1>1. /\ message_queue \in Seq(Chunks) /\ writes \in Seq(Writes)
      /\ write_pos \in Nat /\ bytes \in Nat /\ bytes > 0 /\ ChunkSize \in Nat /\ ChunkSize > 0
      /\ writes # <<>> /\ ~EventClosed'
  BY SizesAssumption DEF TypeOK, WriteCompletes, EventClosed
<1>2. message_queue # <<>> /\ Len(writes) = 1
  BY FrontTaken
<1>4. pos <= ChunkSize /\ pos \in Nat /\ pos > 0
  BY <1>1, FrontTaken
<1>5. front \in Chunks /\ rest \in Seq(Chunks)
  BY FrontTaken
<1>6. wire' = wire \o Taking(front, write_pos, bytes)
  BY FrontTaken
<1>7. /\ wire' \in Seq([chunk : Chunks, byte : 1 .. ChunkSize])
      /\ WireIntact' /\ wire' # <<>>
      /\ wire'[Len(wire')] = [chunk |-> front, byte |-> pos]
  BY <1>2, <1>4, <1>6, WireGrows
<1>8. CASE pos = ChunkSize
  <2> DEFINE r == Requested(message_queue[2], 0, ChunkSize)
  <2>1. /\ message_queue' = rest /\ write_pos' = 0
        /\ writes' = IF rest = <<>> THEN Tail(writes) ELSE Append(Tail(writes), r)
    <3>1. ~(pos < ChunkSize)
      BY <1>1, <1>8
    <3> HIDE DEF pos, Writes
    <3>2. /\ message_queue' = rest /\ write_pos' = PosAfterPop(pos)
          /\ writes' = IF rest = <<>> THEN Tail(writes)
                       ELSE Append(Tail(writes), Requested(message_queue[2], write_pos', ChunkSize))
      BY <3>1, Zenon DEF WriteCompletes, pos
    <3>3. write_pos' = 0
      BY <3>2 DEF PosAfterPop
    <3> QED
      BY <3>2, <3>3
  <2>2. rest # <<>> => message_queue[2] = Head(rest) /\ r \in Writes
    <3>1. rest # <<>> => message_queue[2] = Head(rest) /\ message_queue[2] \in Chunks
      BY <1>1, <1>2, Second
    <3> QED
      BY <1>1, <3>1 DEF Requested
  <2> HIDE DEF r, Writes
  <2>3. /\ writes' \in Seq(Writes)
        /\ rest = <<>> => Len(writes') = 0
        /\ rest # <<>> => Len(writes') = 1 /\ writes'[1] = r
    <3>1. CASE rest = <<>>
      <4>1. w \in Writes
        BY <1>1, HeadTailProperties
      <4>2. writes' = Tail(writes)
        BY <2>1, <3>1
      <4>3. Tail(writes) \in Seq(Writes) /\ Len(Tail(writes)) = 0
        BY <1>1, <1>2, <4>1, OnlyOne
      <4> QED
        BY <3>1, <4>2, <4>3
    <3>2. CASE rest # <<>>
      <4>1. writes' = Append(Tail(writes), r) /\ r \in Writes
        BY <2>1, <2>2, <3>2
      <4> HIDE DEF rest
      <4> QED
        BY <1>1, <1>2, <3>2, <4>1, OnlyOne
    <3> QED
      BY <3>1, <3>2
  <2> HIDE DEF rest
  <2>4. OneOverlapped'
    BY <2>1, <2>3 DEF OneOverlapped, One
  <2>5. Describes'
    <3>1. rest # <<>> => r = Requested(Head(rest), 0, ChunkSize - 0)
      BY <1>1, <2>2 DEF r
    <3>2. \A i \in 1 .. Len(writes') : rest # <<>> /\ i = 1
      <4> DEFINE l == Len(writes')
      <4>1. l \in 0 .. 1 /\ (rest = <<>> => l = 0)
        BY <2>3
      <4> HIDE DEF l
      <4>2. \A i \in 1 .. l : l # 0 /\ i = 1
        BY <4>1
      <4> QED
        BY <4>1, <4>2, Zenon DEF l
    <3>3. \A i \in 1 .. Len(writes') : writes'[i] = r /\ r = Requested(Head(rest), 0, ChunkSize - 0)
      BY <2>3, <3>1, <3>2
    <3>4. Requested(Head(message_queue'), write_pos', ChunkSize - write_pos')
            = Requested(Head(rest), 0, ChunkSize - 0)
      BY <2>1
    <3> QED
      BY <3>3, <3>4, Zenon DEF Describes
  <2>6. Ending'
    BY <1>7, <1>8, <2>1 DEF Ending
  <2>7. message_queue' \in Seq(Chunks) /\ write_pos' \in 0 .. ChunkSize - 1
    BY <1>1, <1>5, <2>1
  <2>8. PortInv'
    BY <1>1, <1>7, <2>4, <2>5, <2>6 DEF PortInv
  <2> QED
    BY <1>7, <2>3, <2>7, <2>8 DEF Writes
<1>9. CASE pos < ChunkSize
  <2> DEFINE r == Requested(front, pos, ChunkSize - pos)
  <2>1. /\ message_queue' = message_queue /\ write_pos' = pos
        /\ writes' = Append(Tail(writes), r)
    BY <1>4, <1>9 DEF WriteCompletes
  <2>2. r \in Writes
    BY <1>1, <1>4, <1>5, <1>9 DEF Requested
  <2> HIDE DEF r, Writes, front
  <2>3. writes' \in Seq(Writes) /\ Len(writes') = 1 /\ writes'[1] = r
    BY <1>1, <1>2, <2>1, <2>2, OnlyOne
  <2>4. OneOverlapped'
    BY <1>2, <2>1, <2>3 DEF OneOverlapped, One
  <2>5. Describes'
    <3>1. \A i \in 1 .. Len(writes') : i = 1
      BY <2>3
    <3> QED
      BY <2>1, <2>3, <3>1 DEF Describes, r, front
  <2>6. Ending'
    BY <1>2, <1>4, <1>7, <2>1 DEF Ending, front
  <2>7. message_queue' \in Seq(Chunks) /\ write_pos' \in 0 .. ChunkSize - 1
    BY <1>1, <1>4, <1>9, <2>1
  <2>8. PortInv'
    BY <1>1, <1>7, <2>4, <2>5, <2>6 DEF PortInv
  <2> QED
    BY <1>7, <2>3, <2>7, <2>8 DEF Writes
<1>10. pos = ChunkSize \/ pos < ChunkSize
  BY <1>1, <1>4
<1> QED
  BY <1>8, <1>9, <1>10

------------------------------------------------------------------------------
(***************************************************************************)
(* The inductive step.                                                     *)
(***************************************************************************)
LEMMA InitSend == Init => SendInv
<1> SUFFICES ASSUME Init PROVE SendInv
  OBVIOUS
<1>1. TypeOK
  <2>1. /\ <<>> \in Seq(Chunks) /\ <<>> \in Seq(Controls)
        /\ <<>> \in Seq([chunk : Chunks, pos : Nat, count : 1 .. ChunkSize])
        /\ <<>> \in Seq([chunk : Chunks, byte : 1 .. ChunkSize])
    BY EmptySeq
  <2>2. 0 \in 0 .. ChunkSize - 1 /\ 0 \in 0 .. MaxSends /\ 0 \in 0 .. MaxOwn
    BY SizesAssumption
  <2> QED
    BY <2>1, <2>2 DEF Init, TypeOK
<1>2. PortInv
  BY DEF Init, PortInv, OneOverlapped, One, EventClosed, Describes, Ending, WireIntact
<1>3. Places(control_queue, "DATA") = {}
  BY DEF Init, Places
<1>4. Count(control_queue, "DATA") = 0
  BY <1>3, FS_EmptySet DEF Count
<1>5. CommandsAnnounced
  BY <1>4 DEF Init, CommandsAnnounced, One
<1> QED
  BY <1>1, <1>2, <1>5 DEF SendInv

\* A step that leaves both queues alone, and no thread between them.
LEMMA AnnouncedKept ==
    ASSUME CommandsAnnounced, UNCHANGED <<commands, control_queue>>,
           main' = "getting" <=> main = "getting", io' = "sending" <=> io = "sending"
    PROVE  CommandsAnnounced'
<1>1. Count(control_queue, "DATA")' = Count(control_queue, "DATA")
  BY DEF Count, Places
<1> QED
  BY <1>1 DEF CommandsAnnounced, One

\* The sums of CommandsAnnounced are of natural numbers.
LEMMA AnnouncedType ==
    ASSUME TypeOK
    PROVE  Len(commands) \in Nat /\ Count(control_queue, "DATA") \in Nat
BY CountType, LenProperties DEF TypeOK

LEMMA IoSendsStep == ASSUME SendInv, IoSends PROVE SendInv'
<1> USE DEF SendInv
<1> DEFINE chunk == [from |-> "pf", n |-> sends']
<1>1. /\ sends' \in 0 .. MaxSends /\ chunk \in Chunks /\ commands \in Seq(Chunks)
      /\ commands' = Append(commands, chunk)
  BY SizesAssumption DEF IoSends, TypeOK, Chunks
<1> HIDE DEF chunk
<1>2. commands' \in Seq(Chunks) /\ Len(commands') = Len(commands) + 1
  BY <1>1, AppendProperties
<1>3. TypeOK'
  BY <1>1, <1>2 DEF TypeOK, IoSends, port
<1>4. PortInv'
  BY PortKept DEF IoSends, EventClosed
<1>5. Count(control_queue, "DATA")' = Count(control_queue, "DATA")
  BY DEF IoSends, Count, Places
<1>6. /\ One(io = "sending") = 0 /\ One(io' = "sending") = 1
      /\ main' = main /\ One(main = "getting") \in Nat
  BY DEF IoSends, One
<1>7. CommandsAnnounced'
  BY <1>2, <1>5, <1>6, AnnouncedType DEF CommandsAnnounced
<1> QED
  BY <1>3, <1>4, <1>7

LEMMA IoPostsStep == ASSUME SendInv, IoPosts PROVE SendInv'
<1> USE DEF SendInv
<1>1. /\ control_queue' \in Seq(Controls) /\ control_event' \in BOOLEAN
      /\ Count(control_queue, "DATA")' = Count(control_queue, "DATA") + 1
  BY ControlSet, ControlNames DEF IoPosts, One
<1>2. TypeOK'
  BY <1>1 DEF TypeOK, IoPosts, port
<1>3. PortInv'
  BY PortKept DEF IoPosts, EventClosed
<1>4. CommandsAnnounced'
  BY <1>1, AnnouncedType DEF IoPosts, CommandsAnnounced, One
<1> QED
  BY <1>2, <1>3, <1>4

\* A command that is not DATA.
LEMMA OthersStep ==
    ASSUME SendInv, NEW c \in {"RESET", "STOP", "DESKTOP_SWITCH"}, SetControl(c),
           UNCHANGED <<running, main, io, has_client, commands, port, sends, own>>,
           event' \in {"loop", "waiting", "stopped"}
    PROVE  SendInv'
<1> USE DEF SendInv
<1>1. /\ control_queue' \in Seq(Controls) /\ control_event' \in BOOLEAN
      /\ Count(control_queue, "DATA")' = Count(control_queue, "DATA") + One(c = "DATA")
  BY ControlSet, ControlNames
<1>2. Count(control_queue, "DATA")' = Count(control_queue, "DATA")
  BY <1>1, AnnouncedType, ControlNames DEF One
<1>3. TypeOK'
  BY <1>1 DEF TypeOK, port
<1>4. PortInv'
  BY PortKept DEF EventClosed
<1>5. CommandsAnnounced'
  BY <1>2 DEF CommandsAnnounced
<1> QED
  BY <1>3, <1>4, <1>5

LEMMA PopsStep == ASSUME SendInv, MainPops PROVE SendInv'
<1> USE DEF SendInv
<1>1. control_queue' = Tail(control_queue) /\ control_queue # <<>>
  BY DEF MainPops, Rest
<1>2. /\ Tail(control_queue) \in Seq(Controls) /\ Count(Tail(control_queue), "DATA") \in Nat
      /\ Count(control_queue, "DATA")
           = Count(Tail(control_queue), "DATA") + One(Head(control_queue) = "DATA")
  BY <1>1, ControlPopped
<1>3. Count(control_queue, "DATA")' = Count(Tail(control_queue), "DATA")
  BY <1>1 DEF Count, Places
<1>4. TypeOK'
  BY <1>1, <1>2 DEF TypeOK, MainPops, port
<1>5. PortInv'
  BY PortKept DEF MainPops, EventClosed
<1>6. /\ main = "control" /\ io' = io /\ commands' = commands
      /\ main' = IF Head(control_queue) = "DATA" THEN "getting" ELSE "control"
  BY DEF MainPops
<1>7. One(main' = "getting") = One(Head(control_queue) = "DATA") /\ One(main = "getting") = 0
  BY <1>6 DEF One
<1>8. One(Head(control_queue) = "DATA") \in Nat
  BY DEF One
<1>9. CommandsAnnounced'
  BY <1>2, <1>3, <1>6, <1>7, <1>8, AnnouncedType DEF CommandsAnnounced
<1> QED
  BY <1>4, <1>5, <1>9

LEMMA ResetsStep == ASSUME SendInv, MainResets PROVE SendInv'
<1> USE DEF SendInv
<1> DEFINE rest == Tail(control_queue)
<1>1. /\ control_queue' = Append(rest, "CLIPBOARD") /\ control_queue # <<>>
      /\ Head(control_queue) = "RESET" /\ "CLIPBOARD" \in Controls
  BY ControlNames DEF MainResets, Rest
<1>2. /\ rest \in Seq(Controls) /\ Count(rest, "DATA") \in Nat
      /\ Count(control_queue, "DATA") = Count(rest, "DATA") + One("RESET" = "DATA")
  BY <1>1, ControlPopped
<1> HIDE DEF rest
<1>3. /\ control_queue' \in Seq(Controls)
      /\ Count(Append(rest, "CLIPBOARD"), "DATA") = Count(rest, "DATA") + One("CLIPBOARD" = "DATA")
  BY <1>1, <1>2, AppendProperties, CountAppend
<1>4. Count(control_queue, "DATA")' = Count(control_queue, "DATA")
  <2>1. Count(control_queue, "DATA")' = Count(Append(rest, "CLIPBOARD"), "DATA")
    BY <1>1 DEF Count, Places
  <2>2. One("CLIPBOARD" = "DATA") = 0 /\ One("RESET" = "DATA") = 0
    BY ControlNames DEF One
  <2> QED
    BY <1>2, <1>3, <2>1, <2>2
<1>5. /\ main = "control" /\ control_event' = TRUE
      /\ UNCHANGED <<running, main, io, event, has_client, commands, sends>>
  BY DEF MainResets
<1>6. CommandsAnnounced'
  BY <1>4, <1>5 DEF CommandsAnnounced
<1>7. CASE UNCHANGED <<port, own>>
  <2>1. PortInv'
    BY <1>5, <1>7, PortKept DEF EventClosed
  <2>2. TypeOK'
    BY <1>3, <1>5, <1>7 DEF TypeOK, port
  <2> QED
    BY <1>6, <2>1, <2>2
<1>8. CASE own < MaxOwn /\ own' = own + 1 /\ Enqueue([from |-> "main", n |-> own'])
  <2>1. own' \in 0 .. MaxOwn /\ [from |-> "main", n |-> own'] \in Chunks
    BY <1>8, SizesAssumption DEF TypeOK, Chunks
  <2>2. /\ PortInv' /\ message_queue' \in Seq(Chunks)
        /\ writes' \in Seq([chunk : Chunks, pos : Nat, count : 1 .. ChunkSize])
        /\ UNCHANGED <<write_pos, wire>>
    BY <1>5, <1>8, <2>1, Enqueued DEF EventClosed
  <2>3. TypeOK'
    BY <1>3, <1>5, <2>1, <2>2 DEF TypeOK
  <2> QED
    BY <1>6, <2>2, <2>3
<1> QED
  BY <1>7, <1>8 DEF MainResets

LEMMA GetsStep == ASSUME SendInv, MainGetsChunk PROVE SendInv'
<1> USE DEF SendInv
<1>1. /\ commands \in Seq(Chunks) /\ commands # <<>> /\ commands' = Tail(commands)
      /\ Enqueue(Head(commands)) /\ main = "getting" /\ main' = "control"
      /\ UNCHANGED <<running, io, event, has_client, control_queue, control_event, sends, own>>
  BY DEF MainGetsChunk, TypeOK, Taken
<1>2. /\ Head(commands) \in Chunks /\ commands' \in Seq(Chunks)
      /\ Len(commands') = Len(commands) - 1
  BY <1>1, HeadTailProperties
<1>3. /\ PortInv' /\ message_queue' \in Seq(Chunks)
      /\ writes' \in Seq([chunk : Chunks, pos : Nat, count : 1 .. ChunkSize])
      /\ UNCHANGED <<write_pos, wire>>
  BY <1>1, <1>2, Enqueued DEF EventClosed
<1>4. TypeOK'
  BY <1>1, <1>2, <1>3 DEF TypeOK
<1>5. Count(control_queue, "DATA")' = Count(control_queue, "DATA")
  BY <1>1 DEF Count, Places
<1>6. CommandsAnnounced'
  BY <1>1, <1>2, <1>5, AnnouncedType DEF CommandsAnnounced, One
<1> QED
  BY <1>3, <1>4, <1>6

LEMMA MainSendsStep == ASSUME SendInv, MainSends PROVE SendInv'
<1> USE DEF SendInv
<1>1. /\ own' \in 0 .. MaxOwn /\ [from |-> "main", n |-> own'] \in Chunks
      /\ Enqueue([from |-> "main", n |-> own']) /\ main = "loop"
      /\ UNCHANGED <<running, main, io, event, has_client, queues, sends>>
  BY SizesAssumption DEF MainSends, TypeOK, Chunks
<1>2. /\ PortInv' /\ message_queue' \in Seq(Chunks)
      /\ writes' \in Seq([chunk : Chunks, pos : Nat, count : 1 .. ChunkSize])
      /\ UNCHANGED <<write_pos, wire>>
  BY <1>1, Enqueued DEF EventClosed
<1>3. TypeOK'
  BY <1>1, <1>2 DEF TypeOK, queues
<1>4. CommandsAnnounced'
  BY <1>1, AnnouncedKept DEF queues
<1> QED
  BY <1>2, <1>3, <1>4

LEMMA CompletesStep ==
    ASSUME SendInv, NEW bytes \in 1 .. ChunkSize, WriteCompletes(bytes)
    PROVE  SendInv'
<1> USE DEF SendInv
<1>1. /\ PortInv'
      /\ message_queue' \in Seq(Chunks) /\ write_pos' \in 0 .. ChunkSize - 1
      /\ writes' \in Seq([chunk : Chunks, pos : Nat, count : 1 .. ChunkSize])
      /\ wire' \in Seq([chunk : Chunks, byte : 1 .. ChunkSize])
  BY Completed
<1>2. UNCHANGED <<running, main, io, event, has_client, queues, sends, own>>
  BY DEF WriteCompletes
<1>3. TypeOK'
  BY <1>1, <1>2 DEF TypeOK, queues
<1>4. CommandsAnnounced'
  BY <1>2, AnnouncedKept DEF queues
<1> QED
  BY <1>1, <1>3, <1>4

LEMMA CleansUpStep == ASSUME SendInv, MainCleansUp PROVE SendInv'
<1> USE DEF SendInv
<1>1. /\ main = "loop" /\ main' = "cleanup" /\ control_event' = FALSE /\ writes' = <<>>
      /\ UNCHANGED <<running, io, event, has_client, commands, control_queue, message_queue,
                     write_pos, wire, sends, own>>
  BY DEF MainCleansUp
<1>2. TypeOK'
  <2>1. <<>> \in Seq([chunk : Chunks, pos : Nat, count : 1 .. ChunkSize])
    BY EmptySeq
  <2> QED
    BY <1>1, <2>1 DEF TypeOK
<1>3. EventClosed' /\ OneOverlapped' /\ Describes'
  BY <1>1 DEF EventClosed, OneOverlapped, Describes
<1>4. Ending' /\ WireIntact'
  BY <1>1 DEF PortInv, Ending, WireIntact
<1>5. CommandsAnnounced'
  <2>1. CommandsAnnounced /\ UNCHANGED <<commands, control_queue>>
    BY <1>1
  <2>2. (main' = "getting" <=> main = "getting") /\ (io' = "sending" <=> io = "sending")
    BY <1>1
  <2> QED
    BY <2>1, <2>2, AnnouncedKept
<1> QED
  BY <1>1, <1>2, <1>3, <1>4, <1>5 DEF PortInv

\* A step of a thread that leaves the queues and the port alone.
LEMMA MovesStep ==
    ASSUME SendInv, UNCHANGED <<commands, control_queue, port, sends, own>>,
           running' \in BOOLEAN, has_client' \in BOOLEAN, control_event' \in BOOLEAN,
           main' \in {"loop", "woken", "control", "getting", "dispatch", "cleanup", "joining", "done"},
           io' \in {"idle", "handler", "sending", "stopped"},
           event' \in {"loop", "waiting", "stopped"},
           main' = "getting" <=> main = "getting", io' = "sending" <=> io = "sending",
           EventClosed' <=> EventClosed
    PROVE  SendInv'
<1> USE DEF SendInv
<1>1. TypeOK'
  BY DEF TypeOK, port
<1>2. PortInv'
  BY PortKept
<1>3. CommandsAnnounced'
  BY AnnouncedKept
<1> QED
  BY <1>1, <1>2, <1>3

LEMMA StepSend == SendInv /\ [Next]_vars => SendInv'
<1> SUFFICES ASSUME SendInv, [Next]_vars
             PROVE  SendInv'
  OBVIOUS
<1> TypeOK
  BY DEF SendInv
<1>1. CASE IoHandles
  BY <1>1, MovesStep DEF IoHandles, queues, TypeOK, EventClosed
<1>2. CASE IoSends
  BY <1>2, IoSendsStep
<1>3. CASE IoPosts
  BY <1>3, IoPostsStep
<1>4. CASE IoLeaves
  BY <1>4, MovesStep DEF IoLeaves, queues, TypeOK, EventClosed
<1>5. CASE EventLoops
  BY <1>5, MovesStep DEF EventLoops, queues, TypeOK, EventClosed
<1>6. CASE EventThread
  BY <1>6, OthersStep DEF EventThread
<1>7. CASE MainWakes
  BY <1>7, MovesStep DEF MainWakes, TypeOK, EventClosed
<1>8. CASE MainLocksControl
  BY <1>8, MovesStep DEF MainLocksControl, queues, TypeOK, EventClosed
<1>9. CASE MainPops
  BY <1>9, PopsStep
<1>10. CASE MainResets
  BY <1>10, ResetsStep
<1>11. CASE MainGetsChunk
  BY <1>11, GetsStep
<1>12. CASE MainUnlocksControl
  BY <1>12, MovesStep DEF MainUnlocksControl, queues, TypeOK, EventClosed
<1>13. CASE MainDispatches
  BY <1>13, MovesStep DEF MainDispatches, queues, TypeOK, EventClosed
<1>14. CASE MainCleansUp
  BY <1>14, CleansUpStep
<1>15. CASE MainDestroys
  BY <1>15, MovesStep DEF MainDestroys, queues, TypeOK, EventClosed
<1>16. CASE MainSends
  BY <1>16, MainSendsStep
<1>17. CASE MainStops
  BY <1>17, MovesStep DEF MainStops, queues, TypeOK, EventClosed
<1>18. ASSUME NEW c \in {"RESET", "STOP"}, MainSetsControl(c)
       PROVE  SendInv'
  BY <1>18, OthersStep DEF MainSetsControl, TypeOK
<1>19. ASSUME NEW bytes \in 1 .. ChunkSize, WriteCompletes(bytes)
       PROVE  SendInv'
  BY <1>19, CompletesStep
<1>20. CASE UNCHANGED vars
  BY <1>20, MovesStep DEF vars, queues, TypeOK, EventClosed
<1> QED
  BY <1>1, <1>2, <1>3, <1>4, <1>5, <1>6, <1>7, <1>8, <1>9, <1>10, <1>11, <1>12, <1>13,
     <1>14, <1>15, <1>16, <1>17, <1>18, <1>19, <1>20
     DEF Next, IoThread, MainGoesOn

LEMMA AlwaysSend == Spec => []SendInv
BY InitSend, StepSend, PTL DEF Spec

------------------------------------------------------------------------------
\* The types of the send path's variables (VDAgent and VDAgentSendPFCommand).
THEOREM TypeCorrect == Spec => []TypeOK
<1>1. SendInv => TypeOK
  BY DEF SendInv
<1> QED
  BY <1>1, AlwaysSend, PTL

\* There is one DATA command for every message in commands, on its way or in
\* the queue: get_chunk always finds one (set_control_event, get_chunk).
THEOREM AlwaysAnnounced == Spec => []CommandsAnnounced
<1>1. SendInv => CommandsAnnounced
  BY DEF SendInv
<1> QED
  BY <1>1, AlwaysSend, PTL

\* enqueue_chunk and write_completion never start a second write on the one
\* OVERLAPPED, and never leave the queue without one.
THEOREM AlwaysOneOverlapped == Spec => []OneOverlapped
<1>1. SendInv => OneOverlapped
  BY DEF SendInv, PortInv
<1> QED
  BY <1>1, AlwaysSend, PTL

\* However the port splits the writes, the chunks are whole on the wire.
THEOREM WireStaysIntact == Spec => []WireIntact
<1>1. SendInv => WireIntact
  BY DEF SendInv, PortInv
<1> QED
  BY <1>1, AlwaysSend, PTL


------------------------------------------------------------------------------
(***************************************************************************)
(* The refinement of Outbox.  Forwarded is defined by a recursive function,*)
(* so its first facts are proved by induction over the places of a queue.  *)
(***************************************************************************)
\* Induction over the natural numbers, for a set instead of a formula.
LEMMA Induction ==
    ASSUME NEW T, 0 \in T, \A n \in Nat : n \in T => n + 1 \in T
    PROVE  Nat \subseteq T
<1> DEFINE R == OpToRel(<, Nat)
           B == Nat \ T
<1>1. R = {ss \in Nat \X Nat : ss[1] < ss[2]}
  BY DEF OpToRel
<1>2. IsWellFoundedOn(R, Nat)
  BY NatLessThanWellFounded, Zenon
<1> HIDE DEF R
<1>3. SUFFICES ASSUME B # {} PROVE FALSE
  OBVIOUS
<1>4. \E x \in B : \A y \in B : ~(<<y, x>> \in R)
  BY <1>2, <1>3, WFMin
<1>5. PICK m \in B : \A y \in B : ~(<<y, m>> \in R)
  BY <1>4
<1>6. m \in Nat /\ m # 0 /\ m - 1 \in Nat /\ m - 1 \in B
  OBVIOUS
<1>7. <<m - 1, m>> \in R
  BY <1>1, <1>6
<1> QED
  BY <1>5, <1>6, <1>7

\* One more chunk: its number, if the port forwarder sent it.
With(numbers, chunk) ==
    IF chunk.from = "pf" THEN Append(numbers, chunk.n) ELSE numbers

\* The numbers of the beginnings of a queue.
Numbering(f, queue) ==
    /\ f[0] = <<>>
    /\ \A i \in 1 .. Len(queue) : f[i] = With(f[i - 1], queue[i])

LEMMA WithTyped ==
    ASSUME NEW s \in Seq(Nat), NEW chunk \in Chunks
    PROVE  With(s, chunk) \in Seq(Nat)
<1>1. chunk.n \in Nat
  BY DEF Chunks
<1> QED
  BY <1>1, AppendProperties DEF With

LEMMA NumberingExists ==
    ASSUME NEW queue \in Seq(Chunks)
    PROVE  \E f \in [0 .. Len(queue) -> Seq(Nat)] : Numbering(f, queue)
<1> DEFINE N == Len(queue)
           S == Seq(Nat)
           T == {n \in Nat : n <= N =>
                    \E f \in [0 .. n -> S] :
                        f[0] = <<>> /\ \A i \in 1 .. n : f[i] = With(f[i - 1], queue[i])}
<1>1. N \in Nat /\ (\A i \in 1 .. N : queue[i] \in Chunks) /\ <<>> \in S
  BY EmptySeq
<1>a. \A s \in S, chunk \in Chunks : With(s, chunk) \in S
  BY WithTyped
<1> HIDE DEF S, N
<1>2. 0 \in T
  <2> DEFINE f == [i \in 0 .. 0 |-> <<>>]
  <2>1. f \in [0 .. 0 -> S] /\ f[0] = <<>>
    BY <1>1
  <2> HIDE DEF f
  <2>2. \A i \in 1 .. 0 : f[i] = With(f[i - 1], queue[i])
    OBVIOUS
  <2> QED
    BY <2>1, <2>2
<1>3. ASSUME NEW n \in Nat, n \in T PROVE n + 1 \in T
  <2>1. SUFFICES ASSUME n + 1 <= N
                 PROVE  \E g \in [0 .. n + 1 -> S] :
                            /\ g[0] = <<>>
                            /\ \A i \in 1 .. n + 1 : g[i] = With(g[i - 1], queue[i])
    OBVIOUS
  <2>2. PICK f \in [0 .. n -> S] :
                f[0] = <<>> /\ \A i \in 1 .. n : f[i] = With(f[i - 1], queue[i])
    <3>1. n <= N
      BY <1>1, <2>1
    <3> HIDE DEF With
    <3> QED
      BY <1>3, <3>1, Zenon
  <2> DEFINE last == With(f[n], queue[n + 1])
             g == [i \in 0 .. n + 1 |-> IF i = n + 1 THEN last ELSE f[i]]
  <2>3. \A i \in 0 .. n : f[i] \in S
    BY <2>2
  <2>4. last \in S
    <3>1. f[n] \in S /\ queue[n + 1] \in Chunks
      BY <1>1, <2>1, <2>3
    <3> QED
      BY <1>a, <3>1
  <2> HIDE DEF last
  <2>5. g \in [0 .. n + 1 -> S]
    BY <2>3, <2>4
  <2>6. g[0] = <<>> /\ g[n + 1] = last /\ \A i \in 0 .. n : g[i] = f[i]
    BY <2>2
  <2> HIDE DEF g
  <2>7. \A i \in 1 .. n + 1 : g[i] = With(g[i - 1], queue[i])
    <3> SUFFICES ASSUME NEW i \in 1 .. n + 1 PROVE g[i] = With(g[i - 1], queue[i])
      OBVIOUS
    <3>1. CASE i = n + 1
      <4>1. i - 1 = n /\ n \in 0 .. n
        BY <3>1
      <4>2. g[i - 1] = f[n] /\ g[i] = last
        BY <2>6, <3>1, <4>1
      <4> QED
        BY <3>1, <4>2 DEF last
    <3>2. CASE i # n + 1
      <4>1. i \in 1 .. n /\ i \in 0 .. n /\ i - 1 \in 0 .. n
        BY <3>2
      <4> QED
        BY <2>2, <2>6, <4>1
    <3> QED
      BY <3>1, <3>2
  <2> QED
    BY <2>5, <2>6, <2>7
<1> HIDE DEF T
<1>4. Nat \subseteq T
  BY <1>2, <1>3, Induction
<1>5. N \in T
  BY <1>1, <1>4
<1> QED
  BY <1>1, <1>5 DEF T, Numbering, N, S

\* It is determined, so Forwarded is the last of it.
LEMMA ForwardedIs ==
    ASSUME NEW queue \in Seq(Chunks),
           NEW f \in [0 .. Len(queue) -> Seq(Nat)], Numbering(f, queue)
    PROVE  Forwarded(queue) = f[Len(queue)]
<1> DEFINE N == Len(queue)
           G(h) == [i \in 0 .. N |->
                       IF i = 0 THEN <<>>
                       ELSE IF queue[i].from = "pf" THEN Append(h[i - 1], queue[i].n)
                       ELSE h[i - 1]]
           h == CHOOSE x : x = G(x)
<1>1. N \in Nat
  OBVIOUS
<1>2. f = G(f)
  <2>1. \A i \in 0 .. N : f[i] = IF i = 0 THEN <<>>
                                 ELSE IF queue[i].from = "pf" THEN Append(f[i - 1], queue[i].n)
                                 ELSE f[i - 1]
    <3>1. f[0] = <<>> /\ \A i \in 1 .. N : f[i] = With(f[i - 1], queue[i])
      BY DEF Numbering
    <3>2. \A i \in 0 .. N : i = 0 \/ i \in 1 .. N
      BY <1>1
    <3> HIDE DEF N
    <3> QED
      BY <3>1, <3>2 DEF With
  <2> DEFINE h2 == G(f)
  <2>2. /\ h2 = [i \in 0 .. N |-> h2[i]]
        /\ \A i \in 0 .. N : h2[i] = f[i]
    BY <2>1
  <2>3. f = [i \in 0 .. N |-> f[i]]
    OBVIOUS
  <2> HIDE DEF h2
  <2>4. h2 = f
    BY <2>2, <2>3
  <2> QED
    BY <2>4 DEF h2
<1>3. h = G(h)
  BY <1>2
<1> DEFINE T == {n \in Nat : n <= N => h[n] = f[n]}
<1> HIDE DEF h
<1>4. h[0] = <<>> /\ \A i \in 1 .. N : h[i] = With(h[i - 1], queue[i])
  <2>1. \A i \in 0 .. N : h[i] = IF i = 0 THEN <<>>
                                 ELSE IF queue[i].from = "pf" THEN Append(h[i - 1], queue[i].n)
                                 ELSE h[i - 1]
    BY <1>3
  <2> HIDE DEF N
  <2> QED
    BY <1>1, <2>1 DEF With
<1>5. 0 \in T
  BY <1>4 DEF Numbering
<1>6. ASSUME NEW n \in Nat, n \in T PROVE n + 1 \in T
  <2>1. SUFFICES ASSUME n + 1 <= N PROVE h[n + 1] = f[n + 1]
    OBVIOUS
  <2>2. h[n] = f[n] /\ n + 1 \in 1 .. N /\ (n + 1) - 1 = n
    BY <1>1, <1>6, <2>1
  <2>3. /\ h[n + 1] = With(h[(n + 1) - 1], queue[n + 1])
        /\ f[n + 1] = With(f[(n + 1) - 1], queue[n + 1])
    BY <1>4, <2>2 DEF Numbering
  <2> QED
    BY <2>2, <2>3
<1> HIDE DEF T
<1>7. Nat \subseteq T
  BY <1>5, <1>6, Induction
<1>8. h[N] = f[N]
  BY <1>1, <1>7 DEF T
<1> QED
  BY <1>8 DEF Forwarded, h

LEMMA NumberingOf ==
    ASSUME NEW queue \in Seq(Chunks)
    PROVE  \E f \in [0 .. Len(queue) -> Seq(Nat)] :
                Numbering(f, queue) /\ Forwarded(queue) = f[Len(queue)]
BY NumberingExists, ForwardedIs

LEMMA ForwardedTyped ==
    ASSUME NEW queue \in Seq(Chunks)
    PROVE  Forwarded(queue) \in Seq(Nat)
<1>1. PICK f \in [0 .. Len(queue) -> Seq(Nat)] : Forwarded(queue) = f[Len(queue)]
  BY NumberingOf
<1>2. Len(queue) \in 0 .. Len(queue)
  OBVIOUS
<1> QED
  BY <1>1, <1>2

LEMMA ForwardedEmpty == Forwarded(<<>>) = <<>>
<1>1. <<>> \in Seq(Chunks)
  BY EmptySeq
<1>2. PICK f \in [0 .. 0 -> Seq(Nat)] : Numbering(f, <<>>) /\ Forwarded(<<>>) = f[0]
  BY <1>1, NumberingOf
<1> QED
  BY <1>2 DEF Numbering

LEMMA ForwardedAppend ==
    ASSUME NEW queue \in Seq(Chunks), NEW chunk \in Chunks
    PROVE  Forwarded(Append(queue, chunk)) = With(Forwarded(queue), chunk)
<1> DEFINE n == Len(queue)
           t == Append(queue, chunk)
           S == Seq(Nat)
<1>1. PICK f \in [0 .. n -> S] : Numbering(f, queue) /\ Forwarded(queue) = f[n]
  BY NumberingOf
<1>2. /\ n \in Nat /\ t \in Seq(Chunks) /\ Len(t) = n + 1 /\ t[n + 1] = chunk
      /\ \A i \in 1 .. n : t[i] = queue[i]
  BY AppendProperties
<1>3. f[0] = <<>> /\ \A i \in 1 .. n : f[i] = With(f[i - 1], queue[i])
  BY <1>1 DEF Numbering
<1>4. \A i \in 0 .. n : f[i] \in S
  BY <1>1
<1> DEFINE last == With(f[n], chunk)
<1>5. last \in S
  <2>1. f[n] \in S
    BY <1>2, <1>4
  <2> QED
    BY <2>1, WithTyped
<1> HIDE DEF n, t, S, last
<1> DEFINE g == [i \in 0 .. n + 1 |-> IF i = n + 1 THEN last ELSE f[i]]
<1>6. g \in [0 .. n + 1 -> S]
  BY <1>2, <1>4, <1>5
<1>7. g[0] = <<>> /\ g[n + 1] = last /\ \A i \in 0 .. n : g[i] = f[i]
  BY <1>2, <1>3
<1> HIDE DEF g
<1>8. ASSUME NEW i \in 1 .. n + 1 PROVE g[i] = With(g[i - 1], t[i])
  <2>1. CASE i = n + 1
    <3>1. n \in 0 .. n /\ i - 1 = n
      BY <1>2, <2>1
    <3>2. g[i - 1] = f[n] /\ g[i] = last /\ t[i] = chunk
      BY <1>2, <1>7, <2>1, <3>1
    <3> QED
      BY <3>2 DEF last
  <2>2. CASE i # n + 1
    <3>1. i \in 1 .. n /\ i \in 0 .. n /\ i - 1 \in 0 .. n
      BY <1>2, <2>2
    <3> QED
      BY <1>2, <1>3, <1>7, <3>1
  <2> QED
    BY <2>1, <2>2
<1>9. Numbering(g, t) /\ g \in [0 .. Len(t) -> Seq(Nat)]
  BY <1>2, <1>6, <1>7, <1>8 DEF Numbering, S
<1>10. Forwarded(t) = g[Len(t)]
  BY <1>2, <1>9, ForwardedIs
<1> QED
  BY <1>1, <1>2, <1>7, <1>10 DEF t, last

LEMMA StartKept ==
    ASSUME NEW s \in Seq(Nat), s # <<>>, NEW chunk \in Chunks
    PROVE  /\ With(s, chunk) # <<>>
           /\ Head(With(s, chunk)) = Head(s)
           /\ Tail(With(s, chunk)) = With(Tail(s), chunk)
<1> DEFINE e == chunk.n
<1>1. e \in Nat
  BY DEF Chunks
<1> HIDE DEF e
<1>2. Append(s, e) # <<>>
  <2>1. Append(s, e) \in Seq(Nat) /\ Len(s) \in Nat /\ Len(Append(s, e)) = Len(s) + 1
    BY <1>1, AppendProperties, LenProperties
  <2> QED
    BY <2>1, EmptySeq
<1>3. Head(Append(s, e)) = Head(s) /\ Tail(Append(s, e)) = Append(Tail(s), e)
  BY HeadTailAppend
<1> QED
  BY <1>2, <1>3 DEF With, e

\* The front chunk is numbered first.
LEMMA ForwardedTail ==
    ASSUME NEW queue \in Seq(Chunks), queue # <<>>
    PROVE  IF Head(queue).from = "pf"
           THEN /\ Forwarded(queue) # <<>>
                /\ Head(Forwarded(queue)) = Head(queue).n
                /\ Forwarded(Tail(queue)) = Tail(Forwarded(queue))
           ELSE Forwarded(Tail(queue)) = Forwarded(queue)
<1> DEFINE n == Len(queue) - 1
           t == Tail(queue)
           S == Seq(Nat)
<1>1. PICK f \in [0 .. Len(queue) -> S] :
            Numbering(f, queue) /\ Forwarded(queue) = f[Len(queue)]
  BY NumberingOf
<1>2. /\ n \in Nat /\ t \in Seq(Chunks) /\ Len(t) = n /\ Len(queue) = n + 1
      /\ Head(queue) = queue[1] /\ queue[1] \in Chunks
      /\ \A i \in 1 .. n : t[i] = queue[i + 1]
  BY HeadTailProperties, EmptySeq
<1>3. f[0] = <<>> /\ \A i \in 1 .. n + 1 : f[i] = With(f[i - 1], queue[i])
  BY <1>1, <1>2 DEF Numbering
<1>4. \A i \in 0 .. n + 1 : f[i] \in S
  BY <1>1, <1>2
<1>a. \A i \in 1 .. n + 1 : queue[i] \in Chunks
  BY <1>2
<1>5. f[1] = With(<<>>, queue[1])
  <2>1. 1 \in 1 .. n + 1 /\ 1 - 1 = 0
    BY <1>2
  <2>2. f[1] = With(f[1 - 1], queue[1])
    BY <1>3, <2>1
  <2> QED
    BY <1>3, <2>1, <2>2
<1> HIDE DEF n, t
<1>6. CASE queue[1].from = "pf"
  <2> DEFINE m == queue[1].n
  <2>1. m \in Nat
    BY <1>2 DEF Chunks
  <2>2. f[1] = <<m>>
    BY <1>5, <1>6 DEF With
  <2> HIDE DEF m
  <2> DEFINE T == {k \in Nat : k <= n => f[k + 1] # <<>> /\ Head(f[k + 1]) = m}
  <2>3. 0 \in T
    BY <2>1, <2>2
  <2>4. ASSUME NEW k \in Nat, k \in T PROVE k + 1 \in T
    <3>1. SUFFICES ASSUME k + 1 <= n
                   PROVE  f[(k + 1) + 1] # <<>> /\ Head(f[(k + 1) + 1]) = m
      OBVIOUS
    <3>2. /\ k + 1 \in 0 .. n + 1 /\ (k + 1) + 1 \in 1 .. n + 1 /\ ((k + 1) + 1) - 1 = k + 1
          /\ f[k + 1] # <<>> /\ Head(f[k + 1]) = m
      BY <1>2, <2>4, <3>1
    <3> DEFINE s == f[k + 1]
               c == queue[(k + 1) + 1]
    <3>3. s \in Seq(Nat) /\ c \in Chunks
      BY <1>4, <1>a, <3>2
    <3>4. f[(k + 1) + 1] = With(s, c)
      BY <1>3, <3>2
    <3>5. s # <<>> /\ Head(s) = m
      BY <3>2
    <3> HIDE DEF s, c
    <3>6. With(s, c) # <<>> /\ Head(With(s, c)) = m
      BY <3>3, <3>5, StartKept
    <3> QED
      BY <3>4, <3>6
  <2> HIDE DEF T
  <2>5. Nat \subseteq T
    BY <2>3, <2>4, Induction
  <2>6. \A i \in 0 .. n : f[i + 1] # <<>> /\ Head(f[i + 1]) = m
    BY <1>2, <2>5 DEF T
  <2> DEFINE g == [i \in 0 .. n |-> Tail(f[i + 1])]
  <2>7. g \in [0 .. n -> S]
    <3> SUFFICES ASSUME NEW i \in 0 .. n PROVE Tail(f[i + 1]) \in S
      OBVIOUS
    <3>1. f[i + 1] \in S /\ f[i + 1] # <<>>
      BY <1>2, <1>4, <2>6
    <3> QED
      BY <3>1, HeadTailProperties
  <2>8. \A i \in 0 .. n : g[i] = Tail(f[i + 1])
    OBVIOUS
  <2> HIDE DEF g
  <2>9. g[0] = <<>>
    <3>1. 0 \in 0 .. n /\ 0 + 1 = 1
      BY <1>2
    <3>2. g[0] = Tail(f[1])
      BY <2>8, <3>1
    <3>3. Tail(<<m>>) = <<>>
      OBVIOUS
    <3> QED
      BY <2>2, <3>2, <3>3
  <2>10. ASSUME NEW i \in 1 .. n PROVE g[i] = With(g[i - 1], t[i])
    <3>1. /\ i \in 0 .. n /\ i - 1 \in 0 .. n /\ i + 1 \in 1 .. n + 1
          /\ (i - 1) + 1 = i /\ (i + 1) - 1 = i /\ i \in 0 .. n + 1
      BY <1>2
    <3> DEFINE s == f[i]
               c == queue[i + 1]
    <3>2. s \in Seq(Nat) /\ c \in Chunks /\ s # <<>>
      <4>1. f[(i - 1) + 1] # <<>>
        BY <2>6, <3>1
      <4> QED
        BY <1>4, <1>a, <3>1, <4>1
    <3>3. g[i] = Tail(f[i + 1]) /\ g[i - 1] = Tail(s) /\ t[i] = c
      BY <1>2, <2>8, <3>1
    <3>4. f[i + 1] = With(s, c)
      BY <1>3, <3>1
    <3> HIDE DEF s, c
    <3>5. Tail(With(s, c)) = With(Tail(s), c)
      BY <3>2, StartKept
    <3> QED
      BY <3>3, <3>4, <3>5
  <2>11. Numbering(g, t) /\ g \in [0 .. Len(t) -> Seq(Nat)]
    BY <1>2, <2>7, <2>9, <2>10 DEF Numbering
  <2>12. Forwarded(t) = g[n]
    BY <1>2, <2>11, ForwardedIs
  <2>13. n \in 0 .. n
    BY <1>2
  <2>14. Forwarded(t) = Tail(f[n + 1]) /\ f[n + 1] # <<>> /\ Head(f[n + 1]) = m
    BY <2>6, <2>8, <2>12, <2>13
  <2> QED
    BY <1>1, <1>2, <1>6, <2>14 DEF t, m
<1>7. CASE queue[1].from # "pf"
  <2>1. f[1] = <<>>
    BY <1>5, <1>7 DEF With
  <2> DEFINE g == [i \in 0 .. n |-> f[i + 1]]
  <2>2. g \in [0 .. n -> S]
    BY <1>2, <1>4
  <2>3. \A i \in 0 .. n : g[i] = f[i + 1]
    OBVIOUS
  <2> HIDE DEF g
  <2>4. g[0] = <<>>
    BY <1>2, <2>1, <2>3
  <2>5. ASSUME NEW i \in 1 .. n PROVE g[i] = With(g[i - 1], t[i])
    <3>1. /\ i \in 0 .. n /\ i - 1 \in 0 .. n /\ i + 1 \in 1 .. n + 1
          /\ (i - 1) + 1 = i /\ (i + 1) - 1 = i
      BY <1>2
    <3>2. g[i] = f[i + 1] /\ g[i - 1] = f[i] /\ t[i] = queue[i + 1]
      BY <1>2, <2>3, <3>1
    <3>3. f[i + 1] = With(f[i], queue[i + 1])
      BY <1>3, <3>1
    <3> QED
      BY <3>2, <3>3
  <2>6. Numbering(g, t) /\ g \in [0 .. Len(t) -> Seq(Nat)]
    BY <1>2, <2>2, <2>4, <2>5 DEF Numbering
  <2>7. Forwarded(t) = g[n] /\ n \in 0 .. n
    <3>1. Forwarded(t) = g[Len(t)]
      BY <1>2, <2>6, ForwardedIs
    <3> QED
      BY <1>2, <3>1
  <2> QED
    BY <1>1, <1>2, <1>7, <2>3, <2>7 DEF t
<1> QED
  BY <1>6, <1>7


------------------------------------------------------------------------------
(***************************************************************************)
(* The messages on their way, in their order.                              *)
(***************************************************************************)
Numbers(queue) == [i \in 1 .. Len(queue) |-> queue[i].n]
Waiting == Forwarded(message_queue) \o Numbers(commands)
Out == Cardinality(Complete)

\* Everything in commands is the port forwarder's, and the messages that are
\* not out yet are the next ones, one after the other.
InOrder ==
    /\ \A i \in 1 .. Len(commands) : commands[i].from = "pf"
    /\ Out + Len(Waiting) = sends
    /\ \A i \in 1 .. Len(Waiting) : Waiting[i] = Out + i

\* The inductive invariant of the refinement.
OutboxInv == SendInv /\ InOrder

LEMMA NumbersTyped ==
    ASSUME NEW queue \in Seq(Chunks)
    PROVE  Numbers(queue) \in Seq(Nat) /\ Len(Numbers(queue)) = Len(queue)
<1>1. Len(queue) \in Nat /\ \A i \in 1 .. Len(queue) : queue[i].n \in Nat
  <2>1. Len(queue) \in Nat /\ \A i \in 1 .. Len(queue) : queue[i] \in Chunks
    OBVIOUS
  <2> QED
    BY <2>1 DEF Chunks
<1>2. Numbers(queue) \in [1 .. Len(queue) -> Nat]
  BY <1>1 DEF Numbers
<1> DEFINE t == Numbers(queue)
<1> HIDE DEF t
<1>3. t \in [1 .. Len(queue) -> Nat]
  BY <1>2 DEF t
<1>4. t \in Seq(Nat) /\ Len(t) = Len(queue)
  BY <1>1, <1>3
<1> QED
  BY <1>4 DEF t

LEMMA NumbersAppend ==
    ASSUME NEW queue \in Seq(Chunks), NEW chunk \in Chunks
    PROVE  Numbers(Append(queue, chunk)) = Append(Numbers(queue), chunk.n)
<1> DEFINE q == Append(queue, chunk)
           s == Numbers(q)
           t == Append(Numbers(queue), chunk.n)
<1>1. /\ q \in Seq(Chunks) /\ Len(q) = Len(queue) + 1 /\ q[Len(queue) + 1] = chunk
      /\ \A i \in 1 .. Len(queue) : q[i] = queue[i]
      /\ Len(queue) \in Nat /\ chunk.n \in Nat
  BY AppendProperties DEF Chunks
<1>2. Numbers(queue) \in Seq(Nat) /\ Len(Numbers(queue)) = Len(queue)
  BY NumbersTyped
<1>3. /\ t \in Seq(Nat) /\ Len(t) = Len(queue) + 1 /\ t[Len(queue) + 1] = chunk.n
      /\ \A i \in 1 .. Len(queue) : t[i] = Numbers(queue)[i]
  BY <1>1, <1>2, AppendProperties
<1>4. s \in Seq(Nat) /\ Len(s) = Len(queue) + 1
  BY <1>1, NumbersTyped
<1>5. \A i \in 1 .. Len(queue) : Numbers(queue)[i] = queue[i].n
  BY DEF Numbers
<1>6. \A i \in 1 .. Len(queue) + 1 : s[i] = q[i].n
  BY <1>1 DEF Numbers
<1> HIDE DEF q, s, t
<1>7. ASSUME NEW i \in 1 .. Len(s) PROVE s[i] = t[i]
  <2>1. i \in 1 .. Len(queue) + 1 /\ (i \in 1 .. Len(queue) \/ i = Len(queue) + 1)
    BY <1>1, <1>4
  <2>2. CASE i \in 1 .. Len(queue)
    BY <1>1, <1>3, <1>5, <1>6, <2>1, <2>2
  <2>3. CASE i = Len(queue) + 1
    BY <1>1, <1>3, <1>6, <2>1, <2>3
  <2> QED
    BY <2>1, <2>2, <2>3
<1>8. s = t
  BY <1>3, <1>4, <1>7, SeqEqual
<1> QED
  BY <1>8 DEF s, t, q

LEMMA NumbersTail ==
    ASSUME NEW queue \in Seq(Chunks), queue # <<>>
    PROVE  /\ Numbers(queue) # <<>> /\ Head(Numbers(queue)) = Head(queue).n
           /\ Numbers(Tail(queue)) = Tail(Numbers(queue))
<1> DEFINE q == Tail(queue)
           ns == Numbers(queue)
           s == Numbers(q)
           t == Tail(ns)
<1>1. /\ q \in Seq(Chunks) /\ Len(q) = Len(queue) - 1
      /\ \A i \in 1 .. Len(q) : q[i] = queue[i + 1]
      /\ Len(queue) \in Nat /\ Len(queue) > 0 /\ Head(queue) = queue[1]
  BY HeadTailProperties, EmptySeq
<1>2. ns \in Seq(Nat) /\ Len(ns) = Len(queue)
  BY NumbersTyped
<1>3. \A i \in 1 .. Len(queue) : ns[i] = queue[i].n
  BY DEF Numbers
<1>4. s \in Seq(Nat) /\ Len(s) = Len(q)
  BY <1>1, NumbersTyped
<1>5. \A i \in 1 .. Len(q) : s[i] = q[i].n
  BY DEF Numbers
<1> HIDE DEF q, ns, s
<1>6. ns # <<>> /\ Head(ns) = queue[1].n
  BY <1>1, <1>2, <1>3, EmptySeq
<1>7. t \in Seq(Nat) /\ Len(t) = Len(queue) - 1 /\ \A i \in 1 .. Len(t) : t[i] = ns[i + 1]
  BY <1>2, <1>6, HeadTailProperties
<1> HIDE DEF t
<1>8. ASSUME NEW i \in 1 .. Len(s) PROVE s[i] = t[i]
  <2>1. i \in 1 .. Len(q) /\ i \in 1 .. Len(t) /\ i + 1 \in 1 .. Len(queue)
    BY <1>1, <1>4, <1>7
  <2> QED
    BY <1>1, <1>3, <1>5, <1>7, <2>1
<1>9. Len(s) = Len(t)
  BY <1>1, <1>4, <1>7
<1>10. s = t
  BY <1>4, <1>7, <1>8, <1>9, SeqEqual
<1> QED
  BY <1>1, <1>6, <1>10 DEF s, t, q, ns

LEMMA ConcatAppend ==
    ASSUME NEW a \in Seq(Nat), NEW b \in Seq(Nat), NEW x \in Nat
    PROVE  a \o Append(b, x) = Append(a \o b, x)
<1> DEFINE p == Append(b, x)
           q == a \o b
           s == a \o p
           t == Append(q, x)
<1>1. /\ p \in Seq(Nat) /\ Len(p) = Len(b) + 1 /\ p[Len(b) + 1] = x
      /\ \A i \in 1 .. Len(b) : p[i] = b[i]
      /\ Len(b) \in Nat /\ Len(a) \in Nat
  BY AppendProperties
<1>2. /\ q \in Seq(Nat) /\ Len(q) = Len(a) + Len(b)
      /\ \A i \in 1 .. Len(a) + Len(b) : q[i] = IF i <= Len(a) THEN a[i] ELSE b[i - Len(a)]
  BY ConcatProperties, Zenon
<1> HIDE DEF p, q
<1>3. /\ s \in Seq(Nat) /\ Len(s) = Len(a) + Len(p)
      /\ \A i \in 1 .. Len(a) + Len(p) : s[i] = IF i <= Len(a) THEN a[i] ELSE p[i - Len(a)]
  BY <1>1, ConcatProperties, Zenon
<1>4. /\ t \in Seq(Nat) /\ Len(t) = Len(q) + 1 /\ t[Len(q) + 1] = x
      /\ \A i \in 1 .. Len(q) : t[i] = q[i]
  <2>1. q \in Seq(Nat)
    BY <1>2
  <2> QED
    BY <2>1, AppendProperties
<1> HIDE DEF s, t
<1>5. Len(s) = Len(t) /\ Len(s) = Len(a) + (Len(b) + 1) /\ Len(s) \in Nat
  <2> DEFINE k == Len(a)
             l == Len(b)
  <2>1. Len(s) = k + Len(p) /\ Len(t) = Len(q) + 1
    BY <1>3, <1>4
  <2>2. Len(p) = l + 1 /\ Len(q) = k + l /\ k \in Nat /\ l \in Nat
    BY <1>1, <1>2
  <2> HIDE DEF k, l
  <2>3. Len(s) = Len(t) /\ Len(s) = k + (l + 1) /\ Len(s) \in Nat
    BY <2>1, <2>2
  <2> QED
    BY <2>3 DEF k, l
<1>6. ASSUME NEW i \in 1 .. Len(s) PROVE s[i] = t[i]
  <2>1. CASE i <= Len(a)
    <3>1. i \in 1 .. Len(q) /\ i \in 1 .. Len(a) + Len(b) /\ i \in 1 .. Len(a) + Len(p)
      BY <1>1, <1>2, <1>5, <2>1
    <3> QED
      BY <1>2, <1>3, <1>4, <2>1, <3>1
  <2>2. CASE i > Len(a) /\ i <= Len(a) + Len(b)
    <3>1. /\ i \in 1 .. Len(q) /\ i \in 1 .. Len(a) + Len(b) /\ i \in 1 .. Len(a) + Len(p)
          /\ ~(i <= Len(a)) /\ i - Len(a) \in 1 .. Len(b)
      BY <1>1, <1>2, <1>5, <2>2
    <3> QED
      BY <1>1, <1>2, <1>3, <1>4, <3>1
  <2>3. CASE i = Len(a) + Len(b) + 1
    <3>1. /\ i = Len(q) + 1 /\ i \in 1 .. Len(a) + Len(p) /\ ~(i <= Len(a))
          /\ i - Len(a) = Len(b) + 1
      BY <1>1, <1>2, <1>5, <2>3
    <3> QED
      BY <1>1, <1>3, <1>4, <3>1
  <2>4. i <= Len(a) \/ (i > Len(a) /\ i <= Len(a) + Len(b)) \/ i = Len(a) + Len(b) + 1
    <3> DEFINE k == Len(a)
               l == Len(b)
    <3>1. i \in 1 .. k + (l + 1) /\ k \in Nat /\ l \in Nat
      BY <1>1, <1>5
    <3> HIDE DEF k, l
    <3>2. i <= k \/ (i > k /\ i <= k + l) \/ i = k + l + 1
      BY <3>1
    <3> QED
      BY <3>2 DEF k, l
  <2> QED
    BY <2>1, <2>2, <2>3, <2>4
<1>7. s = t
  BY <1>3, <1>4, <1>5, <1>6, SeqEqual
<1> QED
  BY <1>7 DEF s, t, p, q

LEMMA ConcatShift ==
    ASSUME NEW a \in Seq(Nat), NEW b \in Seq(Nat), b # <<>>
    PROVE  Append(a, Head(b)) \o Tail(b) = a \o b
<1> DEFINE x == Head(b)
           r == Tail(b)
           p == Append(a, x)
           s == p \o r
           t == a \o b
<1>1. /\ x \in Nat /\ x = b[1] /\ r \in Seq(Nat) /\ Len(r) = Len(b) - 1
      /\ \A i \in 1 .. Len(r) : r[i] = b[i + 1]
      /\ Len(b) \in Nat /\ Len(b) > 0 /\ Len(a) \in Nat
  BY HeadTailProperties, EmptySeq
<1> HIDE DEF x, r
<1>2. /\ p \in Seq(Nat) /\ Len(p) = Len(a) + 1 /\ p[Len(a) + 1] = x
      /\ \A i \in 1 .. Len(a) : p[i] = a[i]
  BY <1>1, AppendProperties
<1> HIDE DEF p
<1>3. /\ s \in Seq(Nat) /\ Len(s) = Len(p) + Len(r)
      /\ \A i \in 1 .. Len(p) + Len(r) : s[i] = IF i <= Len(p) THEN p[i] ELSE r[i - Len(p)]
  BY <1>1, <1>2, ConcatProperties, Zenon
<1>4. /\ t \in Seq(Nat) /\ Len(t) = Len(a) + Len(b)
      /\ \A i \in 1 .. Len(a) + Len(b) : t[i] = IF i <= Len(a) THEN a[i] ELSE b[i - Len(a)]
  BY ConcatProperties, Zenon
<1> HIDE DEF s, t
<1>5. Len(s) = Len(t) /\ Len(s) = Len(a) + Len(b)
  BY <1>1, <1>2, <1>3, <1>4
<1>6. ASSUME NEW i \in 1 .. Len(s) PROVE s[i] = t[i]
  <2>1. s[i] = (IF i <= Len(p) THEN p[i] ELSE r[i - Len(p)])
        /\ t[i] = (IF i <= Len(a) THEN a[i] ELSE b[i - Len(a)])
    BY <1>1, <1>2, <1>3, <1>4, <1>5
  <2>2. CASE i <= Len(a)
    <3>1. i \in 1 .. Len(a) /\ i <= Len(p)
      BY <1>1, <1>2, <1>5, <2>2
    <3> QED
      BY <1>2, <2>1, <2>2, <3>1
  <2>3. CASE i = Len(a) + 1
    <3>1. i <= Len(p) /\ ~(i <= Len(a)) /\ i - Len(a) = 1
      BY <1>1, <1>2, <2>3
    <3> QED
      BY <1>1, <1>2, <2>1, <2>3, <3>1
  <2>4. CASE i > Len(a) + 1
    <3>1. /\ ~(i <= Len(p)) /\ ~(i <= Len(a))
          /\ i - Len(p) \in 1 .. Len(r) /\ (i - Len(p)) + 1 = i - Len(a)
      BY <1>1, <1>2, <1>5, <2>4
    <3> QED
      BY <1>1, <2>1, <3>1
  <2>5. i \in Int /\ Len(a) \in Nat
    BY <1>1
  <2>6. i <= Len(a) \/ i = Len(a) + 1 \/ i > Len(a) + 1
    BY <2>5
  <2> QED
    BY <2>2, <2>3, <2>4, <2>6
<1>7. s = t
  BY <1>3, <1>4, <1>5, <1>6, SeqEqual
<1> QED
  BY <1>7 DEF s, t, p, r, x

LEMMA ConcatTail ==
    ASSUME NEW a \in Seq(Nat), NEW b \in Seq(Nat), a # <<>>
    PROVE  a \o b # <<>> /\ Tail(a \o b) = Tail(a) \o b
<1> DEFINE c == a \o b
           r == Tail(a)
           s == Tail(c)
           t == r \o b
<1>1. /\ c \in Seq(Nat) /\ Len(c) = Len(a) + Len(b)
      /\ \A i \in 1 .. Len(a) + Len(b) : c[i] = IF i <= Len(a) THEN a[i] ELSE b[i - Len(a)]
  BY ConcatProperties, Zenon
<1>2. /\ r \in Seq(Nat) /\ Len(r) = Len(a) - 1 /\ Len(a) \in Nat /\ Len(a) > 0
      /\ Len(b) \in Nat
      /\ \A i \in 1 .. Len(r) : r[i] = a[i + 1]
  BY HeadTailProperties, EmptySeq
<1> HIDE DEF c, r
<1>3. c # <<>>
  BY <1>1, <1>2, EmptySeq
<1>4. s \in Seq(Nat) /\ Len(s) = Len(c) - 1 /\ \A i \in 1 .. Len(s) : s[i] = c[i + 1]
  BY <1>1, <1>3, HeadTailProperties
<1>5. /\ t \in Seq(Nat) /\ Len(t) = Len(r) + Len(b)
      /\ \A i \in 1 .. Len(r) + Len(b) : t[i] = IF i <= Len(r) THEN r[i] ELSE b[i - Len(r)]
  BY <1>2, ConcatProperties, Zenon
<1> HIDE DEF s, t
<1>6. ASSUME NEW i \in 1 .. Len(s) PROVE s[i] = t[i]
  <2>1. /\ i \in 1 .. Len(r) + Len(b) /\ i + 1 \in 1 .. Len(a) + Len(b)
        /\ (i + 1 <= Len(a) <=> i <= Len(r)) /\ (i + 1) - Len(a) = i - Len(r)
        /\ (i <= Len(r) => i \in 1 .. Len(r))
    BY <1>1, <1>2, <1>4
  <2> QED
    BY <1>1, <1>2, <1>4, <1>5, <2>1
<1>7. Len(s) = Len(t)
  BY <1>1, <1>2, <1>4, <1>5
<1>8. s = t
  BY <1>4, <1>5, <1>6, <1>7, SeqEqual
<1> QED
  BY <1>3, <1>8 DEF s, t, r, c

LEMMA WaitingTyped ==
    ASSUME TypeOK
    PROVE  /\ Forwarded(message_queue) \in Seq(Nat) /\ Numbers(commands) \in Seq(Nat)
           /\ Waiting \in Seq(Nat)
<1>1. message_queue \in Seq(Chunks) /\ commands \in Seq(Chunks)
  BY DEF TypeOK
<1>2. Forwarded(message_queue) \in Seq(Nat) /\ Numbers(commands) \in Seq(Nat)
  BY <1>1, ForwardedTyped, NumbersTyped
<1> QED
  BY <1>2, ConcatProperties DEF Waiting

LEMMA OutTyped ==
    ASSUME TypeOK
    PROVE  IsFiniteSet(Complete) /\ Out \in Nat
<1>1. Len(wire) \in Nat
  BY LenProperties DEF TypeOK
<1>2. IsFiniteSet(1 .. Len(wire)) /\ Complete \in SUBSET (1 .. Len(wire))
  BY <1>1, FS_Interval DEF Complete
<1>3. IsFiniteSet(Complete)
  BY <1>2, FS_Subset
<1> QED
  BY <1>3, FS_CardinalityType DEF Out

\* The last byte of a message of the port forwarder makes it complete.
LEMMA CompleteGrows ==
    ASSUME TypeOK, NEW bytes \in 1 .. ChunkSize, NEW front \in Chunks,
           write_pos + bytes <= ChunkSize,
           wire' = wire \o Taking(front, write_pos, bytes)
    PROVE  Out' = Out + One(write_pos + bytes = ChunkSize /\ front.from = "pf")
<1> DEFINE Bytes == [chunk : Chunks, byte : 1 .. ChunkSize]
           n == Len(wire)
           t == Taking(front, write_pos, bytes)
           last == write_pos + bytes = ChunkSize /\ front.from = "pf"
<1>1. /\ wire \in Seq(Bytes) /\ n \in Nat /\ write_pos \in Nat /\ bytes \in Nat /\ bytes > 0
      /\ ChunkSize \in Nat
  BY SizesAssumption, LenProperties DEF TypeOK
<1> HIDE DEF Bytes
<1>2. /\ t \in Seq(Bytes) /\ Len(t) = bytes
      /\ \A i \in 1 .. bytes : t[i] = [chunk |-> front, byte |-> write_pos + i]
  <2>1. \A i \in 1 .. bytes : write_pos + i \in 1 .. ChunkSize
    BY <1>1
  <2>2. /\ t \in [1 .. bytes -> Bytes]
        /\ \A i \in 1 .. bytes : t[i] = [chunk |-> front, byte |-> write_pos + i]
    BY <2>1 DEF Taking, Bytes
  <2> HIDE DEF t
  <2> QED
    BY <1>1, <2>2
<1> HIDE DEF t
<1>3. /\ Len(wire') = n + bytes
      /\ \A i \in 1 .. n + bytes : wire'[i] = IF i <= n THEN wire[i] ELSE t[i - n]
  <2>1. wire' = wire \o t
    BY DEF t
  <2>2. /\ Len(wire \o t) = Len(wire) + Len(t)
        /\ \A i \in 1 .. Len(wire) + Len(t) :
              (wire \o t)[i] = IF i <= Len(wire) THEN wire[i] ELSE t[i - Len(wire)]
    BY <1>1, <1>2, ConcatProperties, Zenon
  <2>3. Len(t) = bytes
    BY <1>2
  <2> QED
    BY <2>1, <2>2, <2>3, Zenon
<1> HIDE DEF n
<1> DEFINE done(w, i) == w[i].chunk.from = "pf" /\ w[i].byte = ChunkSize
<1>4. \A i \in 1 .. n : done(wire', i) <=> done(wire, i)
  <2>1. \A i \in 1 .. n : wire'[i] = wire[i]
    BY <1>1, <1>3
  <2> QED
    BY <2>1
<1>5. ASSUME NEW i \in n + 1 .. n + bytes PROVE done(wire', i) <=> i = n + bytes /\ last
  <2>1. i \in 1 .. n + bytes /\ ~(i <= n) /\ i - n \in 1 .. bytes
    BY <1>1
  <2>2. wire'[i] = [chunk |-> front, byte |-> write_pos + (i - n)]
    BY <1>2, <1>3, <2>1
  <2>3. wire'[i].chunk = front /\ wire'[i].byte = write_pos + (i - n)
    BY <2>2
  <2>4. write_pos + (i - n) = ChunkSize <=> i = n + bytes /\ write_pos + bytes = ChunkSize
    BY <1>1
  <2> QED
    BY <2>3, <2>4
<1>6. /\ Complete = {i \in 1 .. n : done(wire, i)}
      /\ Complete' = {i \in 1 .. n + bytes : done(wire', i)}
  BY <1>3 DEF Complete, n
<1> HIDE DEF done
<1>7. \A i \in 1 .. n + bytes : i \in 1 .. n \/ i \in n + 1 .. n + bytes
  BY <1>1
<1>8. n + bytes \in n + 1 .. n + bytes /\ n + bytes \in 1 .. n + bytes /\ n + bytes \notin 1 .. n
      /\ \A i \in 1 .. n : i \in 1 .. n + bytes
  BY <1>1
<1>9. IsFiniteSet(Complete) /\ Out \in Nat
  BY OutTyped
<1>10. CASE last
  <2> HIDE DEF last
  <2>1. Complete' = Complete \cup {n + bytes}
    BY <1>4, <1>5, <1>6, <1>7, <1>8, <1>10
  <2>2. n + bytes \notin Complete
    BY <1>6, <1>8
  <2>3. Cardinality(Complete') = Cardinality(Complete) + 1
    BY <1>9, <2>1, <2>2, FS_AddElement
  <2> QED
    BY <1>10, <2>3 DEF Out, One, last
<1>11. CASE ~last
  <2> HIDE DEF last
  <2>1. Complete' = Complete
    BY <1>4, <1>5, <1>6, <1>7, <1>8, <1>11
  <2> QED
    BY <1>9, <1>11, <2>1 DEF Out, One, last
<1> QED
  BY <1>10, <1>11


------------------------------------------------------------------------------
(***************************************************************************)
(* The steps: each hands a message over, writes one, or does neither.      *)
(***************************************************************************)
LEMMA InitOrder == Init => InOrder /\ Waiting = <<>> /\ Out = 0
<1> SUFFICES ASSUME Init PROVE InOrder /\ Waiting = <<>> /\ Out = 0
  OBVIOUS
<1>1. commands = <<>> /\ message_queue = <<>> /\ wire = <<>> /\ sends = 0
  BY DEF Init
<1>2. <<>> \in Seq(Chunks) /\ <<>> \in Seq(Nat) /\ Len(<<>>) = 0
  BY EmptySeq
<1>3. Numbers(<<>>) = <<>>
  <2>1. Numbers(<<>>) \in Seq(Nat) /\ Len(Numbers(<<>>)) = 0
    BY <1>2, NumbersTyped
  <2> QED
    BY <2>1, EmptySeq
<1>4. Waiting = <<>>
  <2>1. Waiting = <<>> \o <<>>
    BY <1>1, <1>3, ForwardedEmpty DEF Waiting
  <2> QED
    BY <1>2, <2>1, ConcatEmptySeq
<1>5. Out = 0
  <2>1. Complete = {}
    BY <1>1 DEF Complete
  <2> QED
    BY <2>1, FS_EmptySet DEF Out
<1>6. InOrder
  BY <1>1, <1>2, <1>4, <1>5 DEF InOrder
<1> QED
  BY <1>4, <1>5, <1>6

\* A step that leaves the messages where they are.
LEMMA OrderKept ==
    ASSUME InOrder, UNCHANGED <<commands, message_queue, wire, sends>>
    PROVE  InOrder' /\ UNCHANGED <<Waiting, Out>>
<1>1. UNCHANGED <<Waiting, Out>>
  BY DEF Waiting, Numbers, Forwarded, Out, Complete
<1> QED
  BY <1>1 DEF InOrder

\* A step that moves one from commands to the message queue, or that brings
\* the main thread's own.
LEMMA OrderMoved ==
    ASSUME InOrder, Waiting' = Waiting, UNCHANGED <<wire, sends>>,
           \A i \in 1 .. Len(commands') : commands'[i].from = "pf"
    PROVE  InOrder' /\ UNCHANGED <<Waiting, Out>>
<1>1. Out' = Out
  BY DEF Out, Complete
<1> QED
  BY <1>1 DEF InOrder

LEMMA IoSendsOrder ==
    ASSUME OutboxInv, IoSends
    PROVE  InOrder' /\ Waiting' = Append(Waiting, Out + Len(Waiting) + 1) /\ Out' = Out
<1> TypeOK
  BY DEF OutboxInv, SendInv
<1> DEFINE chunk == [from |-> "pf", n |-> sends']
           b == Numbers(commands)
           w == Waiting
           k == Len(w)
<1>1. /\ sends' = sends + 1 /\ sends \in Nat /\ chunk \in Chunks /\ commands \in Seq(Chunks)
      /\ chunk.from = "pf" /\ chunk.n = sends'
      /\ commands' = Append(commands, chunk) /\ message_queue' = message_queue /\ wire' = wire
  BY SizesAssumption DEF IoSends, TypeOK, Chunks, port
<1>2. /\ \A i \in 1 .. Len(commands) : commands[i].from = "pf"
      /\ Out + k = sends /\ \A i \in 1 .. k : w[i] = Out + i
  BY DEF OutboxInv, InOrder
<1>3. w \in Seq(Nat) /\ k \in Nat /\ Out \in Nat
  BY WaitingTyped, OutTyped, LenProperties
<1> HIDE DEF chunk
<1>4. Waiting' = Append(w, sends')
  <2>1. Numbers(commands') = Append(b, sends')
    BY <1>1, NumbersAppend
  <2>2. Waiting' = Forwarded(message_queue) \o Append(b, sends')
    BY <1>1, <2>1 DEF Waiting
  <2>3. Forwarded(message_queue) \in Seq(Nat) /\ b \in Seq(Nat) /\ sends' \in Nat
    BY <1>1, WaitingTyped
  <2> HIDE DEF b
  <2>4. Forwarded(message_queue) \o Append(b, sends')
            = Append(Forwarded(message_queue) \o b, sends')
    BY <2>3, ConcatAppend
  <2> QED
    BY <2>2, <2>4 DEF Waiting, b
<1>5. Out' = Out
  BY <1>1 DEF Out, Complete
<1>6. \A i \in 1 .. Len(commands') : commands'[i].from = "pf"
  <2>1. /\ Len(commands') = Len(commands) + 1 /\ Len(commands) \in Nat
        /\ commands'[Len(commands) + 1] = chunk
        /\ \A i \in 1 .. Len(commands) : commands'[i] = commands[i]
    BY <1>1, AppendProperties
  <2>2. \A i \in 1 .. Len(commands) + 1 : i \in 1 .. Len(commands) \/ i = Len(commands) + 1
    BY <2>1
  <2> QED
    BY <1>1, <1>2, <2>1, <2>2
<1> HIDE DEF w
<1>7. /\ Len(Waiting') = k + 1 /\ Waiting'[k + 1] = sends'
      /\ \A i \in 1 .. k : Waiting'[i] = w[i]
  BY <1>1, <1>3, <1>4, AppendProperties
<1>8. \A i \in 1 .. k + 1 : Waiting'[i] = Out + i
  <2> SUFFICES ASSUME NEW i \in 1 .. k + 1 PROVE Waiting'[i] = Out + i
    OBVIOUS
  <2>1. CASE i = k + 1
    <3>1. Waiting'[i] = sends + 1
      BY <1>1, <1>7, <2>1
    <3> QED
      BY <1>2, <1>3, <2>1, <3>1
  <2>2. CASE i # k + 1
    <3>1. i \in 1 .. k
      BY <1>3, <2>2
    <3> QED
      BY <1>2, <1>7, <3>1
  <2> QED
    BY <2>1, <2>2
<1>9. InOrder'
  BY <1>1, <1>2, <1>3, <1>5, <1>6, <1>7, <1>8 DEF InOrder
<1>10. sends' = Out + k + 1
  BY <1>1, <1>2, <1>3
<1> QED
  BY <1>4, <1>5, <1>9, <1>10 DEF w

\* The main thread's own messages have no number here.
LEMMA OwnOrder ==
    ASSUME OutboxInv, NEW n \in Nat, Enqueue([from |-> "main", n |-> n]),
           UNCHANGED <<commands, sends>>
    PROVE  InOrder' /\ UNCHANGED <<Waiting, Out>>
<1> TypeOK
  BY DEF OutboxInv, SendInv
<1> DEFINE chunk == [from |-> "main", n |-> n]
<1>1. /\ message_queue \in Seq(Chunks) /\ chunk \in Chunks /\ chunk.from # "pf"
      /\ message_queue' = Append(message_queue, chunk) /\ wire' = wire
  BY DEF Enqueue, TypeOK, Chunks
<1> HIDE DEF chunk
<1>2. Forwarded(message_queue') = Forwarded(message_queue)
  BY <1>1, ForwardedAppend DEF With
<1>3. Waiting' = Waiting
  BY <1>2 DEF Waiting
<1>4. \A i \in 1 .. Len(commands') : commands'[i].from = "pf"
  BY DEF OutboxInv, InOrder
<1> QED
  BY <1>1, <1>3, <1>4, OrderMoved DEF OutboxInv

\* get_chunk and enqueue_chunk: from the one queue to the other.
LEMMA GetsOrder ==
    ASSUME OutboxInv, MainGetsChunk
    PROVE  InOrder' /\ UNCHANGED <<Waiting, Out>>
<1> TypeOK
  BY DEF OutboxInv, SendInv
<1> DEFINE chunk == Head(commands)
           a == Forwarded(message_queue)
           b == Numbers(commands)
<1>1. /\ message_queue \in Seq(Chunks) /\ commands \in Seq(Chunks) /\ commands # <<>>
      /\ commands' = Tail(commands) /\ message_queue' = Append(message_queue, chunk)
      /\ UNCHANGED <<wire, sends>>
  BY DEF MainGetsChunk, Enqueue, Taken, TypeOK
<1>2. /\ chunk \in Chunks /\ chunk = commands[1] /\ Len(commands) \in Nat /\ Len(commands) > 0
      /\ Len(commands') = Len(commands) - 1
      /\ \A i \in 1 .. Len(commands') : commands'[i] = commands[i + 1]
  BY <1>1, HeadTailProperties, EmptySeq
<1>3. \A i \in 1 .. Len(commands) : commands[i].from = "pf"
  BY DEF OutboxInv, InOrder
<1>4. chunk.from = "pf" /\ \A i \in 1 .. Len(commands') : commands'[i].from = "pf"
  <2>1. 1 \in 1 .. Len(commands) /\ \A i \in 1 .. Len(commands') : i + 1 \in 1 .. Len(commands)
    BY <1>2
  <2> QED
    BY <1>2, <1>3, <2>1
<1>5. b # <<>> /\ Head(b) = chunk.n /\ Numbers(commands') = Tail(b)
  BY <1>1, NumbersTail
<1>6. a \in Seq(Nat) /\ b \in Seq(Nat)
  BY WaitingTyped
<1> HIDE DEF chunk
<1>7. Forwarded(message_queue') = Append(a, chunk.n)
  BY <1>1, <1>2, <1>4, ForwardedAppend DEF With
<1> HIDE DEF a, b
<1>8. Append(a, Head(b)) \o Tail(b) = a \o b
  BY <1>5, <1>6, ConcatShift
<1>9. Waiting' = Waiting
  <2>1. Waiting' = Append(a, chunk.n) \o Tail(b) /\ Waiting = a \o b
    BY <1>5, <1>7 DEF Waiting, a, b
  <2> QED
    BY <1>5, <1>8, <2>1
<1> QED
  BY <1>1, <1>4, <1>9, OrderMoved DEF OutboxInv

\* write_completion: a message is out with its last byte.
LEMMA CompletesOrder ==
    ASSUME OutboxInv, NEW bytes \in 1 .. ChunkSize, WriteCompletes(bytes)
    PROVE  /\ InOrder'
           /\ \/ UNCHANGED <<Waiting, Out>>
              \/ /\ Waiting # <<>> /\ Head(Waiting) = Out + 1
                 /\ Out' = Out + 1 /\ Waiting' = Tail(Waiting)
<1> TypeOK /\ PortInv
  BY DEF OutboxInv, SendInv
<1> DEFINE front == Head(message_queue)
           pos == write_pos + bytes
           a == Forwarded(message_queue)
           b == Numbers(commands)
           k == Len(Waiting)
<1>1. /\ message_queue # <<>> /\ message_queue \in Seq(Chunks)
      /\ front \in Chunks /\ pos <= ChunkSize
      /\ wire' = wire \o Taking(front, write_pos, bytes)
      /\ UNCHANGED <<commands, sends>>
  BY FrontTaken DEF WriteCompletes, queues, TypeOK
<1>2. ChunkSize \in Nat /\ pos \in Nat
  BY SizesAssumption DEF TypeOK
<1>3. \/ pos = ChunkSize /\ message_queue' = Tail(message_queue)
      \/ pos # ChunkSize /\ message_queue' = message_queue
  BY <1>2 DEF WriteCompletes
<1>4. Out' = Out + One(pos = ChunkSize /\ front.from = "pf") /\ Out \in Nat
  BY <1>1, CompleteGrows, OutTyped
<1>5. /\ \A i \in 1 .. Len(commands) : commands[i].from = "pf"
      /\ Out + k = sends /\ \A i \in 1 .. k : Waiting[i] = Out + i
  BY DEF OutboxInv, InOrder
<1>6. a \in Seq(Nat) /\ b \in Seq(Nat) /\ Waiting \in Seq(Nat) /\ k \in Nat
  BY WaitingTyped, LenProperties
<1>7. CASE pos = ChunkSize /\ front.from = "pf"
  <2>1. a # <<>> /\ Forwarded(message_queue') = Tail(a)
    BY <1>1, <1>3, <1>7, ForwardedTail
  <2>2. Waiting # <<>> /\ Waiting' = Tail(Waiting)
    <3>1. Waiting' = Tail(a) \o b /\ Waiting = a \o b
      BY <1>1, <2>1 DEF Waiting
    <3> HIDE DEF a, b
    <3> QED
      BY <1>6, <2>1, <3>1, ConcatTail
  <2>3. Out' = Out + 1
    BY <1>4, <1>7 DEF One
  <2> DEFINE w == Waiting
             v == Waiting'
  <2> HIDE DEF w, v
  <2>4. /\ v \in Seq(Nat) /\ Len(v) = k - 1 /\ k > 0 /\ Head(w) = w[1]
        /\ \A i \in 1 .. k - 1 : v[i] = w[i + 1]
    BY <1>6, <2>2, HeadTailProperties, EmptySeq DEF w, v
  <2>5. Head(w) = Out + 1
    <3>1. 1 \in 1 .. k
      BY <1>6, <2>4
    <3> QED
      BY <1>5, <2>4, <3>1 DEF w
  <2>6. \A i \in 1 .. Len(v) : v[i] = Out' + i
    <3> SUFFICES ASSUME NEW i \in 1 .. Len(v) PROVE v[i] = Out' + i
      OBVIOUS
    <3>1. i \in 1 .. k - 1 /\ i + 1 \in 1 .. k /\ i \in Nat
      BY <1>6, <2>4
    <3>2. v[i] = Out + (i + 1)
      BY <1>5, <2>4, <3>1 DEF w
    <3> QED
      BY <1>4, <2>3, <3>1, <3>2
  <2>7. Out' + Len(v) = sends'
    <3>1. sends' = Out + k
      BY <1>1, <1>5
    <3>2. Out' = Out + 1 /\ Len(v) = k - 1 /\ k \in Nat /\ Out \in Nat
      BY <1>4, <1>6, <2>3, <2>4
    <3> HIDE DEF k
    <3> QED
      BY <3>1, <3>2
  <2>8. InOrder'
    BY <1>1, <1>5, <2>6, <2>7 DEF InOrder, v
  <2> QED
    BY <2>2, <2>3, <2>5, <2>8 DEF w
<1>8. CASE ~(pos = ChunkSize /\ front.from = "pf")
  <2>1. Out' = Out
    BY <1>4, <1>8 DEF One
  <2>2. Forwarded(message_queue') = a
    <3>1. CASE pos = ChunkSize
      BY <1>1, <1>3, <1>8, <3>1, ForwardedTail
    <3>2. CASE pos # ChunkSize
      BY <1>3, <3>2
    <3> QED
      BY <3>1, <3>2
  <2>3. Waiting' = Waiting
    BY <1>1, <2>2 DEF Waiting
  <2>4. InOrder'
    BY <1>1, <1>5, <2>1, <2>3 DEF InOrder
  <2> QED
    BY <2>1, <2>3, <2>4
<1> QED
  BY <1>7, <1>8

\* What the step is to Outbox.
LEMMA AsSend ==
    ASSUME Waiting' = Append(Waiting, Out + Len(Waiting) + 1), Out' = Out
    PROVE  Box!Send
BY DEF Box!Send, Waiting, Numbers, Out

LEMMA AsWrite ==
    ASSUME Waiting # <<>>, Head(Waiting) = Out + 1, Out' = Out + 1, Waiting' = Tail(Waiting)
    PROVE  Box!Write
BY DEF Box!Write, Waiting, Numbers, Out

Boxed == [Box!Next]_<<Waiting, Out>>

LEMMA StepOutbox == OutboxInv /\ [Next]_vars => InOrder' /\ Boxed
<1> SUFFICES ASSUME OutboxInv, [Next]_vars PROVE InOrder' /\ Boxed
  OBVIOUS
<1> USE DEF Boxed
<1> InOrder /\ TypeOK
  BY DEF OutboxInv, SendInv
<1>0. ASSUME UNCHANGED <<commands, message_queue, wire, sends>> PROVE InOrder' /\ Boxed
  BY <1>0, OrderKept
<1>1. CASE IoHandles
  BY <1>0, <1>1 DEF IoHandles, queues, port
<1>2. CASE IoSends
  BY <1>2, IoSendsOrder, AsSend DEF Box!Next
<1>3. CASE IoPosts
  BY <1>0, <1>3 DEF IoPosts, port
<1>4. CASE IoLeaves
  BY <1>0, <1>4 DEF IoLeaves, queues, port
<1>5. CASE EventLoops
  BY <1>0, <1>5 DEF EventLoops, queues, port
<1>6. CASE EventThread
  BY <1>0, <1>6 DEF EventThread, port
<1>7. CASE MainWakes
  BY <1>0, <1>7 DEF MainWakes, port
<1>8. CASE MainLocksControl
  BY <1>0, <1>8 DEF MainLocksControl, queues, port
<1>9. CASE MainPops
  BY <1>0, <1>9 DEF MainPops, port
<1>10. CASE MainResets
  <2>1. CASE UNCHANGED <<port, own>>
    BY <1>0, <1>10, <2>1 DEF MainResets, port
  <2>2. CASE own' = own + 1 /\ Enqueue([from |-> "main", n |-> own'])
    <3>1. own' \in Nat /\ UNCHANGED <<commands, sends>>
      BY <1>10, <2>2, SizesAssumption DEF TypeOK, MainResets
    <3> QED
      BY <2>2, <3>1, OwnOrder
  <2> QED
    BY <1>10, <2>1, <2>2 DEF MainResets
<1>11. CASE MainGetsChunk
  BY <1>11, GetsOrder
<1>12. CASE MainUnlocksControl
  BY <1>0, <1>12 DEF MainUnlocksControl, queues, port
<1>13. CASE MainDispatches
  BY <1>0, <1>13 DEF MainDispatches, queues, port
<1>14. CASE MainCleansUp
  BY <1>0, <1>14 DEF MainCleansUp
<1>15. CASE MainDestroys
  BY <1>0, <1>15 DEF MainDestroys, queues, port
<1>16. CASE MainSends
  <2>1. own' \in Nat /\ UNCHANGED <<commands, sends>> /\ Enqueue([from |-> "main", n |-> own'])
    BY <1>16, SizesAssumption DEF TypeOK, MainSends, queues
  <2> QED
    BY <2>1, OwnOrder
<1>17. CASE MainStops
  BY <1>0, <1>17 DEF MainStops, queues, port
<1>18. ASSUME NEW c \in {"RESET", "STOP"}, MainSetsControl(c)
       PROVE  InOrder' /\ Boxed
  BY <1>0, <1>18 DEF MainSetsControl, port
<1>19. ASSUME NEW bytes \in 1 .. ChunkSize, WriteCompletes(bytes)
       PROVE  InOrder' /\ Boxed
  BY <1>19, CompletesOrder, AsWrite DEF Box!Next
<1>20. CASE UNCHANGED vars
  BY <1>0, <1>20 DEF vars, queues, port
<1> QED
  BY <1>1, <1>2, <1>3, <1>4, <1>5, <1>6, <1>7, <1>8, <1>9, <1>10, <1>11, <1>12, <1>13,
     <1>14, <1>15, <1>16, <1>17, <1>18, <1>19, <1>20
     DEF Next, IoThread, MainGoesOn

\* The messages of the port forwarder reach the channel once each and in the
\* order of the sends, and none is skipped (VDAgentSendPFCommand, get_chunk,
\* enqueue_chunk, write_completion): the path implements Outbox.
THEOREM PathIsAnOutbox == Spec => ImplementsOutbox
<1>1. Init => Box!Init
  BY InitOrder DEF Box!Init, Waiting, Numbers, Out
<1>2. Init => OutboxInv
  BY InitOrder, InitSend DEF OutboxInv
<1>3. OutboxInv /\ [Next]_vars => OutboxInv'
  BY StepSend, StepOutbox DEF OutboxInv
<1>4. OutboxInv /\ [Next]_vars
        => [Box!Next]_<<Forwarded(message_queue) \o [i \in 1 .. Len(commands) |-> commands[i].n],
                        Cardinality(Complete)>>
  BY StepOutbox DEF Boxed, Waiting, Numbers, Out
<1> QED
  BY <1>1, <1>2, <1>3, <1>4, PTL DEF Spec, ImplementsOutbox, Box!Spec

==============================================================================
