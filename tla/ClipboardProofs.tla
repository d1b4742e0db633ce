---------------------------- MODULE ClipboardProofs ----------------------------
(***************************************************************************)
(* Reassembled, StreamKept, PasteIsServed and ClientKnows of Clipboard, in *)
(* every world: for messages of any length, and any number of copies,      *)
(* pastes and messages.                                                    *)
(***************************************************************************)
EXTENDS Clipboard, SequenceTheorems, TLAPS

\* The types the proofs need; the bounds of the worlds are left out.
AllFormats == {"text", "image"}
Pieces     == [n : Nat, part : Nat, of : Nat, type : Types, arg : SUBSET AllFormats]
Messages   == [type : Types, arg : SUBSET AllFormats]
Owners     == {"none", "guest", "client"}
Clients    == [here : BOOLEAN, owner : Owners, types : SUBSET AllFormats,
               asked : Seq(SUBSET AllFormats)]
Commands   == {"RESET", "CLIPBOARD"}
Offers     == [owner : {"none", "agent", "app"}, offered : SUBSET AllFormats, update : BOOLEAN]

Sorts ==
    /\ world \in Worlds
    /\ running \in BOOLEAN /\ main \in {"loop", "render"} /\ tick = (main = "render")
    /\ owner \in Owners /\ grab_types \subseteq AllFormats
    /\ in_msg \in Seq(Pieces) /\ control \in Seq(Commands)
    /\ win \in Offers /\ toClient \in Seq(Messages) /\ cl \in Clients
    /\ sending \in Pieces /\ sent \in Nat

\* Only data and other long messages come in several chunks.
Long == {"CLIPBOARD", "OTHER"}

SentInParts ==
    /\ sending # Nothing => 1 <= sending.part /\ sending.part < sending.of
    /\ sending.type \in Long
    /\ in_msg # <<>> => in_msg[1].type \in Long

------------------------------------------------------------------------------
\* A client that stays: the agent has received what it is in the middle of
\* sending, from its beginning, or nothing of it.
InStep ==
    in_msg # <<>> =>
        /\ sending # Nothing /\ Len(in_msg) = sending.part /\ in_msg[1].of = sending.of
        /\ \A i \in 1 .. Len(in_msg) : in_msg[i].n = sending.n /\ in_msg[i].part = i

\* The client knows, or is about to.
GuestOwns == owner = "guest" => main = "loop" /\ ClientLearns

------------------------------------------------------------------------------
\* The answers that are due: the request is on its way, or with the client, or
\* the client is in the middle of its answer.
Requests == {i \in 1 .. Len(toClient) : toClient[i].type = "REQUEST"}
NoneDue  == Requests = {} /\ cl.asked = <<>> /\ sending.type # "CLIPBOARD"

OneDue ==
    \/ NoneDue
    \/ /\ cl.asked = <<>> /\ sending.type # "CLIPBOARD"
       /\ \E i \in Requests : Requests = {i} /\ toClient[i].arg = {format}
    \/ Requests = {} /\ sending.type # "CLIPBOARD" /\ cl.asked = <<{format}>>
    \/ Requests = {} /\ cl.asked = <<>> /\ sending.type = "CLIPBOARD" /\ sending.arg = {format}

\* The data that comes in is the answer to this paste, and all there is of it,
\* unless its client went away.
DataIsDue ==
    in_msg # <<>> /\ in_msg[1].type = "CLIPBOARD" =>
        /\ main = "render" /\ in_msg[1].arg = {format}
        /\ \/ Resetting
           \/ /\ sending.type = "CLIPBOARD"
              /\ sending.part = Len(in_msg) /\ sending.of = in_msg[1].of

\* A paste waits for one answer, and ends when it has come; Windows has the data
\* unless it refuses it.
Served == Refuses \/ Resetting \/ format \notin win.offered \/ format \notin cl.types

PasteInv ==
    /\ main = "loop" => NoneDue
    /\ main = "render" => owner = "client" /\ OneDue
    /\ DataIsDue
    /\ main = "render" /\ control # <<>> => NoneDue /\ Served

------------------------------------------------------------------------------
\* The agent has all of what the client is in the middle of sending, which is
\* the answer to a paste; while a RESET waits there is no other client yet that
\* says something.
StreamInv ==
    /\ running
    /\ sending # Nothing => sending.type = "CLIPBOARD" /\ in_msg # <<>> /\ sending.n = in_msg[1].n
    /\ in_msg # <<>> => in_msg[1].type = "CLIPBOARD"
    /\ \A i \in 1 .. Len(in_msg) : in_msg[i].n = in_msg[1].n /\ in_msg[i].part = i
    /\ main = "render" /\ Resetting => toClient = <<>> /\ cl.owner # "guest"

(***************************************************************************)
(* The pieces.                                                             *)
(***************************************************************************)
LEMMA WorldFacts ==
    ASSUME world \in Worlds
    PROVE  Formats \subseteq AllFormats /\ MaxParts \in Nat \ {0}
BY ClipboardWorlds DEF Formats, MaxParts, AllFormats

LEMMA AppendFacts ==
    ASSUME NEW S, NEW s \in Seq(S), NEW e \in S
    PROVE  /\ Append(s, e) \in Seq(S)
           /\ Len(Append(s, e)) = Len(s) + 1 /\ Len(s) \in Nat
           /\ \A i \in 1 .. Len(s) : Append(s, e)[i] = s[i]
           /\ Append(s, e)[Len(s) + 1] = e
           /\ Append(s, e) # <<>>
           /\ s # <<>> => Len(s) > 0 /\ Append(s, e)[1] = s[1]
           /\ s = <<>> => Len(s) = 0 /\ Append(s, e)[1] = e
<1>1. /\ Append(s, e) \in Seq(S)
      /\ Len(Append(s, e)) = Len(s) + 1 /\ Len(s) \in Nat
      /\ \A i \in 1 .. Len(s) : Append(s, e)[i] = s[i]
      /\ Append(s, e)[Len(s) + 1] = e
  BY AppendProperties, LenProperties
<1>2. s = <<>> <=> Len(s) = 0
  BY EmptySeq
<1>3. Append(s, e) # <<>>
  BY <1>1, EmptySeq
<1> QED
  BY <1>1, <1>2, <1>3

LEMMA TailFacts ==
    ASSUME NEW S, NEW s \in Seq(S), s # <<>>
    PROVE  /\ Head(s) = s[1] /\ Head(s) \in S /\ Tail(s) \in Seq(S)
           /\ Len(s) \in Nat /\ Len(s) > 0 /\ Len(Tail(s)) = Len(s) - 1
           /\ \A i \in 1 .. Len(Tail(s)) : Tail(s)[i] = s[i + 1]
BY HeadTailProperties, LenProperties, EmptySeq

\* What the client is told, if it is there.
LEMMA WrittenFacts ==
    ASSUME NEW type \in Types, NEW arg \in SUBSET AllFormats
    PROVE  /\ Written(type, arg) \in Seq(Messages)
           /\ Written(type, arg) = <<>> \/ Written(type, arg) = <<[type |-> type, arg |-> arg]>>
           /\ cl.here => Written(type, arg) = <<[type |-> type, arg |-> arg]>>
<1>1. [type |-> type, arg |-> arg] \in Messages
  BY DEF Messages
<1>2. <<[type |-> type, arg |-> arg]>> \in Seq(Messages)
  BY <1>1
<1>3. <<>> \in Seq(Messages)
  BY EmptySeq
<1> QED
  BY <1>2, <1>3 DEF Written

\* What comes in: all of a message, a piece of none, one more piece, the last.
Single(c) ==
    /\ in_msg = <<>> /\ c.part = 1 /\ c.of = 1
    /\ Dispatch(c) /\ UNCHANGED <<running, in_msg>>

Stray(c) ==
    /\ in_msg = <<>> /\ c.part > 1
    /\ running' \in BOOLEAN /\ UNCHANGED <<in_msg, Dispatched>>

Collected(c) ==
    /\ in_msg' = Append(in_msg, c)
    /\ in_msg = <<>> => c.part = 1 /\ c.of # 1
    /\ in_msg # <<>> => in_msg[1].of # Len(in_msg) + 1
    /\ UNCHANGED <<running, Dispatched>>

Completed(c) ==
    /\ in_msg # <<>> /\ in_msg[1].of = Len(in_msg) + 1
    /\ in_msg' = <<>> /\ UNCHANGED running
    /\ \/ Dropped(in_msg[1]) /\ UNCHANGED Dispatched
       \/ Dispatch(in_msg[1])

LEMMA ChunkCases ==
    ASSUME in_msg \in Seq(Pieces), NEW c \in Pieces, HandleChunk(c)
    PROVE  Single(c) \/ Stray(c) \/ Collected(c) \/ Completed(c)
<1> DEFINE parts == Append(in_msg, c)
<1>1. /\ Len(parts) = Len(in_msg) + 1 /\ Len(in_msg) \in Nat
      /\ in_msg # <<>> => parts[1] = in_msg[1]
      /\ in_msg = <<>> => parts[1] = c /\ Len(in_msg) = 0
  BY AppendFacts
<1>2. AtEnd(parts) <=> Len(in_msg) + 1 = parts[1].of
  BY <1>1 DEF AtEnd
<1>3. c.part \in Nat
  BY DEF Pieces
<1> HIDE DEF parts
<1>4. \/ /\ in_msg = <<>> /\ c.part = 1 /\ AtEnd(parts)
         /\ Dispatch(c)
         /\ UNCHANGED <<running, in_msg>>
      \/ /\ in_msg = <<>> /\ c.part > 1
         /\ running' \in BOOLEAN
         /\ UNCHANGED <<in_msg, Dispatched>>
      \/ /\ in_msg # <<>> \/ c.part = 1
         /\ ~AtEnd(parts)
         /\ in_msg' = parts
         /\ UNCHANGED <<running, Dispatched>>
      \/ /\ in_msg # <<>> /\ AtEnd(parts)
         /\ in_msg' = <<>>
         /\ \/ Dropped(in_msg[1]) /\ UNCHANGED Dispatched
            \/ ~Dropped(in_msg[1]) /\ Dispatch(in_msg[1])
         /\ UNCHANGED running
  BY DEF HandleChunk, parts, CleanupInMsg
<1>5. ASSUME in_msg = <<>>, c.part = 1, AtEnd(parts), Dispatch(c), UNCHANGED <<running, in_msg>>
      PROVE  Single(c)
  BY <1>1, <1>2, <1>5 DEF Single
<1>6. ASSUME in_msg # <<>> \/ c.part = 1, ~AtEnd(parts), in_msg' = parts,
             UNCHANGED <<running, Dispatched>>
      PROVE  Collected(c)
  <2>1. in_msg = <<>> => c.part = 1 /\ c.of # 1
    BY <1>1, <1>2, <1>6
  <2>2. in_msg # <<>> => in_msg[1].of # Len(in_msg) + 1
    BY <1>1, <1>2, <1>6
  <2> QED
    BY <1>6, <2>1, <2>2 DEF Collected, parts
<1>7. ASSUME in_msg # <<>>, AtEnd(parts), in_msg' = <<>>, UNCHANGED running,
             (Dropped(in_msg[1]) /\ UNCHANGED Dispatched) \/ Dispatch(in_msg[1])
      PROVE  Completed(c)
  BY <1>1, <1>2, <1>7 DEF Completed
<1> QED
  BY <1>4, <1>5, <1>6, <1>7 DEF Stray

\* The first piece is the message.
LEMMA FirstPiece ==
    ASSUME in_msg \in Seq(Pieces), in_msg # <<>>
    PROVE  /\ in_msg[1] \in Pieces /\ Len(in_msg) \in Nat /\ Len(in_msg) > 0
           /\ 1 \in 1 .. Len(in_msg)
<1>1. Len(in_msg) \in Nat /\ Len(in_msg) > 0
  BY LenProperties, EmptySeq
<1>2. 1 \in 1 .. Len(in_msg)
  BY <1>1
<1> QED
  BY <1>1, <1>2, ElementOfSeq

------------------------------------------------------------------------------
(***************************************************************************)
(* The sorts are kept.                                                     *)
(***************************************************************************)
LEMMA DispatchSorts ==
    ASSUME Sorts, NEW m \in Pieces, Dispatch(m)
    PROVE  /\ owner' \in Owners /\ grab_types' \subseteq AllFormats
           /\ control' \in Seq(Commands) /\ win' \in Offers /\ toClient' \in Seq(Messages)
<1>0. /\ m.arg \in SUBSET AllFormats /\ m.type \in Types
      /\ owner \in Owners /\ grab_types \subseteq AllFormats
      /\ control \in Seq(Commands) /\ win \in Offers /\ toClient \in Seq(Messages)
  BY DEF Pieces, Sorts
<1>1. CASE m.type = "GRAB" /\ HandleGrab(m.arg)
  <2>1. [owner |-> "agent", offered |-> m.arg, update |-> TRUE] \in Offers
    BY <1>0 DEF Offers
  <2>2. {} \subseteq AllFormats /\ "client" \in Owners
    BY DEF Owners
  <2> QED
    BY <1>0, <1>1, <2>1, <2>2 DEF HandleGrab
<1>2. CASE m.type = "CLIPBOARD" /\ HandleClipboard(m.arg)
  <2>1. control' \in Seq(Commands)
    BY <1>0, <1>2, AppendFacts DEF HandleClipboard, Ends, Commands
  <2>2. win' \in Offers
    <3>1. [win EXCEPT !.offered = @ \ m.arg] \in Offers
      BY <1>0 DEF Offers
    <3> QED
      BY <1>0, <1>2, <3>1 DEF HandleClipboard
  <2> QED
    BY <1>0, <1>2, <2>1, <2>2 DEF HandleClipboard
<1>3. CASE m.type = "RELEASE" /\ HandleRelease
  <2>1. control' \in Seq(Commands)
    BY <1>0, <1>3, AppendFacts DEF HandleRelease, SetControl, Commands
  <2> QED
    BY <1>0, <1>3, <2>1 DEF HandleRelease, Owners
<1>4. CASE m.type = "REQUEST" /\ HandleRequest(m.arg)
  <2>1. {} \in SUBSET AllFormats /\ "CLIPBOARD" \in Types
    BY DEF Types
  <2>2. PICK s \in Seq(Messages) : toClient' = toClient \o s
    BY <1>0, <1>4, <2>1, WrittenFacts DEF HandleRequest, WriteMessage
  <2>3. toClient' \in Seq(Messages)
    BY <1>0, <2>2, ConcatProperties
  <2> QED
    BY <1>0, <1>4, <2>3 DEF HandleRequest
<1>5. CASE m.type = "OTHER" /\ UNCHANGED <<owner, grab_types, control, win, toClient>>
  BY <1>0, <1>5
<1> QED
  BY <1>1, <1>2, <1>3, <1>4, <1>5 DEF Dispatch

LEMMA ChunkSorts ==
    ASSUME Sorts, NEW c \in Pieces, HandleChunk(c)
    PROVE  /\ owner' \in Owners /\ grab_types' \subseteq AllFormats
           /\ control' \in Seq(Commands) /\ win' \in Offers /\ toClient' \in Seq(Messages)
           /\ running' \in BOOLEAN /\ in_msg' \in Seq(Pieces)
<1>1. Single(c) \/ Stray(c) \/ Collected(c) \/ Completed(c)
  BY ChunkCases DEF Sorts
<1>2. CASE Single(c)
  BY <1>2, DispatchSorts DEF Single, Sorts
<1>3. CASE Stray(c)
  BY <1>3 DEF Stray, Dispatched, Sorts
<1>4. CASE Collected(c)
  BY <1>4, AppendFacts DEF Collected, Dispatched, Sorts
<1>5. CASE Completed(c)
  <2>1. <<>> \in Seq(Pieces) /\ in_msg[1] \in Pieces
    BY <1>5, FirstPiece, EmptySeq DEF Completed, Sorts
  <2> QED
    BY <1>5, <2>1, DispatchSorts DEF Completed, Dispatched, Sorts
<1> QED
  BY <1>1, <1>2, <1>3, <1>4, <1>5

\* What is said of the guest's clipboard.
LEMMA ReleasedFacts ==
    ASSUME Sorts
    PROVE  /\ Released \in Seq(Messages)
           /\ Released = <<>> \/ Released = <<[type |-> "RELEASE", arg |-> {}]>>
           /\ owner # "guest" => Released = <<>>
<1>1. {} \in SUBSET AllFormats /\ "RELEASE" \in Types /\ <<>> \in Seq(Messages)
  BY EmptySeq DEF Types
<1> QED
  BY <1>1, WrittenFacts DEF Released

LEMMA GrabFacts ==
    ASSUME Sorts
    PROVE  /\ Written("GRAB", Formats) \in Seq(Messages)
           /\ \/ Written("GRAB", Formats) = <<>>
              \/ Written("GRAB", Formats) = <<[type |-> "GRAB", arg |-> Formats]>>
           /\ cl.here => Written("GRAB", Formats) = <<[type |-> "GRAB", arg |-> Formats]>>
<1>1. Formats \in SUBSET AllFormats /\ "GRAB" \in Types
  BY WorldFacts DEF Types, Sorts
<1> QED
  BY <1>1, WrittenFacts

\* The piece that is sent.
Piece(type, arg, of) == [n |-> sent + 1, part |-> 1, of |-> of, type |-> type, arg |-> arg]

LEMMA SendsFacts ==
    ASSUME Sorts, NEW type \in Types, NEW arg \in SUBSET AllFormats, NEW of \in Nat \ {0},
           Sends(type, arg, of)
    PROVE  /\ Piece(type, arg, of) \in Pieces /\ HandleChunk(Piece(type, arg, of))
           /\ running /\ cl.here /\ sending = Nothing
           /\ sending' \in Pieces /\ sent' \in Nat
           /\ of > 1 => sending' = Piece(type, arg, of)
           /\ of = 1 => sending' = Nothing
           /\ UNCHANGED <<main, format, tick, copies, pastes>>
<1>1. Piece(type, arg, of) \in Pieces
  BY DEF Piece, Pieces, Sorts
<1>2. Nothing \in Pieces
  BY DEF Nothing, Pieces, Types, AllFormats
<1>3. sent' \in Nat
  BY DEF Sends, Sorts
<1> QED
  BY <1>1, <1>2, <1>3 DEF Sends, Piece, Outside

LEMMA SendsSorts ==
    ASSUME Sorts, NEW type \in Types, NEW arg \in SUBSET AllFormats, NEW of \in Nat \ {0},
           Sends(type, arg, of), cl' \in Clients, UNCHANGED world
    PROVE  Sorts'
<1>1. /\ Piece(type, arg, of) \in Pieces /\ HandleChunk(Piece(type, arg, of))
      /\ sending' \in Pieces /\ sent' \in Nat
      /\ UNCHANGED <<main, tick>>
  BY SendsFacts
<1>2. /\ owner' \in Owners /\ grab_types' \subseteq AllFormats
      /\ control' \in Seq(Commands) /\ win' \in Offers /\ toClient' \in Seq(Messages)
      /\ running' \in BOOLEAN /\ in_msg' \in Seq(Pieces)
  BY <1>1, ChunkSorts
<1> QED
  BY <1>1, <1>2 DEF Sorts

\* What the client sends that is no answer, in one piece.
Speaks ==
    \/ \E types \in SUBSET Formats : ClientGrabs(types)
    \/ ClientReleases
    \/ \E f \in Formats : ClientRequests(f)

LEMMA SpeaksFacts ==
    ASSUME Sorts, UNCHANGED world, Speaks
    PROVE  \E type \in {"GRAB", "RELEASE", "REQUEST"}, arg \in SUBSET AllFormats :
              /\ Sends(type, arg, 1)
              /\ cl' \in Clients /\ cl'.asked = cl.asked /\ cl'.here = cl.here
              /\ type = "REQUEST" => UNCHANGED cl /\ cl.owner = "guest"
              /\ type # "REQUEST" => MayChange
              /\ type = "RELEASE" => cl.owner = "client"
              /\ (type = "GRAB" /\ arg = {}) => Unknown
<1>1. cl \in Clients /\ Formats \subseteq AllFormats
  BY WorldFacts DEF Sorts
<1>2. ASSUME NEW types \in SUBSET Formats, ClientGrabs(types)
      PROVE  /\ Sends("GRAB", types, 1) /\ MayChange /\ (types = {} => Unknown)
             /\ cl' \in Clients /\ cl'.asked = cl.asked /\ cl'.here = cl.here
  BY <1>1, <1>2 DEF ClientGrabs, Clients, Owners
<1>3. ASSUME ClientReleases
      PROVE  /\ Sends("RELEASE", {}, 1) /\ MayChange /\ cl.owner = "client"
             /\ cl' \in Clients /\ cl'.asked = cl.asked /\ cl'.here = cl.here
  BY <1>1, <1>3 DEF ClientReleases, Clients, Owners
<1>4. ASSUME NEW f \in Formats, ClientRequests(f)
      PROVE  Sends("REQUEST", {f}, 1) /\ UNCHANGED cl /\ cl.owner = "guest"
  BY <1>4 DEF ClientRequests
<1>5. CASE \E types \in SUBSET Formats : ClientGrabs(types)
  <2>1. PICK types \in SUBSET Formats : ClientGrabs(types)
    BY <1>5
  <2>2. types \in SUBSET AllFormats
    BY <1>1
  <2> QED
    BY <1>2, <2>1, <2>2
<1>6. CASE ClientReleases
  <2>1. {} \in SUBSET AllFormats
    OBVIOUS
  <2> QED
    BY <1>3, <1>6, <2>1
<1>7. CASE \E f \in Formats : ClientRequests(f)
  <2>1. PICK f \in Formats : ClientRequests(f)
    BY <1>7
  <2>2. {f} \in SUBSET AllFormats
    BY <1>1
  <2> QED
    BY <1>1, <1>4, <2>1, <2>2
<1> QED
  BY <1>5, <1>6, <1>7 DEF Speaks

\* An answer: what the client has of what it is asked for.
LEMMA AnswersFacts ==
    ASSUME Sorts, UNCHANGED world, NEW of \in 1 .. MaxParts, ClientAnswers(of)
    PROVE  LET data == Head(cl.asked) \cap cl.types
           IN  /\ cl.asked # <<>> /\ of \in Nat \ {0}
               /\ data \in SUBSET AllFormats /\ (data = {} => of = 1)
               /\ Sends("CLIPBOARD", data, of)
               /\ cl' \in Clients /\ cl'.asked = Tail(cl.asked)
               /\ cl'.types = cl.types /\ cl'.owner = cl.owner /\ cl'.here = cl.here
<1>1. cl \in Clients /\ of \in Nat \ {0}
  BY WorldFacts DEF Sorts
<1>2. /\ cl.asked # <<>> /\ cl.asked \in Seq(SUBSET AllFormats)
      /\ cl.types \in SUBSET AllFormats
  BY <1>1 DEF ClientAnswers, Clients
<1>3. Tail(cl.asked) \in Seq(SUBSET AllFormats)
  BY <1>2, TailFacts
<1>4. cl' = [cl EXCEPT !.asked = Tail(cl.asked)]
  BY DEF ClientAnswers
<1>5. /\ cl' \in Clients /\ cl'.asked = Tail(cl.asked)
      /\ cl'.types = cl.types /\ cl'.owner = cl.owner /\ cl'.here = cl.here
  BY <1>1, <1>3, <1>4 DEF Clients
<1> QED
  BY <1>1, <1>2, <1>5 DEF ClientAnswers

\* The next piece of what is sent.
NextPiece == [sending EXCEPT !.part = @ + 1]

LEMMA ContinuesFacts ==
    ASSUME Sorts, SentInParts, ClientContinues
    PROVE  /\ NextPiece \in Pieces /\ HandleChunk(NextPiece)
           /\ running /\ cl.here /\ sending # Nothing /\ sending.part + 1 <= sending.of
           /\ sending.part \in Nat /\ sending.part >= 1 /\ sending.of \in Nat
           /\ NextPiece.part = sending.part + 1 /\ NextPiece.of = sending.of
           /\ NextPiece.n = sending.n /\ NextPiece.type = sending.type
           /\ NextPiece.arg = sending.arg
           /\ sending.part + 1 < sending.of => sending' = NextPiece
           /\ sending.part + 1 = sending.of => sending' = Nothing
           /\ UNCHANGED <<main, format, tick, copies, pastes, cl, sent>>
<1>1. sending \in Pieces
  BY DEF Sorts
<1>2. /\ sending # Nothing /\ running /\ cl.here
      /\ sending.part \in Nat /\ sending.part >= 1 /\ sending.of \in Nat
      /\ sending.part + 1 <= sending.of
  BY <1>1 DEF ClientContinues, SentInParts, Pieces
<1>3. /\ NextPiece \in Pieces
      /\ NextPiece.part = sending.part + 1 /\ NextPiece.of = sending.of
      /\ NextPiece.n = sending.n /\ NextPiece.type = sending.type
      /\ NextPiece.arg = sending.arg
  BY <1>1, <1>2 DEF NextPiece, Pieces
<1>4. /\ HandleChunk(NextPiece)
      /\ sending' = IF NextPiece.part < NextPiece.of THEN NextPiece ELSE Nothing
      /\ UNCHANGED <<main, format, tick, copies, pastes, cl, sent>>
  BY DEF ClientContinues, NextPiece, Outside
<1> QED
  BY <1>2, <1>3, <1>4

LEMMA NothingFacts ==
    /\ Nothing \in Pieces /\ Nothing.type = "OTHER"
    /\ NewClient \in Clients /\ NewClient.asked = <<>> /\ NewClient.owner = "none"
    /\ NewClient.types = {} /\ NewClient.here
    /\ [NewClient EXCEPT !.here = FALSE] \in Clients
    /\ [NewClient EXCEPT !.here = FALSE].asked = <<>>
    /\ [NewClient EXCEPT !.here = FALSE].owner = "none"
    /\ [NewClient EXCEPT !.here = FALSE].types = {}
<1>1. <<>> \in Seq(SUBSET AllFormats) /\ {} \in SUBSET AllFormats
  BY EmptySeq
<1>2. Nothing \in Pieces /\ Nothing.type = "OTHER"
  BY DEF Nothing, Pieces, Types
<1>3. /\ NewClient \in Clients /\ NewClient.asked = <<>> /\ NewClient.owner = "none"
      /\ NewClient.types = {} /\ NewClient.here
  BY <1>1 DEF NewClient, Clients, Owners
<1>4. /\ [NewClient EXCEPT !.here = FALSE] \in Clients
      /\ [NewClient EXCEPT !.here = FALSE].asked = <<>>
      /\ [NewClient EXCEPT !.here = FALSE].owner = "none"
      /\ [NewClient EXCEPT !.here = FALSE].types = {}
  BY <1>3 DEF Clients
<1> QED
  BY <1>2, <1>3, <1>4

\* The client reads one message.
LEMMA ReceivesFacts ==
    ASSUME Sorts, ClientReceives
    PROVE  /\ toClient # <<>> /\ toClient' = Tail(toClient) /\ toClient' \in Seq(Messages)
           /\ Len(toClient) \in Nat /\ Len(toClient) > 0 /\ Len(toClient') = Len(toClient) - 1
           /\ \A i \in 1 .. Len(toClient') : toClient'[i] = toClient[i + 1]
           /\ toClient[1] \in Messages
           /\ cl' \in Clients /\ cl'.here = cl.here
           /\ cl'.types = cl.types \/ cl'.types = {}
           /\ toClient[1].type # "REQUEST" => cl'.asked = cl.asked
           /\ toClient[1].type = "REQUEST" => cl'.asked = Append(cl.asked, toClient[1].arg)
           /\ toClient[1].type \notin {"GRAB", "RELEASE"} => cl'.owner = cl.owner
           /\ toClient[1].type = "GRAB" => cl'.owner = "guest"
           /\ UNCHANGED <<agent, win, sending, sent, copies, pastes>>
<1> DEFINE m == Head(toClient)
<1>1. /\ toClient \in Seq(Messages) /\ toClient # <<>> /\ toClient' = Tail(toClient)
      /\ cl \in Clients /\ cl' = Understood(m)
      /\ UNCHANGED <<agent, win, sending, sent, copies, pastes>>
  BY DEF Sorts, ClientReceives
<1>2. /\ m = toClient[1] /\ m \in Messages /\ toClient' \in Seq(Messages)
      /\ Len(toClient) \in Nat /\ Len(toClient) > 0 /\ Len(toClient') = Len(toClient) - 1
      /\ \A i \in 1 .. Len(toClient') : toClient'[i] = toClient[i + 1]
  BY <1>1, TailFacts
<1>3. m.type \in Types /\ m.arg \in SUBSET AllFormats
  BY <1>2 DEF Messages
<1>4. cl.asked \in Seq(SUBSET AllFormats)
  BY <1>1 DEF Clients
<1>5. Append(cl.asked, m.arg) \in Seq(SUBSET AllFormats)
  BY <1>3, <1>4, AppendFacts
<1> HIDE DEF m
<1>6. CASE m.type = "GRAB"
  <2>1. cl' = [cl EXCEPT !.owner = "guest", !.types = {}]
    BY <1>1, <1>6 DEF Understood
  <2>2. cl' \in Clients /\ cl'.here = cl.here /\ cl'.types = {} /\ cl'.asked = cl.asked
        /\ cl'.owner = "guest"
    BY <1>1, <2>1 DEF Clients, Owners
  <2> QED
    BY <1>1, <1>2, <1>6, <2>2
<1>7. CASE m.type = "RELEASE"
  <2>1. cl' = [cl EXCEPT !.owner = IF cl.owner = "guest" THEN "none" ELSE cl.owner]
    BY <1>1, <1>7 DEF Understood
  <2>2. cl' \in Clients /\ cl'.here = cl.here /\ cl'.types = cl.types /\ cl'.asked = cl.asked
    BY <1>1, <2>1 DEF Clients, Owners
  <2> QED
    BY <1>1, <1>2, <1>7, <2>2
<1>8. CASE m.type = "REQUEST"
  <2>1. cl' = [cl EXCEPT !.asked = Append(cl.asked, m.arg)]
    BY <1>1, <1>8 DEF Understood
  <2>2. cl' \in Clients /\ cl'.here = cl.here /\ cl'.types = cl.types /\ cl'.owner = cl.owner
        /\ cl'.asked = Append(cl.asked, m.arg)
    BY <1>1, <1>5, <2>1 DEF Clients
  <2> QED
    BY <1>1, <1>2, <1>8, <2>2
<1>9. CASE m.type \notin {"GRAB", "RELEASE", "REQUEST"}
  <2>1. cl' = cl
    BY <1>1, <1>9 DEF Understood
  <2> QED
    BY <1>1, <1>2, <1>9, <2>1
<1> QED
  BY <1>6, <1>7, <1>8, <1>9

\* What the agent does when the control event is signalled.
LEMMA ControlFacts ==
    ASSUME Sorts, UNCHANGED world, HandleControl
    PROVE  /\ control # <<>> /\ control' = <<>> /\ main' = "loop" /\ tick' = FALSE
           /\ running /\ UNCHANGED <<running, format, grab_types, win, cl, sending, sent>>
           /\ main = "render" => in_msg' = <<>>
           /\ main = "loop" => in_msg' = in_msg
           /\ \/ Resetting /\ owner' = "none" /\ toClient' = toClient \o Released
              \/ ~Resetting /\ UNCHANGED <<owner, toClient>>
           /\ Sorts'
<1>1. main \in {"loop", "render"}
  BY DEF Sorts
<1>2. /\ control # <<>> /\ control' = <<>> /\ main' = "loop" /\ tick' = FALSE
      /\ running /\ UNCHANGED <<running, format, grab_types, win, cl, sending, sent>>
      /\ main = "render" => in_msg' = <<>>
      /\ main = "loop" => in_msg' = in_msg
      /\ \/ Resetting /\ owner' = "none" /\ toClient' = toClient \o Released
         \/ ~Resetting /\ UNCHANGED <<owner, toClient>>
  BY <1>1 DEF HandleControl, CleanupInMsg, Resetting
<1>3. <<>> \in Seq(Commands) /\ <<>> \in Seq(Pieces)
  BY EmptySeq
<1>4. toClient' \in Seq(Messages)
  BY <1>2, ReleasedFacts, ConcatProperties DEF Sorts
<1>5. in_msg' \in Seq(Pieces)
  BY <1>1, <1>2, <1>3 DEF Sorts
<1> QED
  BY <1>2, <1>3, <1>4, <1>5 DEF Sorts, Owners

\* The clipboard of Windows changes hands.
LEMMA WindowsFacts ==
    ASSUME Sorts, UNCHANGED world, ClipboardUpdate \/ DesktopSwitch \/ GuestCopies
    PROVE  /\ running /\ main = "loop"
           /\ win' \in Offers
           /\ \/ UNCHANGED <<owner, toClient>>
              \/ owner' = "guest" /\ toClient' = toClient \o Taken
              \/ owner' = "none" /\ toClient' = toClient \o Released
           /\ UNCHANGED <<running, main, format, tick, grab_types, in_msg, control, cl, sending, sent>>
           /\ Sorts'
<1>1. /\ running /\ main = "loop"
      /\ \/ UNCHANGED <<owner, toClient>>
         \/ owner' = "guest" /\ toClient' = toClient \o Taken
         \/ owner' = "none" /\ toClient' = toClient \o Released
      /\ UNCHANGED <<running, main, format, tick, grab_types, in_msg, control, cl, sending, sent>>
  <2>1. CASE ClipboardUpdate
    BY <2>1 DEF ClipboardUpdate, DispatchesMessages
  <2>2. CASE DesktopSwitch
    <3>1. owner # "guest" => toClient \o Released = toClient
      BY DEF Sorts, Released
    <3> QED
      BY <2>2, <3>1 DEF DesktopSwitch, LetsGo, DispatchesMessages
  <2>3. CASE GuestCopies
    BY <2>3 DEF GuestCopies, agent
  <2> QED
    BY <2>1, <2>2, <2>3
<1>2. win \in Offers /\ {} \in SUBSET AllFormats
  BY DEF Sorts
<1>3. win' \in Offers
  <2>1. CASE ClipboardUpdate
    BY <1>2, <2>1 DEF ClipboardUpdate, Offers
  <2>2. CASE DesktopSwitch
    <3>1. PICK viewer \in BOOLEAN :
            win' = [owner |-> IF win.owner = "agent" THEN "none" ELSE win.owner,
                    offered |-> {}, update |-> viewer]
      BY <2>2 DEF DesktopSwitch
    <3> QED
      BY <1>2, <3>1 DEF Offers
  <2>3. CASE GuestCopies
    BY <1>2, <2>3 DEF GuestCopies, Offers
  <2> QED
    BY <2>1, <2>2, <2>3
<1>4. Taken \in Seq(Messages) /\ Released \in Seq(Messages)
  BY ReleasedFacts, GrabFacts, ConcatProperties DEF Taken
<1>5. toClient' \in Seq(Messages)
  BY <1>1, <1>4, ConcatProperties DEF Sorts
<1> QED
  BY <1>1, <1>3, <1>5 DEF Sorts, Owners

LEMMA RenderFacts ==
    ASSUME Sorts, UNCHANGED world, NEW f \in Formats, RenderFormat(f)
    PROVE  /\ running /\ main = "loop" /\ control = <<>>
           /\ \/ /\ owner = "client" /\ toClient' = toClient \o Written("REQUEST", {f})
                 /\ main' = "render" /\ format' = f
              \/ UNCHANGED <<toClient, main, format>>
           /\ {f} \in SUBSET AllFormats
           /\ UNCHANGED <<running, owner, grab_types, in_msg, control, win, cl, sending, sent>>
           /\ Sorts'
<1>1. /\ running /\ main = "loop" /\ control = <<>>
      /\ \/ /\ owner = "client" /\ toClient' = toClient \o Written("REQUEST", {f})
            /\ main' = "render" /\ tick' = TRUE /\ format' = f
         \/ UNCHANGED <<toClient, main, tick, format>>
      /\ UNCHANGED <<running, owner, grab_types, in_msg, control, win, cl, sending, sent>>
  BY DEF RenderFormat, DispatchesMessages, WriteMessage
<1>2. {f} \in SUBSET AllFormats /\ "REQUEST" \in Types
  BY WorldFacts DEF Sorts, Types
<1>3. toClient' \in Seq(Messages)
  BY <1>1, <1>2, WrittenFacts, ConcatProperties DEF Sorts
<1> QED
  BY <1>1, <1>2, <1>3 DEF Sorts

LEMMA LeavesFacts ==
    ASSUME Sorts, UNCHANGED world, ClientLeaves
    PROVE  /\ control' = Append(control, "RESET") /\ Resetting'
           /\ sending' = Nothing /\ toClient' = <<>>
           /\ cl'.asked = <<>> /\ cl'.owner = "none" /\ cl'.types = {}
           /\ Leaves
           /\ UNCHANGED <<running, main, format, tick, owner, grab_types, in_msg, win, sent>>
           /\ Sorts'
<1>1. control \in Seq(Commands) /\ "RESET" \in Commands
  BY DEF Sorts, Commands
<1>2. /\ control' = Append(control, "RESET")
      /\ sending' = Nothing /\ toClient' = <<>>
      /\ cl' = [NewClient EXCEPT !.here = FALSE]
      /\ Leaves
      /\ UNCHANGED <<running, main, format, tick, owner, grab_types, in_msg, win, sent>>
  BY DEF ClientLeaves, SetControl
<1>3. /\ control' \in Seq(Commands) /\ Len(control') = Len(control) + 1 /\ Len(control) \in Nat
      /\ control'[Len(control) + 1] = "RESET"
  BY <1>1, <1>2, AppendFacts
<1>4. Resetting'
  <2>1. Len(control) + 1 \in 1 .. Len(control')
    BY <1>3
  <2> QED
    BY <1>3, <2>1 DEF Resetting
<1>5. <<>> \in Seq(Messages)
  BY EmptySeq
<1> QED
  BY <1>2, <1>3, <1>4, <1>5, NothingFacts DEF Sorts

LEMMA FileFacts ==
    ASSUME Sorts, UNCHANGED world, ClientSendsFile
    PROVE  /\ Files /\ MaxParts \in Nat \ {0} /\ {} \in SUBSET AllFormats /\ "OTHER" \in Types
           /\ Sends("OTHER", {}, MaxParts) /\ UNCHANGED cl
BY WorldFacts DEF ClientSendsFile, Sorts, Types

LEMMA SortsStep == Sorts /\ SentInParts /\ [Next]_vars => Sorts'
<1> SUFFICES ASSUME Sorts, SentInParts, [Next]_vars PROVE Sorts'
  OBVIOUS
<1>1. CASE UNCHANGED vars
  BY <1>1 DEF vars, moves, agent, Sorts
<1> SUFFICES ASSUME Steps, UNCHANGED world PROVE Sorts'
  BY <1>1 DEF Next
<1>2. CASE HandleControl
  BY <1>2, ControlFacts
<1>3. CASE TimesOut
  BY <1>3 DEF TimesOut, Sorts
<1>4. CASE ClipboardUpdate \/ DesktopSwitch \/ GuestCopies
  BY <1>4, WindowsFacts
<1>5. CASE \E f \in Formats : RenderFormat(f)
  BY <1>5, RenderFacts
<1>6. CASE Speaks
  <2>1. PICK type \in {"GRAB", "RELEASE", "REQUEST"}, arg \in SUBSET AllFormats :
          Sends(type, arg, 1) /\ cl' \in Clients
    BY <1>6, SpeaksFacts
  <2>2. type \in Types /\ 1 \in Nat \ {0}
    BY DEF Types
  <2> QED
    BY <2>1, <2>2, SendsSorts
<1>7. CASE ClientSendsFile
  <2>1. cl' \in Clients
    BY <1>7, FileFacts DEF Sorts
  <2> QED
    BY <1>7, <2>1, FileFacts, SendsSorts
<1>8. ASSUME NEW of \in 1 .. MaxParts, ClientAnswers(of)
      PROVE  Sorts'
  <2> DEFINE data == Head(cl.asked) \cap cl.types
  <2>1. data \in SUBSET AllFormats /\ of \in Nat \ {0} /\ Sends("CLIPBOARD", data, of) /\ cl' \in Clients
    BY <1>8, AnswersFacts
  <2>2. "CLIPBOARD" \in Types
    BY DEF Types
  <2> HIDE DEF data
  <2> QED
    BY <2>1, <2>2, SendsSorts
<1>9. CASE ClientContinues
  <2>1. /\ NextPiece \in Pieces /\ HandleChunk(NextPiece) /\ UNCHANGED <<main, tick, cl, sent>>
        /\ sending' \in {NextPiece, Nothing}
    BY <1>9, ContinuesFacts
  <2>2. sending' \in Pieces
    BY <2>1, NothingFacts
  <2> QED
    BY <2>1, <2>2, ChunkSorts DEF Sorts
<1>10. CASE ClientReceives
  BY <1>10, ReceivesFacts DEF Sorts, agent
<1>11. CASE ClientLeaves
  BY <1>11, LeavesFacts
<1>12. CASE ClientConnects
  BY <1>12, NothingFacts DEF ClientConnects, Sorts, agent
<1> QED
  BY <1>2, <1>3, <1>4, <1>5, <1>6, <1>7, <1>8, <1>9, <1>10, <1>11, <1>12 DEF Steps, Speaks

------------------------------------------------------------------------------
(***************************************************************************)
(* Messages in parts.                                                      *)
(***************************************************************************)
\* What is kept of a chunk.
LEMMA InMsgGrows ==
    ASSUME in_msg \in Seq(Pieces), NEW c \in Pieces, HandleChunk(c), in_msg' # <<>>
    PROVE  /\ Len(in_msg') = Len(in_msg) + 1 /\ Len(in_msg) \in Nat
           /\ \A i \in 1 .. Len(in_msg) : in_msg'[i] = in_msg[i]
           /\ in_msg'[Len(in_msg) + 1] = c
           /\ in_msg = <<>> => in_msg'[1] = c /\ c.part = 1 /\ c.of # 1 /\ Len(in_msg) = 0
           /\ in_msg # <<>> => in_msg'[1] = in_msg[1] /\ in_msg[1].of # Len(in_msg) + 1
           /\ UNCHANGED <<running, Dispatched>>
<1>1. Collected(c)
  BY ChunkCases DEF Single, Stray, Completed
<1> QED
  BY <1>1, AppendFacts DEF Collected

LEMMA SentSends ==
    ASSUME Sorts, SentInParts, NEW type \in Types, NEW arg \in SUBSET AllFormats,
           NEW of \in Nat \ {0}, Sends(type, arg, of), of > 1 => type \in Long
    PROVE  SentInParts'
<1> DEFINE c == Piece(type, arg, of)
<1>1. /\ c \in Pieces /\ HandleChunk(c) /\ in_msg \in Seq(Pieces)
      /\ of > 1 => sending' = c
      /\ of = 1 => sending' = Nothing
  BY SendsFacts DEF Sorts
<1>2. c.part = 1 /\ c.of = of /\ c.type = type
  BY DEF Piece
<1> HIDE DEF c
<1>3. of > 1 \/ of = 1
  OBVIOUS
<1>4. /\ sending' # Nothing => 1 <= sending'.part /\ sending'.part < sending'.of
      /\ sending'.type \in Long
  BY <1>1, <1>2, <1>3, NothingFacts DEF Long
<1>5. in_msg' # <<>> => in_msg'[1].type \in Long
  BY <1>1, <1>2, <1>3, InMsgGrows DEF SentInParts
<1> QED
  BY <1>4, <1>5 DEF SentInParts

LEMMA SentStep == Sorts /\ SentInParts /\ [Next]_vars => SentInParts'
<1> SUFFICES ASSUME Sorts, SentInParts, [Next]_vars PROVE SentInParts'
  OBVIOUS
<1>1. CASE /\ UNCHANGED sending \/ sending' = Nothing
           /\ UNCHANGED in_msg \/ in_msg' = <<>>
  BY <1>1, NothingFacts DEF SentInParts, Long
<1>2. CASE UNCHANGED vars
  BY <1>1, <1>2 DEF vars, moves, agent
<1> SUFFICES ASSUME Steps, UNCHANGED world PROVE SentInParts'
  BY <1>2 DEF Next
<1>3. CASE HandleControl
  BY <1>1, <1>3, ControlFacts DEF Sorts
<1>4. CASE TimesOut \/ ClientReceives \/ ClientConnects
  BY <1>1, <1>4 DEF TimesOut, ClientReceives, ClientConnects, agent
<1>5. CASE ClipboardUpdate \/ DesktopSwitch \/ GuestCopies
  BY <1>1, <1>5, WindowsFacts
<1>6. CASE \E f \in Formats : RenderFormat(f)
  BY <1>1, <1>6, RenderFacts
<1>7. CASE ClientLeaves
  BY <1>1, <1>7, LeavesFacts
<1>8. CASE Speaks
  <2>1. PICK type \in {"GRAB", "RELEASE", "REQUEST"}, arg \in SUBSET AllFormats :
          Sends(type, arg, 1)
    BY <1>8, SpeaksFacts
  <2>2. type \in Types /\ 1 \in Nat \ {0}
    BY DEF Types
  <2> QED
    BY <2>1, <2>2, SentSends
<1>9. CASE ClientSendsFile
  BY <1>9, FileFacts, SentSends DEF Long
<1>10. ASSUME NEW of \in 1 .. MaxParts, ClientAnswers(of)
       PROVE  SentInParts'
  <2> DEFINE data == Head(cl.asked) \cap cl.types
  <2>1. data \in SUBSET AllFormats /\ of \in Nat \ {0} /\ Sends("CLIPBOARD", data, of)
    BY <1>10, AnswersFacts
  <2>2. "CLIPBOARD" \in Types /\ "CLIPBOARD" \in Long
    BY DEF Types, Long
  <2> HIDE DEF data
  <2> QED
    BY <2>1, <2>2, SentSends
<1>11. CASE ClientContinues
  <2> DEFINE c == NextPiece
  <2>1. /\ c \in Pieces /\ HandleChunk(c) /\ in_msg \in Seq(Pieces)
        /\ c.part = sending.part + 1 /\ c.of = sending.of /\ c.type = sending.type
        /\ sending.part \in Nat /\ sending.part >= 1 /\ sending.of \in Nat
        /\ sending.part + 1 <= sending.of
        /\ sending.part + 1 < sending.of => sending' = c
        /\ sending.part + 1 = sending.of => sending' = Nothing
    BY <1>11, ContinuesFacts DEF Sorts
  <2> HIDE DEF c
  <2>2. sending.part + 1 < sending.of \/ sending.part + 1 = sending.of
    BY <2>1
  <2>3. /\ sending' # Nothing => 1 <= sending'.part /\ sending'.part < sending'.of
        /\ sending'.type \in Long
    BY <2>1, <2>2, NothingFacts DEF SentInParts, Long
  <2>4. in_msg' # <<>> => in_msg'[1].type \in Long
    BY <2>1, InMsgGrows DEF SentInParts
  <2> QED
    BY <2>3, <2>4 DEF SentInParts
<1> QED
  BY <1>3, <1>4, <1>5, <1>6, <1>7, <1>8, <1>9, <1>10, <1>11 DEF Steps, Speaks

LEMMA ClipInitial == Init => Sorts /\ SentInParts
<1> SUFFICES ASSUME Init PROVE Sorts /\ SentInParts
  OBVIOUS
<1>1. <<>> \in Seq(Pieces) /\ <<>> \in Seq(Commands) /\ <<>> \in Seq(Messages)
  BY EmptySeq
<1>2. [owner |-> "none", offered |-> {}, update |-> FALSE] \in Offers
  BY DEF Offers
<1> QED
  BY <1>1, <1>2, NothingFacts DEF Init, Sorts, SentInParts, Owners, Long

LEMMA SortsAlways == Spec => [](Sorts /\ SentInParts)
<1>1. Sorts /\ SentInParts /\ [Next]_vars => (Sorts /\ SentInParts)'
  BY SortsStep, SentStep
<1> QED
  BY <1>1, ClipInitial, PTL DEF Spec

------------------------------------------------------------------------------
(***************************************************************************)
(* A client that stays is received in step.                                *)
(***************************************************************************)
LEMMA InStepSends ==
    ASSUME Sorts, InStep, NEW type \in Types, NEW arg \in SUBSET AllFormats,
           NEW of \in Nat \ {0}, Sends(type, arg, of)
    PROVE  InStep' /\ in_msg = <<>>
<1> DEFINE c == Piece(type, arg, of)
<1>1. /\ c \in Pieces /\ HandleChunk(c) /\ in_msg \in Seq(Pieces)
      /\ of > 1 => sending' = c
      /\ sending = Nothing
  BY SendsFacts DEF Sorts
<1>2. in_msg = <<>>
  BY <1>1 DEF InStep
<1>3. c.part = 1 /\ c.of = of /\ c # Nothing
  BY DEF Piece, Nothing, Sorts
<1> HIDE DEF c
<1>4. ASSUME in_msg' # <<>>
      PROVE  /\ sending' # Nothing /\ Len(in_msg') = sending'.part /\ in_msg'[1].of = sending'.of
             /\ \A i \in 1 .. Len(in_msg') : in_msg'[i].n = sending'.n /\ in_msg'[i].part = i
  <2>1. Len(in_msg') = 1 /\ in_msg'[1] = c /\ of # 1
    BY <1>1, <1>2, <1>3, <1>4, InMsgGrows
  <2>2. sending' = c
    BY <1>1, <2>1
  <2> QED
    BY <1>3, <2>1, <2>2
<1> QED
  BY <1>2, <1>4 DEF InStep

LEMMA InStepStep == ~Leaves /\ Sorts /\ SentInParts /\ InStep /\ [Next]_vars => InStep'
<1> SUFFICES ASSUME ~Leaves, Sorts, SentInParts, InStep, [Next]_vars PROVE InStep'
  OBVIOUS
<1>1. CASE UNCHANGED sending /\ (UNCHANGED in_msg \/ in_msg' = <<>>)
  BY <1>1 DEF InStep
<1>2. CASE UNCHANGED vars
  BY <1>1, <1>2 DEF vars, moves, agent
<1> SUFFICES ASSUME Steps, UNCHANGED world PROVE InStep'
  BY <1>2 DEF Next
<1>3. CASE HandleControl
  BY <1>1, <1>3, ControlFacts DEF Sorts
<1>4. CASE TimesOut \/ ClientReceives \/ ClientConnects
  BY <1>1, <1>4 DEF TimesOut, ClientReceives, ClientConnects, agent
<1>5. CASE ClipboardUpdate \/ DesktopSwitch \/ GuestCopies
  BY <1>1, <1>5, WindowsFacts
<1>6. CASE \E f \in Formats : RenderFormat(f)
  BY <1>1, <1>6, RenderFacts
<1>7. CASE ClientLeaves
  BY <1>7 DEF ClientLeaves
<1>8. CASE Speaks
  <2>1. PICK type \in {"GRAB", "RELEASE", "REQUEST"}, arg \in SUBSET AllFormats :
          Sends(type, arg, 1)
    BY <1>8, SpeaksFacts
  <2>2. type \in Types /\ 1 \in Nat \ {0}
    BY DEF Types
  <2> QED
    BY <2>1, <2>2, InStepSends
<1>9. CASE ClientSendsFile
  BY <1>9, FileFacts, InStepSends
<1>10. ASSUME NEW of \in 1 .. MaxParts, ClientAnswers(of)
       PROVE  InStep'
  <2> DEFINE data == Head(cl.asked) \cap cl.types
  <2>1. data \in SUBSET AllFormats /\ of \in Nat \ {0} /\ Sends("CLIPBOARD", data, of)
    BY <1>10, AnswersFacts
  <2>2. "CLIPBOARD" \in Types
    BY DEF Types
  <2> HIDE DEF data
  <2> QED
    BY <2>1, <2>2, InStepSends
<1>11. CASE ClientContinues
  <2> DEFINE c == NextPiece
  <2>1. /\ c \in Pieces /\ HandleChunk(c) /\ in_msg \in Seq(Pieces) /\ sending # Nothing
        /\ c.part = sending.part + 1 /\ c.of = sending.of /\ c.n = sending.n
        /\ sending.part \in Nat /\ sending.part >= 1 /\ sending.of \in Nat
        /\ sending.part + 1 <= sending.of
        /\ sending.part + 1 < sending.of => sending' = c
    BY <1>11, ContinuesFacts DEF Sorts
  <2>2. c # Nothing
    BY <2>1 DEF Nothing
  <2> HIDE DEF c
  <2>3. ASSUME in_msg' # <<>>
        PROVE  /\ sending' # Nothing /\ Len(in_msg') = sending'.part
               /\ in_msg'[1].of = sending'.of
               /\ \A i \in 1 .. Len(in_msg') : in_msg'[i].n = sending'.n /\ in_msg'[i].part = i
    <3>1. in_msg # <<>>
      BY <2>1, <2>3, InMsgGrows
    <3>2. /\ Len(in_msg) = sending.part /\ in_msg[1].of = sending.of
          /\ \A i \in 1 .. Len(in_msg) : in_msg[i].n = sending.n /\ in_msg[i].part = i
      BY <3>1 DEF InStep
    <3>3. /\ Len(in_msg') = Len(in_msg) + 1 /\ Len(in_msg) \in Nat
          /\ \A i \in 1 .. Len(in_msg) : in_msg'[i] = in_msg[i]
          /\ in_msg'[Len(in_msg) + 1] = c
          /\ in_msg'[1] = in_msg[1] /\ in_msg[1].of # Len(in_msg) + 1
      BY <2>1, <2>3, <3>1, InMsgGrows
    <3>4. sending' = c
      BY <2>1, <3>2, <3>3
    <3>5. ASSUME NEW i \in 1 .. Len(in_msg')
          PROVE  in_msg'[i].n = sending'.n /\ in_msg'[i].part = i
      <4>1. i \in 1 .. Len(in_msg) \/ i = Len(in_msg) + 1
        BY <3>3
      <4> QED
        BY <2>1, <3>2, <3>3, <3>4, <4>1
    <3> QED
      BY <2>1, <2>2, <3>2, <3>3, <3>4, <3>5
  <2> QED
    BY <2>3 DEF InStep
<1> QED
  BY <1>3, <1>4, <1>5, <1>6, <1>7, <1>8, <1>9, <1>10, <1>11 DEF Steps, Speaks

------------------------------------------------------------------------------
(***************************************************************************)
(* A client that stays knows that the guest owns the clipboard.            *)
(***************************************************************************)
\* The handlers, as far as owner and toClient go.
LEMMA DispatchFacts ==
    ASSUME Sorts, NEW m \in Pieces, Dispatch(m)
    PROVE  /\ m.type \notin {"GRAB", "RELEASE"} => owner' = owner
           /\ m.type # "REQUEST" => toClient' = toClient
           /\ m.type = "REQUEST" =>
                 \E arg \in SUBSET AllFormats : toClient' = toClient \o Written("CLIPBOARD", arg)
           /\ m.type = "GRAB" => HandleGrab(m.arg)
           /\ m.type = "RELEASE" => HandleRelease
           /\ m.type = "CLIPBOARD" => HandleClipboard(m.arg)
           /\ m.type \notin {"CLIPBOARD", "RELEASE"} => control' = control
           /\ m.type \notin {"CLIPBOARD", "GRAB"} => win' = win
<1>1. m.arg \in SUBSET AllFormats /\ {} \in SUBSET AllFormats
  BY DEF Pieces
<1>2. CASE m.type = "GRAB" /\ HandleGrab(m.arg)
  BY <1>2 DEF HandleGrab
<1>3. CASE m.type = "CLIPBOARD" /\ HandleClipboard(m.arg)
  BY <1>3 DEF HandleClipboard
<1>4. CASE m.type = "RELEASE" /\ HandleRelease
  BY <1>4 DEF HandleRelease
<1>5. CASE m.type = "REQUEST" /\ HandleRequest(m.arg)
  BY <1>1, <1>5 DEF HandleRequest, WriteMessage
<1>6. CASE m.type = "OTHER" /\ UNCHANGED <<owner, grab_types, control, win, toClient>>
  BY <1>6
<1> QED
  BY <1>2, <1>3, <1>4, <1>5, <1>6 DEF Dispatch

\* One more message to the client.
LEMMA OneMore ==
    ASSUME toClient \in Seq(Messages), NEW m \in Messages, toClient' = toClient \o <<m>>
    PROVE  /\ Len(toClient') = Len(toClient) + 1 /\ Len(toClient) \in Nat
           /\ \A i \in 1 .. Len(toClient) : toClient'[i] = toClient[i]
           /\ toClient'[Len(toClient) + 1] = m
<1>1. <<m>> \in Seq(Messages) /\ Len(<<m>>) = 1 /\ <<m>>[1] = m
  OBVIOUS
<1>2. /\ Len(toClient') = Len(toClient) + Len(<<m>>) /\ Len(toClient) \in Nat
      /\ \A i \in 1 .. Len(toClient) + Len(<<m>>) :
            toClient'[i] = IF i <= Len(toClient) THEN toClient[i] ELSE <<m>>[i - Len(toClient)]
  BY <1>1, ConcatProperties, LenProperties
<1>3. Len(toClient) + 1 \in 1 .. Len(toClient) + Len(<<m>>)
  BY <1>1, <1>2
<1>4. toClient'[Len(toClient) + 1] = <<m>>[1]
  BY <1>2, <1>3
<1> QED
  BY <1>1, <1>2, <1>4

\* Data and requests tell nothing of the owner.
LEMMA LearnsMore ==
    ASSUME Sorts, ClientLearns, UNCHANGED cl,
           NEW type \in {"CLIPBOARD", "REQUEST"}, NEW arg \in SUBSET AllFormats,
           toClient' = toClient \o Written(type, arg)
    PROVE  ClientLearns'
<1> DEFINE m == [type |-> type, arg |-> arg]
<1>1. toClient \in Seq(Messages) /\ type \in Types
  BY DEF Sorts, Types
<1>2. CASE Written(type, arg) = <<>>
  <2>1. toClient' = toClient
    BY <1>1, <1>2, ConcatEmptySeq
  <2> QED
    BY <2>1 DEF ClientLearns, ToldOfOwner
<1>3. CASE Written(type, arg) = <<m>>
  <2>1. m \in Messages /\ m.type = type
    BY <1>1 DEF Messages
  <2> HIDE DEF m
  <2>2. /\ Len(toClient') = Len(toClient) + 1 /\ Len(toClient) \in Nat
        /\ \A i \in 1 .. Len(toClient) : toClient'[i] = toClient[i]
        /\ toClient'[Len(toClient) + 1] = m
    BY <1>1, <1>3, <2>1, OneMore
  <2>3. /\ \A i \in 1 .. Len(toClient) : i \in 1 .. Len(toClient')
        /\ \A i \in 1 .. Len(toClient') : i \in 1 .. Len(toClient) \/ i = Len(toClient) + 1
    BY <2>2
  <2>4. ToldOfOwner' = ToldOfOwner
    BY <2>1, <2>2, <2>3 DEF ToldOfOwner
  <2>5. \A i \in ToldOfOwner : toClient'[i] = toClient[i]
    BY <2>2 DEF ToldOfOwner
  <2> QED
    BY <2>4, <2>5 DEF ClientLearns
<1> QED
  BY <1>1, <1>2, <1>3, WrittenFacts

\* A GRAB does, whatever came before.
LEMMA LearnsGrab ==
    ASSUME Sorts, cl.here, toClient' = toClient \o Taken
    PROVE  ClientLearns'
<1> DEFINE m == [type |-> "GRAB", arg |-> Formats]
           s == toClient \o Released
<1>1. toClient \in Seq(Messages) /\ Released \in Seq(Messages)
  BY ReleasedFacts DEF Sorts
<1>2. Taken = Released \o <<m>> /\ <<m>> \in Seq(Messages)
  BY GrabFacts DEF Taken
<1>3. s \in Seq(Messages) /\ toClient' = s \o <<m>>
  BY <1>1, <1>2, ConcatProperties, ConcatAssociative
<1>4. m.type = "GRAB" /\ Len(<<m>>) = 1 /\ <<m>>[1] = m
  OBVIOUS
<1> HIDE DEF m, s
<1>5. /\ Len(toClient') = Len(s) + 1 /\ Len(s) \in Nat
      /\ toClient'[Len(s) + 1] = m
  <2>1. /\ Len(s \o <<m>>) = Len(s) + Len(<<m>>) /\ Len(s) \in Nat
        /\ \A i \in 1 .. Len(s) + Len(<<m>>) :
              (s \o <<m>>)[i] = IF i <= Len(s) THEN s[i] ELSE <<m>>[i - Len(s)]
    BY <1>2, <1>3, ConcatProperties, LenProperties
  <2>2. Len(s) + 1 \in 1 .. Len(s) + Len(<<m>>)
    BY <1>4, <2>1
  <2>3. (s \o <<m>>)[Len(s) + 1] = <<m>>[1]
    BY <2>1, <2>2
  <2> QED
    BY <1>3, <1>4, <2>1, <2>3
<1>6. Len(s) + 1 \in 1 .. Len(toClient') /\ \A j \in 1 .. Len(toClient') : j <= Len(s) + 1
  BY <1>5
<1>7. Len(s) + 1 \in ToldOfOwner' /\ \A j \in ToldOfOwner' : j <= Len(s) + 1
  BY <1>4, <1>5, <1>6 DEF ToldOfOwner
<1> QED
  BY <1>4, <1>5, <1>7 DEF ClientLearns

\* What it reads it no longer has to.
LEMMA LearnsReading ==
    ASSUME Sorts, ClientLearns, ClientReceives
    PROVE  ClientLearns'
<1>1. /\ Len(toClient) \in Nat /\ Len(toClient) > 0 /\ Len(toClient') = Len(toClient) - 1
      /\ \A i \in 1 .. Len(toClient') : toClient'[i] = toClient[i + 1]
      /\ toClient[1].type \notin {"GRAB", "RELEASE"} => cl'.owner = cl.owner
      /\ toClient[1].type = "GRAB" => cl'.owner = "guest"
  BY ReceivesFacts
<1>2. /\ \A i \in 1 .. Len(toClient') : i + 1 \in 1 .. Len(toClient) /\ i \in Nat
      /\ \A i \in 1 .. Len(toClient) :
            i \in Nat /\ (i # 1 => i - 1 \in 1 .. Len(toClient') /\ (i - 1) + 1 = i)
      /\ 1 \in 1 .. Len(toClient)
  BY <1>1
<1>3. /\ \A i \in ToldOfOwner' : i + 1 \in ToldOfOwner /\ i \in Nat
      /\ \A i \in ToldOfOwner :
            i \in Nat /\ (i # 1 => i - 1 \in ToldOfOwner' /\ toClient'[i - 1] = toClient[i])
      /\ 1 \in ToldOfOwner <=> toClient[1].type \in {"GRAB", "RELEASE"}
  BY <1>1, <1>2 DEF ToldOfOwner
<1>4. CASE ToldOfOwner = {} /\ cl.owner = "guest"
  <2>1. ToldOfOwner' = {} /\ cl'.owner = "guest"
    BY <1>1, <1>3, <1>4
  <2> QED
    BY <2>1 DEF ClientLearns
<1>5. ASSUME NEW i \in ToldOfOwner, toClient[i].type = "GRAB", \A j \in ToldOfOwner : j <= i
      PROVE  ClientLearns'
  <2>1. CASE i = 1
    <3>1. ToldOfOwner' = {}
      <4>1. \A j \in ToldOfOwner' : j + 1 <= 1 /\ j \in Nat /\ j \in 1 .. Len(toClient')
        BY <1>3, <1>5, <2>1 DEF ToldOfOwner
      <4> QED
        BY <1>1, <4>1
    <3> QED
      BY <1>1, <1>5, <2>1, <3>1 DEF ClientLearns
  <2>2. CASE i # 1
    <3>1. i - 1 \in ToldOfOwner' /\ toClient'[i - 1].type = "GRAB"
      BY <1>3, <1>5, <2>2
    <3>2. \A j \in ToldOfOwner' : j <= i - 1
      BY <1>3, <1>5
    <3> QED
      BY <3>1, <3>2 DEF ClientLearns
  <2> QED
    BY <2>1, <2>2
<1> QED
  BY <1>4, <1>5 DEF ClientLearns

\* Long messages change nothing of this.
LEMMA LongChunk ==
    ASSUME Sorts, SentInParts, NEW c \in Pieces, HandleChunk(c), c.type \in Long
    PROVE  UNCHANGED <<owner, toClient>>
<1>1. Single(c) \/ Stray(c) \/ Collected(c) \/ Completed(c)
  BY ChunkCases DEF Sorts
<1>2. in_msg # <<>> => in_msg[1] \in Pieces /\ in_msg[1].type \in Long
  BY FirstPiece DEF Sorts, SentInParts
<1>3. \A m \in Pieces : Dispatch(m) /\ m.type \in Long => UNCHANGED <<owner, toClient>>
  BY DispatchFacts DEF Long
<1> QED
  BY <1>1, <1>2, <1>3 DEF Single, Stray, Collected, Completed, Dispatched

\* What is sent in one piece is dispatched, if nothing else is coming in.
LEMMA OnePiece ==
    ASSUME Sorts, in_msg = <<>>, NEW type \in Types, NEW arg \in SUBSET AllFormats,
           Sends(type, arg, 1)
    PROVE  /\ Dispatch(Piece(type, arg, 1)) /\ UNCHANGED <<running, in_msg, main, format>>
           /\ sending' = Nothing
<1> DEFINE c == Piece(type, arg, 1)
<1>1. /\ c \in Pieces /\ HandleChunk(c) /\ sending' = Nothing /\ UNCHANGED <<main, format>>
  BY SendsFacts
<1>2. c.part = 1 /\ c.of = 1
  BY DEF Piece
<1> HIDE DEF c
<1>3. Single(c) \/ Stray(c) \/ Collected(c) \/ Completed(c)
  BY <1>1, ChunkCases DEF Sorts
<1>4. Single(c)
  BY <1>2, <1>3 DEF Stray, Collected, Completed
<1> QED
  BY <1>1, <1>4 DEF Single, c

LEMMA KnowStep ==
    ASSUME ~OpenFails, ~Leaves, ~Unknown, Sorts, SentInParts, InStep, cl.here, GuestOwns,
           [Next]_vars
    PROVE  cl'.here /\ GuestOwns'
<1> USE DEF GuestOwns
<1>1. CASE UNCHANGED <<owner, toClient, cl>> /\ (UNCHANGED main \/ main' = "loop")
  BY <1>1 DEF ClientLearns, ToldOfOwner
<1>2. CASE UNCHANGED vars
  BY <1>1, <1>2 DEF vars, moves, agent
<1> SUFFICES ASSUME Steps, UNCHANGED world PROVE cl'.here /\ GuestOwns'
  BY <1>2 DEF Next
<1>3. CASE HandleControl
  BY <1>1, <1>3, ControlFacts
<1>4. CASE TimesOut
  BY <1>1, <1>4 DEF TimesOut
<1>5. CASE ClipboardUpdate \/ DesktopSwitch \/ GuestCopies
  <2>1. /\ UNCHANGED cl /\ main' = "loop"
        /\ \/ UNCHANGED <<owner, toClient>>
           \/ owner' = "guest" /\ toClient' = toClient \o Taken
           \/ owner' = "none"
    BY <1>5, WindowsFacts
  <2> QED
    BY <1>1, <2>1, LearnsGrab
<1>6. CASE \E f \in Formats : RenderFormat(f)
  <2>1. /\ UNCHANGED <<owner, cl>>
        /\ owner = "client" \/ UNCHANGED <<toClient, main>>
    BY <1>6, RenderFacts
  <2> QED
    BY <1>1, <2>1
<1>7. CASE Speaks
  <2>1. PICK type \in {"GRAB", "RELEASE", "REQUEST"}, arg \in SUBSET AllFormats :
          /\ Sends(type, arg, 1) /\ cl'.here = cl.here
          /\ type = "REQUEST" => UNCHANGED cl
          /\ type = "RELEASE" => cl.owner = "client"
          /\ type = "GRAB" => arg # {}
    BY <1>7, SpeaksFacts
  <2> DEFINE c == Piece(type, arg, 1)
  <2>2. in_msg = <<>> /\ type \in Types /\ c \in Pieces
    BY <2>1, InStepSends, SendsFacts DEF Types
  <2>3. Dispatch(c) /\ UNCHANGED main
    BY <2>1, <2>2, OnePiece
  <2>4. c.type = type /\ c.arg = arg
    BY DEF Piece
  <2> HIDE DEF c
  <2>5. CASE type = "GRAB"
    <3>1. HandleGrab(arg)
      BY <2>2, <2>3, <2>4, <2>5, DispatchFacts
    <3>2. owner' = "client" \/ (main # "loop" /\ owner' = owner)
      BY <2>1, <2>5, <3>1 DEF HandleGrab, MayNotOpen
    <3> QED
      BY <2>1, <3>2
  <2>6. CASE type = "RELEASE"
    <3>1. HandleRelease
      BY <2>2, <2>3, <2>4, <2>6, DispatchFacts
    <3>2. owner' # "guest" \/ (owner = "guest" /\ UNCHANGED toClient)
      BY <3>1 DEF HandleRelease
    <3>3. cl.owner # "guest"
      BY <2>1, <2>6
    <3>4. owner' = "guest" => ClientLearns'
      BY <3>2, <3>3 DEF ClientLearns, ToldOfOwner
    <3>5. owner' = "guest" => owner = "guest"
      BY <3>2
    <3> QED
      BY <2>1, <2>3, <3>4, <3>5
  <2>7. CASE type = "REQUEST"
    <3>1. owner' = owner
      BY <2>2, <2>3, <2>4, <2>7, DispatchFacts
    <3>2. PICK a \in SUBSET AllFormats : toClient' = toClient \o Written("CLIPBOARD", a)
      BY <2>2, <2>3, <2>4, <2>7, DispatchFacts
    <3>3. ClientLearns => ClientLearns'
      BY <2>1, <2>7, <3>2, LearnsMore
    <3> QED
      BY <2>1, <2>3, <3>1, <3>3
  <2> QED
    BY <2>5, <2>6, <2>7
<1>8. CASE ClientSendsFile
  <2>1. /\ Sends("OTHER", {}, MaxParts) /\ UNCHANGED cl /\ MaxParts \in Nat \ {0}
        /\ {} \in SUBSET AllFormats /\ "OTHER" \in Types
    BY <1>8, FileFacts
  <2> DEFINE c == Piece("OTHER", {}, MaxParts)
  <2>2. c \in Pieces /\ HandleChunk(c) /\ UNCHANGED main
    BY <2>1, SendsFacts
  <2>3. c.type \in Long
    BY DEF Piece, Long
  <2> QED
    BY <1>1, <2>1, <2>2, <2>3, LongChunk
<1>9. ASSUME NEW of \in 1 .. MaxParts, ClientAnswers(of)
      PROVE  cl'.here /\ GuestOwns'
  <2> DEFINE data == Head(cl.asked) \cap cl.types
             c == Piece("CLIPBOARD", data, of)
  <2>1. /\ data \in SUBSET AllFormats /\ of \in Nat \ {0} /\ Sends("CLIPBOARD", data, of)
        /\ cl'.owner = cl.owner /\ cl'.here = cl.here
    BY <1>9, AnswersFacts
  <2>2. c.type \in Long /\ "CLIPBOARD" \in Types
    BY DEF Piece, Long, Types
  <2> HIDE DEF data
  <2>3. c \in Pieces /\ HandleChunk(c) /\ UNCHANGED main
    BY <2>1, <2>2, SendsFacts
  <2>4. UNCHANGED <<owner, toClient>>
    BY <2>2, <2>3, LongChunk
  <2> QED
    BY <2>1, <2>3, <2>4 DEF ClientLearns, ToldOfOwner
<1>10. CASE ClientContinues
  <2>1. /\ NextPiece \in Pieces /\ HandleChunk(NextPiece) /\ UNCHANGED <<main, cl>>
        /\ NextPiece.type = sending.type
    BY <1>10, ContinuesFacts
  <2>2. UNCHANGED <<owner, toClient>>
    BY <2>1, LongChunk DEF SentInParts
  <2> QED
    BY <1>1, <2>1, <2>2
<1>11. CASE ClientReceives
  <2>1. cl'.here = cl.here /\ UNCHANGED <<main, owner>>
    BY <1>11, ReceivesFacts DEF agent
  <2> QED
    BY <1>11, <2>1, LearnsReading
<1>12. CASE ClientLeaves
  BY <1>12 DEF ClientLeaves
<1>13. CASE ClientConnects
  BY <1>13 DEF ClientConnects
<1> QED
  BY <1>3, <1>4, <1>5, <1>6, <1>7, <1>8, <1>9, <1>10, <1>11, <1>12, <1>13 DEF Steps, Speaks

LEMMA WorldStays ==
    [Next]_vars => /\ Leaves' = Leaves /\ OpenFails' = OpenFails /\ Unknown' = Unknown
                   /\ AnswersInTime' = AnswersInTime /\ Files' = Files
BY DEF Next, vars, Leaves, OpenFails, Unknown, AnswersInTime, Timeouts, Changes, Files

\* The client knows when the guest owns the clipboard: the last it was told, or
\* will read, is a GRAB.
THEOREM TheClientKnows == Spec => []ClientKnows
<1> DEFINE Stays == ~OpenFails /\ ~Leaves /\ ~Unknown
           Inv == Sorts /\ SentInParts /\ (Stays => InStep /\ cl.here /\ GuestOwns)
<1>1. Init => Inv
  <2> SUFFICES ASSUME Init PROVE Inv
    OBVIOUS
  <2>1. InStep /\ GuestOwns
    BY DEF Init, InStep, GuestOwns
  <2> QED
    BY <2>1, ClipInitial, NothingFacts DEF Init
<1>2. Inv /\ [Next]_vars => Inv'
  BY SortsStep, SentStep, InStepStep, KnowStep, WorldStays
<1>3. Inv => ClientKnows
  BY DEF ClientKnows, GuestOwns
<1> QED
  BY <1>1, <1>2, <1>3, PTL DEF Spec

------------------------------------------------------------------------------
(***************************************************************************)
(* A paste waits for one answer.                                           *)
(***************************************************************************)
Silent(s) == \A i \in 1 .. Len(s) : s[i].type # "REQUEST"

LEMMA RequestsKept ==
    ASSUME toClient \in Seq(Messages), NEW s \in Seq(Messages), Silent(s), toClient' = toClient \o s
    PROVE  Requests' = Requests /\ \A i \in Requests : toClient'[i] = toClient[i]
<1>1. /\ Len(toClient') = Len(toClient) + Len(s) /\ Len(toClient) \in Nat /\ Len(s) \in Nat
      /\ \A i \in 1 .. Len(toClient) + Len(s) :
            toClient'[i] = IF i <= Len(toClient) THEN toClient[i] ELSE s[i - Len(toClient)]
  BY ConcatProperties, LenProperties
<1>2. \A i \in 1 .. Len(toClient) : i \in 1 .. Len(toClient') /\ toClient'[i] = toClient[i]
  BY <1>1
<1>3. \A i \in 1 .. Len(toClient') : i \in 1 .. Len(toClient) \/ toClient'[i].type # "REQUEST"
  <2> TAKE i \in 1 .. Len(toClient')
  <2>1. CASE i <= Len(toClient)
    BY <1>1, <2>1
  <2>2. CASE ~(i <= Len(toClient))
    <3>1. i - Len(toClient) \in 1 .. Len(s) /\ toClient'[i] = s[i - Len(toClient)]
      BY <1>1, <2>2
    <3> QED
      BY <3>1 DEF Silent
  <2> QED
    BY <2>1, <2>2
<1> QED
  BY <1>2, <1>3 DEF Requests

LEMMA SilentFacts ==
    ASSUME Sorts
    PROVE  /\ Silent(Released) /\ Silent(Taken) /\ Taken \in Seq(Messages)
           /\ \A arg \in SUBSET AllFormats :
                 Written("CLIPBOARD", arg) \in Seq(Messages) /\ Silent(Written("CLIPBOARD", arg))
<1>1. Silent(<<>>) /\ \A m : m.type # "REQUEST" => Silent(<<m>>)
  BY DEF Silent
<1>2. Silent(Released) /\ Released \in Seq(Messages)
  BY <1>1, ReleasedFacts
<1> DEFINE g == Written("GRAB", Formats)
<1>3. Silent(g) /\ g \in Seq(Messages)
  BY <1>1, GrabFacts
<1>4. Taken = Released \o g
  BY DEF Taken
<1> HIDE DEF g
<1>5. Silent(Taken) /\ Taken \in Seq(Messages)
  <2>1. /\ Len(Taken) = Len(Released) + Len(g) /\ Len(Released) \in Nat /\ Len(g) \in Nat
        /\ Taken \in Seq(Messages)
        /\ \A i \in 1 .. Len(Released) + Len(g) :
              Taken[i] = IF i <= Len(Released) THEN Released[i] ELSE g[i - Len(Released)]
    BY <1>2, <1>3, <1>4, ConcatProperties, LenProperties
  <2>2. ASSUME NEW i \in 1 .. Len(Taken) PROVE Taken[i].type # "REQUEST"
    <3>1. CASE i <= Len(Released)
      <4>1. i \in 1 .. Len(Released) /\ Taken[i] = Released[i]
        BY <2>1, <3>1
      <4> QED
        BY <1>2, <4>1 DEF Silent
    <3>2. CASE ~(i <= Len(Released))
      <4>1. i - Len(Released) \in 1 .. Len(g) /\ Taken[i] = g[i - Len(Released)]
        BY <2>1, <3>2
      <4> QED
        BY <1>3, <4>1 DEF Silent
    <3> QED
      BY <3>1, <3>2
  <2> QED
    BY <2>1, <2>2 DEF Silent
<1>6. ASSUME NEW arg \in SUBSET AllFormats
      PROVE  Written("CLIPBOARD", arg) \in Seq(Messages) /\ Silent(Written("CLIPBOARD", arg))
  <2>1. "CLIPBOARD" \in Types
    BY DEF Types
  <2> QED
    BY <1>1, <2>1, WrittenFacts
<1> QED
  BY <1>2, <1>5, <1>6

\* A command is queued: a RESET that waits still does.
LEMMA ResetStays ==
    ASSUME control \in Seq(Commands), NEW c \in Commands, control' = Append(control, c)
    PROVE  control' # <<>> /\ (Resetting => Resetting')
<1>1. /\ control' # <<>> /\ Len(control') = Len(control) + 1 /\ Len(control) \in Nat
      /\ \A i \in 1 .. Len(control) : control'[i] = control[i]
  BY AppendFacts
<1>2. \A i \in 1 .. Len(control) : i \in 1 .. Len(control')
  BY <1>1
<1> QED
  BY <1>1, <1>2 DEF Resetting

LEMMA ClipboardFacts ==
    ASSUME Sorts, NEW data \in SUBSET AllFormats, HandleClipboard(data)
    PROVE  /\ control' # <<>> /\ (Resetting => Resetting') /\ UNCHANGED <<owner, toClient>>
           /\ owner = "client" /\ main = "render" /\ ~Refuses => win'.offered = win.offered \ data
<1>1. control \in Seq(Commands) /\ "CLIPBOARD" \in Commands /\ win \in Offers
  BY DEF Sorts, Commands
<1>2. control' = Append(control, "CLIPBOARD") /\ UNCHANGED <<owner, toClient>>
  BY DEF HandleClipboard, Ends
<1>3. control' # <<>> /\ (Resetting => Resetting')
  BY <1>1, <1>2, ResetStays
<1>4. owner = "client" /\ main = "render" /\ ~Refuses => win'.offered = win.offered \ data
  BY <1>1 DEF HandleClipboard, Offers
<1> QED
  BY <1>2, <1>3, <1>4

\* Chunks of long messages, and those that are taken for one.
LEMMA LongEffects ==
    ASSUME Sorts, SentInParts, NEW c \in Pieces, HandleChunk(c), c.type \in Long \/ in_msg # <<>>
    PROVE  /\ UNCHANGED <<owner, toClient>>
           /\ \/ UNCHANGED <<control, win>>
              \/ /\ HandleClipboard(c.arg) /\ c.type = "CLIPBOARD" /\ c.of = 1
                 /\ in_msg = <<>> /\ in_msg' = <<>>
              \/ /\ HandleClipboard(in_msg[1].arg) /\ in_msg[1].type = "CLIPBOARD"
                 /\ in_msg # <<>> /\ in_msg' = <<>> /\ in_msg[1].of = Len(in_msg) + 1
<1>1. Single(c) \/ Stray(c) \/ Collected(c) \/ Completed(c)
  BY ChunkCases DEF Sorts
<1>2. in_msg # <<>> => in_msg[1] \in Pieces /\ in_msg[1].type \in Long
  BY FirstPiece DEF Sorts, SentInParts
<1>3. ASSUME NEW m \in Pieces, Dispatch(m), m.type \in Long
      PROVE  /\ UNCHANGED <<owner, toClient>>
             /\ UNCHANGED <<control, win>> \/ (m.type = "CLIPBOARD" /\ HandleClipboard(m.arg))
  BY <1>3, DispatchFacts DEF Long
<1>4. CASE Single(c)
  BY <1>3, <1>4 DEF Single
<1>5. CASE Stray(c) \/ Collected(c)
  BY <1>5 DEF Stray, Collected, Dispatched
<1>6. CASE Completed(c)
  BY <1>2, <1>3, <1>6 DEF Completed, Dispatched
<1> QED
  BY <1>1, <1>4, <1>5, <1>6

\* Chunks that are no answer.
LEMMA PasteOther ==
    ASSUME Sorts, SentInParts, PasteInv, UNCHANGED world, NEW c \in Pieces, HandleChunk(c),
           c.type = "OTHER" \/ in_msg # <<>>,
           sending.type # "CLIPBOARD", sending'.type # "CLIPBOARD",
           UNCHANGED <<main, format>>, cl'.asked = cl.asked, main = "render" => UNCHANGED cl
    PROVE  PasteInv'
<1>1. c.type \in Long \/ in_msg # <<>>
  BY DEF Long
<1>2. in_msg # <<>> => in_msg[1] \in Pieces
  BY FirstPiece DEF Sorts
<1>3. UNCHANGED <<owner, toClient>>
  BY <1>1, LongEffects
<1>4. NoneDue => NoneDue'
  BY <1>3 DEF NoneDue, Requests
<1>5. OneDue => OneDue'
  BY <1>3, <1>4 DEF OneDue, Requests
<1>6. in_msg # <<>> /\ in_msg[1].type = "CLIPBOARD" => main = "render" /\ Resetting
  BY DEF PasteInv, DataIsDue
<1>7. CASE UNCHANGED <<control, win>>
  <2>1. DataIsDue'
    <3> SUFFICES ASSUME in_msg' # <<>>, in_msg'[1].type = "CLIPBOARD"
                 PROVE  main' = "render" /\ in_msg'[1].arg = {format'} /\ Resetting'
      BY DEF DataIsDue
    <3>1. in_msg # <<>> /\ in_msg'[1] = in_msg[1]
      BY InMsgGrows DEF Sorts
    <3> QED
      BY <1>6, <1>7, <3>1 DEF PasteInv, DataIsDue, Resetting
  <2>2. main = "render" /\ Served => Served'
    BY <1>7 DEF Served, Resetting, Refuses
  <2> QED
    BY <1>3, <1>4, <1>5, <1>7, <2>1, <2>2 DEF PasteInv
<1>8. CASE /\ HandleClipboard(in_msg[1].arg) /\ in_msg[1].type = "CLIPBOARD"
           /\ in_msg # <<>> /\ in_msg' = <<>>
  <2>1. main = "render" /\ Resetting /\ control # <<>>
    <3>1. Resetting => control # <<>>
      BY DEF Resetting
    <3> QED
      BY <1>6, <1>8, <3>1
  <2>2. in_msg[1].arg \in SUBSET AllFormats
    BY <1>2, <1>8 DEF Pieces
  <2>3. Resetting'
    BY <1>8, <2>1, <2>2, ClipboardFacts
  <2>4. NoneDue' /\ Served' /\ DataIsDue'
    BY <1>4, <1>8, <2>1, <2>3 DEF PasteInv, Served, DataIsDue, Refuses
  <2> QED
    BY <1>3, <1>5, <2>1, <2>4 DEF PasteInv
<1> QED
  BY <1>1, <1>7, <1>8, LongEffects

\* The answer begins, and ends the wait if that is all of it.
LEMMA PasteAnswers ==
    ASSUME Sorts, SentInParts, PasteInv, UNCHANGED world,
           NEW of \in 1 .. MaxParts, ClientAnswers(of)
    PROVE  PasteInv'
<1> DEFINE data == Head(cl.asked) \cap cl.types
           c == Piece("CLIPBOARD", data, of)
<1>1. /\ cl.asked # <<>> /\ of \in Nat \ {0}
      /\ data \in SUBSET AllFormats /\ (data = {} => of = 1)
      /\ Sends("CLIPBOARD", data, of)
      /\ cl'.asked = Tail(cl.asked) /\ cl'.types = cl.types
  BY AnswersFacts
<1>2. "CLIPBOARD" \in Types /\ "CLIPBOARD" \in Long /\ main \in {"loop", "render"}
  BY DEF Types, Long, Sorts
<1>3. /\ main = "render" /\ control = <<>> /\ owner = "client"
      /\ Requests = {} /\ sending.type # "CLIPBOARD" /\ cl.asked = <<{format}>>
  BY <1>1, <1>2 DEF PasteInv, NoneDue, OneDue
<1>4. data = {format} \/ (data = {} /\ format \notin cl.types)
  <2>1. Head(<<{format}>>) = {format}
    OBVIOUS
  <2> QED
    BY <1>3, <2>1
<1>5. cl'.asked = <<>>
  <2>1. Tail(<<{format}>>) = <<>>
    OBVIOUS
  <2> QED
    BY <1>1, <1>3, <2>1
<1>6. c.part = 1 /\ c.of = of /\ c.type = "CLIPBOARD" /\ c.arg = data
  BY DEF Piece
<1> HIDE DEF data
<1>7. /\ c \in Pieces /\ HandleChunk(c)
      /\ of > 1 => sending' = c
      /\ of = 1 => sending' = Nothing
      /\ UNCHANGED <<main, format>>
  BY <1>1, <1>2, SendsFacts
<1> HIDE DEF c
<1>8. of > 1 \/ of = 1
  BY <1>1
<1>9. in_msg # <<>> => in_msg[1].type # "CLIPBOARD"
  BY <1>3 DEF PasteInv, DataIsDue, Resetting
<1>10. UNCHANGED <<owner, toClient>> /\ Requests' = {}
  <2>1. UNCHANGED <<owner, toClient>>
    BY <1>2, <1>6, <1>7, LongEffects
  <2> QED
    BY <1>3, <2>1 DEF Requests
<1>11. OneDue'
  <2>1. CASE of = 1
    BY <1>5, <1>7, <1>10, <2>1, NothingFacts DEF OneDue, NoneDue
  <2>2. CASE of > 1
    <3>1. sending'.type = "CLIPBOARD" /\ sending'.arg = {format'}
      BY <1>1, <1>4, <1>6, <1>7, <2>2
    <3> QED
      BY <1>5, <1>10, <3>1 DEF OneDue
  <2> QED
    BY <1>8, <2>1, <2>2
<1>12. DataIsDue'
  <2> SUFFICES ASSUME in_msg' # <<>>, in_msg'[1].type = "CLIPBOARD"
               PROVE  /\ main' = "render" /\ in_msg'[1].arg = {format'}
                      /\ sending'.type = "CLIPBOARD"
                      /\ sending'.part = Len(in_msg') /\ sending'.of = in_msg'[1].of
    BY DEF DataIsDue
  <2>1. in_msg = <<>>
    BY <1>7, <1>9, InMsgGrows DEF Sorts
  <2>2. in_msg'[1] = c /\ Len(in_msg') = 1 /\ of > 1
    BY <1>6, <1>7, <1>8, <2>1, InMsgGrows DEF Sorts
  <2> QED
    BY <1>1, <1>3, <1>4, <1>6, <1>7, <2>2
<1>13. CASE UNCHANGED <<control, win>>
  BY <1>3, <1>7, <1>10, <1>11, <1>12, <1>13 DEF PasteInv
<1>14. CASE HandleClipboard(c.arg) /\ c.of = 1
  <2>1. ~Refuses => win'.offered = win.offered \ data
    BY <1>1, <1>3, <1>6, <1>14, ClipboardFacts
  <2>2. Served'
    BY <1>1, <1>4, <1>7, <2>1 DEF Served, Refuses
  <2>3. NoneDue'
    BY <1>5, <1>6, <1>7, <1>10, <1>14, NothingFacts DEF NoneDue
  <2> QED
    BY <1>3, <1>7, <1>10, <1>11, <1>12, <2>2, <2>3 DEF PasteInv
<1> QED
  BY <1>2, <1>6, <1>7, <1>9, <1>13, <1>14, LongEffects

\* It goes on, and ends the wait when the last of it has come.
LEMMA PasteContinues ==
    ASSUME Sorts, SentInParts, PasteInv, UNCHANGED world, ClientContinues
    PROVE  PasteInv'
<1> DEFINE c == NextPiece
<1>1. /\ c \in Pieces /\ HandleChunk(c) /\ in_msg \in Seq(Pieces)
      /\ c.part = sending.part + 1 /\ c.of = sending.of /\ c.type = sending.type
      /\ c.arg = sending.arg
      /\ sending.part \in Nat /\ sending.part >= 1 /\ sending.of \in Nat
      /\ sending.part + 1 <= sending.of
      /\ sending.part + 1 < sending.of => sending' = c
      /\ sending.part + 1 = sending.of => sending' = Nothing
      /\ UNCHANGED <<main, format, cl>>
  BY ContinuesFacts DEF Sorts
<1> HIDE DEF c
<1>2. sending.part + 1 < sending.of \/ sending.part + 1 = sending.of
  BY <1>1
<1>3. sending.type \in Long /\ main \in {"loop", "render"}
  BY DEF SentInParts, Sorts
<1>4. CASE sending.type # "CLIPBOARD"
  <2>1. c.type = "OTHER" /\ sending'.type # "CLIPBOARD"
    BY <1>1, <1>2, <1>3, <1>4, NothingFacts DEF Long
  <2> QED
    BY <1>1, <1>4, <2>1, PasteOther
<1>5. CASE sending.type = "CLIPBOARD"
  <2>1. /\ main = "render" /\ control = <<>> /\ owner = "client" /\ ~Resetting
        /\ Requests = {} /\ cl.asked = <<>> /\ sending.arg = {format}
    BY <1>3, <1>5 DEF PasteInv, NoneDue, OneDue, Resetting
  <2>2. UNCHANGED <<owner, toClient>> /\ Requests' = {}
    <3>1. UNCHANGED <<owner, toClient>>
      BY <1>1, <1>3, LongEffects
    <3> QED
      BY <2>1, <3>1 DEF Requests
  <2>3. sending' = Nothing => NoneDue'
    BY <1>1, <2>1, <2>2, NothingFacts DEF NoneDue
  <2>4. OneDue'
    <3>1. CASE sending' = Nothing
      BY <2>3, <3>1 DEF OneDue
    <3>2. CASE sending' = c
      BY <1>1, <1>5, <2>1, <2>2, <3>2 DEF OneDue
    <3> QED
      BY <1>1, <1>2, <3>1, <3>2
  <2>5. in_msg # <<>> /\ in_msg[1].type = "CLIPBOARD" =>
            in_msg[1].arg = {format} /\ sending.part = Len(in_msg) /\ sending.of = in_msg[1].of
    BY <2>1 DEF PasteInv, DataIsDue
  <2>6. CASE UNCHANGED <<control, win>>
    <3>1. DataIsDue'
      <4> SUFFICES ASSUME in_msg' # <<>>, in_msg'[1].type = "CLIPBOARD"
                   PROVE  /\ main' = "render" /\ in_msg'[1].arg = {format'}
                          /\ sending'.type = "CLIPBOARD"
                          /\ sending'.part = Len(in_msg') /\ sending'.of = in_msg'[1].of
        BY DEF DataIsDue
      <4>1. in_msg # <<>>
        BY <1>1, InMsgGrows
      <4>2. /\ in_msg'[1] = in_msg[1] /\ in_msg[1].of # Len(in_msg) + 1
            /\ Len(in_msg') = Len(in_msg) + 1
        BY <1>1, <4>1, InMsgGrows
      <4>3. sending' = c
        BY <1>1, <1>2, <2>5, <4>1, <4>2
      <4> QED
        BY <1>1, <1>5, <2>1, <2>5, <4>1, <4>2, <4>3
    <3> QED
      BY <1>1, <2>1, <2>2, <2>4, <2>6, <3>1 DEF PasteInv
  <2>7. CASE /\ HandleClipboard(in_msg[1].arg) /\ in_msg[1].type = "CLIPBOARD"
             /\ in_msg # <<>> /\ in_msg' = <<>> /\ in_msg[1].of = Len(in_msg) + 1
    <3>1. in_msg[1] \in Pieces /\ in_msg[1].arg \in SUBSET AllFormats
      BY <1>1, <2>7, FirstPiece DEF Pieces
    <3>2. ~Refuses => win'.offered = win.offered \ {format}
      BY <2>1, <2>5, <2>7, <3>1, ClipboardFacts
    <3>3. sending' = Nothing
      BY <1>1, <2>5, <2>7
    <3>4. Served'
      BY <1>1, <3>2 DEF Served, Refuses
    <3>5. DataIsDue'
      BY <2>7 DEF DataIsDue
    <3> QED
      BY <1>1, <2>1, <2>2, <2>3, <2>4, <3>3, <3>4, <3>5 DEF PasteInv
  <2>8. CASE HandleClipboard(c.arg) /\ c.of = 1
    BY <1>1, <2>8
  <2> QED
    BY <1>1, <1>3, <2>6, <2>7, <2>8, LongEffects
<1> QED
  BY <1>4, <1>5

\* A client that answers in time changes nothing while the guest pastes.
LEMMA PasteSpeaks ==
    ASSUME AnswersInTime, Sorts, SentInParts, PasteInv, UNCHANGED world, Speaks
    PROVE  PasteInv'
<1>1. PICK type \in {"GRAB", "RELEASE", "REQUEST"}, arg \in SUBSET AllFormats :
        /\ Sends(type, arg, 1) /\ cl'.asked = cl.asked
        /\ type = "REQUEST" => UNCHANGED cl
        /\ type # "REQUEST" => MayChange
  BY SpeaksFacts
<1>2. type # "REQUEST" => main = "loop"
  BY <1>1 DEF MayChange, AnswersInTime
<1> DEFINE c == Piece(type, arg, 1)
<1>3. /\ type \in Types /\ c \in Pieces /\ HandleChunk(c) /\ UNCHANGED <<main, format>>
      /\ sending = Nothing /\ sending' = Nothing
  BY <1>1, SendsFacts DEF Types
<1>4. c.type = type /\ c.arg = arg
  BY DEF Piece
<1>5. CASE in_msg # <<>>
  BY <1>1, <1>2, <1>3, <1>5, NothingFacts, PasteOther
<1>6. CASE in_msg = <<>>
  <2>1. Dispatch(c) /\ UNCHANGED in_msg
    BY <1>1, <1>3, <1>6, OnePiece
  <2> HIDE DEF c
  <2>2. DataIsDue'
    BY <1>6, <2>1 DEF DataIsDue
  <2>3. CASE type = "REQUEST"
    <3>1. PICK a \in SUBSET AllFormats : toClient' = toClient \o Written("CLIPBOARD", a)
      BY <1>3, <1>4, <2>1, <2>3, DispatchFacts
    <3>2. Requests' = Requests /\ \A i \in Requests : toClient'[i] = toClient[i]
      BY <3>1, RequestsKept, SilentFacts DEF Sorts
    <3>3. UNCHANGED <<control, win, owner, main, format, sending, cl>>
      BY <1>1, <1>3, <1>4, <2>1, <2>3, DispatchFacts
    <3>4. (NoneDue => NoneDue') /\ (OneDue => OneDue')
      BY <3>2, <3>3 DEF NoneDue, OneDue
    <3> QED
      BY <2>2, <3>3, <3>4 DEF PasteInv, Served, Resetting, Refuses
  <2>4. CASE type # "REQUEST"
    <3>1. UNCHANGED toClient
      BY <1>3, <1>4, <2>1, <2>4, DispatchFacts
    <3>2. NoneDue'
      BY <1>1, <1>2, <1>3, <2>4, <3>1 DEF PasteInv, NoneDue, Requests
    <3> QED
      BY <1>2, <1>3, <2>2, <2>4, <3>2 DEF PasteInv
  <2> QED
    BY <2>3, <2>4
<1> QED
  BY <1>5, <1>6

LEMMA PasteFile ==
    ASSUME Sorts, SentInParts, PasteInv, UNCHANGED world, ClientSendsFile
    PROVE  PasteInv'
<1> DEFINE c == Piece("OTHER", {}, MaxParts)
<1>1. /\ Sends("OTHER", {}, MaxParts) /\ UNCHANGED cl /\ MaxParts \in Nat \ {0}
      /\ {} \in SUBSET AllFormats /\ "OTHER" \in Types
  BY FileFacts
<1>2. /\ c \in Pieces /\ HandleChunk(c) /\ UNCHANGED <<main, format>>
      /\ sending = Nothing
      /\ MaxParts > 1 => sending' = c
      /\ MaxParts = 1 => sending' = Nothing
  BY <1>1, SendsFacts
<1>3. c.type = "OTHER"
  BY DEF Piece
<1> HIDE DEF c
<1>4. MaxParts > 1 \/ MaxParts = 1
  BY <1>1
<1>5. sending.type # "CLIPBOARD" /\ sending'.type # "CLIPBOARD"
  BY <1>2, <1>3, <1>4, NothingFacts
<1> QED
  BY <1>1, <1>2, <1>3, <1>5, PasteOther

\* The request comes to the client.
LEMMA PasteReceives ==
    ASSUME UNCHANGED world, Sorts, PasteInv, ClientReceives
    PROVE  PasteInv'
<1>1. /\ Len(toClient) \in Nat /\ Len(toClient) > 0 /\ Len(toClient') = Len(toClient) - 1
      /\ \A i \in 1 .. Len(toClient') : toClient'[i] = toClient[i + 1]
      /\ cl'.types = cl.types \/ cl'.types = {}
      /\ toClient[1].type # "REQUEST" => cl'.asked = cl.asked
      /\ toClient[1].type = "REQUEST" => cl'.asked = Append(cl.asked, toClient[1].arg)
      /\ UNCHANGED <<main, format, owner, in_msg, control, win, sending>>
  BY ReceivesFacts DEF agent
<1>2. /\ \A i \in 1 .. Len(toClient') : i + 1 \in 1 .. Len(toClient) /\ i \in Nat
      /\ \A i \in 1 .. Len(toClient) :
            i \in Nat /\ (i # 1 => i - 1 \in 1 .. Len(toClient') /\ (i - 1) + 1 = i)
      /\ 1 \in 1 .. Len(toClient)
  BY <1>1
<1>3. /\ \A i \in Requests' : i + 1 \in Requests /\ i \in Nat
      /\ \A i \in Requests :
            i \in Nat /\ (i # 1 => i - 1 \in Requests' /\ toClient'[i - 1] = toClient[i])
      /\ 1 \in Requests <=> toClient[1].type = "REQUEST"
  BY <1>1, <1>2 DEF Requests
<1>4. Requests = {} => Requests' = {} /\ cl'.asked = cl.asked
  BY <1>1, <1>3
<1>5. NoneDue => NoneDue'
  BY <1>1, <1>4 DEF NoneDue
<1>6. OneDue => OneDue'
  <2>1. CASE NoneDue
    BY <1>5, <2>1 DEF OneDue
  <2>2. CASE Requests = {} /\ ~NoneDue
    BY <1>1, <1>4, <2>2 DEF OneDue
  <2>3. ASSUME cl.asked = <<>>, sending.type # "CLIPBOARD", NEW i \in Requests, Requests = {i},
               toClient[i].arg = {format}
        PROVE  OneDue'
    <3>1. CASE i = 1
      <4>1. Requests' = {}
        <5>1. \A j \in Requests' : j + 1 = 1 /\ j \in Nat /\ j \in 1 .. Len(toClient')
          BY <1>3, <2>3, <3>1 DEF Requests
        <5> QED
          BY <1>1, <5>1
      <4>2. cl'.asked = Append(<<>>, {format})
        BY <1>1, <1>3, <2>3, <3>1
      <4>3. Append(<<>>, {format}) = <<{format}>>
        OBVIOUS
      <4> QED
        BY <1>1, <2>3, <4>1, <4>2, <4>3 DEF OneDue
    <3>2. CASE i # 1
      <4>1. i - 1 \in Requests' /\ toClient'[i - 1].arg = {format}
        BY <1>3, <2>3, <3>2
      <4>2. \A j \in Requests' : j = i - 1
        <5>1. \A j \in Requests' : j + 1 = i /\ j \in Nat /\ i \in Nat
          BY <1>3, <2>3
        <5> QED
          BY <5>1
      <4>3. Requests' = {i - 1}
        BY <4>1, <4>2
      <4>4. cl'.asked = <<>>
        BY <1>1, <1>3, <2>3, <3>2
      <4> QED
        BY <1>1, <2>3, <4>1, <4>3, <4>4 DEF OneDue
    <3> QED
      BY <3>1, <3>2
  <2> QED
    BY <2>1, <2>2, <2>3 DEF OneDue
<1>7. Served => Served'
  BY <1>1 DEF Served, Resetting, Refuses
<1>8. DataIsDue'
  BY <1>1 DEF PasteInv, DataIsDue, Resetting
<1> QED
  BY <1>1, <1>5, <1>6, <1>7, <1>8 DEF PasteInv

\* A paste begins when no answer is due.
LEMMA PasteRender ==
    ASSUME Sorts, PasteInv, UNCHANGED world, NEW f \in Formats, RenderFormat(f)
    PROVE  PasteInv'
<1>1. /\ main = "loop" /\ control = <<>> /\ {f} \in SUBSET AllFormats
      /\ \/ /\ owner = "client" /\ toClient' = toClient \o Written("REQUEST", {f})
            /\ main' = "render" /\ format' = f
         \/ UNCHANGED <<toClient, main, format>>
      /\ UNCHANGED <<owner, in_msg, control, win, cl, sending>>
  BY RenderFacts
<1>2. NoneDue /\ (in_msg # <<>> => in_msg[1].type # "CLIPBOARD")
  BY <1>1 DEF PasteInv, DataIsDue
<1>3. DataIsDue'
  BY <1>1, <1>2 DEF DataIsDue
<1>4. CASE UNCHANGED <<toClient, main, format>>
  BY <1>1, <1>2, <1>3, <1>4 DEF PasteInv, NoneDue, Requests
<1>5. CASE /\ owner = "client" /\ toClient' = toClient \o Written("REQUEST", {f})
           /\ main' = "render" /\ format' = f
  <2> DEFINE m == [type |-> "REQUEST", arg |-> {f}]
  <2>1. m \in Messages /\ m.type = "REQUEST" /\ m.arg = {f} /\ toClient \in Seq(Messages)
    BY <1>1 DEF Messages, Types, Sorts
  <2>2. Written("REQUEST", {f}) = <<>> \/ Written("REQUEST", {f}) = <<m>>
    BY DEF Written
  <2> HIDE DEF m
  <2>3. OneDue'
    <3>1. CASE Written("REQUEST", {f}) = <<>>
      <4>1. toClient' = toClient
        BY <1>5, <2>1, <3>1, ConcatEmptySeq
      <4> QED
        BY <1>1, <1>2, <4>1 DEF OneDue, NoneDue, Requests
    <3>2. CASE Written("REQUEST", {f}) = <<m>>
      <4> DEFINE l == Len(toClient) + 1
      <4>1. /\ Len(toClient') = l /\ Len(toClient) \in Nat /\ toClient'[l] = m
            /\ \A i \in 1 .. Len(toClient) : toClient'[i] = toClient[i]
        BY <1>5, <2>1, <3>2, OneMore
      <4>2. l \in 1 .. Len(toClient') /\ \A i \in 1 .. Len(toClient') : i = l \/ i \in 1 .. Len(toClient)
        BY <4>1
      <4> HIDE DEF l
      <4>3. Requests' = {l}
        BY <1>2, <2>1, <4>1, <4>2 DEF Requests, NoneDue
      <4> QED
        BY <1>1, <1>2, <1>5, <2>1, <4>1, <4>3 DEF OneDue, NoneDue
    <3> QED
      BY <2>2, <3>1, <3>2
  <2> QED
    BY <1>1, <1>3, <1>5, <2>3 DEF PasteInv
<1> QED
  BY <1>1, <1>4, <1>5

\* The steps that ask and answer nothing.
LEMMA PasteOthers ==
    ASSUME AnswersInTime, Sorts, PasteInv, UNCHANGED world,
           \/ HandleControl \/ TimesOut \/ ClipboardUpdate \/ DesktopSwitch \/ GuestCopies
           \/ ClientLeaves \/ ClientConnects
    PROVE  PasteInv'
<1>1. CASE HandleControl
  <2>1. /\ control # <<>> /\ main' = "loop" /\ control' = <<>> /\ UNCHANGED <<cl, sending>>
        /\ main = "render" => in_msg' = <<>>
        /\ main = "loop" => in_msg' = in_msg
        /\ UNCHANGED toClient \/ toClient' = toClient \o Released
        /\ main \in {"loop", "render"}
    BY <1>1, ControlFacts DEF Sorts
  <2>2. NoneDue
    BY <2>1 DEF PasteInv
  <2>3. Requests' = Requests
    BY <2>1, RequestsKept, ReleasedFacts, SilentFacts DEF Sorts, Requests
  <2>4. NoneDue'
    BY <2>1, <2>2, <2>3 DEF NoneDue
  <2>5. DataIsDue'
    BY <2>1 DEF PasteInv, DataIsDue
  <2> QED
    BY <2>1, <2>4, <2>5 DEF PasteInv
<1>2. CASE TimesOut
  BY <1>2 DEF TimesOut, AnswersInTime
<1>3. CASE ClipboardUpdate \/ DesktopSwitch \/ GuestCopies
  <2>1. /\ main = "loop" /\ UNCHANGED <<main, in_msg, cl, sending, control>>
        /\ \/ UNCHANGED toClient \/ toClient' = toClient \o Taken
           \/ toClient' = toClient \o Released
    BY <1>3, WindowsFacts
  <2>2. Requests' = Requests
    BY <2>1, RequestsKept, ReleasedFacts, SilentFacts DEF Sorts, Requests
  <2>3. NoneDue' /\ DataIsDue'
    BY <2>1, <2>2 DEF PasteInv, NoneDue, DataIsDue
  <2> QED
    BY <2>1, <2>3 DEF PasteInv
<1>4. CASE ClientLeaves
  <2>1. /\ Resetting' /\ sending' = Nothing /\ toClient' = <<>> /\ cl'.asked = <<>>
        /\ UNCHANGED <<main, format, owner, in_msg, win>>
    BY <1>4, LeavesFacts
  <2>2. NoneDue'
    BY <2>1, NothingFacts DEF NoneDue, Requests
  <2>3. DataIsDue' /\ Served' /\ OneDue'
    BY <2>1, <2>2 DEF PasteInv, DataIsDue, Served, OneDue, Refuses
  <2> QED
    BY <2>1, <2>2, <2>3 DEF PasteInv
<1>5. CASE ClientConnects
  <2>1. /\ cl'.asked = <<>> /\ cl'.types = {}
        /\ UNCHANGED <<main, format, owner, in_msg, win, control, toClient, sending>>
    BY <1>5, NothingFacts DEF ClientConnects, agent
  <2>2. (NoneDue => NoneDue') /\ (OneDue => OneDue')
    BY <2>1 DEF OneDue, NoneDue, Requests
  <2>3. DataIsDue' /\ Served'
    BY <2>1 DEF PasteInv, DataIsDue, Served, Resetting, Refuses
  <2> QED
    BY <2>1, <2>2, <2>3 DEF PasteInv
<1> QED
  BY <1>1, <1>2, <1>3, <1>4, <1>5

LEMMA PasteStep ==
    AnswersInTime /\ Sorts /\ SentInParts /\ PasteInv /\ [Next]_vars => PasteInv'
<1> SUFFICES ASSUME AnswersInTime, Sorts, SentInParts, PasteInv, [Next]_vars PROVE PasteInv'
  OBVIOUS
<1>1. CASE UNCHANGED vars
  <2>1. UNCHANGED <<world, main, format, owner, in_msg, win, control, toClient, cl, sending>>
    BY <1>1 DEF vars, moves, agent
  <2> QED
    BY <2>1 DEF PasteInv, NoneDue, OneDue, Requests, DataIsDue, Served, Resetting, Refuses
<1> SUFFICES ASSUME Steps, UNCHANGED world PROVE PasteInv'
  BY <1>1 DEF Next
<1>2. ASSUME NEW f \in Formats, RenderFormat(f) PROVE PasteInv'
  BY <1>2, PasteRender
<1>3. ASSUME NEW of \in 1 .. MaxParts, ClientAnswers(of) PROVE PasteInv'
  BY <1>3, PasteAnswers
<1>4. CASE Speaks
  BY <1>4, PasteSpeaks
<1>5. CASE ClientSendsFile
  BY <1>5, PasteFile
<1>6. CASE ClientContinues
  BY <1>6, PasteContinues
<1>7. CASE ClientReceives
  BY <1>7, PasteReceives
<1>8. CASE \/ HandleControl \/ TimesOut \/ ClipboardUpdate \/ DesktopSwitch \/ GuestCopies
           \/ ClientLeaves \/ ClientConnects
  BY <1>8, PasteOthers
<1> QED
  BY <1>2, <1>3, <1>4, <1>5, <1>6, <1>7, <1>8 DEF Steps, Speaks

LEMMA PasteInitial == Init => PasteInv
<1>1. Init => NoneDue /\ main = "loop" /\ in_msg = <<>> /\ control = <<>>
  BY NothingFacts DEF Init, NoneDue, Requests
<1> QED
  BY <1>1 DEF PasteInv, DataIsDue

\* A paste whose wait the control event ends has its data, unless the client
\* let the clipboard go or has not the format.
THEOREM PastesAreServed == Spec => PasteIsServed
<1> DEFINE Inv == Sorts /\ SentInParts /\ (AnswersInTime => PasteInv)
<1>1. Init => Inv
  BY ClipInitial, PasteInitial
<1>2. Inv /\ [Next]_vars => Inv'
  BY SortsStep, SentStep, PasteStep, WorldStays
<1>3. Inv /\ [Next]_vars => [AnswersInTime /\ ~Refuses /\ main = "render" /\ control # <<>> /\ main' = "loop"
                         => \/ format \notin win'.offered
                            \/ owner' # "client" \/ format \notin cl.types]_vars
  <2> SUFFICES ASSUME Inv, Next, AnswersInTime, ~Refuses, main = "render", control # <<>>, main' = "loop"
               PROVE  format \notin win'.offered \/ owner' # "client" \/ format \notin cl.types
    OBVIOUS
  <2>1. Steps /\ UNCHANGED world
    BY DEF Next
  <2>2. CASE HandleControl
    <3>1. Resetting \/ format \notin win.offered \/ format \notin cl.types
      BY DEF PasteInv, Served
    <3>2. UNCHANGED win /\ (Resetting => owner' = "none")
      BY <2>1, <2>2, ControlFacts
    <3> QED
      BY <3>1, <3>2
  <2>3. CASE TimesOut
    BY <2>3 DEF TimesOut
  <2>4. CASE ClipboardUpdate \/ DesktopSwitch \/ GuestCopies
    BY <2>1, <2>4, WindowsFacts
  <2>5. CASE \E f \in Formats : RenderFormat(f)
    BY <2>1, <2>5, RenderFacts
  <2>6. CASE Speaks \/ ClientSendsFile \/ (\E of \in 1 .. MaxParts : ClientAnswers(of))
    BY <2>6 DEF Speaks, ClientGrabs, ClientReleases, ClientRequests, ClientSendsFile,
                ClientAnswers, Sends, Outside
  <2>7. CASE ClientContinues \/ ClientReceives \/ ClientLeaves \/ ClientConnects
    BY <2>7 DEF ClientContinues, ClientReceives, ClientLeaves, ClientConnects, Outside, agent
  <2> QED
    BY <2>1, <2>2, <2>3, <2>4, <2>5, <2>6, <2>7 DEF Steps, Speaks
<1> QED
  BY <1>1, <1>2, <1>3, PTL DEF Spec, PasteIsServed

------------------------------------------------------------------------------
(***************************************************************************)
(* The stream is kept.                                                     *)
(***************************************************************************)
\* What comes in, comes in while the guest pastes; what is sent is in step with
\* what has come in.
LEMMA StreamFacts ==
    ASSUME Sorts, PasteInv, StreamInv
    PROVE  /\ main = "loop" => in_msg = <<>> /\ sending = Nothing
           /\ sending = Nothing /\ ~Resetting => in_msg = <<>>
           /\ sending # Nothing =>
                 /\ main = "render" /\ control = <<>> /\ ~Resetting
                 /\ in_msg # <<>> /\ sending.n = in_msg[1].n
                 /\ sending.part = Len(in_msg) /\ sending.of = in_msg[1].of
<1>1. main \in {"loop", "render"} /\ (control = <<>> => ~Resetting)
  BY DEF Sorts, Resetting
<1>2. sending # Nothing => sending.type = "CLIPBOARD" /\ in_msg # <<>> /\ sending.n = in_msg[1].n
  BY DEF StreamInv
<1>3. in_msg # <<>> => in_msg[1].type = "CLIPBOARD"
  BY DEF StreamInv
<1>4. sending # Nothing => main = "render" /\ control = <<>>
  BY <1>1, <1>2 DEF PasteInv, NoneDue
<1>5. in_msg # <<>> =>
        /\ main = "render"
        /\ \/ Resetting
           \/ /\ sending.type = "CLIPBOARD"
              /\ sending.part = Len(in_msg) /\ sending.of = in_msg[1].of
  BY <1>3 DEF PasteInv, DataIsDue
<1> QED
  BY <1>1, <1>2, <1>4, <1>5, NothingFacts

\* No chunk is a RESET.
LEMMA NoNewReset ==
    ASSUME Sorts, NEW c \in Pieces, HandleChunk(c), Resetting'
    PROVE  Resetting
<1>1. Single(c) \/ Stray(c) \/ Collected(c) \/ Completed(c)
  BY ChunkCases DEF Sorts
<1>2. in_msg # <<>> => in_msg[1] \in Pieces
  BY FirstPiece DEF Sorts
<1>3. control \in Seq(Commands) /\ "CLIPBOARD" \in Commands
  BY DEF Sorts, Commands
<1>4. ASSUME control' = Append(control, "CLIPBOARD") PROVE Resetting
  <2>1. /\ Len(control') = Len(control) + 1 /\ Len(control) \in Nat
        /\ \A i \in 1 .. Len(control) : control'[i] = control[i]
        /\ control'[Len(control) + 1] = "CLIPBOARD"
    BY <1>3, <1>4, AppendFacts
  <2>2. PICK i \in 1 .. Len(control') : control'[i] = "RESET"
    BY DEF Resetting
  <2>3. i \in 1 .. Len(control) \/ i = Len(control) + 1
    BY <2>1
  <2> QED
    BY <2>1, <2>2, <2>3 DEF Resetting
<1>5. control' = control \/ control' = Append(control, "CLIPBOARD")
  <2>1. ASSUME NEW m \in Pieces, Dispatch(m)
        PROVE  control' = control \/ control' = Append(control, "CLIPBOARD")
    BY <2>1 DEF Dispatch, HandleGrab, HandleClipboard, HandleRelease, HandleRequest, Ends, SetControl
  <2> QED
    BY <1>1, <1>2, <2>1 DEF Single, Stray, Collected, Completed, Dispatched
<1> QED
  BY <1>4, <1>5 DEF Resetting

\* A message begins when nothing else is coming in.
LEMMA StreamSends ==
    ASSUME Sorts, PasteInv, StreamInv, ~(main = "render" /\ Resetting),
           NEW type \in Types, NEW arg \in SUBSET AllFormats, NEW of \in Nat \ {0},
           Sends(type, arg, of), of > 1 => type = "CLIPBOARD"
    PROVE  StreamInv'
<1> DEFINE c == Piece(type, arg, of)
<1>1. /\ c \in Pieces /\ HandleChunk(c) /\ in_msg \in Seq(Pieces)
      /\ sending = Nothing /\ UNCHANGED main
      /\ of > 1 => sending' = c
      /\ of = 1 => sending' = Nothing
  BY SendsFacts DEF Sorts
<1>2. c.part = 1 /\ c.of = of /\ c.type = type
  BY DEF Piece
<1> HIDE DEF c
<1>3. in_msg = <<>> /\ running
  BY <1>1, StreamFacts DEF Sorts, StreamInv
<1>4. Single(c) \/ Collected(c)
  BY <1>1, <1>2, <1>3, ChunkCases DEF Stray, Completed
<1>5. ~(main' = "render" /\ Resetting')
  BY <1>1, NoNewReset
<1>6. CASE Single(c)
  <2>1. in_msg' = <<>> /\ running' /\ sending' = Nothing
    BY <1>1, <1>2, <1>3, <1>6 DEF Single
  <2>2. Len(in_msg') = 0
    BY <2>1
  <2> QED
    BY <1>5, <2>1, <2>2 DEF StreamInv
<1>7. CASE Collected(c)
  <2>1. in_msg' = Append(in_msg, c) /\ of # 1 /\ running'
    BY <1>2, <1>3, <1>7 DEF Collected
  <2>2. of > 1
    BY <2>1
  <2>3. Len(in_msg') = 1 /\ in_msg'[1] = c /\ in_msg' # <<>>
    BY <1>1, <1>3, <2>1, AppendFacts
  <2>4. \A i \in 1 .. Len(in_msg') : in_msg'[i].n = in_msg'[1].n /\ in_msg'[i].part = i
    BY <1>2, <2>3
  <2> QED
    BY <1>1, <1>2, <1>5, <2>1, <2>2, <2>3, <2>4 DEF StreamInv
<1> QED
  BY <1>4, <1>6, <1>7

LEMMA StreamContinues ==
    ASSUME Sorts, SentInParts, PasteInv, StreamInv, ClientContinues
    PROVE  StreamInv'
<1> DEFINE c == NextPiece
<1>1. /\ c \in Pieces /\ HandleChunk(c) /\ in_msg \in Seq(Pieces) /\ sending # Nothing
      /\ c.part = sending.part + 1 /\ c.n = sending.n /\ c.type = sending.type
      /\ sending.part \in Nat /\ sending.of \in Nat
      /\ sending.part + 1 <= sending.of
      /\ sending.part + 1 < sending.of => sending' = c
      /\ sending.part + 1 = sending.of => sending' = Nothing
      /\ UNCHANGED <<main, format, cl>>
  BY ContinuesFacts DEF Sorts
<1> HIDE DEF c
<1>2. /\ ~Resetting /\ in_msg # <<>> /\ sending.n = in_msg[1].n
      /\ sending.part = Len(in_msg) /\ sending.of = in_msg[1].of
  BY <1>1, StreamFacts
<1>3. /\ running /\ sending.type = "CLIPBOARD" /\ in_msg[1].type = "CLIPBOARD"
      /\ \A i \in 1 .. Len(in_msg) : in_msg[i].n = in_msg[1].n /\ in_msg[i].part = i
  BY <1>1, <1>2 DEF StreamInv
<1>4. Collected(c) \/ Completed(c)
  BY <1>1, <1>2, ChunkCases DEF Single, Stray
<1>5. ~Resetting'
  BY <1>1, <1>2, NoNewReset
<1>6. CASE Completed(c)
  <2>1. in_msg' = <<>> /\ running' /\ sending' = Nothing
    BY <1>1, <1>2, <1>3, <1>6 DEF Completed
  <2>2. Len(in_msg') = 0
    BY <2>1
  <2> QED
    BY <1>5, <2>1, <2>2 DEF StreamInv
<1>7. CASE Collected(c)
  <2>1. in_msg' = Append(in_msg, c) /\ in_msg[1].of # Len(in_msg) + 1 /\ running'
    BY <1>2, <1>3, <1>7 DEF Collected
  <2>2. sending' = c
    BY <1>1, <1>2, <2>1
  <2>3. /\ Len(in_msg') = Len(in_msg) + 1 /\ Len(in_msg) \in Nat
        /\ \A i \in 1 .. Len(in_msg) : in_msg'[i] = in_msg[i]
        /\ in_msg'[Len(in_msg) + 1] = c /\ in_msg' # <<>> /\ in_msg'[1] = in_msg[1]
    BY <1>1, <1>2, <2>1, AppendFacts
  <2>4. ASSUME NEW i \in 1 .. Len(in_msg')
        PROVE  in_msg'[i].n = in_msg'[1].n /\ in_msg'[i].part = i
    <3>1. i \in 1 .. Len(in_msg) \/ i = Len(in_msg) + 1
      BY <2>3
    <3> QED
      BY <1>1, <1>2, <1>3, <2>3, <3>1
  <2> QED
    BY <1>1, <1>2, <1>3, <1>5, <2>1, <2>2, <2>3, <2>4 DEF StreamInv
<1> QED
  BY <1>4, <1>6, <1>7

LEMMA StreamStep ==
    ASSUME AnswersInTime, ~Files, Sorts, SentInParts, PasteInv, StreamInv, [Next]_vars
    PROVE  StreamInv'
<1>1. CASE UNCHANGED <<running, main, in_msg, sending, control, toClient, cl>>
  BY <1>1 DEF StreamInv, Resetting
<1>2. CASE UNCHANGED vars
  BY <1>1, <1>2 DEF vars, moves, agent
<1> SUFFICES ASSUME Steps, UNCHANGED world PROVE StreamInv'
  BY <1>2 DEF Next
<1>3. /\ main = "render" /\ Resetting => toClient = <<>> /\ cl.owner # "guest" /\ cl.asked = <<>>
      /\ control = <<>> => ~Resetting
  <2>1. Resetting => control # <<>>
    BY DEF Resetting
  <2> QED
    BY <2>1 DEF StreamInv, PasteInv, NoneDue
<1>4. ASSUME main = "loop", main' = "loop", UNCHANGED <<running, in_msg, sending>>
      PROVE  StreamInv'
  <2>1. running /\ in_msg = <<>> /\ sending = Nothing
    BY <1>4, StreamFacts DEF StreamInv
  <2>2. in_msg' = <<>> /\ Len(in_msg') = 0
    BY <1>4, <2>1
  <2> QED
    BY <1>4, <2>1, <2>2 DEF StreamInv
<1>5. CASE HandleControl
  <2>1. /\ control # <<>> /\ main' = "loop" /\ UNCHANGED <<running, sending>>
        /\ main = "render" => in_msg' = <<>>
        /\ main = "loop" => in_msg' = in_msg
        /\ main \in {"loop", "render"}
    BY <1>5, ControlFacts DEF Sorts
  <2>2. sending = Nothing /\ in_msg' = <<>> /\ running
    BY <2>1, StreamFacts DEF StreamInv
  <2>3. Len(in_msg') = 0
    BY <2>2
  <2> QED
    BY <2>1, <2>2, <2>3 DEF StreamInv
<1>6. CASE TimesOut
  BY <1>6 DEF TimesOut, AnswersInTime
<1>7. CASE ClipboardUpdate \/ DesktopSwitch \/ GuestCopies
  BY <1>4, <1>7, WindowsFacts
<1>8. ASSUME NEW f \in Formats, RenderFormat(f) PROVE StreamInv'
  <2>1. main = "loop" /\ control = <<>> /\ UNCHANGED <<running, in_msg, sending, control>>
    BY <1>8, RenderFacts
  <2>2. running' /\ in_msg' = <<>> /\ sending' = Nothing /\ ~Resetting'
    BY <1>3, <2>1, StreamFacts DEF StreamInv, Resetting
  <2>3. Len(in_msg') = 0
    BY <2>2
  <2> QED
    BY <2>2, <2>3 DEF StreamInv
<1>9. CASE Speaks
  <2>1. PICK type \in {"GRAB", "RELEASE", "REQUEST"}, arg \in SUBSET AllFormats :
          /\ Sends(type, arg, 1)
          /\ type = "REQUEST" => cl.owner = "guest"
          /\ type # "REQUEST" => MayChange
    BY <1>9, SpeaksFacts
  <2>2. type \in Types /\ 1 \in Nat \ {0}
    BY DEF Types
  <2>3. ~(main = "render" /\ Resetting)
    BY <1>3, <2>1 DEF MayChange, AnswersInTime
  <2> QED
    BY <2>1, <2>2, <2>3, StreamSends
<1>10. CASE ClientSendsFile
  BY <1>10 DEF ClientSendsFile
<1>11. ASSUME NEW of \in 1 .. MaxParts, ClientAnswers(of) PROVE StreamInv'
  <2> DEFINE data == Head(cl.asked) \cap cl.types
  <2>1. /\ data \in SUBSET AllFormats /\ of \in Nat \ {0} /\ Sends("CLIPBOARD", data, of)
        /\ cl.asked # <<>>
    BY <1>11, AnswersFacts
  <2>2. "CLIPBOARD" \in Types
    BY DEF Types
  <2> HIDE DEF data
  <2> QED
    BY <1>3, <2>1, <2>2, StreamSends
<1>12. CASE ClientContinues
  BY <1>12, StreamContinues
<1>13. CASE ClientReceives
  <2>1. toClient # <<>> /\ UNCHANGED <<running, main, in_msg, control, sending>>
    BY <1>13, ReceivesFacts DEF agent
  <2> QED
    BY <1>3, <2>1 DEF StreamInv, Resetting
<1>14. CASE ClientLeaves
  <2>1. /\ sending' = Nothing /\ toClient' = <<>> /\ cl'.owner = "none"
        /\ UNCHANGED <<running, main, in_msg>>
    BY <1>14, LeavesFacts
  <2> QED
    BY <2>1 DEF StreamInv
<1>15. CASE ClientConnects
  <2>1. cl'.owner = "none" /\ UNCHANGED <<running, main, in_msg, control, toClient, sending>>
    BY <1>15, NothingFacts DEF ClientConnects, agent
  <2> QED
    BY <2>1 DEF StreamInv, Resetting
<1> QED
  BY <1>5, <1>6, <1>7, <1>8, <1>9, <1>10, <1>11, <1>12, <1>13, <1>14, <1>15 DEF Steps, Speaks

LEMMA StreamAlways ==
    Spec => [](/\ Sorts /\ SentInParts /\ (~Leaves => InStep)
               /\ AnswersInTime /\ ~Files => StreamInv)
<1> DEFINE Inv == /\ Sorts /\ SentInParts /\ (~Leaves => InStep)
                  /\ AnswersInTime => PasteInv
                  /\ AnswersInTime /\ ~Files => StreamInv
<1>1. Init => Inv
  <2> SUFFICES ASSUME Init PROVE Inv
    OBVIOUS
  <2>1. in_msg = <<>> /\ running /\ sending = Nothing /\ main = "loop"
    BY DEF Init
  <2>2. Len(in_msg) = 0
    BY <2>1
  <2>3. StreamInv /\ InStep
    BY <2>1, <2>2 DEF StreamInv, InStep
  <2> QED
    BY <2>3, ClipInitial, PasteInitial
<1>2. Inv /\ [Next]_vars => Inv'
  BY SortsStep, SentStep, InStepStep, PasteStep, StreamStep, WorldStays
<1>3. Inv => /\ Sorts /\ SentInParts /\ (~Leaves => InStep)
             /\ AnswersInTime /\ ~Files => StreamInv
  OBVIOUS
<1> QED
  BY <1>1, <1>2, <1>3, PTL DEF Spec

\* The agent never takes the middle of a message for the beginning of one, with
\* clients that answer pastes in time and send no other long messages.
THEOREM TheStreamIsKept == Spec => []StreamKept
<1>1. (AnswersInTime /\ ~Files => StreamInv) => StreamKept
  BY DEF StreamKept, StreamInv
<1> QED
  BY <1>1, StreamAlways, PTL

\* A message is put together from its own chunks, in their order.
THEOREM PutTogether == Spec => []Reassembled
<1>1. Sorts /\ InStep => \A i \in 1 .. Len(in_msg) : in_msg[i].n = in_msg[1].n /\ in_msg[i].part = i
  <2> SUFFICES ASSUME Sorts, InStep, in_msg # <<>>
               PROVE  \A i \in 1 .. Len(in_msg) : in_msg[i].n = in_msg[1].n /\ in_msg[i].part = i
    <3>1. in_msg = <<>> => Len(in_msg) = 0
      OBVIOUS
    <3> QED
      BY <3>1
  <2>1. 1 \in 1 .. Len(in_msg)
    BY FirstPiece DEF Sorts
  <2> QED
    BY <2>1 DEF InStep
<1>2. Sorts /\ (~Leaves => InStep) /\ (AnswersInTime /\ ~Files => StreamInv) => Reassembled
  BY <1>1 DEF Reassembled, StreamInv
<1> QED
  BY <1>2, StreamAlways, PTL

==============================================================================
