------------------------------ MODULE Clipboard -------------------------------
(***************************************************************************)
(* The shared clipboard and the chunks it arrives in (vdagent/vdagent.cpp).*)
(* The agent's main thread reads chunks from the virtio-serial port,       *)
(* puts messages together and dispatches them, all in completion routines  *)
(* that run while the thread waits alertably.  It does so in the message   *)
(* loop, and also inside WM_RENDERFORMAT: a guest program pastes what the  *)
(* client holds, and on_clipboard_request waits for the client's data in a *)
(* loop of its own, where only chunks and control commands are handled.    *)
(*                                                                         *)
(* Windows (who owns the clipboard, what is offered for delayed rendering) *)
(* and the client are modelled from how the code uses them.  A chunk is    *)
(* read in the step in which the client sends it; what the agent tells the *)
(* client is delayed in toClient.  A message is as long as its chunks are  *)
(* many.  The client has announced VD_AGENT_CAP_CLIPBOARD_BY_DEMAND.       *)
(***************************************************************************)
EXTENDS Integers, Sequences

CONSTANT
    Worlds          \* what the agent may have to do with, below

VARIABLE
    world           \* the one it has to do with, which never changes

Formats     == world.formats        \* the clipboard formats both sides know
MaxParts    == world.parts          \* the chunks of the longest message
MaxMessages == world.messages       \* bound: messages of the clients that are no answers
MaxCopies   == world.copies         \* bound: copies of guest programs and desktop switches
MaxPastes   == world.pastes         \* bound: pastes of guest programs

Timeouts  == "timeouts" \in world.may   \* the client is slower than VD_CLIPBOARD_TIMEOUT_MS
OpenFails == "fail open" \in world.may  \* another program holds the clipboard open
Leaves    == "leave" \in world.may      \* the client goes away
Changes   == "change" \in world.may     \* it grabs and releases while the guest pastes
Unknown   == "unknown" \in world.may    \* it grabs formats only it knows
Files     == "files" \in world.may      \* it sends long messages of other kinds
Switches  == "switch" \in world.may     \* the input desktop changes
Refuses   == "refuse" \in world.may     \* Windows does not take the client's data

Troubles ==
    {"timeouts", "fail open", "leave", "change", "unknown", "files", "switch", "refuse"}

ASSUME ClipboardWorlds ==
    Worlds \subseteq [formats : {{"text"}, {"text", "image"}}, parts : Nat \ {0}, messages : Nat,
                      copies : Nat, pastes : Nat, may : SUBSET Troubles]

VARIABLES
    running,        \* VDAgent::_running
    main,           \* in the message loop, or in on_clipboard_request
    format,         \* the format on_clipboard_request was asked for
    tick,           \* whether VDAgent::_clipboard_tick is not zero
    owner,          \* VDAgent::_clipboard_owner
    grab_types,     \* VDAgent::_grab_types
    in_msg,         \* VDAgent::_in_msg and _in_msg_pos: the chunks received
    control,        \* the RESET and CLIPBOARD commands of _control_queue
    win,            \* the clipboard of Windows
    toClient,       \* the messages on their way to the client
    cl,             \* the client
    sending,        \* the message the client is in the middle of
    sent, copies, pastes    \* how often the outside has acted

agent  == <<running, main, format, tick, owner, grab_types, in_msg, control>>
moves  == <<agent, win, toClient, cl, sending, sent, copies, pastes>>
vars   == <<world, moves>>

Types  == {"GRAB", "RELEASE", "REQUEST", "CLIPBOARD", "OTHER"}
None   == "none"
Chunks == [n : 1 .. MaxMessages + MaxPastes, part : 1 .. MaxParts, of : 1 .. MaxParts,
           type : Types, arg : SUBSET Formats]
Nothing == [n |-> 0, part |-> 0, of |-> 0, type |-> "OTHER", arg |-> {}]

TypeOK ==
    /\ running \in BOOLEAN
    /\ main \in {"loop", "render"} /\ format \in Formats \cup {None}
    /\ tick = (main = "render")
    /\ owner \in {"none", "guest", "client"}
    /\ grab_types \subseteq Formats
    /\ in_msg \in Seq(Chunks) /\ Len(in_msg) < MaxParts
    /\ control \in Seq({"RESET", "CLIPBOARD"})
    /\ win \in [owner : {"none", "agent", "app"}, offered : SUBSET Formats, update : BOOLEAN]
    /\ toClient \in Seq([type : Types, arg : SUBSET Formats])
    /\ cl \in [here : BOOLEAN, owner : {"none", "guest", "client"}, types : SUBSET Formats,
               asked : Seq(SUBSET Formats)]
    /\ sending \in Chunks \cup {Nothing}
    /\ sent \in 0 .. MaxMessages + MaxPastes /\ copies \in 0 .. MaxCopies /\ pastes \in 0 .. MaxPastes

NewClient == [here |-> TRUE, owner |-> "none", types |-> {}, asked |-> <<>>]

Init ==
    /\ world \in Worlds
    /\ running = TRUE /\ main = "loop" /\ format = None /\ tick = FALSE
    /\ owner = "none" /\ grab_types = {} /\ in_msg = <<>> /\ control = <<>>
    /\ win = [owner |-> "none", offered |-> {}, update |-> FALSE]
    /\ toClient = <<>> /\ cl = NewClient /\ sending = Nothing
    /\ sent = 0 /\ copies = 0 /\ pastes = 0

------------------------------------------------------------------------------
(***************************************************************************)
(* The pieces.                                                             *)
(***************************************************************************)
SetControl(c) == control' = Append(control, c)

Written(type, arg) == IF cl.here THEN <<[type |-> type, arg |-> arg]>> ELSE <<>>
WriteMessage(type, arg) == toClient' = toClient \o Written(type, arg)

\* set_clipboard_owner(owner_none) tells the client when the guest lets go.
Released == IF owner = "guest" THEN Written("RELEASE", {}) ELSE <<>>

\* The guest takes the clipboard, from itself or from the client.
TakenSwapped == Written("GRAB", Formats) \o Released  \* mutant: swapped order
Taken == Released \o Written("GRAB", Formats)

\* OpenClipboard: not while a guest program has it open to paste.
MayOpen == main = "loop"
MayNotOpen == main = "render" \/ OpenFails

------------------------------------------------------------------------------
(***************************************************************************)
(* dispatch_message: the handlers.                                         *)
(***************************************************************************)
\* The types are forgotten even when the clipboard cannot be opened.
HandleGrab(types) ==
    /\ \/ /\ types # {} /\ MayOpen
          /\ grab_types' = types
          /\ win' = [owner |-> "agent", offered |-> types, update |-> TRUE]
          /\ owner' = "client"
       \/ /\ types = {} \/ MayNotOpen
          /\ grab_types' = {}
          /\ UNCHANGED <<win, owner>>
    /\ UNCHANGED <<control, toClient>>

\* Whatever the client sends ends the wait, and NONE does too.
EndsOnData(data) == IF data = {} THEN control ELSE Append(control, "CLIPBOARD")  \* mutant
Ends(data) == Append(control, "CLIPBOARD")

\* SetClipboardData only takes data while a program waits for it.
HandleClipboard(data) ==
    /\ \/ /\ owner = "client" /\ main = "render"
          /\ win' = [win EXCEPT !.offered = @ \ data]
       \/ /\ owner # "client" \/ main = "loop" \/ Refuses
          /\ UNCHANGED win
    /\ control' = Ends(data)
    /\ UNCHANGED <<owner, grab_types, toClient>>

HandleRelease ==
    /\ \/ owner = "client" /\ SetControl("CLIPBOARD") /\ owner' = "none"
       \/ owner # "client" /\ UNCHANGED <<control, owner>>
    /\ UNCHANGED <<grab_types, win, toClient>>

\* The data, or NONE when the guest has it not or cannot get at it.
HandleRequest(formats) ==
    /\ \/ owner = "guest" /\ WriteMessage("CLIPBOARD", formats)
       \/ WriteMessage("CLIPBOARD", {})
    /\ UNCHANGED <<owner, grab_types, control, win>>

Dispatch(m) ==
    \/ m.type = "GRAB" /\ HandleGrab(m.arg)
    \/ m.type = "CLIPBOARD" /\ HandleClipboard(m.arg)
    \/ m.type = "RELEASE" /\ HandleRelease
    \/ m.type = "REQUEST" /\ HandleRequest(m.arg)
    \/ m.type = "OTHER" /\ UNCHANGED <<owner, grab_types, control, win, toClient>>

------------------------------------------------------------------------------
(***************************************************************************)
(* handle_chunk, for the client's port.                                    *)
(***************************************************************************)
Dispatched == <<owner, grab_types, control, win, toClient>>

\* Clipboard data whose wait is over is dropped, when it came in parts.
Dropped(m) == m.type = "CLIPBOARD" /\ ~tick

AtEndLate(parts) == Len(parts) = parts[1].of + 1    \* mutant: off by one
AtEndEarly(parts) == Len(parts) >= parts[1].of - 1  \* mutant: off by one
AtEnd(parts) == Len(parts) = parts[1].of

\* The message is deleted and the position goes back to zero.
CleanupForgotten(parts) == parts                    \* mutant: the position is kept
CleanupInMsg(parts) == <<>>

HandleChunk(c) ==
    LET parts == Append(in_msg, c)
    IN  \/ /\ in_msg = <<>> /\ c.part = 1 /\ AtEnd(parts)
           /\ Dispatch(c)
           /\ UNCHANGED <<running, in_msg>>
        \/ /\ in_msg = <<>> /\ c.part > 1     \* no header: too short, or not the protocol
           /\ running' \in BOOLEAN
           /\ UNCHANGED <<in_msg, Dispatched>>
        \/ /\ in_msg # <<>> \/ c.part = 1
           /\ ~AtEnd(parts)
           /\ in_msg' = parts
           /\ UNCHANGED <<running, Dispatched>>
        \/ /\ in_msg # <<>> /\ AtEnd(parts)
           /\ in_msg' = CleanupInMsg(parts)
           /\ \/ Dropped(in_msg[1]) /\ UNCHANGED Dispatched
              \/ ~Dropped(in_msg[1]) /\ Dispatch(in_msg[1])
           /\ UNCHANGED running

------------------------------------------------------------------------------
(***************************************************************************)
(* handle_control_event, and the end of the wait for the client's data.    *)
(***************************************************************************)
\* Every command clears the tick: RESET queues CLIPBOARD.
HandleControl ==
    /\ running /\ control # <<>>
    /\ control' = <<>>
    /\ tick' = FALSE /\ main' = "loop"
    /\ in_msg' = IF main = "render" THEN CleanupInMsg(in_msg) ELSE in_msg
    /\ \/ /\ \E i \in 1 .. Len(control) : control[i] = "RESET"
          /\ toClient' = toClient \o Released
          /\ owner' = "none"
       \/ /\ \A i \in 1 .. Len(control) : control[i] # "RESET"
          /\ UNCHANGED <<toClient, owner>>
    /\ UNCHANGED <<running, format, grab_types, win, cl, sending, sent, copies, pastes>>

TimesOut ==
    /\ running /\ main = "render" /\ control = <<>> /\ Timeouts
    /\ tick' = FALSE /\ main' = "loop"
    /\ UNCHANGED <<running, format, owner, grab_types, in_msg, control, win, toClient, cl, sending,
                   sent, copies, pastes>>

------------------------------------------------------------------------------
(***************************************************************************)
(* The window messages.  The wait returns for the control event first.     *)
(***************************************************************************)
DispatchesMessagesAlways == running /\ main = "loop"    \* mutant: messages first
DispatchesMessages == running /\ main = "loop" /\ control = <<>>

\* WM_CLIPBOARDUPDATE: on_clipboard_grab, unless the agent made the change.
ClipboardUpdate ==
    /\ DispatchesMessages /\ win.update
    /\ win' = [win EXCEPT !.update = FALSE]
    /\ \/ win.owner = "agent" /\ UNCHANGED <<owner, toClient>>
       \/ win.owner = "app" /\ owner' = "guest" /\ toClient' = toClient \o Taken
       \/ /\ win.owner # "agent"            \* it is empty, or has no known format
          /\ owner' = "none" /\ toClient' = toClient \o Released
    /\ UNCHANGED <<running, main, format, tick, grab_types, in_msg, control, cl, sending,
                   sent, copies, pastes>>

\* run(), when the message loop of a desktop has ended: what the guest owned is
\* given up, and the client is told.
LetsGo ==
    /\ owner' = IF owner = "guest" THEN "none" ELSE owner
    /\ toClient' = toClient \o Released

\* The window goes with its desktop, and with it what it offered; a client that
\* offered it still is the owner for the agent and is not told.  The new window
\* is told of the clipboard when it is a viewer (before Windows 7), else not, and
\* what was on its way to the old one is lost.
DesktopSwitch ==
    /\ DispatchesMessages /\ Switches /\ copies < MaxCopies
    /\ copies' = copies + 1
    /\ \E viewer \in BOOLEAN :
        win' = [owner |-> IF win.owner = "agent" THEN "none" ELSE win.owner,
                offered |-> {}, update |-> viewer]
    /\ LetsGo
    /\ UNCHANGED <<running, main, format, tick, grab_types, in_msg, control, cl, sending, sent,
                   pastes>>

\* WM_RENDERFORMAT: a guest program pastes an offered format.
RenderFormat(f) ==
    /\ DispatchesMessages /\ win.owner = "agent" /\ f \in win.offered
    /\ pastes < MaxPastes /\ pastes' = pastes + 1
    /\ \/ /\ owner = "client" /\ f \in grab_types
          /\ WriteMessage("REQUEST", {f})
          /\ tick' = TRUE /\ main' = "render" /\ format' = f
       \/ /\ owner # "client" \/ f \notin grab_types
          /\ UNCHANGED <<toClient, tick, main, format>>
    /\ UNCHANGED <<running, owner, grab_types, in_msg, control, win, cl, sending, sent, copies>>

\* A guest program copies; nobody else can while a program is pasting.
GuestCopies ==
    /\ running /\ main = "loop" /\ copies < MaxCopies
    /\ copies' = copies + 1
    /\ win' = [owner |-> "app", offered |-> {}, update |-> TRUE]
    /\ UNCHANGED <<agent, toClient, cl, sending, sent, pastes>>

------------------------------------------------------------------------------
(***************************************************************************)
(* The client: it says who it thinks owns the clipboard, answers every     *)
(* request, and never mixes the chunks of two messages.                    *)
(***************************************************************************)
Outside == <<main, format, tick, copies, pastes>>

Sends(type, arg, of) ==
    LET c == [n |-> sent + 1, part |-> 1, of |-> of, type |-> type, arg |-> arg]
    IN  /\ running /\ cl.here /\ sending = Nothing
        /\ sent' = sent + 1
        /\ HandleChunk(c)
        /\ sending' = IF of > 1 THEN c ELSE Nothing
        /\ UNCHANGED Outside

MayChange == Changes \/ main = "loop"

ClientGrabs(types) ==
    /\ MayChange /\ (types = {} => Unknown)
    /\ sent < MaxMessages /\ Sends("GRAB", types, 1)
    /\ cl' = [cl EXCEPT !.owner = "client", !.types = types]

ClientReleases ==
    /\ MayChange /\ cl.owner = "client"
    /\ sent < MaxMessages /\ Sends("RELEASE", {}, 1)
    /\ cl' = [cl EXCEPT !.owner = "none", !.types = {}]

ClientRequests(f) ==
    /\ cl.owner = "guest"
    /\ sent < MaxMessages /\ Sends("REQUEST", {f}, 1)
    /\ UNCHANGED cl

ClientAnswers(of) ==
    /\ cl.asked # <<>>
    /\ LET data == Head(cl.asked) \cap cl.types
       IN  /\ data = {} => of = 1
           /\ Sends("CLIPBOARD", data, of)
    /\ cl' = [cl EXCEPT !.asked = Tail(@)]

ClientSendsFile ==
    /\ Files
    /\ sent < MaxMessages /\ Sends("OTHER", {}, MaxParts)
    /\ UNCHANGED cl

ClientContinues ==
    LET c == [sending EXCEPT !.part = @ + 1]
    IN  /\ running /\ cl.here /\ sending # Nothing
        /\ HandleChunk(c)
        /\ sending' = IF c.part < c.of THEN c ELSE Nothing
        /\ UNCHANGED <<Outside, cl, sent>>

Understood(m) ==
    CASE m.type = "GRAB"    -> [cl EXCEPT !.owner = "guest", !.types = {}]
      [] m.type = "RELEASE" -> [cl EXCEPT !.owner = IF @ = "guest" THEN "none" ELSE @]
      [] m.type = "REQUEST" -> [cl EXCEPT !.asked = Append(@, m.arg)]
      [] OTHER -> cl

ClientReceives ==
    /\ cl.here /\ toClient # <<>>
    /\ toClient' = Tail(toClient)
    /\ cl' = Understood(Head(toClient))
    /\ UNCHANGED <<agent, win, sending, sent, copies, pastes>>

\* VD_AGENT_CLIENT_DISCONNECTED arrives on the server's port, whole.
\* (Bound: no two RESETs wait together.)
Resetting == \E i \in 1 .. Len(control) : control[i] = "RESET"

ClientLeaves ==
    /\ running /\ Leaves /\ cl.here /\ ~Resetting
    /\ SetControl("RESET")
    /\ cl' = [NewClient EXCEPT !.here = FALSE]
    /\ sending' = Nothing /\ toClient' = <<>>
    /\ UNCHANGED <<running, main, format, tick, owner, grab_types, in_msg, win, sent, copies,
                   pastes>>

ClientConnects ==
    /\ running /\ ~cl.here
    /\ cl' = NewClient
    /\ UNCHANGED <<agent, win, toClient, sending, sent, copies, pastes>>

------------------------------------------------------------------------------
Steps ==
    \/ HandleControl \/ TimesOut \/ ClipboardUpdate \/ DesktopSwitch \/ GuestCopies
    \/ \E f \in Formats : RenderFormat(f) \/ ClientRequests(f)
    \/ \E types \in SUBSET Formats : ClientGrabs(types)
    \/ ClientReleases \/ ClientSendsFile \/ ClientContinues
    \/ \E of \in 1 .. MaxParts : ClientAnswers(of)
    \/ ClientReceives \/ ClientLeaves \/ ClientConnects

Next == Steps /\ UNCHANGED world

Spec == Init /\ [][Next]_vars

\* The wait returns for the control event; the client reads what it is told,
\* answers requests and finishes the messages it has begun.
Fairness ==
    /\ WF_moves(HandleControl)
    /\ WF_moves(ClientReceives) /\ WF_moves(ClientContinues)
    /\ SF_moves(\E of \in 1 .. MaxParts : ClientAnswers(of))

FairSpec == Spec /\ Fairness

------------------------------------------------------------------------------
(***************************************************************************)
(* Safety.                                                                 *)
(***************************************************************************)
\* The client answers in time, and does nothing else to a paste.
AnswersInTime == ~Timeouts /\ ~Changes

\* A message is put together from its own chunks, in their order: the wait
\* inside WM_RENDERFORMAT, and what the guest does meanwhile, do not tear it.
\* Nor does a client that goes away in the middle of an answer that is in time;
\* what it has left of another message the next client's chunks are added to.
Reassembled ==
    (Leaves => AnswersInTime /\ ~Files) =>
        \A i \in 1 .. Len(in_msg) : in_msg[i].n = in_msg[1].n /\ in_msg[i].part = i

\* The agent never takes the middle of a message for the beginning of one,
\* which stops it ("Invalid protocol"): not when clients come and go, grab what
\* only they know, or the clipboard cannot be opened.  A paste that ends while
\* something else than its answer comes in does (ForgottenWhenComplete below).
StreamKept == AnswersInTime /\ ~Files => running

\* A paste that did not time out was served: when on_clipboard_request stops
\* waiting, the data is there, unless the client has let the clipboard go or
\* has not the format.  No command of an earlier release, answer or client ends
\* the wait; a client that changes its mind meanwhile does, and so does the
\* answer, in one chunk, to a paste that timed out.  Windows takes the data.
PasteIsServed ==
    [][AnswersInTime /\ ~Refuses /\ main = "render" /\ control # <<>> /\ main' = "loop"
          => \/ format \notin win'.offered
             \/ owner' # "client" \/ format \notin cl.types]_vars

\* The client knows when the guest owns the clipboard: the last it was told
\* (or will read) is a GRAB.  Holds for a client that was there all along (no
\* other is told) and whose grabs are neither refused nor passed over (a client
\* that grabs in vain believes it owns what the guest still owns).
ToldOfOwner == {i \in 1 .. Len(toClient) : toClient[i].type \in {"GRAB", "RELEASE"}}

ClientLearns ==
    \/ ToldOfOwner = {} /\ cl.owner = "guest"
    \/ \E i \in ToldOfOwner : toClient[i].type = "GRAB" /\ \A j \in ToldOfOwner : j <= i

ClientKnows == ~OpenFails /\ ~Leaves /\ ~Unknown /\ owner = "guest" => ClientLearns

(***************************************************************************)
(* Liveness; the timeout is no fair action.                                *)
(***************************************************************************)
\* A paste does not depend on the timeout: a client that answers, releases or
\* goes away always ends the wait, and so does the end of the agent.
PasteEnds == main = "render" ~> main = "loop" \/ ~running

------------------------------------------------------------------------------
(***************************************************************************)
(* What the code says of itself and does not do.                           *)
(***************************************************************************)
\* "reset incoming message state only upon completion" (line 1101): when the
\* incoming message is forgotten the client has sent all of it.  The end of a
\* paste forgets the message that follows the answer.
ForgottenWhenComplete ==
    [][in_msg # <<>> /\ in_msg' = <<>> => sending' = Nothing]_vars

==============================================================================
