------------------------------ MODULE MouseInput ------------------------------
(***************************************************************************)
(* The client's mouse (vdagent/vdagent.cpp).  The client sends the state of*)
(* its mouse, handle_mouse_event turns what has changed into one input for *)
(* Windows.  Buttons and the wheel are injected at once, moves at most     *)
(* every VD_INPUT_INTERVAL_MS: a move that comes too early waits in _input *)
(* for a timer of the desktop's window, where the next event replaces it.  *)
(*                                                                         *)
(* Everything runs in the main thread, so a handler is one action.  Time is*)
(* abstracted: a move may always come too early, and a timer that is set   *)
(* may always expire.  Positions are those of the client; that a display   *)
(* is attached or not changes at any time.                                 *)
(***************************************************************************)
EXTENDS Integers, FiniteSets

CONSTANTS
    Buttons,        \* the buttons that go down and up
    Positions,      \* where the mouse can be
    MaxEvents,      \* bound: states the client sends
    MaxSwitches     \* bound: switches of the input desktop

ASSUME MouseBounds ==
    /\ MaxEvents \in Nat /\ MaxSwitches \in Nat
    /\ Positions # {} /\ Positions \subseteq Nat \ {0}

VARIABLES
    running,        \* VDAgent::_running
    buttons_state,  \* VDAgent::_buttons_state
    mouse,          \* VDAgent::_mouse_x and _mouse_y
    input,          \* VDAgent::_input
    pending_input,  \* VDAgent::_pending_input
    timer,          \* whether the timer is set for the window there is
    guest,          \* the mouse of Windows
    refused,        \* whether Windows has refused an input or a timer
    cl,             \* the mouse of the client, and what it should have done
    events, switches

agent == <<running, buttons_state, mouse, input, pending_input>>
vars  == <<agent, timer, guest, refused, cl, events, switches>>

Wheel  == {"UP", "DOWN"}                \* the wheel's two directions are buttons too
States == SUBSET (Buttons \cup Wheel)
Turns(buttons) == buttons \cap Wheel

\* Nothing is injected but what an input says: go to a position (or stay),
\* press and release buttons, turn the wheel.
Stay   == 0
Inputs == [to : Positions \cup {Stay}, down : SUBSET Buttons, up : SUBSET Buttons,
           turn : {"", "UP", "DOWN"}]
Quiet  == [to |-> Stay, down |-> {}, up |-> {}, turn |-> ""]

TypeOK ==
    /\ running \in BOOLEAN /\ pending_input \in BOOLEAN /\ timer \in BOOLEAN
    /\ refused \in BOOLEAN
    /\ buttons_state \in States /\ mouse \in Positions /\ input \in Inputs
    /\ guest \in [at : Positions, buttons : SUBSET Buttons, up : Nat, down : Nat]
    /\ cl \in [buttons : States, up : Nat, down : Nat, heeded : BOOLEAN]
    /\ events \in 0 .. MaxEvents /\ switches \in 0 .. MaxSwitches

\* The agent believes the mouse is at the origin; it may be anywhere.
Init ==
    /\ running = TRUE
    /\ buttons_state = {} /\ mouse \in Positions /\ input = Quiet
    /\ pending_input = FALSE /\ timer = FALSE /\ refused = FALSE
    /\ guest \in [at : Positions, buttons : {{}}, up : {0}, down : {0}]
    /\ cl = [buttons |-> {}, up |-> 0, down |-> 0, heeded |-> TRUE]
    /\ events = 0 /\ switches = 0

------------------------------------------------------------------------------
(***************************************************************************)
(* send_input: the timer is killed and the input injected.                 *)
(***************************************************************************)
Injected(i) ==
    [at      |-> IF i.to = Stay THEN guest.at ELSE i.to,
     buttons |-> (guest.buttons \cup i.down) \ i.up,
     up      |-> guest.up + Cardinality({i.turn} \cap {"UP"}),
     down    |-> guest.down + Cardinality({i.turn} \cap {"DOWN"})]

KillTimerForgotten == TRUE              \* mutant: the timer goes on
KillTimer == FALSE

SendInput(i) ==
    \/ /\ pending_input' = FALSE
       /\ timer' = IF pending_input THEN KillTimer ELSE timer
       /\ \/ guest' = Injected(i) /\ UNCHANGED <<refused, running>>
          \/ refused' = TRUE /\ running' \in BOOLEAN /\ UNCHANGED guest
    \/ /\ pending_input                  \* KillTimer failed
       /\ refused' = TRUE /\ running' = FALSE
       /\ UNCHANGED <<pending_input, timer, guest>>

\* WM_TIMER.  The timer is periodic: it is set until it is killed.
TimerExpires ==
    /\ running /\ timer
    /\ SendInput(input)
    /\ UNCHANGED <<buttons_state, mouse, input, cl, events, switches>>

------------------------------------------------------------------------------
(***************************************************************************)
(* handle_mouse_event.                                                     *)
(***************************************************************************)
\* The wheel turns when it is pressed in a direction and was in none.
TurnAlways(new) == IF "UP" \in new THEN "UP" ELSE IF "DOWN" \in new THEN "DOWN" ELSE ""
Turn(new) == IF Turns(buttons_state) # {} THEN "" ELSE TurnAlways(new)

ChangeAll(pos, new) ==          \* mutant: the masks are forgotten
    [to |-> pos, down |-> new \ buttons_state, up |-> buttons_state \ new, turn |-> Turn(new)]

Change(pos, new) ==
    [to   |-> IF pos = mouse THEN Stay ELSE pos,
     down |-> (new \ buttons_state) \cap Buttons,
     up   |-> (buttons_state \ new) \cap Buttons,
     turn |-> Turn(new)]

Presses(i) == i.down \cup i.up # {} \/ i.turn # ""

\* The timer is set unless it is: then the input that waited is replaced by
\* the new one, which may not move at all.
SetTimerForgotten == UNCHANGED timer    \* mutant: the input waits for nothing
SetTimer == timer' = (timer \/ ~pending_input)

PutOff ==
    /\ UNCHANGED guest
    /\ \/ pending_input' = TRUE /\ SetTimer /\ UNCHANGED <<running, refused>>
       \/ /\ ~pending_input              \* SetTimer failed
          /\ refused' = TRUE /\ running' = FALSE
          /\ UNCHANGED <<pending_input, timer>>

Heeded(new) ==
    cl' = [buttons |-> new, heeded |-> TRUE,
           up   |-> IF Turns(buttons_state) = {} /\ "UP" \in new THEN cl.up + 1 ELSE cl.up,
           down |-> IF Turns(buttons_state) = {} /\ Turns(new) = {"DOWN"} THEN cl.down + 1
                    ELSE cl.down]

HandleMouseEvent(pos, new) ==
    LET i == Change(pos, new)
    IN  /\ running /\ events < MaxEvents
        /\ events' = events + 1
        /\ input' = i /\ mouse' = pos /\ buttons_state' = new
        /\ Heeded(new)
        /\ \/ (Presses(i) \/ i.to # Stay) /\ SendInput(i)
           \/ ~Presses(i) /\ PutOff
        /\ UNCHANGED switches

\* The display is unknown or detached: the state is passed over.
PassOver(new) ==
    /\ running /\ events < MaxEvents
    /\ events' = events + 1
    /\ cl' = [cl EXCEPT !.buttons = new, !.heeded = FALSE]
    /\ UNCHANGED <<agent, timer, guest, refused, switches>>

\* The message loop of a desktop ends: the timer goes, its input is dropped.
DesktopSwitch ==
    /\ running /\ switches < MaxSwitches
    /\ switches' = switches + 1
    /\ pending_input' = FALSE /\ timer' = FALSE
    /\ UNCHANGED <<running, buttons_state, mouse, input, guest, refused, cl, events>>

------------------------------------------------------------------------------
Next ==
    \/ \E pos \in Positions, new \in States : HandleMouseEvent(pos, new)
    \/ \E new \in States : PassOver(new)
    \/ TimerExpires \/ DesktopSwitch

Spec == Init /\ [][Next]_vars

\* The main thread gets to the timer's message.
FairSpec == Spec /\ WF_vars(TimerExpires)

------------------------------------------------------------------------------
\* The guest has exactly the buttons pressed that the client has, and its wheel
\* has turned once for every turn of the client's: put-off moves, timers that
\* expire late and desktop switches neither lose nor repeat what is not a move.
ButtonsFollow ==
    ~refused /\ cl.heeded =>
        /\ guest.buttons = cl.buttons \cap Buttons
        /\ guest.up = cl.up /\ guest.down = cl.down

\* A move that was put off reaches the guest, unless another event replaces
\* it, the input desktop is switched, or Windows refuses inputs.
MovesGoOut ==
    \A pos \in Positions, s \in 0 .. MaxSwitches :
        pending_input /\ input.to = pos /\ switches = s
            ~> guest.at = pos \/ input.to # pos \/ switches # s \/ refused

==============================================================================
