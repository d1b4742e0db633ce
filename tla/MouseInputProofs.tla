---------------------------- MODULE MouseInputProofs ---------------------------
(***************************************************************************)
(* TypeOK and ButtonsFollow of MouseInput, for any buttons, positions and  *)
(* number of events and desktop switches.                                  *)
(***************************************************************************)
EXTENDS MouseInput, FiniteSetTheorems, TLAPS

\* The timer runs only for an input that waits, and what waits is a move: when
\* the timer expires, no button and no turn is injected a second time.
OnlyMovesWait ==
    /\ timer => pending_input
    /\ pending_input /\ ~refused => ~Presses(input)

\* The guest has followed every state that the agent has heeded.
Following ==
    /\ ~refused => /\ guest.buttons = buttons_state \cap Buttons
                   /\ guest.up = cl.up /\ guest.down = cl.down
    /\ cl.heeded => cl.buttons = buttons_state

MouseInv == TypeOK /\ OnlyMovesWait /\ Following

------------------------------------------------------------------------------
(***************************************************************************)
(* The pieces.                                                             *)
(***************************************************************************)
LEMMA TurnNames == "" # "UP" /\ "" # "DOWN"
OBVIOUS

\* The wheel turns once or not at all.
LEMMA CountOne ==
    ASSUME NEW t, NEW u
    PROVE  Cardinality({t} \cap {u}) = IF t = u THEN 1 ELSE 0
<1>1. CASE t = u
  <2>1. {t} \cap {u} = {t}
    BY <1>1
  <2> QED
    BY <1>1, <2>1, FS_Singleton
<1>2. CASE t # u
  <2>1. {t} \cap {u} = {}
    BY <1>2
  <2> QED
    BY <1>2, <2>1, FS_EmptySet
<1> QED
  BY <1>1, <1>2

\* What an input makes of the guest's mouse.
LEMMA InjectedIs ==
    ASSUME TypeOK, NEW i \in Inputs
    PROVE  /\ Injected(i) \in [at : Positions, buttons : SUBSET Buttons, up : Nat, down : Nat]
           /\ Injected(i).buttons = (guest.buttons \cup i.down) \ i.up
           /\ Injected(i).up = guest.up + (IF i.turn = "UP" THEN 1 ELSE 0)
           /\ Injected(i).down = guest.down + (IF i.turn = "DOWN" THEN 1 ELSE 0)
<1>1. /\ Cardinality({i.turn} \cap {"UP"}) = IF i.turn = "UP" THEN 1 ELSE 0
      /\ Cardinality({i.turn} \cap {"DOWN"}) = IF i.turn = "DOWN" THEN 1 ELSE 0
  BY CountOne
<1>2. /\ guest.at \in Positions /\ guest.buttons \subseteq Buttons
      /\ guest.up \in Nat /\ guest.down \in Nat
  BY DEF TypeOK
<1>3. /\ i.to \in Positions \cup {Stay} /\ i.down \subseteq Buttons
      /\ i.up \subseteq Buttons
  BY DEF Inputs
<1> QED
  BY <1>1, <1>2, <1>3 DEF Injected

\* An input that presses nothing leaves the buttons and the wheel alone.
LEMMA MovesOnly ==
    ASSUME TypeOK, NEW i \in Inputs, ~Presses(i)
    PROVE  /\ Injected(i).buttons = guest.buttons
           /\ Injected(i).up = guest.up /\ Injected(i).down = guest.down
<1>1. i.down = {} /\ i.up = {} /\ i.turn = ""
  BY DEF Presses
<1>2. guest.up \in Nat /\ guest.down \in Nat
  BY DEF TypeOK
<1>3. i.turn # "UP" /\ i.turn # "DOWN"
  BY <1>1, TurnNames
<1>4. (guest.buttons \cup i.down) \ i.up = guest.buttons
  BY <1>1
<1>5. /\ Injected(i).buttons = (guest.buttons \cup i.down) \ i.up
      /\ Injected(i).up = guest.up + (IF i.turn = "UP" THEN 1 ELSE 0)
      /\ Injected(i).down = guest.down + (IF i.turn = "DOWN" THEN 1 ELSE 0)
  BY InjectedIs
<1> QED
  BY <1>2, <1>3, <1>4, <1>5

\* The input computed from a state carries the guest's buttons to that state,
\* and turns its wheel as the client's has turned.
LEMMA ChangeFollows ==
    ASSUME TypeOK, NEW pos \in Positions, NEW new \in States, Heeded(new)
    PROVE  LET i == Change(pos, new)
           IN  /\ i \in Inputs
               /\ ((buttons_state \cap Buttons) \cup i.down) \ i.up = new \cap Buttons
               /\ cl' \in [buttons : States, up : Nat, down : Nat, heeded : BOOLEAN]
               /\ cl'.up = cl.up + (IF i.turn = "UP" THEN 1 ELSE 0)
               /\ cl'.down = cl.down + (IF i.turn = "DOWN" THEN 1 ELSE 0)
               /\ cl'.buttons = new
<1> DEFINE i == Change(pos, new)
<1>1. ((buttons_state \cap Buttons) \cup i.down) \ i.up = new \cap Buttons
  BY DEF Change
<1>2. i.turn = Turn(new)
  BY DEF Change
<1>3. Turn(new) \in {"", "UP", "DOWN"}
  BY DEF Turn, TurnAlways
<1>4. i \in Inputs
  BY <1>3 DEF Change, Inputs
<1>5. Turn(new) = "UP" <=> Turns(buttons_state) = {} /\ "UP" \in new
  BY DEF Turn, TurnAlways
<1>6. Turn(new) = "DOWN" <=> Turns(buttons_state) = {} /\ Turns(new) = {"DOWN"}
  <2>1. Turns(new) = {"DOWN"} <=> "UP" \notin new /\ "DOWN" \in new
    BY DEF Turns, Wheel
  <2> QED
    BY <2>1 DEF Turn, TurnAlways
<1>7. cl.up \in Nat /\ cl.down \in Nat
  BY DEF TypeOK
<1>8. /\ cl'.up = IF Turns(buttons_state) = {} /\ "UP" \in new THEN cl.up + 1 ELSE cl.up
      /\ cl'.down = IF Turns(buttons_state) = {} /\ Turns(new) = {"DOWN"} THEN cl.down + 1
                    ELSE cl.down
      /\ cl'.buttons = new
      /\ cl' \in [buttons : States, up : Nat, down : Nat, heeded : BOOLEAN]
  BY <1>7 DEF Heeded
<1>9. /\ cl'.up = cl.up + (IF i.turn = "UP" THEN 1 ELSE 0)
      /\ cl'.down = cl.down + (IF i.turn = "DOWN" THEN 1 ELSE 0)
  BY <1>2, <1>5, <1>6, <1>7, <1>8
<1> QED
  BY <1>1, <1>4, <1>8, <1>9

\* What send_input does, whatever Windows answers.
LEMMA SendInputIs ==
    ASSUME TypeOK, OnlyMovesWait, NEW i \in Inputs, SendInput(i)
    PROVE  /\ running' \in BOOLEAN /\ pending_input' \in BOOLEAN /\ timer' \in BOOLEAN
           /\ refused' \in BOOLEAN
           /\ guest' \in [at : Positions, buttons : SUBSET Buttons, up : Nat, down : Nat]
           /\ timer' => pending_input'
           /\ \/ guest' = Injected(i) /\ refused' = refused /\ ~pending_input'
              \/ refused'
BY InjectedIs DEF TypeOK, OnlyMovesWait, SendInput, KillTimer

------------------------------------------------------------------------------
(***************************************************************************)
(* The invariant.                                                          *)
(***************************************************************************)
LEMMA MouseInit == Init => MouseInv
<1> SUFFICES ASSUME Init PROVE MouseInv
  OBVIOUS
<1>1. guest \in [at : Positions, buttons : SUBSET Buttons, up : Nat, down : Nat]
  <2>1. PICK p \in Positions : guest = [at |-> p, buttons |-> {}, up |-> 0, down |-> 0]
    BY DEF Init
  <2> QED
    BY <2>1
<1>2. /\ buttons_state \in States /\ input \in Inputs
      /\ cl \in [buttons : States, up : Nat, down : Nat, heeded : BOOLEAN]
  BY DEF Init, States, Inputs, Quiet
<1>3. TypeOK
  <2>1. /\ running \in BOOLEAN /\ pending_input \in BOOLEAN /\ timer \in BOOLEAN
        /\ refused \in BOOLEAN /\ mouse \in Positions
    BY DEF Init
  <2>2. events \in 0 .. MaxEvents /\ switches \in 0 .. MaxSwitches
    BY MouseBounds DEF Init
  <2> QED
    BY <1>1, <1>2, <2>1, <2>2 DEF TypeOK
<1>4. guest.buttons = {} /\ guest.up = 0 /\ guest.down = 0
  BY DEF Init
<1> QED
  BY <1>3, <1>4 DEF Init, MouseInv, OnlyMovesWait, Following

LEMMA EventStep ==
    ASSUME MouseInv, NEW pos \in Positions, NEW new \in States, HandleMouseEvent(pos, new)
    PROVE  MouseInv'
<1> DEFINE i == Change(pos, new)
<1>1. /\ input' = i /\ buttons_state' = new /\ mouse' = pos /\ Heeded(new)
      /\ \/ (Presses(i) \/ i.to # Stay) /\ SendInput(i)
         \/ ~Presses(i) /\ PutOff
      /\ events' = events + 1 /\ events < MaxEvents /\ UNCHANGED switches
  BY DEF HandleMouseEvent
<1>2. /\ i \in Inputs
      /\ ((buttons_state \cap Buttons) \cup i.down) \ i.up = new \cap Buttons
      /\ cl' \in [buttons : States, up : Nat, down : Nat, heeded : BOOLEAN]
      /\ cl'.up = cl.up + (IF i.turn = "UP" THEN 1 ELSE 0)
      /\ cl'.down = cl.down + (IF i.turn = "DOWN" THEN 1 ELSE 0)
      /\ cl'.buttons = new
  BY <1>1, ChangeFollows DEF MouseInv
<1>3. events' \in 0 .. MaxEvents /\ switches' \in 0 .. MaxSwitches
  BY <1>1, MouseBounds DEF MouseInv, TypeOK
<1> HIDE DEF i
<1>4. CASE SendInput(i)
  <2>1. /\ running' \in BOOLEAN /\ pending_input' \in BOOLEAN /\ timer' \in BOOLEAN
        /\ refused' \in BOOLEAN
        /\ guest' \in [at : Positions, buttons : SUBSET Buttons, up : Nat, down : Nat]
        /\ timer' => pending_input'
        /\ \/ guest' = Injected(i) /\ refused' = refused /\ ~pending_input'
           \/ refused'
    BY <1>2, <1>4, SendInputIs DEF MouseInv
  <2>2. TypeOK'
    BY <1>1, <1>2, <1>3, <2>1 DEF TypeOK
  <2>3. OnlyMovesWait'
    BY <2>1 DEF OnlyMovesWait
  <2>4. Following'
    BY <1>1, <1>2, <2>1, InjectedIs DEF MouseInv, Following
  <2> QED
    BY <2>2, <2>3, <2>4 DEF MouseInv
<1>5. CASE ~Presses(i) /\ PutOff
  <2>1. i.down = {} /\ i.up = {} /\ i.turn = ""
    BY <1>5 DEF Presses
  <2>2. /\ cl'.up = cl.up /\ cl'.down = cl.down
        /\ buttons_state \cap Buttons = new \cap Buttons
    <3>1. i.turn # "UP" /\ i.turn # "DOWN"
      BY <2>1, TurnNames
    <3>2. cl.up \in Nat /\ cl.down \in Nat
      BY DEF MouseInv, TypeOK
    <3>3. ((buttons_state \cap Buttons) \cup i.down) \ i.up = buttons_state \cap Buttons
      BY <2>1
    <3> QED
      BY <1>2, <3>1, <3>2, <3>3
  <2>3. TypeOK'
    BY <1>1, <1>2, <1>3, <1>5 DEF MouseInv, TypeOK, PutOff, SetTimer
  <2>4. ~Presses(input)'
    BY <1>1, <1>5 DEF Presses
  <2>5. OnlyMovesWait'
    BY <1>5, <2>4 DEF MouseInv, OnlyMovesWait, PutOff, SetTimer, TypeOK
  <2>6. Following'
    BY <1>1, <1>2, <1>5, <2>2 DEF MouseInv, Following, PutOff, TypeOK
  <2> QED
    BY <2>3, <2>5, <2>6 DEF MouseInv
<1> QED
  BY <1>1, <1>4, <1>5

LEMMA TimerStep ==
    ASSUME MouseInv, TimerExpires
    PROVE  MouseInv'
<1>1. /\ timer /\ SendInput(input) /\ input \in Inputs
      /\ UNCHANGED <<buttons_state, mouse, input, cl, events, switches>>
  BY DEF TimerExpires, MouseInv, TypeOK
<1>2. /\ running' \in BOOLEAN /\ pending_input' \in BOOLEAN /\ timer' \in BOOLEAN
      /\ refused' \in BOOLEAN
      /\ guest' \in [at : Positions, buttons : SUBSET Buttons, up : Nat, down : Nat]
      /\ timer' => pending_input'
      /\ \/ guest' = Injected(input) /\ refused' = refused /\ ~pending_input'
         \/ refused'
  BY <1>1, SendInputIs DEF MouseInv
<1>3. TypeOK'
  BY <1>1, <1>2 DEF MouseInv, TypeOK
<1>4. OnlyMovesWait'
  BY <1>2 DEF OnlyMovesWait
<1>5. Following'
  <2>1. CASE refused'
    BY <1>1, <2>1 DEF MouseInv, Following
  <2>2. CASE ~refused'
    <3>1. guest' = Injected(input) /\ ~refused
      BY <1>2, <2>2
    <3>2. ~Presses(input)
      BY <1>1, <3>1 DEF MouseInv, OnlyMovesWait
    <3> QED
      BY <1>1, <3>1, <3>2, MovesOnly DEF MouseInv, Following
  <2> QED
    BY <2>1, <2>2
<1> QED
  BY <1>3, <1>4, <1>5 DEF MouseInv

LEMMA MouseStep == MouseInv /\ [Next]_vars => MouseInv'
<1> SUFFICES ASSUME MouseInv, [Next]_vars PROVE MouseInv'
  OBVIOUS
<1>1. ASSUME NEW new \in States, PassOver(new) PROVE MouseInv'
  <2>1. /\ cl' \in [buttons : States, up : Nat, down : Nat, heeded : BOOLEAN]
        /\ cl'.up = cl.up /\ cl'.down = cl.down /\ ~cl'.heeded
    BY <1>1 DEF PassOver, MouseInv, TypeOK
  <2>2. TypeOK'
    BY <1>1, <2>1, MouseBounds DEF PassOver, agent, MouseInv, TypeOK
  <2> QED
    BY <1>1, <2>1, <2>2 DEF PassOver, agent, MouseInv, OnlyMovesWait, Following, Presses
<1>2. CASE DesktopSwitch
  <2>1. switches' \in 0 .. MaxSwitches
    BY <1>2, MouseBounds DEF DesktopSwitch, MouseInv, TypeOK
  <2>2. /\ pending_input' = FALSE /\ timer' = FALSE
        /\ UNCHANGED <<running, buttons_state, mouse, input, guest, refused, cl, events>>
    BY <1>2 DEF DesktopSwitch
  <2>3. TypeOK'
    BY <2>1, <2>2 DEF MouseInv, TypeOK
  <2> QED
    BY <2>2, <2>3 DEF MouseInv, OnlyMovesWait, Following
<1>3. CASE UNCHANGED vars
  <2>1. TypeOK'
    BY <1>3 DEF vars, agent, MouseInv, TypeOK
  <2> QED
    BY <1>3, <2>1 DEF vars, agent, MouseInv, OnlyMovesWait, Following, Presses
<1> QED
  BY <1>1, <1>2, <1>3, EventStep, TimerStep DEF Next

LEMMA MouseInvariant == Spec => []MouseInv
<1> QED
  BY MouseInit, MouseStep, PTL DEF Spec

------------------------------------------------------------------------------
\* The guest's buttons and wheel are the client's after every state that was
\* heeded, as long as Windows refuses nothing: a move that waits for its timer
\* never carries a press that was injected before.
THEOREM ButtonsAlwaysFollow == Spec => []ButtonsFollow
<1>1. MouseInv => ButtonsFollow
  BY DEF MouseInv, Following, ButtonsFollow
<1> QED
  BY <1>1, MouseInvariant, PTL

\* Every variable of the mouse keeps its type.
THEOREM MouseTypesAreKept == Spec => []TypeOK
<1>1. MouseInv => TypeOK
  BY DEF MouseInv
<1> QED
  BY <1>1, MouseInvariant, PTL

==============================================================================
