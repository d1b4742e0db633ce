------------------------ MODULE DisplaySettingsProofs ------------------------
(***************************************************************************)
(* SettingsFollow of DisplaySettings, for any features, and any number of  *)
(* commands and failures of the registry.                                  *)
(***************************************************************************)
EXTENDS DisplaySettings, SequenceTheorems, TLAPS

Commands == {"LOGON", "SWITCH"}

Waits(command) == \E i \in 1 .. Len(control) : control[i] = command

\* The desktop the agent has opened is the input desktop, unless it is told of
\* a change that it has not gone along with yet.
InDesktop == main \in {"register", "loop", "control"}

OnInputDesktop ==
    /\ InDesktop /\ ~desktop_switch /\ ~Waits("SWITCH") => (logon_desktop <=> input = "Winlogon")
    /\ InDesktop /\ ~logon_desktop => initialized
    /\ logon_occured => logon_desktop

\* A client that has asked for nothing has changed nothing.
Untouched == asked = {} => mask = {} /\ shown = own

\* Why the settings may not follow: what is still to make the agent load them,
\* or what the property excludes.
LogonAhead == ~user \/ logon \/ posted \/ Waits("LOGON") \/ logon_occured \/ ~initialized

Excluded == missed \/ failed \/ asked # mask

FollowsOrWill == Follows \/ LogonAhead \/ Excluded

SettingsInv == SettingsTypeOK /\ OnInputDesktop /\ Untouched /\ FollowsOrWill

------------------------------------------------------------------------------
(***************************************************************************)
(* The commands that wait.                                                 *)
(***************************************************************************)
LEMMA AppendWaits ==
    ASSUME control \in Seq(Commands), NEW c \in Commands, control' = Append(control, c)
    PROVE  /\ control' \in Seq(Commands) /\ Waits(c)'
           /\ \A d \in Commands : Waits(d) => Waits(d)'
           /\ \A d \in Commands : Waits(d)' => d = c \/ Waits(d)
<1>1. /\ control' \in Seq(Commands) /\ Len(control') = Len(control) + 1 /\ Len(control) \in Nat
      /\ \A i \in 1 .. Len(control) : control'[i] = control[i]
      /\ control'[Len(control) + 1] = c
  BY AppendProperties, LenProperties
<1>2. /\ \A i \in 1 .. Len(control) : i \in 1 .. Len(control')
      /\ \A i \in 1 .. Len(control') : i \in 1 .. Len(control) \/ i = Len(control) + 1
      /\ Len(control) + 1 \in 1 .. Len(control')
  BY <1>1
<1> QED
  BY <1>1, <1>2 DEF Waits

LEMMA TailWaits ==
    ASSUME control \in Seq(Commands), control # <<>>, control' = Tail(control)
    PROVE  /\ control' \in Seq(Commands) /\ Head(control) \in Commands
           /\ \A d \in Commands : Waits(d)' => Waits(d)
           /\ \A d \in Commands : Waits(d) => Head(control) = d \/ Waits(d)'
<1>1. /\ Head(control) = control[1] /\ Head(control) \in Commands /\ control' \in Seq(Commands)
      /\ Len(control) \in Nat /\ Len(control) > 0 /\ Len(control') = Len(control) - 1
      /\ \A i \in 1 .. Len(control') : control'[i] = control[i + 1]
  BY HeadTailProperties, LenProperties, EmptySeq
<1>2. /\ \A i \in 1 .. Len(control') : i + 1 \in 1 .. Len(control)
      /\ \A i \in 1 .. Len(control) : i = 1 \/ (i - 1 \in 1 .. Len(control') /\ (i - 1) + 1 = i)
  BY <1>1
<1>3. ASSUME NEW d \in Commands, Waits(d), Head(control) # d
      PROVE  Waits(d)'
  <2>1. PICK i \in 1 .. Len(control) : control[i] = d
    BY <1>3 DEF Waits
  <2>2. i - 1 \in 1 .. Len(control') /\ control'[i - 1] = d
    BY <1>1, <1>2, <1>3, <2>1
  <2> QED
    BY <2>2 DEF Waits
<1>4. ASSUME NEW d \in Commands, Waits(d)'
      PROVE  Waits(d)
  BY <1>1, <1>2, <1>4 DEF Waits
<1> QED
  BY <1>1, <1>3, <1>4

(***************************************************************************)
(* DisplaySetting::load and set.                                           *)
(***************************************************************************)
LEMMA LoadOptionsFacts ==
    ASSUME SettingsTypeOK, NEW opts \in SUBSET Features, NEW next, LoadOptions(opts, next)
    PROVE  /\ shown' \subseteq own /\ failed' \in BOOLEAN /\ failures' \in 0 .. MaxFailures
           /\ main' \in {next, "dead"}
           /\ shown' = own \ opts \/ failed'
<1>1. shown \subseteq own /\ own \subseteq Features /\ failures \in 0 .. MaxFailures
  BY DEF SettingsTypeOK
<1>2. Reloaded(opts) = own \ opts /\ Disabled(opts) \subseteq own
  BY <1>1 DEF Reloaded, Disabled
<1>3. Fails => failures' \in 0 .. MaxFailures
  BY <1>1, SettingsConstants DEF Fails
<1>4. CASE /\ shown' = Reloaded(opts)
           /\ main' = next /\ failed' = FALSE /\ UNCHANGED failures
  BY <1>1, <1>2, <1>4
<1>5. CASE /\ shown' = Disabled(opts) /\ failed' = (Disabled(opts) # Reloaded(opts))
           /\ main' = next /\ UNCHANGED failures
  BY <1>1, <1>2, <1>5
<1>6. CASE Fails /\ shown' = Disabled(opts) /\ main' = "dead" /\ failed' = TRUE
  BY <1>2, <1>3, <1>6
<1> QED
  BY <1>4, <1>5, <1>6 DEF LoadOptions

LEMMA LoadFacts ==
    ASSUME SettingsTypeOK, Untouched, NEW next, Load(next)
    PROVE  /\ missed' = FALSE
           /\ shown' \subseteq own /\ failed' \in BOOLEAN /\ failures' \in 0 .. MaxFailures
           /\ main' \in {next, "dead"}
           /\ asked = {} => shown' = shown
           /\ asked = mask => shown' = own \ UNION asked \/ failed'
<1>1. /\ mask \in Masks /\ asked \in Masks /\ failed \in BOOLEAN
      /\ failures \in 0 .. MaxFailures /\ shown \subseteq own
  BY DEF SettingsTypeOK
<1>2. CASE mask = {}
  <2>1. missed' = FALSE /\ main' = next /\ UNCHANGED <<shown, failed, failures>>
    BY <1>2 DEF Load
  <2>2. asked = mask => shown = own \ UNION asked
    BY <1>2 DEF Untouched
  <2> QED
    BY <1>1, <2>1, <2>2
<1>3. CASE mask # {}
  <2>1. PICK opts \in SUBSET Features : mask = {opts}
    BY <1>1, <1>3 DEF Masks
  <2>2. missed' = FALSE /\ LoadOptions(opts, next)
    BY <1>3, <2>1 DEF Load
  <2>3. asked # {}
    BY <1>3 DEF Untouched
  <2>4. asked = mask => UNION asked = opts
    BY <2>1
  <2> QED
    BY <2>2, <2>3, <2>4, LoadOptionsFacts
<1> QED
  BY <1>2, <1>3

------------------------------------------------------------------------------
(***************************************************************************)
(* The steps.                                                              *)
(***************************************************************************)
LEMMA Asks ==
    ASSUME SettingsInv, NEW opts \in SUBSET Features, HandleDisplayConfig(opts)
    PROVE  SettingsInv'
<1>1. /\ main = "loop" /\ asked' = {opts} /\ missed' = FALSE
      /\ UNCHANGED <<logon_desktop, logon_occured, initialized, desktop_switch, control, posted,
                     windows>>
  BY DEF HandleDisplayConfig
<1>2. /\ {opts} \in Masks /\ mask \in Masks /\ UNION {opts} = opts
      /\ shown \subseteq own /\ failures \in 0 .. MaxFailures
  BY DEF Masks, SettingsInv, SettingsTypeOK
<1>3. /\ mask' \in Masks /\ shown' \subseteq own /\ failed' \in BOOLEAN
      /\ failures' \in 0 .. MaxFailures /\ main' \in {"loop", "dead"}
      /\ shown' = own \ opts \/ failed'
  <2>1. CASE mask' = {opts} /\ LoadOptions(opts, "loop")
    BY <1>2, <2>1, LoadOptionsFacts DEF SettingsInv
  <2>2. CASE /\ Fails /\ UNCHANGED <<mask, main>>
             /\ shown' = IF explorer THEN Reloaded(opts) ELSE Disabled(opts)
             /\ failed' = (shown' # Reloaded(opts))
    <3>1. Reloaded(opts) = own \ opts /\ Disabled(opts) \subseteq own
      BY <1>2 DEF Reloaded, Disabled
    <3>2. failures' \in 0 .. MaxFailures
      BY <1>2, <2>2, SettingsConstants DEF Fails
    <3> QED
      BY <1>1, <1>2, <2>2, <3>1, <3>2
  <2> QED
    BY <2>1, <2>2 DEF HandleDisplayConfig
<1>4. SettingsTypeOK'
  BY <1>1, <1>2, <1>3 DEF SettingsInv, SettingsTypeOK, windows
<1>5. OnInputDesktop'
  BY <1>1, <1>3 DEF SettingsInv, OnInputDesktop, InDesktop, Waits, windows
<1>6. Untouched'
  BY <1>1 DEF Untouched
<1>7. FollowsOrWill'
  BY <1>1, <1>2, <1>3 DEF FollowsOrWill, Follows, Excluded, windows
<1> QED
  BY <1>4, <1>5, <1>6, <1>7 DEF SettingsInv

\* The agent has come to a desktop.
LEMMA Opens ==
    ASSUME SettingsInv, OpenDesktop
    PROVE  SettingsInv'
<1>1. main = "open" /\ UNCHANGED <<mask, desktop_switch, control, posted, windows, asked>>
  BY DEF OpenDesktop
<1>2. CASE /\ input = "Winlogon" /\ logon_desktop' = TRUE /\ main' = "register"
           /\ UNCHANGED <<logon_occured, initialized, shown, missed, failed, failures>>
  <2>1. SettingsTypeOK'
    BY <1>1, <1>2 DEF SettingsInv, SettingsTypeOK, windows
  <2>2. OnInputDesktop'
    BY <1>1, <1>2 DEF OnInputDesktop, windows
  <2>3. Untouched' /\ FollowsOrWill'
    BY <1>1, <1>2 DEF SettingsInv, Untouched, FollowsOrWill, Follows, LogonAhead, Excluded,
                      Waits, windows
  <2> QED
    BY <2>1, <2>2, <2>3 DEF SettingsInv
<1>3. CASE /\ input = "Default" /\ logon_occured' = FALSE /\ logon_desktop' = FALSE
           /\ Load("register") /\ initialized' = TRUE
  <2>1. /\ missed' = FALSE
        /\ shown' \subseteq own /\ failed' \in BOOLEAN /\ failures' \in 0 .. MaxFailures
        /\ main' \in {"register", "dead"}
        /\ asked = {} => shown' = shown
        /\ asked = mask => shown' = own \ UNION asked \/ failed'
    BY <1>3, LoadFacts DEF SettingsInv
  <2>2. SettingsTypeOK'
    BY <1>1, <1>3, <2>1 DEF SettingsInv, SettingsTypeOK, windows
  <2>3. OnInputDesktop'
    BY <1>1, <1>3 DEF OnInputDesktop, windows
  <2>4. Untouched'
    BY <1>1, <2>1 DEF SettingsInv, Untouched, windows
  <2>5. FollowsOrWill'
    BY <1>1, <2>1 DEF FollowsOrWill, Follows, Excluded, windows
  <2> QED
    BY <2>2, <2>3, <2>4, <2>5 DEF SettingsInv
<1>4. CASE /\ input = "Default" /\ logon_occured' = FALSE /\ logon_desktop' = FALSE
           /\ initialized /\ ~(logon_occured /\ logon_desktop)
           /\ main' = "register" /\ UNCHANGED <<initialized, shown, missed, failed, failures>>
  <2>1. ~logon_occured
    BY <1>4 DEF SettingsInv, OnInputDesktop
  <2>2. SettingsTypeOK'
    BY <1>1, <1>4 DEF SettingsInv, SettingsTypeOK, windows
  <2>3. OnInputDesktop'
    BY <1>1, <1>4 DEF OnInputDesktop, windows
  <2>4. Untouched' /\ FollowsOrWill'
    BY <1>1, <1>4, <2>1 DEF SettingsInv, Untouched, FollowsOrWill, Follows, LogonAhead, Excluded,
                            Waits, windows
  <2> QED
    BY <2>2, <2>3, <2>4 DEF SettingsInv
<1>5. CASE input = "Winlogon" /\ LeavesLogon /\ main' = "register"
           /\ UNCHANGED <<initialized, shown, missed, failed, failures>>
  BY <1>2, <1>5 DEF LeavesLogon
<1>6. CASE /\ input = "Default" /\ logon_occured' = FALSE /\ logon_desktop' = FALSE
           /\ \/ ~initialized /\ Load("register") /\ initialized' = TRUE
              \/ initialized /\ Load("register") /\ UNCHANGED initialized
  <2>1. initialized \in BOOLEAN
    BY DEF SettingsInv, SettingsTypeOK
  <2>2. initialized' = TRUE
    BY <1>6, <2>1
  <2> QED
    BY <1>3, <1>6, <2>2
<1> QED
  BY <1>4, <1>5, <1>6 DEF OpenDesktop

\* WTS_SESSION_LOGON becomes a command; a command is handled.
LEMMA Dispatches ==
    ASSUME SettingsInv, DispatchMessage
    PROVE  SettingsInv'
<1>1. /\ control' = Append(control, "LOGON") /\ posted' = FALSE
      /\ UNCHANGED <<mask, logon_desktop, logon_occured, initialized, desktop_switch, main, windows,
                     shown, asked, missed, failed, failures>>
  BY DEF DispatchMessage
<1>2. control \in Seq(Commands) /\ "LOGON" \in Commands /\ "SWITCH" \in Commands
  BY DEF SettingsInv, SettingsTypeOK, Commands
<1>3. control' \in Seq(Commands) /\ Waits("LOGON")' /\ (Waits("SWITCH")' => Waits("SWITCH"))
      /\ (Waits("SWITCH") => Waits("SWITCH")')
  BY <1>1, <1>2, AppendWaits
<1>4. SettingsTypeOK'
  BY <1>1, <1>3 DEF SettingsInv, SettingsTypeOK, windows, Commands
<1>5. OnInputDesktop'
  BY <1>1, <1>3 DEF SettingsInv, OnInputDesktop, InDesktop, windows
<1>6. Untouched' /\ FollowsOrWill'
  BY <1>1, <1>3 DEF SettingsInv, Untouched, FollowsOrWill, LogonAhead, windows
<1> QED
  BY <1>4, <1>5, <1>6 DEF SettingsInv

LEMMA Handles ==
    ASSUME SettingsInv, HandleControl
    PROVE  SettingsInv'
<1>1. /\ main \in {"loop", "control"} /\ control # <<>> /\ control' = Tail(control)
      /\ UNCHANGED <<mask, logon_desktop, initialized, posted, windows, asked>>
      /\ AfterControl \in {"loop", "control"}
  BY DEF HandleControl, AfterControl
<1>2. control \in Seq(Commands) /\ "LOGON" \in Commands /\ "SWITCH" \in Commands
  BY DEF SettingsInv, SettingsTypeOK, Commands
<1>3. /\ control' \in Seq(Commands)
      /\ Waits("LOGON") => Head(control) = "LOGON" \/ Waits("LOGON")'
      /\ Waits("SWITCH") => Head(control) = "SWITCH" \/ Waits("SWITCH")'
      /\ Waits("SWITCH")' => Waits("SWITCH")
  BY <1>1, <1>2, TailWaits
<1>4. CASE /\ Head(control) = "SWITCH" /\ desktop_switch' = TRUE /\ main' = AfterControl
           /\ UNCHANGED <<logon_occured, shown, missed, failed, failures>>
  <2>1. SettingsTypeOK'
    BY <1>1, <1>3, <1>4 DEF SettingsInv, SettingsTypeOK, windows, Commands
  <2>2. OnInputDesktop'
    BY <1>1, <1>4 DEF SettingsInv, OnInputDesktop, InDesktop, windows
  <2>3. Untouched' /\ FollowsOrWill'
    BY <1>1, <1>3, <1>4 DEF SettingsInv, Untouched, FollowsOrWill, Follows, LogonAhead, Excluded,
                            windows
  <2> QED
    BY <2>1, <2>2, <2>3 DEF SettingsInv
<1>5. CASE /\ Head(control) = "LOGON" /\ logon_desktop /\ logon_occured' = TRUE
           /\ main' = AfterControl
           /\ UNCHANGED <<desktop_switch, shown, missed, failed, failures>>
  <2>1. SettingsTypeOK'
    BY <1>1, <1>3, <1>5 DEF SettingsInv, SettingsTypeOK, windows, Commands
  <2>2. OnInputDesktop'
    BY <1>1, <1>3, <1>5 DEF SettingsInv, OnInputDesktop, InDesktop, windows
  <2>3. Untouched' /\ FollowsOrWill'
    BY <1>1, <1>5 DEF SettingsInv, Untouched, FollowsOrWill, LogonAhead, windows
  <2> QED
    BY <2>1, <2>2, <2>3 DEF SettingsInv
<1>6. CASE /\ Head(control) = "LOGON" /\ ~logon_desktop /\ Load(AfterControl)
           /\ UNCHANGED <<desktop_switch, logon_occured>>
  <2>1. /\ missed' = FALSE
        /\ shown' \subseteq own /\ failed' \in BOOLEAN /\ failures' \in 0 .. MaxFailures
        /\ main' \in {AfterControl, "dead"}
        /\ asked = {} => shown' = shown
        /\ asked = mask => shown' = own \ UNION asked \/ failed'
    BY <1>6, LoadFacts DEF SettingsInv
  <2>2. SettingsTypeOK'
    BY <1>1, <1>3, <1>6, <2>1 DEF SettingsInv, SettingsTypeOK, windows, Commands
  <2>3. OnInputDesktop'
    BY <1>1, <1>3, <1>6, <2>1 DEF SettingsInv, OnInputDesktop, InDesktop, windows
  <2>4. Untouched'
    BY <1>1, <2>1 DEF SettingsInv, Untouched, windows
  <2>5. FollowsOrWill'
    BY <1>1, <2>1 DEF FollowsOrWill, Follows, Excluded, windows
  <2> QED
    BY <2>2, <2>3, <2>4, <2>5 DEF SettingsInv
<1> QED
  BY <1>4, <1>5, <1>6 DEF HandleControl, LogonSeen

\* The agent's other steps.
LEMMA Moves ==
    ASSUME SettingsInv, Register \/ LeaveDesktop \/ AgentEnds \/ AgentStarts
    PROVE  SettingsInv'
<1>1. CASE Register \/ AgentEnds
  <2>1. /\ main' \in {"loop", "dead"} /\ main \in {"register", "loop"}
        /\ UNCHANGED <<mask, logon_desktop, logon_occured, initialized, desktop_switch, control,
                       posted, windows, shown, asked, missed, failed, failures>>
    BY <1>1 DEF Register, AgentEnds
  <2>2. SettingsTypeOK'
    BY <2>1 DEF SettingsInv, SettingsTypeOK, windows
  <2>3. OnInputDesktop'
    BY <2>1 DEF SettingsInv, OnInputDesktop, InDesktop, Waits, windows
  <2>4. Untouched' /\ FollowsOrWill'
    BY <2>1 DEF SettingsInv, Untouched, FollowsOrWill, Follows, LogonAhead, Excluded, Waits, windows
  <2> QED
    BY <2>2, <2>3, <2>4 DEF SettingsInv
<1>2. CASE LeaveDesktop
  <2>1. /\ desktop_switch' = FALSE /\ main' = "open" /\ posted' = FALSE
        /\ missed' = (missed \/ posted)
        /\ UNCHANGED <<mask, logon_desktop, logon_occured, initialized, control, windows, shown,
                       asked, failed, failures>>
    BY <1>2 DEF LeaveDesktop
  <2>2. SettingsTypeOK'
    BY <2>1 DEF SettingsInv, SettingsTypeOK, windows
  <2>3. OnInputDesktop'
    BY <2>1 DEF SettingsInv, OnInputDesktop, InDesktop
  <2>4. Untouched' /\ FollowsOrWill'
    BY <2>1 DEF SettingsInv, Untouched, FollowsOrWill, Follows, LogonAhead, Excluded, Waits, windows
  <2> QED
    BY <2>2, <2>3, <2>4 DEF SettingsInv
<1>3. CASE AgentStarts
  <2>1. /\ main' = "open" /\ control' = <<>> /\ posted' = FALSE
        /\ logon_desktop' = FALSE /\ logon_occured' = FALSE
        /\ initialized' = FALSE /\ desktop_switch' = FALSE /\ missed' = FALSE
        /\ UNCHANGED <<mask, windows, shown, asked, failed, failures>>
    BY <1>3 DEF AgentStarts
  <2>2. <<>> \in Seq({"LOGON", "SWITCH"})
    BY EmptySeq
  <2>3. SettingsTypeOK'
    BY <2>1, <2>2 DEF SettingsInv, SettingsTypeOK, windows
  <2>4. OnInputDesktop'
    BY <2>1 DEF OnInputDesktop, InDesktop
  <2>5. Untouched' /\ FollowsOrWill'
    BY <2>1 DEF SettingsInv, Untouched, FollowsOrWill, LogonAhead, windows
  <2> QED
    BY <2>3, <2>4, <2>5 DEF SettingsInv
<1> QED
  BY <1>1, <1>2, <1>3

\* The user logs on and off; the notification comes.
LEMMA UserMoves ==
    ASSUME SettingsInv,
           (\E settings \in SUBSET Features : LogsOn(settings)) \/ LogsOff \/ NotifyLogon
           \/ ExplorerStarts
    PROVE  SettingsInv'
<1>1. UNCHANGED <<mask, logon_desktop, logon_occured, initialized, desktop_switch, main, asked,
                  failures, control, input>>
  BY DEF LogsOn, LogsOff, NotifyLogon, ExplorerStarts, OutsideSwitch
<1>2. OnInputDesktop'
  BY <1>1 DEF SettingsInv, OnInputDesktop, InDesktop, Waits
<1>3. ASSUME NEW settings \in SUBSET Features, LogsOn(settings)
      PROVE  SettingsInv'
  <2>1. /\ user' = TRUE /\ own' = settings /\ shown' = settings /\ logon' = TRUE
        /\ failed' = FALSE /\ UNCHANGED <<posted, explorer, missed>>
    BY <1>3 DEF LogsOn
  <2>2. SettingsTypeOK'
    BY <1>1, <2>1 DEF SettingsInv, SettingsTypeOK
  <2>3. Untouched' /\ FollowsOrWill'
    BY <1>1, <2>1 DEF SettingsInv, Untouched, FollowsOrWill, LogonAhead
  <2> QED
    BY <1>2, <2>2, <2>3 DEF SettingsInv
<1>4. CASE LogsOff
  <2>1. /\ input = "Winlogon" /\ user' = FALSE /\ explorer' = FALSE
        /\ own' = Features /\ shown' = Features
        /\ missed' = FALSE /\ failed' = FALSE /\ UNCHANGED <<posted, logon>>
    BY <1>4 DEF LogsOff
  <2>2. SettingsTypeOK'
    BY <1>1, <2>1 DEF SettingsInv, SettingsTypeOK
  <2>3. Untouched' /\ FollowsOrWill'
    BY <1>1, <2>1 DEF SettingsInv, Untouched, FollowsOrWill, LogonAhead
  <2> QED
    BY <1>2, <2>2, <2>3 DEF SettingsInv
<1>5. CASE NotifyLogon
  <2>1. /\ logon' = FALSE /\ posted' = (posted \/ HasWindow) /\ missed' = (missed \/ ~HasWindow)
        /\ UNCHANGED <<user, explorer, own, shown, failed>>
    BY <1>5 DEF NotifyLogon
  <2>2. HasWindow \in BOOLEAN
    BY DEF HasWindow
  <2>3. SettingsTypeOK'
    BY <1>1, <2>1, <2>2 DEF SettingsInv, SettingsTypeOK
  <2>4. Untouched'
    BY <1>1, <2>1 DEF SettingsInv, Untouched
  <2>5. FollowsOrWill'
    BY <2>1, <2>2 DEF FollowsOrWill, LogonAhead, Excluded
  <2> QED
    BY <1>2, <2>3, <2>4, <2>5 DEF SettingsInv
<1>6. CASE ExplorerStarts
  <2>1. user /\ explorer' = TRUE /\ UNCHANGED <<posted, user, own, logon, shown, missed, failed>>
    BY <1>6 DEF ExplorerStarts
  <2>2. SettingsTypeOK'
    BY <1>1, <2>1 DEF SettingsInv, SettingsTypeOK
  <2>3. Untouched' /\ FollowsOrWill'
    BY <1>1, <2>1 DEF SettingsInv, Untouched, FollowsOrWill, Follows, LogonAhead, Excluded, Waits
  <2> QED
    BY <1>2, <2>2, <2>3 DEF SettingsInv
<1> QED
  BY <1>3, <1>4, <1>5, <1>6

\* The input desktop changes.
LEMMA Switches ==
    ASSUME SettingsInv, ToDefault \/ ToWinlogon
    PROVE  SettingsInv'
<1>1. /\ UNCHANGED <<posted, user, explorer, own, logon, shown, missed, failed>>
      /\ UNCHANGED <<mask, logon_desktop, logon_occured, initialized, desktop_switch, main, asked,
                     failures>>
      /\ input' \in {"Winlogon", "Default"} /\ (input' = "Default" => user)
      /\ control' = IF main = "dead" THEN control ELSE Append(control, "SWITCH")
  BY DEF ToDefault, ToWinlogon, OutsideSwitch, SwitchTo
<1>2. control \in Seq(Commands) /\ "LOGON" \in Commands /\ "SWITCH" \in Commands
  BY DEF SettingsInv, SettingsTypeOK, Commands
<1>3. control' \in Seq(Commands) /\ (Waits("LOGON") => Waits("LOGON")')
      /\ (main # "dead" => Waits("SWITCH")')
  <2>1. CASE main = "dead"
    BY <1>1, <1>2, <2>1 DEF Waits
  <2>2. CASE main # "dead"
    BY <1>1, <1>2, <2>2, AppendWaits
  <2> QED
    BY <2>1, <2>2
<1>4. SettingsTypeOK'
  BY <1>1, <1>3 DEF SettingsInv, SettingsTypeOK, Commands
<1>5. OnInputDesktop'
  BY <1>1, <1>3 DEF SettingsInv, OnInputDesktop, InDesktop
<1>6. Untouched' /\ FollowsOrWill'
  BY <1>1, <1>3 DEF SettingsInv, Untouched, FollowsOrWill, Follows, LogonAhead, Excluded
<1> QED
  BY <1>4, <1>5, <1>6 DEF SettingsInv

------------------------------------------------------------------------------
LEMMA SettingsStep == SettingsInv /\ [Next]_vars => SettingsInv'
<1> SUFFICES ASSUME SettingsInv, [Next]_vars PROVE SettingsInv'
  OBVIOUS
<1>1. CASE UNCHANGED vars
  BY <1>1 DEF vars, agent, windows, SettingsInv, SettingsTypeOK, OnInputDesktop, InDesktop, Waits,
              Untouched, FollowsOrWill, Follows, LogonAhead, Excluded
<1>2. ASSUME NEW opts \in SUBSET Features, HandleDisplayConfig(opts) PROVE SettingsInv'
  BY <1>2, Asks
<1>3. CASE OpenDesktop
  BY <1>3, Opens
<1>4. CASE DispatchMessage
  BY <1>4, Dispatches
<1>5. CASE HandleControl
  BY <1>5, Handles
<1>6. CASE Register \/ LeaveDesktop \/ AgentEnds \/ AgentStarts
  BY <1>6, Moves
<1>7. CASE \/ \E settings \in SUBSET Features : LogsOn(settings)
           \/ LogsOff \/ NotifyLogon \/ ExplorerStarts
  BY <1>7, UserMoves
<1>8. CASE ToDefault \/ ToWinlogon
  BY <1>8, Switches
<1> QED
  BY <1>1, <1>2, <1>3, <1>4, <1>5, <1>6, <1>7, <1>8 DEF Next, Agent

LEMMA SettingsInitial == Init => SettingsInv
<1> SUFFICES ASSUME Init PROVE SettingsInv
  OBVIOUS
<1>1. <<>> \in Seq({"LOGON", "SWITCH"})
  BY EmptySeq
<1>2. {} \in Masks /\ 0 \in 0 .. MaxFailures
  BY SettingsConstants DEF Masks
<1>3. SettingsTypeOK
  BY <1>1, <1>2 DEF Init, SettingsTypeOK
<1>4. OnInputDesktop /\ Untouched /\ FollowsOrWill
  BY DEF Init, OnInputDesktop, InDesktop, Untouched, FollowsOrWill, LogonAhead
<1> QED
  BY <1>3, <1>4 DEF SettingsInv

LEMMA SettingsAlways == Spec => []SettingsInv
BY SettingsInitial, SettingsStep, PTL DEF Spec

\* The variables have their types: nothing is in force that the user has not,
\* and the user's desktop is only there with a user.
THEOREM SettingsAreTyped == Spec => []SettingsTypeOK
<1>1. SettingsInv => SettingsTypeOK
  BY DEF SettingsInv
<1> QED
  BY <1>1, SettingsAlways, PTL

\* When the agent has come to rest on the user's desktop, the user has his own
\* settings but for those the client wants off.
THEOREM TheSettingsFollow == Spec => []SettingsFollow
<1>1. SettingsInv => SettingsFollow
  <2> SUFFICES ASSUME SettingsInv, AtRest, ~missed, ~failed, asked = mask PROVE Follows
    BY DEF SettingsFollow
  <2>1. /\ main = "loop" /\ input = "Default" /\ ~desktop_switch /\ ~posted /\ ~logon
        /\ \A c \in Commands : ~Waits(c)
    BY DEF AtRest, Waits
  <2>2. ~logon_desktop
    BY <2>1 DEF SettingsInv, OnInputDesktop, InDesktop, Commands
  <2>3. user /\ initialized /\ ~logon_occured
    BY <2>1, <2>2 DEF SettingsInv, SettingsTypeOK, OnInputDesktop, InDesktop
  <2> QED
    BY <2>1, <2>3 DEF SettingsInv, FollowsOrWill, LogonAhead, Excluded, Commands
<1> QED
  BY <1>1, SettingsAlways, PTL

==============================================================================
