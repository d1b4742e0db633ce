--------------------------- MODULE DisplaySettings ---------------------------
(***************************************************************************)
(* The settings that cost bandwidth (vdagent/display_setting.cpp) and when *)
(* the agent applies them (vdagent/vdagent.cpp).  DISPLAY_CONFIG says which*)
(* of them the client wants off; the agent keeps that in the registry of   *)
(* the machine and applies it, to the session of whoever is logged on, and *)
(* gives back what is not wanted off from the registry of the user, whom it*)
(* finds by his explorer.exe.  A user who logs on has his own settings, so *)
(* the agent applies the client's again: after WTS_SESSION_LOGON has come  *)
(* and the desktop has changed from Winlogon to the user's, whichever is   *)
(* first.  Each change of the desktop takes the agent's window away, and   *)
(* what is posted to it, or comes while there is none, is lost.            *)
(*                                                                         *)
(* Windows (desktops, sessions, what is shown) and the client are modelled *)
(* from how the code uses them.  The service starts an agent that died.    *)
(***************************************************************************)
EXTENDS Naturals, Sequences

CONSTANTS
    Features,       \* wallpaper, font smoothing, animation
    MaxCommands,    \* bound: commands in the control queue
    MaxFailures     \* bound: failures of the registry

ASSUME SettingsConstants ==
    MaxCommands \in Nat /\ MaxFailures \in Nat

VARIABLES
    mask,               \* DisplaySettingMask in the registry: {} or {the mask}
    logon_desktop,      \* VDAgent::_logon_desktop
    logon_occured,      \* _logon_occured
    initialized,        \* _display_setting_initialized
    desktop_switch,     \* _desktop_switch
    control,            \* the LOGON and SWITCH commands of _control_queue
    main,               \* where the agent's thread is, or "dead"
    posted,             \* whether WTS_SESSION_LOGON is posted to its window
    input,              \* the input desktop
    user, explorer,     \* whether somebody is logged on, and his explorer.exe runs
    own,                \* the settings he has
    shown,              \* the settings in force
    logon,              \* whether WTS_SESSION_LOGON is still to come
    asked,              \* what the client wants off: {} until it has said so
    missed, failed,     \* whether a logon was lost, or a reload that mattered failed
    failures

agent   == <<logon_desktop, logon_occured, initialized, desktop_switch, control, main, posted>>
windows == <<input, user, explorer, own, logon>>
vars    == <<mask, agent, windows, shown, asked, missed, failed, failures>>

Masks == {{}} \cup {{opts} : opts \in SUBSET Features}

SettingsTypeOK ==
    /\ {mask, asked} \subseteq Masks
    /\ {logon_desktop, logon_occured, initialized, desktop_switch, posted} \subseteq BOOLEAN
    /\ control \in Seq({"LOGON", "SWITCH"}) /\ main \in {"open", "register", "loop", "control", "dead"}
    /\ input \in {"Winlogon", "Default"} /\ own \subseteq Features /\ shown \subseteq own
    /\ (~user => input = "Winlogon" /\ ~explorer /\ own = Features)
    /\ {user, explorer, logon, missed, failed} \subseteq BOOLEAN
    /\ failures \in 0 .. MaxFailures

------------------------------------------------------------------------------
(***************************************************************************)
(* DisplaySetting::load(opts).  What is not to be off is reloaded from the *)
(* user's registry, when the user's shell is found; a registry that cannot *)
(* be read then makes the code throw what nobody catches.                  *)
(***************************************************************************)
Disabled(opts) == shown \ opts
Reloaded(opts) == Disabled(opts) \cup (own \ opts)
Fails          == failures < MaxFailures /\ failures' = failures + 1

LoadOptions(opts, next) ==
    \/ /\ explorer \/ opts = Features
       /\ shown' = Reloaded(opts)
       /\ main' = next /\ failed' = FALSE /\ UNCHANGED failures
    \/ /\ ~explorer /\ opts # Features
       /\ shown' = Disabled(opts)
       /\ failed' = (Disabled(opts) # Reloaded(opts))
       /\ main' = next /\ UNCHANGED failures
    \/ /\ explorer /\ opts # Features /\ Fails
       /\ shown' = Disabled(opts)
       /\ main' = "dead" /\ failed' = TRUE

\* DisplaySetting::load() does nothing when nothing was ever asked for.
Load(next) ==
    /\ missed' = FALSE
    /\ IF mask = {} THEN main' = next /\ UNCHANGED <<shown, failed, failures>>
       ELSE \E opts \in mask : LoadOptions(opts, next)

\* DisplaySetting::set, from handle_display_config.
HandleDisplayConfig(opts) ==
    /\ main = "loop"
    /\ asked' = {opts} /\ missed' = FALSE
    /\ \/ mask' = {opts} /\ LoadOptions(opts, "loop")
       \/ /\ Fails /\ UNCHANGED <<mask, main>>      \* not written, but applied
          /\ shown' = IF explorer THEN Reloaded(opts) ELSE Disabled(opts)
          /\ failed' = (shown' # Reloaded(opts))
    /\ UNCHANGED <<logon_desktop, logon_occured, initialized, desktop_switch, control, posted,
                   windows>>

------------------------------------------------------------------------------
(***************************************************************************)
(* input_desktop_message_loop.                                             *)
(***************************************************************************)
\* Mutant: the agent forgets the logon when it comes to the Winlogon desktop.
LeavesLogonForgetful == logon_occured' = FALSE /\ logon_desktop' = TRUE
LeavesLogon == logon_desktop' = TRUE /\ UNCHANGED logon_occured

OpenDesktop ==
    /\ main = "open"
    /\ \/ /\ input = "Winlogon"
          /\ LeavesLogon
          /\ main' = "register"
          /\ UNCHANGED <<initialized, shown, missed, failed, failures>>
       \/ /\ input = "Default"
          /\ logon_occured' = FALSE /\ logon_desktop' = FALSE
          /\ \/ ~initialized /\ Load("register") /\ initialized' = TRUE
             \/ /\ initialized /\ logon_occured /\ logon_desktop
                /\ Load("register") /\ UNCHANGED initialized
             \/ /\ initialized /\ ~(logon_occured /\ logon_desktop)
                /\ main' = "register"
                /\ UNCHANGED <<initialized, shown, missed, failed, failures>>
    /\ UNCHANGED <<mask, desktop_switch, control, posted, windows, asked>>

\* The window is there and gets the notifications.
Register ==
    /\ main = "register"
    /\ main' = "loop"
    /\ UNCHANGED <<mask, logon_desktop, logon_occured, initialized, desktop_switch, control, posted,
                   windows, shown, asked, missed, failed, failures>>

DispatchMessage ==
    /\ main = "loop" /\ posted /\ Len(control) < MaxCommands
    /\ posted' = FALSE
    /\ control' = Append(control, "LOGON")
    /\ UNCHANGED <<mask, logon_desktop, logon_occured, initialized, desktop_switch, main, windows,
                   shown, asked, missed, failed, failures>>

AfterControl == IF Len(control) = 1 THEN "loop" ELSE "control"

\* Mutant: a logon told of on the user's desktop is taken for an unlock.
LogonIgnored == main' = AfterControl /\ UNCHANGED <<shown, missed, failed, failures>>
LogonSeen == Load(AfterControl)

\* handle_control_event, for one command: it goes on until there is none.
HandleControl ==
    /\ main \in {"loop", "control"} /\ control # <<>>
    /\ control' = Tail(control)
    /\ \/ /\ Head(control) = "SWITCH"
          /\ desktop_switch' = TRUE
          /\ main' = AfterControl /\ UNCHANGED <<logon_occured, shown, missed, failed, failures>>
       \/ /\ Head(control) = "LOGON" /\ logon_desktop
          /\ logon_occured' = TRUE
          /\ main' = AfterControl /\ UNCHANGED <<desktop_switch, shown, missed, failed, failures>>
       \/ /\ Head(control) = "LOGON" /\ ~logon_desktop
          /\ LogonSeen
          /\ UNCHANGED <<desktop_switch, logon_occured>>
    /\ UNCHANGED <<mask, logon_desktop, initialized, posted, windows, asked>>

LeaveDesktop ==
    /\ main = "loop" /\ desktop_switch
    /\ desktop_switch' = FALSE
    /\ main' = "open"
    /\ posted' = FALSE /\ missed' = (missed \/ posted)
    /\ UNCHANGED <<mask, logon_desktop, logon_occured, initialized, control, windows, shown, asked,
                   failed, failures>>

\* The service ends the agent when another session gets the console.
AgentEnds ==
    /\ main = "loop"
    /\ main' = "dead"
    /\ UNCHANGED <<mask, logon_desktop, logon_occured, initialized, desktop_switch, control, posted,
                   windows, shown, asked, missed, failed, failures>>

AgentStarts ==
    /\ main = "dead"
    /\ main' = "open" /\ control' = <<>> /\ posted' = FALSE
    /\ logon_desktop' = FALSE /\ logon_occured' = FALSE
    /\ initialized' = FALSE /\ desktop_switch' = FALSE
    /\ missed' = FALSE
    /\ UNCHANGED <<mask, windows, shown, asked, failed, failures>>

------------------------------------------------------------------------------
(***************************************************************************)
(* Windows and the user.                                                   *)
(***************************************************************************)
\* event_thread_proc tells of each change of the input desktop.
SwitchTo(desktop) ==
    /\ Len(control) < MaxCommands
    /\ input' = desktop
    /\ control' = IF main = "dead" THEN control ELSE Append(control, "SWITCH")

OutsideSwitch ==
    UNCHANGED <<mask, logon_desktop, logon_occured, initialized, desktop_switch, main, asked,
                failures>>

\* The user's settings are in force before the notification is sent.
LogsOn(settings) ==
    /\ ~user
    /\ user' = TRUE /\ own' = settings /\ shown' = settings /\ logon' = TRUE /\ failed' = FALSE
    /\ UNCHANGED <<control, posted, input, explorer, missed>> /\ OutsideSwitch

HasWindow == main \in {"loop", "control"}

NotifyLogon ==
    /\ logon
    /\ logon' = FALSE
    /\ posted' = (posted \/ HasWindow)
    /\ missed' = (missed \/ ~HasWindow)
    /\ UNCHANGED <<control, input, user, explorer, own, shown, failed>> /\ OutsideSwitch

\* The desktop after a logon, an unlock or a prompt, and before them.
ToDefault ==
    /\ user /\ input = "Winlogon"
    /\ SwitchTo("Default")
    /\ UNCHANGED <<posted, user, explorer, own, logon, shown, missed, failed>> /\ OutsideSwitch

ToWinlogon ==
    /\ input = "Default"
    /\ SwitchTo("Winlogon")
    /\ UNCHANGED <<posted, user, explorer, own, logon, shown, missed, failed>> /\ OutsideSwitch

ExplorerStarts ==
    /\ user /\ ~explorer
    /\ explorer' = TRUE
    /\ UNCHANGED <<control, posted, input, user, own, logon, shown, missed, failed>> /\ OutsideSwitch

LogsOff ==
    /\ user /\ input = "Winlogon" /\ ~logon
    /\ user' = FALSE /\ explorer' = FALSE /\ own' = Features /\ shown' = Features
    /\ missed' = FALSE /\ failed' = FALSE
    /\ UNCHANGED <<control, posted, input, logon>> /\ OutsideSwitch

------------------------------------------------------------------------------
Init ==
    /\ mask = {} /\ asked = {}
    /\ logon_desktop = FALSE /\ logon_occured = FALSE /\ initialized = FALSE
    /\ desktop_switch = FALSE /\ control = <<>> /\ main = "open" /\ posted = FALSE
    /\ input = "Winlogon" /\ user = FALSE /\ explorer = FALSE /\ logon = FALSE
    /\ own = Features /\ shown = Features
    /\ missed = FALSE /\ failed = FALSE /\ failures = 0

Agent == OpenDesktop \/ Register \/ DispatchMessage \/ HandleControl \/ LeaveDesktop \/ AgentStarts

Next ==
    \/ Agent \/ AgentEnds
    \/ \E opts \in SUBSET Features : HandleDisplayConfig(opts)
    \/ \E settings \in SUBSET Features : LogsOn(settings)
    \/ NotifyLogon \/ ToDefault \/ ToWinlogon \/ ExplorerStarts \/ LogsOff

Spec == Init /\ [][Next]_vars

\* The agent's thread goes on, the service starts an agent, Windows notifies.
FairSpec == Spec /\ WF_vars(Agent) /\ WF_vars(NotifyLogon)

------------------------------------------------------------------------------
(***************************************************************************)
(* Properties.                                                             *)
(***************************************************************************)
Follows == shown = own \ UNION asked

\* When the agent has come to rest on the user's desktop the user has his own
\* settings but for those the client wants off: whoever logged on, in whatever
\* order the notification and the change of the desktop came, whether the
\* client asked before or after, and through locks, prompts, logoffs and
\* restarts of the agent.  The logon must not have been lost, nor the registry
\* been closed to the agent, nor the shell missing when a setting had to be
\* given back.
AtRest ==
    /\ main = "loop" /\ input = "Default" /\ control = <<>>
    /\ ~desktop_switch /\ ~posted /\ ~logon

SettingsFollow == AtRest /\ ~missed /\ ~failed /\ asked = mask => Follows

\* The agent gets there: the settings of a user on his desktop follow, as long
\* as he stays there and the agent lives, without another request.
LogonLoads ==
    user /\ input = "Default"
        ~> Follows \/ input = "Winlogon" \/ missed \/ failed \/ asked # mask

==============================================================================
