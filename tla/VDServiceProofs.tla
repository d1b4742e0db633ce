---------------------------- MODULE VDServiceProofs ----------------------------
(***************************************************************************)
(* RightSession and OneAgent of VDService, for any number of console       *)
(* connects, stops and restarts, with launches that fail, agents that hang *)
(* and any number of agents that were given up and run on.  OneAgent is    *)
(* about the others: the process launched last is the only one that is not *)
(* given up (Flagged), and no launch is made while it is watched           *)
(* (Cleared).                                                              *)
(***************************************************************************)
EXTENDS VDService, TLAPS

\* What the steps below need to know of the types.
Typed ==
    /\ control_queue \in Seq(Commands)
    /\ main \in {"start", "first launch", "first", "loop", "woken", "control", "kill",
                 "launch", "grace", "graced", "stopped"}
    /\ caller \in {"first", "loop", "graced"}
    /\ given_up \subseteq agents
    /\ agent_alive \in BOOLEAN
    /\ scm \in {"idle", "connecting"}

\* A process that was not given up is the one launched last, and _agent_alive
\* says so: kill_agent, which looks at the flag, misses none and gives none up
\* twice.
Flagged ==
    /\ \A p \in agents \ given_up : p = agent /\ agent_alive
    /\ agent_alive => agent \notin given_up

\* None is watched where a launch is about to happen.
Cleared == main \in {"start", "first launch", "launch"} => ~agent_alive

\* The first loop is entered when the first launch failed; a process that runs
\* in it was launched by a command handled there.
FirstLoop == main = "first" /\ agent_alive => caller = "first"

\* The service ends without a process it watches, but from its first loop.
EndsClean == main = "stopped" /\ caller # "first" => ~agent_alive

ServiceInv ==
    Typed /\ Flagged /\ Cleared /\ FirstLoop /\ EndsClean /\ RightSession

------------------------------------------------------------------------------
(***************************************************************************)
(* The queue.                                                              *)
(***************************************************************************)
LEMMA CommandNames == "STOP" \in Commands /\ "RESTART" \in Commands
BY DEF Commands

\* control_handler queues the restart after it has noted the session.
LEMMA SecondNotice == Notify(2) => SetControl("RESTART")
BY DEF Notify

LEMMA QueuedAppend ==
    ASSUME control_queue \in Seq(Commands), NEW c \in Commands, SetControl(c)
    PROVE  /\ control_queue' \in Seq(Commands)
           /\ Queued("RESTART") => Queued("RESTART")'
           /\ c = "RESTART" => Queued("RESTART")'
<1>1. /\ control_queue' \in Seq(Commands)
      /\ Len(control_queue') = Len(control_queue) + 1
      /\ control_queue'[Len(control_queue) + 1] = c
      /\ \A i \in 1 .. Len(control_queue) : control_queue'[i] = control_queue[i]
      /\ Len(control_queue) \in Nat
  BY DEF SetControl
<1> QED
  BY <1>1 DEF Queued

LEMMA QueuedTail ==
    ASSUME control_queue \in Seq(Commands), control_queue # <<>>,
           control_queue' = Tail(control_queue)
    PROVE  /\ control_queue' \in Seq(Commands)
           /\ Head(control_queue) \in Commands
           /\ Queued("RESTART") /\ Head(control_queue) # "RESTART" => Queued("RESTART")'
<1>1. /\ control_queue' \in Seq(Commands)
      /\ Len(control_queue') = Len(control_queue) - 1
      /\ Head(control_queue) = control_queue[1]
      /\ \A i \in 1 .. Len(control_queue') : control_queue'[i] = control_queue[i + 1]
      /\ Len(control_queue) \in Nat /\ Len(control_queue) # 0
      /\ Head(control_queue) \in Commands
  OBVIOUS
<1>2. ASSUME Queued("RESTART"), Head(control_queue) # "RESTART" PROVE Queued("RESTART")'
  <2>1. PICK i \in 1 .. Len(control_queue) : control_queue[i] = "RESTART"
    BY <1>2 DEF Queued
  <2>2. i - 1 \in 1 .. Len(control_queue') /\ control_queue'[i - 1] = "RESTART"
    BY <2>1, <1>1, <1>2
  <2> QED
    BY <2>2 DEF Queued
<1> QED
  BY <1>1, <1>2

\* kill_agent leaves nothing behind that the service knows of.
LEMMA KillEnds ==
    ASSUME Flagged, given_up \subseteq agents, agent_alive \in BOOLEAN,
           NEW ret \in BOOLEAN, KillsAgent(ret)
    PROVE  agent_alive' = FALSE /\ given_up' \subseteq agents' /\ agents' \subseteq given_up'
<1>1. CASE ~agent_alive /\ UNCHANGED process
  BY <1>1 DEF Flagged, process
<1>2. CASE agent_alive /\ Ended
  BY <1>2 DEF Flagged, Ended, Unwatched
<1>3. CASE agent_alive /\ NotEnded
  BY <1>3 DEF Flagged, NotEnded, Unwatched
<1> QED
  BY <1>1, <1>2, <1>3 DEF KillsAgent

------------------------------------------------------------------------------
(***************************************************************************)
(* The invariant.                                                          *)
(***************************************************************************)
LEMMA ServiceInit == Init => ServiceInv
<1> SUFFICES ASSUME Init PROVE ServiceInv
  OBVIOUS
<1>1. control_queue \in Seq(Commands)
  BY DEF Init
<1> QED
  BY <1>1 DEF Init, ServiceInv, Typed, Flagged, Cleared, FirstLoop, EndsClean, RightSession

LEMMA ServiceStep == ServiceInv /\ [Next]_vars => ServiceInv'
<1> SUFFICES ASSUME ServiceInv, [Next]_vars PROVE ServiceInv'
  OBVIOUS
<1> USE DEF ServiceInv, Typed, Flagged, Cleared, FirstLoop, EndsClean
<1>1. CASE Stop
  <2>1. SetControl("STOP") /\ "STOP" \in Commands
    BY <1>1, CommandNames DEF Stop
  <2> QED
    BY <1>1, <2>1, QueuedAppend DEF Stop, RightSession, flow, process
<1>2. CASE ConsoleConnects
  BY <1>2 DEF ConsoleConnects, Notify, RightSession, flow, process, control
<1>3. CASE RequestsRestart
  <2>1. SetControl("RESTART") /\ "RESTART" \in Commands
    BY <1>3, CommandNames, SecondNotice DEF RequestsRestart
  <2>2. control_queue' \in Seq(Commands) /\ Queued("RESTART")'
    BY <2>1, QueuedAppend
  <2> QED
    BY <1>3, <2>2 DEF RequestsRestart, RightSession, flow, process
<1>4. CASE Starts
  BY <1>4 DEF Starts, RightSession, Queued, control, manager, process
<1>5. CASE FirstLaunch
  <2>1. CASE Launched /\ main' = "loop"
    BY <1>5, <2>1 DEF FirstLaunch, Launched, RightSession, control, manager
  <2>2. CASE NotLaunched /\ main' \in {"first", "stopped"}
    BY <1>5, <2>2 DEF FirstLaunch, NotLaunched, RightSession, control, manager
  <2> QED
    BY <1>5, <2>1, <2>2 DEF FirstLaunch
<1>6. CASE Wakes
  BY <1>6 DEF Wakes, RightSession, Queued, manager, process
<1>7. CASE LocksControl
  BY <1>7 DEF LocksControl, RightSession, Queued, control, manager, process
<1>8. CASE Pops
  <2>1. /\ control_queue' \in Seq(Commands)
        /\ Queued("RESTART") /\ Head(control_queue) # "RESTART" => Queued("RESTART")'
    BY <1>8, QueuedTail DEF Pops
  <2> QED
    BY <1>8, <2>1 DEF Pops, RightSession, manager, process
<1>9. CASE UnlocksControl
  BY <1>9 DEF UnlocksControl, RightSession, Queued, control, manager, process
<1>10. CASE AgentDied
  <2>1. CASE Restarts /\ UNCHANGED process
    <3>1. CASE SetControl("STOP")
      BY <1>10, <2>1, <3>1, CommandNames, QueuedAppend
         DEF AgentDied, Restarts, RightSession, manager, process
    <3>2. CASE UNCHANGED control
      BY <1>10, <2>1, <3>2
         DEF AgentDied, Restarts, RightSession, Queued, control, manager, process
    <3> QED
      BY <2>1, <3>1, <3>2 DEF Restarts
  <2>2. CASE /\ KillsAgent(TRUE) /\ main' = "grace"
             /\ UNCHANGED <<system_version, running, caller, normal, control, manager, restarts>>
    <3>1. agent_alive' = FALSE /\ given_up' \subseteq agents' /\ agents' \subseteq given_up'
      BY <2>2, KillEnds
    <3> QED
      BY <1>10, <2>2, <3>1 DEF RightSession, control, manager
  <2> QED
    BY <1>10, <2>1, <2>2 DEF AgentDied
<1>11. CASE GraceEnds
  BY <1>11 DEF GraceEnds, RightSession, Queued, control, manager, process
<1>12. CASE AfterGrace
  <2>1. CASE Restarts
    <3>1. CASE SetControl("STOP")
      BY <1>12, <2>1, <3>1, CommandNames, QueuedAppend
         DEF AfterGrace, Restarts, RightSession, manager, process
    <3>2. CASE UNCHANGED control
      BY <1>12, <2>1, <3>2
         DEF AfterGrace, Restarts, RightSession, Queued, control, manager, process
    <3> QED
      BY <2>1, <3>1, <3>2 DEF Restarts
  <2>2. CASE main' = "loop" /\ UNCHANGED <<caller, control, manager>>
    BY <1>12, <2>2 DEF AfterGrace, RightSession, Queued, control, manager, process
  <2> QED
    BY <1>12, <2>1, <2>2 DEF AfterGrace
<1>13. CASE LaunchesForRestart
  <2>1. CASE Launched
    BY <1>13, <2>1 DEF LaunchesForRestart, Launched, RightSession, control, manager
  <2>2. CASE NotLaunched
    BY <1>13, <2>2 DEF LaunchesForRestart, NotLaunched, RightSession, control, manager
  <2> QED
    BY <1>13, <2>1, <2>2 DEF LaunchesForRestart
<1>14. CASE Finishes
  <2>1. CASE main = "first" /\ UNCHANGED process
    BY <1>14, <2>1 DEF Finishes, RightSession, control, manager, process
  <2>2. ASSUME NEW ret \in BOOLEAN, main = "loop", KillsAgent(ret) PROVE ServiceInv'
    <3>1. agent_alive' = FALSE /\ given_up' \subseteq agents' /\ agents' \subseteq given_up'
      BY <2>2, KillEnds
    <3> QED
      BY <1>14, <2>2, <3>1 DEF Finishes, RightSession, control, manager
  <2> QED
    BY <1>14, <2>1, <2>2 DEF Finishes
<1>15. ASSUME NEW ret \in BOOLEAN, KillsForRestart(ret) PROVE ServiceInv'
  <2>1. agent_alive' = FALSE /\ given_up' \subseteq agents' /\ agents' \subseteq given_up'
    BY <1>15, KillEnds DEF KillsForRestart
  <2> QED
    BY <1>15, <2>1 DEF KillsForRestart, RightSession, control, manager
<1>16. CASE Dies
  BY <1>16 DEF Dies, RightSession, Queued, flow, control, manager
<1>17. CASE UNCHANGED vars
  BY <1>17 DEF vars, RightSession, Queued, flow, control, manager, process
<1> QED
  BY <1>1, <1>2, <1>3, <1>4, <1>5, <1>6, <1>7, <1>8, <1>9, <1>10, <1>11, <1>12, <1>13, <1>14,
     <1>15, <1>16, <1>17 DEF Next, Manager, Execute

LEMMA ServiceInvariant == Spec => []ServiceInv
<1> QED
  BY ServiceInit, ServiceStep, PTL DEF Spec

------------------------------------------------------------------------------
\* An agent in another session than the console's does not survive: its restart
\* is queued or under way, however control_handler, which notes the session
\* without a mutex, meets the main thread.
THEOREM AgentIsInConsoleSession == Spec => []RightSession
<1>1. ServiceInv => RightSession
  BY DEF ServiceInv
<1> QED
  BY <1>1, ServiceInvariant, PTL

\* Of the agents the service has not given up at most one runs, none where it is
\* about to launch one, and none when the service ends in its second loop.
THEOREM OneAgentAtATime == Spec => []OneAgent
<1>1. ServiceInv => OneAgent
  BY DEF ServiceInv, Flagged, Cleared, EndsClean, OneAgent
<1> QED
  BY <1>1, ServiceInvariant, PTL

==============================================================================
