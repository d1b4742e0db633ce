------------------------------- MODULE VDService ------------------------------
(***************************************************************************)
(* The service that keeps one agent process alive in the console session   *)
(* (vdservice/vdservice.cpp).  The main thread runs execute(): it launches *)
(* the agent, then waits for control commands and for the death of the     *)
(* agent.  The service manager calls control_handler on a thread of its    *)
(* own, which queues a command under _control_mutex; handle_control_event  *)
(* holds that mutex while it goes through the queue.  _agent_mutex is      *)
(* only ever taken by the main thread.                                     *)
(*                                                                         *)
(* Time is abstracted: a wait with a timeout may always time out, and a    *)
(* restart may find that VD_AGENT_RESTART_COUNT_RESET_INTERVAL has passed. *)
(***************************************************************************)
EXTENDS Integers, Sequences

CONSTANTS
    Processes,              \* bound: the process ids agents run under
    NoProcess,
    VD_AGENT_MAX_RESTARTS,  \* 10 in the code
    MaxSessions,            \* bound: console connects
    MaxStops,               \* bound: stop requests of the service manager
    LaunchFails,            \* whether a process may fail to be created
    AgentHangs,             \* whether an agent may ignore the stop event, or
                            \* its handle be lost when it is launched
    LongGaps                \* whether restarts may be a minute apart

ASSUME ServiceBounds ==
    /\ NoProcess \notin Processes
    /\ VD_AGENT_MAX_RESTARTS \in Nat /\ MaxSessions \in Nat /\ MaxStops \in Nat
    /\ LaunchFails \in BOOLEAN /\ AgentHangs \in BOOLEAN /\ LongGaps \in BOOLEAN

VARIABLES
    system_version, \* VDService::_system_version
    running,        \* VDService::_running
    main,           \* where the main thread is
    caller,         \* who called handle_control_event
    normal,         \* the argument of restart_agent
    control_queue,  \* VDService::_control_queue
    control_event,  \* VDService::_control_event, reset by the wait
    session_id,     \* VDService::_session_id
    scm,            \* where the service manager's thread is
    agent_alive,    \* VDService::_agent_alive
    handle,         \* whether _agent_proc_info.hProcess is set
    agent,          \* the process launched last
    agent_session,  \* the session it was launched in
    agents,         \* the agent processes that run
    given_up,       \* those kill_agent gave up waiting for
    restarts,       \* VDService::_agent_restarts
    sessions, stops \* how many requests the service manager has made

flow    == <<main, caller, normal>>
control == <<control_queue, control_event>>
manager == <<session_id, scm, sessions, stops>>
process == <<agent_alive, handle, agent, agent_session, agents, given_up>>
vars    == <<system_version, running, flow, control, manager, process, restarts>>

Commands == {"STOP", "RESTART"}

TypeOK ==
    /\ system_version \in {"XP", "WIN7"}
    /\ running \in BOOLEAN
    /\ main \in {"start", "first launch", "first", "loop", "woken", "control", "kill",
                 "launch", "grace", "graced", "stopped"}
    /\ caller \in {"first", "loop", "graced"}
    /\ normal \in BOOLEAN
    /\ control_queue \in Seq(Commands)
    /\ control_event \in BOOLEAN
    /\ session_id \in 0 .. MaxSessions
    /\ scm \in {"idle", "connecting"}
    /\ agent_alive \in BOOLEAN /\ handle \in BOOLEAN
    /\ agent \in Processes \cup {NoProcess}
    /\ agent_session \in 0 .. MaxSessions
    /\ agents \subseteq Processes /\ given_up \subseteq agents
    /\ restarts \in 0 .. VD_AGENT_MAX_RESTARTS + 1 + MaxSessions
    /\ sessions \in 0 .. MaxSessions /\ stops \in 0 .. MaxStops

Init ==
    /\ system_version \in {"XP", "WIN7"}
    /\ running = TRUE /\ main = "start" /\ caller = "loop" /\ normal = FALSE
    /\ control_queue = <<>> /\ control_event = FALSE
    /\ session_id = 0 /\ scm = "idle" /\ sessions = 0 /\ stops = 0
    /\ agent_alive = FALSE /\ handle = FALSE /\ agent = NoProcess
    /\ agents = {} /\ given_up = {}
    /\ agent_session = 0 /\ restarts = 0

------------------------------------------------------------------------------
(***************************************************************************)
(* The service manager's thread: control_handler.                          *)
(***************************************************************************)
ControlLocked == main = "control" \/ (normal /\ main \in {"kill", "launch"})

SetControl(c) ==
    /\ control_queue' = Append(control_queue, c)
    /\ control_event' = TRUE

Stop ==
    /\ scm = "idle" /\ ~ControlLocked /\ stops < MaxStops
    /\ stops' = stops + 1
    /\ SetControl("STOP")
    /\ UNCHANGED <<system_version, running, flow, session_id, scm, sessions, process, restarts>>

\* WTS_CONSOLE_CONNECT: the session is noted without a mutex, then the restart
\* is queued.  A session that connects before execute() is the one it reads.
NotifySwapped(step) ==          \* mutant: the restart is queued first
    IF step = 1 THEN SetControl("RESTART") /\ UNCHANGED session_id
                ELSE session_id' = sessions /\ UNCHANGED control

Notify(step) ==
    IF step = 1 THEN session_id' = sessions' /\ UNCHANGED control
                ELSE SetControl("RESTART") /\ UNCHANGED session_id

ConsoleConnects ==
    /\ scm = "idle" /\ main # "start" /\ sessions < MaxSessions
    /\ scm' = "connecting"
    /\ sessions' = sessions + 1
    /\ Notify(1)
    /\ UNCHANGED <<system_version, running, flow, stops, process, restarts>>

RequestsRestart ==
    /\ scm = "connecting" /\ ~ControlLocked
    /\ scm' = "idle"
    /\ Notify(2)
    /\ UNCHANGED <<system_version, running, flow, sessions, stops, process, restarts>>

------------------------------------------------------------------------------
(***************************************************************************)
(* launch_agent and kill_agent.                                            *)
(***************************************************************************)
\* On XP and in another session than the service's, the process is created over
\* a pipe, and its handle may not be got.
ProcessHandle ==
    IF system_version = "XP" /\ session_id # 0 /\ AgentHangs THEN BOOLEAN ELSE {TRUE}

Launched ==
    /\ agent' \in Processes \ agents
    /\ agents' = agents \cup {agent'} /\ agent_alive' = TRUE
    /\ agent_session' = session_id
    /\ handle' \in ProcessHandle
    /\ UNCHANGED given_up

NotLaunched ==
    /\ LaunchFails
    /\ handle' = FALSE
    /\ UNCHANGED <<agent_alive, agent, agent_session, agents, given_up>>

Unwatched == agent_alive' = FALSE /\ handle' = FALSE /\ UNCHANGED <<agent, agent_session>>

\* The stop event is set and the agent, if it still runs, ends in VD_AGENT_TIMEOUT.
Ended == Unwatched /\ agents' = agents \ {agent} /\ UNCHANGED given_up

\* The wait times out, or there is no handle to wait for: the process is given
\* up and runs on.  It may be one that an agent given up before, which waits
\* for the same auto-reset event, took the stop from.  Bound: one process id is
\* kept for the next launch.
NotEnded ==
    /\ agent \in agents /\ (AgentHangs \/ ~handle)
    /\ given_up \cup {agent} # Processes
    /\ given_up' = given_up \cup {agent}
    /\ Unwatched /\ UNCHANGED agents

\* What kill_agent returns: false only after a timeout.
KillsAgent(ret) ==
    \/ ~agent_alive /\ ret /\ UNCHANGED process
    \/ agent_alive /\ ret /\ Ended
    \/ agent_alive /\ ret = ~handle /\ NotEnded

------------------------------------------------------------------------------
(***************************************************************************)
(* The main thread: execute().                                             *)
(***************************************************************************)
\* WTSGetActiveConsoleSessionId may fail.
Starts ==
    /\ main = "start"
    /\ \/ main' = "first launch" /\ UNCHANGED running
       \/ LaunchFails /\ main' = "stopped" /\ running' = FALSE
    /\ UNCHANGED <<system_version, caller, normal, control, manager, process, restarts>>

\* A failed first launch ends the service, or leaves it waiting for control
\* commands only.
FirstLaunch ==
    /\ main = "first launch"
    /\ \/ Launched /\ main' = "loop" /\ UNCHANGED running
       \/ NotLaunched /\ main' = "first" /\ UNCHANGED running
       \/ NotLaunched /\ main' = "stopped" /\ running' = FALSE
    /\ UNCHANGED <<system_version, caller, normal, control, manager, restarts>>

\* The wait returns for the control event, whose handle is the first.
Wakes ==
    /\ main \in {"first", "loop", "grace"} /\ control_event
    /\ running \/ main = "grace"
    /\ main' = "woken"
    /\ caller' = IF main = "grace" THEN "graced" ELSE main
    /\ control_event' = FALSE
    /\ UNCHANGED <<system_version, running, normal, control_queue, manager, process, restarts>>

LocksControl ==
    /\ main = "woken"
    /\ main' = "control"
    /\ UNCHANGED <<system_version, running, caller, normal, control, manager, process, restarts>>

AfterPop(c) == running /\ c # "STOP"

Pops ==
    /\ main = "control" /\ control_queue # <<>>
    /\ LET c == Head(control_queue)
       IN  /\ running' = AfterPop(c)
           /\ main' = IF c = "RESTART" THEN "kill" ELSE "control"
           /\ normal' = (c = "RESTART")
    /\ control_queue' = Tail(control_queue)
    /\ UNCHANGED <<system_version, caller, control_event, manager, process, restarts>>

DrainedOne == TRUE                      \* mutant: one command per event
Drained == control_queue = <<>>

UnlocksControl ==
    /\ main = "control" /\ Drained
    /\ main' = caller
    /\ normal' = FALSE
    /\ UNCHANGED <<system_version, running, caller, control, manager, process, restarts>>

\* The death of the agent is seen when no command is waiting.
TooManyExact == restarts = VD_AGENT_MAX_RESTARTS        \* mutant: = for >
TooMany == restarts + 1 > VD_AGENT_MAX_RESTARTS

\* restart_agent(false): too many restarts stop the service.
CountedFrozen == restarts               \* mutant: compared, not incremented
Counted == restarts + 1

Restarts ==
    /\ restarts' = Counted
    /\ normal' = FALSE
    /\ \/ TooMany /\ main' = "loop" /\ SetControl("STOP")
       \/ ~TooMany /\ main' = "kill" /\ UNCHANGED control
    /\ UNCHANGED <<system_version, running, caller, manager>>

AgentDied ==
    /\ main = "loop" /\ running /\ ~control_event
    /\ handle /\ agent \notin agents
    /\ \/ system_version = "XP" /\ Restarts /\ UNCHANGED process
       \/ /\ system_version = "WIN7" /\ KillsAgent(TRUE) /\ main' = "grace"
          /\ UNCHANGED <<system_version, running, caller, normal, control, manager, restarts>>

\* VD_AGENT_RESTART_INTERVAL is over: the agent is restarted if it has not been.
GraceEnds ==
    /\ main = "grace"
    /\ main' = "graced"
    /\ UNCHANGED <<system_version, running, caller, normal, control, manager, process, restarts>>

WaitsForConnect ==              \* mutant: the agent is not restarted
    /\ main = "graced"
    /\ main' = "loop"
    /\ UNCHANGED <<system_version, running, caller, normal, control, manager, process,
                   restarts>>

AfterGrace ==
    /\ main = "graced"
    /\ \/ running /\ ~agent_alive /\ Restarts
       \/ /\ ~running \/ agent_alive
          /\ main' = "loop"
          /\ UNCHANGED <<system_version, running, caller, normal, control, manager, restarts>>
    /\ UNCHANGED process

\* restart_agent goes on; the result of a normal restart becomes _running.
KillsForRestart(ret) ==
    /\ main = "kill"
    /\ KillsAgent(ret)
    /\ main' = CASE ret -> "launch" [] ~ret /\ normal -> "control" [] OTHER -> "loop"
    /\ running' = (running \/ (~ret /\ normal))
    /\ UNCHANGED <<system_version, caller, normal, control, manager, restarts>>

\* The count starts again when the last restart is long past.
RestartCount == IF LongGaps THEN {0, restarts} ELSE {restarts}

LaunchesForRestart ==
    /\ main = "launch"
    /\ \/ Launched /\ restarts' \in RestartCount
       \/ NotLaunched /\ UNCHANGED restarts
    /\ main' = IF normal THEN "control" ELSE "loop"
    /\ running' = (running \/ normal)
    /\ UNCHANGED <<system_version, caller, normal, control, manager>>

\* Out of the first loop the service just ends, out of the second it kills the
\* agent first.
FinishesAtOnce ==               \* mutant: the agent is not killed
    /\ ~running /\ main \in {"first", "loop"}
    /\ main' = "stopped"
    /\ UNCHANGED <<system_version, running, caller, normal, control, manager, process,
                   restarts>>

Finishes ==
    /\ ~running
    /\ \/ main = "first" /\ UNCHANGED process
       \/ main = "loop" /\ \E ret \in BOOLEAN : KillsAgent(ret)
    /\ main' = "stopped"
    /\ UNCHANGED <<system_version, running, caller, normal, control, manager, restarts>>

\* An agent crashes, is killed by hand, ends when its console disconnects, or
\* heeds the stop event after it was given up.
Dies ==
    /\ main # "stopped"
    /\ \E process_id \in agents :
         agents' = agents \ {process_id} /\ given_up' = given_up \ {process_id}
    /\ UNCHANGED <<system_version, running, flow, control, manager, agent_alive, handle, agent,
                   agent_session, restarts>>

------------------------------------------------------------------------------
Manager == Stop \/ ConsoleConnects \/ RequestsRestart

Execute ==
    \/ Starts \/ FirstLaunch \/ Wakes \/ LocksControl \/ Pops \/ UnlocksControl
    \/ AgentDied \/ GraceEnds \/ AfterGrace \/ LaunchesForRestart \/ Finishes
    \/ \E ret \in BOOLEAN : KillsForRestart(ret)

Next == Manager \/ Execute \/ Dies

Spec == Init /\ [][Next]_vars

\* The main thread runs when it can (no wait in it is without a way out that
\* Next lists), and the service manager finishes a notification it began: the
\* main thread gives the mutex up again and again.
Fairness == WF_vars(Execute) /\ SF_vars(RequestsRestart)

FairSpec == Spec /\ Fairness

------------------------------------------------------------------------------
(***************************************************************************)
(* Safety.                                                                 *)
(***************************************************************************)
Queued(c) == \E i \in 1 .. Len(control_queue) : control_queue[i] = c

\* The agent runs in the console session, or a restart is on its way: noting
\* the session without a mutex does not let an old one survive.
RightSession ==
    agent_alive /\ agent_session # session_id =>
        scm = "connecting" \/ Queued("RESTART") \/ (normal /\ main \in {"kill", "launch"})
            \/ main = "stopped"

\* Of the agents the service has not given up at most one runs: none is
\* launched over one that kill_agent missed, and none but those given up is left
\* behind when the service ends, unless it ends in its first loop (that path
\* returns without kill_agent).  An agent that was given up may run beside it.
OneAgent ==
    /\ \A p, q \in agents \ given_up : p = q
    /\ main = "launch" => agents \subseteq given_up
    /\ main = "stopped" /\ caller # "first" => agents \subseteq given_up

(***************************************************************************)
(* Liveness.                                                               *)
(***************************************************************************)
\* The comment in execute() (lines 424-426): an agent that died is launched
\* again, or the service ends.  The launch may fail.
Recovers ==
    main = "loop" /\ handle /\ agent \notin agents ~> main \in {"launch", "stopped"}

\* An agent that keeps dying ends the service (VD_AGENT_MAX_RESTARTS), unless
\* there is a quiet minute again and again, which lets the count go down.
CrashLoopEnds ==
    /\ []<>(main = "loop" /\ handle /\ agent \notin agents)
    /\ <>[][restarts' >= restarts]_vars
    => <>(main = "stopped")

\* A stop request ends the service when no console connect comes with it.
StopEnds ==
    stops > 0 /\ sessions = 0 ~> main = "stopped" \/ sessions > 0

(***************************************************************************)
(* What the code says of itself and does not do.                           *)
(***************************************************************************)
\* control_handler logs "Stop service" (line 277) and reports STOP_PENDING; a
\* RESTART_AGENT queued behind the STOP overwrites _running with true.
StopIsHonoured == stops > 0 ~> main = "stopped"

==============================================================================
