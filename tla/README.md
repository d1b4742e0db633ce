# Verification of the SPICE guest agent for Windows

TLA+ models of `vdagent` and `vdservice`, the TLC runs that check them on small
instances, and TLAPS proofs about the port forwarder, the send path, the service,
the mouse, file transfers, the clipboard, the layout of the displays and the
display settings. File and line references are to the repository's sources; `PF` is
`vdagent/port_forward.cpp`, `VA` is `vdagent/vdagent.cpp`, `VS` is
`vdservice/vdservice.cpp`, `FX` is `vdagent/file_xfer.cpp`, `DL` is
`vdagent/desktop_layout.cpp`, `DC` is `vdagent/display_configuration.cpp`, `DS` is
`vdagent/display_setting.cpp`.

    tlc -config SendPath.cfg SendPath          # one run; the table below has them all
    tlapm PortForwardProofs.tla                # one module of proofs


## 1. The system

A Windows service (`vdservice`) keeps one agent process (`vdagent`) alive in the
session that owns the console. The agent talks to the SPICE client over a
virtio-serial port. Both programs are written around Windows' alertable waits:
a main thread waits for events, window messages and completion routines, and a
few other threads hand it work through queues.

| Component | State | Operations | Talks to |
|---|---|---|---|
| **Port forwarder** `PF` | `acceptors`, `connections` (per connection: `write_buffer`, `data_sent`, `data_received`, `ack_interval`, `closing`, `acked`), `has_client`, the overlapped operations in the kernel | client messages LISTEN, CONNECT, DATA, ACK, CLOSE, SHUTDOWN (`dispatch`); completions of accept, read, write, connect (`handle_*`); the destructor | main thread dispatches, a thread of its own handles completions, both under `mutex`; answers go to the send path |
| **Send path** `VA` 193-227, 403-463, 1010-1031, 1490-1536 | `commands`, `_control_queue` and its event, `_message_queue`, `_write_pos`, one `OVERLAPPED` | `send`, `get_chunk`, `set_control_event`, `handle_control_event`, `enqueue_chunk`, `write_completion`, `cleanup` | the forwarder's I/O thread, the desktop event thread and the main thread push; the main thread pops |
| **Incoming messages** `VA` 1327-1488 | `_in_msg`, `_in_msg_pos`, `_running` | `read_completion`, `handle_chunk`, `cleanup_in_msg`, `dispatch_message` | calls every handler below; runs inside any alertable wait |
| **Clipboard** `VA` 766-842, 1033-1314, 1560-1572 | `_clipboard_owner`, `_clipboard_tick`, `_grab_types`, `_max_clipboard` | GRAB, REQUEST, CLIPBOARD, RELEASE of the client; `WM_CLIPBOARDUPDATE`, `WM_RENDERFORMAT` of Windows | client, guest programs, the control queue (`CONTROL_CLIPBOARD`), the incoming messages |
| **File transfer** `FX` | `_tasks`: file handle, name, size and position per id; `_session_is_locked` | START, DATA, STATUS, `reset`, destructor | client; the file system; `CONTROL_RESET` |
| **Agent service** `VS` | `_running`, `_control_queue` and its event, `_session_id`, `_agent_alive`, `_agent_proc_info`, `_agent_restarts` | `execute` with two loops, `control_handler` (another thread), `launch_agent`, `kill_agent`, `restart_agent` | service manager, the agent process |
| **Mouse input** `VA` 586-693, 1550, 523 | `_input`, `_pending_input`, `_input_time`, `_mouse_x/y`, `_buttons_state` | `handle_mouse_event`, `send_input`, `WM_TIMER`, desktop switch | the layout (under its lock), the timer |
| **Monitors and capabilities** `VA` 695-764, 844-984 | `_client_caps`, the display settings | `handle_mon_config`, `handle_display_config`, `handle_announce_capabilities` | the layout |
| **Desktop layout** `DL` | `_displays`, `_total_width`, `_total_height` | `get_displays`, `set_displays`, `normalize_displays_pos`, `consistent_displays` | display configuration, Windows, the mouse |
| **Display configuration** `DC` | `_pPathInfo`, `_pModeInfo`, `_primary_detached` of the CCD interface; the registry with an XPDM driver | state, size, position and attachment of a monitor | Windows |
| **Display settings** `DS`, `VA` 468-502, 440-450 | the mask in the registry of the machine; the agent's `_logon_desktop`, `_logon_occured`, `_display_setting_initialized` | `set`, both `load`, `reload_from_registry` | Windows, the control queue (`CONTROL_LOGON`) |
| **User impersonation** `as_user.cpp` | a token | begin, end | Windows |

**What is hard here, and what makes each part correct**

* *Port forwarder.* Reads stop when the window is full and are started again
  by three different handlers on two threads; writes complete in part; packets
  of an erased connection arrive late; a closing connection lives on to drain.
  Correct: never two reads or two writes on a socket, never none when one is
  due; the peer gets the client's bytes in order, each once; acknowledgements
  add up; CLOSE is the last word; a closing connection goes away.
* *Send path.* Four mutexes, three threads, two queues that must stay in step
  (`CONTROL_DATA` announces one message of `commands`), one OVERLAPPED for all
  writes. Correct: messages go out whole, once, in order, and eventually.
* *Incoming messages and clipboard.* `WM_RENDERFORMAT` waits for the client in
  a loop of its own, in which chunks and control commands are handled; answers
  come late, grabs of both sides cross. Correct: messages are put together
  from their own chunks; a paste gets the data or ends; the client knows when
  the guest owns the clipboard.
* *File transfer.* Clients go away in the middle of a transfer, and the reset
  is queued. Correct: no partial file stays, both sides agree, whole files are
  not touched.
* *Service.* Requests of the service manager race with the death of the agent
  and with each other. Correct: the agent runs in the console session, is
  restarted when it dies, not for ever, and a stop stops.
* *Mouse input.* Delayed moves meet clicks and desktop switches. Correct: the
  guest's buttons follow the client's, a put-off move goes out.
* *Layout and display configuration.* The table of displays is a copy of what
  Windows shows, read at one time, changed in the middle of a request,
  normalised to the top left corner, and used to scale the mouse; Windows, the
  user and the machine change displays meanwhile, and the configuration handed
  to Windows must have a primary display. Correct: when all is quiet the table
  says what is shown; a request that is repeated is met in the end.
* *Display settings.* A user logs on, the desktop changes, the session
  notification comes, the shell starts, the agent restarts, in many orders.
  Correct: a user on his desktop has his settings but for those the client wants
  off.

`PROJECT.json` lists the hazards one by one, at their lines, with the
properties that cover them.


## 2. The modules

| Module | Models |
|---|---|
| `PortForward` | the port forwarder, its two threads, the completion port, the peers and the client |
| `PortForwardProofs` | proofs about `PortForward`: types, three inductive invariants, one on top of the other, and the theorems they give |
| `Outbox` | abstract: messages reach the client's channel once, in the order of the sends |
| `SendPath` | the send path with its threads and mutexes; refines `Outbox` |
| `SendPathProofs` | proofs about `SendPath` |
| `VDService` | the service and the agent process |
| `VDServiceProofs` | proofs about `VDService` |
| `MouseInput` | the client's mouse, the put-off move and its timer |
| `MouseInputProofs` | proofs about `MouseInput` |
| `FileXfer` | file transfers with the client, the disk and the user |
| `FileXferProofs` | proofs about `FileXfer` |
| `Clipboard` | incoming chunks and the clipboard, with Windows and the client |
| `MCClipboard` | the worlds the clipboard is checked in |
| `ClipboardProofs` | proofs about `Clipboard` |
| `DisplayConfig` | how the displays' configuration is read and changed, with a WDDM and with an XPDM driver, over Windows: operators only |
| `DesktopLayout` | the table of displays and the handlers that use it; composed with `DisplayConfig`, which it extends |
| `MCDesktopLayout` | what the client asks for |
| `DesktopLayoutProofs` | proofs about `DesktopLayout` and the operators of `DisplayConfig` |
| `DisplaySettings` | the bandwidth settings, the logon and desktop flags, sessions and the registry |
| `DisplaySettingsProofs` | proofs about `DisplaySettings` |

`map` in `PROJECT.json` names, for each definition, the lines it stands for.
Variables have the names of the members they model. The definitions marked
`mutant:` are the plausible bugs each property was tried on; they belong to no
specification.

### PortForward

A handler holds `PortForwarder::mutex` from beginning to end, so each handler
is one action: `ListenTo`, `ConnectRemote`, `AckData` (as `FirstAck` and
`ClientAck`), `SendData`, `StartClosing`, `ShutdownPort`, `ShutdownAll` on the
main thread, `HandleAccept`, `HandleRead`, `HandleWrite`, `HandleConnect` on the
I/O thread. `IoLoop` and `IoWakes` are its loop test and an empty wait,
`DtorClears`, `DtorWakesThread` and `DtorReturns` the destructor. The packet of
a failed operation is deleted without a handler, so failing it in the kernel
(`KernelFails`) is the whole of its life.

What the kernel does is in `ops`: per socket the pending operations and the
packets already queued. `CloseSocket` cancels what is pending and leaves what
is queued, so handlers see packets of connections that are gone. Buffers carry
the position of their first byte in the client's stream instead of bytes; a
write returns how much of it was taken. The client behaves: it uses an id once,
sends within its window and acknowledges no more than it got. Its messages are
dispatched in the step that sends them, since it may send them at any time;
the agent's answers are delayed in `toClient`.

Bounds: one connection at a time, accepted or asked for (nothing is shared
between two connections but the table, and the mutex makes handlers atomic);
a window of 2, reads of 2, so that a read can cross the window, and 3 to 4 bytes each
way, so that the window fills, opens and fills again and a buffer is written in
two or three pieces; acknowledgement intervals of 1 and 2.

### SendPath

The only places where a thread can block inside a critical section are between
`IoSends` (the message is in `commands`, its mutex held) and `IoPosts`
(`set_control_event`, which takes `_control_mutex`), and between `MainPops` (the
DATA command is popped, `_control_mutex` held) and `MainGetsChunk` (which takes
the mutex of `commands`). All other critical sections are single actions, and
who holds a mutex is read off the threads' positions. `write_completion` is
`WriteCompletes(bytes)` with any number of bytes the port takes.

Bounds: chunks of 2 bytes (a chunk may be written in 1 or 2 pieces), 2
messages of the forwarder and 1 of the main thread, 2 other commands in the
control queue.

### VDService

`main` is the place of the main thread in `execute`, `handle_control_event`,
`restart_agent` and `kill_agent`; the service manager's thread notes the session
(`ConsoleConnects`) and queues the restart (`RequestsRestart`) in two steps, as
the code does without a mutex. Waits with a timeout may always time out.

`agents` are the processes that run, `agent` the one launched last, and `given_up`
those that `kill_agent` no longer waits for: a wait that times out, or a handle that
was lost on XP, leaves the process running (`NotEnded`). It may end later or never
(`Dies`), runs on beside the agents launched after it and after the end of the
service, and may take the stop event from one of them, since it waits for the same
auto-reset event (VS:125). `OneAgent` is about the others: that no agent is
launched over one the service still has to reckon with, and that none of them is left
behind.

Bounds: 2 console connects, 2 stops, 2 restarts allowed instead of 10, 3 process ids,
one of which `NotEnded` keeps for the next launch, so that 2 agents may be given up
at a time. `service_stop` has one process and no agent that hangs.

### MouseInput

`HandleMouseEvent` is the whole handler: what changed since the last state is
one input (`Change`), injected at once (`SendInput`) or put off (`PutOff`).
`TimerExpires` is `WM_TIMER`; `DesktopSwitch` the end of a desktop's message
loop, which kills the timer of its window. Whether a move comes too early is
left open, and so is whether Windows refuses an input or a timer (`refused`
remembers it: an input refused for UIPI is lost, other failures stop the agent).
`PassOver` is a state for a display that is unknown or detached. Bounds: one
button and the wheel, 2 positions, 4 events, 1 switch.

### FileXfer

A message is dispatched in the step that sends it. `disk` has the files, each
with its client, its announced size, the bytes written and whether it is open. A
client that goes away queues a RESET (`Disconnect`), and `HandlesReset` comes at any
time, also after the next client's first messages. A late one cancels that client's
transfers without a word, and a START for an id of the client before it replaces the
task and leaves its file open. Two variables remember this for the properties, and
no step but the user's and the agent's end looks at them: `cut` has the transfers a
RESET cancelled under the client that is there, and `orphans` the files whose task was
replaced, which Windows closes with the process. `NoPartialFiles` and `Agreement` allow
these two cases and nothing else. Ids are
used once by a client, and again by the next. Bounds: 2 ids, 2 names, files of 0 to 2
bytes, 2 clients.

### Clipboard

`HandleChunk` is the code's function of that name, at the granularity of
chunks. `RenderFormat` begins the wait of `on_clipboard_request`; while it lasts
only chunks, control commands and the timeout are actions of the agent, as
`event_dispatcher(timeout, 0)` has it. `DesktopSwitch` is the end of one desktop's
message loop and the beginning of the next: the window goes, and what it offered,
and `run()` gives up what the guest owned and tells the client (`LetsGo`).

`world` says what the outside may do: the bounds (`formats`, `parts`, ...), and
in `may` the troubles that may happen (timeouts, a clipboard that cannot be
opened, data that Windows does not take, clients that leave, that change their mind while the guest pastes, that
grab formats only they know, or that send long messages of other kinds; desktop
switches). It is chosen at the beginning and never changes, so one run checks
several worlds, and a property names the troubles it does not hold with. In
`MCClipboard`, `Calm` is long and without trouble (2 formats, 3 chunks, 5
messages, 2 copies, 3 pastes: a second paste meets the leftovers of the first);
the others have 3 chunks, 3 messages and 2 pastes, and 1 format but where the
middle of one message could be taken for another's: with all troubles but the
switch, with those that each property holds with, with switches and clients that
leave, and, for `ClientKnows`, `Moving`: switches, clients that stay, 4 messages and 4
copies or switches, so that a copy, a switch and another copy meet crossing grabs.
`ClientKnows` holds without clients that leave, unknown formats and
a clipboard that cannot be opened; `StreamKept` without long messages of other
kinds, and `Reassembled` without them where clients leave; both of these, and
`PasteIsServed`, for clients that answer in time and do not change their mind
while the guest pastes (`AnswersInTime`); `PasteIsServed` besides for data that
Windows takes. Section 5 says what happens in each of
the excluded cases.

### DisplayConfig and DesktopLayout

`desk` is what Windows shows and `conf` what the next application will make of
it: the agent's copy of the CCD paths and modes, or the registry an XPDM driver
is configured through. `DisplayConfig` has one operator per function of the
interface (`UpdateConfigPath`, `SetMonitorState`, `CustomDisplayEscape`,
`UpdateDevModePosition`, `UpdateDisplaySettings`), and Windows' side of it: an
application is refused unless a display is at the origin, displays move when the
primary one goes (`Reroot`), and any call may be refused. `clean` says that none
was since the present request came in, and `primary_detached` is the CCD class's
note that its copy has lost the primary display.

`get_displays` is one step. `set_displays` calls Windows for one device after the
other, and Windows may call the window procedure back; so `BeginSet`, `SetState`,
`SetSize`, `SetPosition`, `Apply` are its steps, `DisplayChange` (`WM_DISPLAYCHANGE`)
comes between them, and `Refresh` ends `handle_mon_config`. `HandleDepth` is
`set_display_depth`, which does the same without `_updating_display_config`.
A mode that is not there when it is used ends the behaviour (`null`, `dangling`;
see section 5).

`request` and `tries` remember what the client asks for again and again, and how
often in a row without a refusal, neither of a call that sets it nor of a query
in between; `stale` that the displays changed since they were last read. Bounds: 3 devices, 2 of
them QXL (so that inconsistent drivers happen), 2 sizes, 3 requests (with a
negative position, with a display switched off, without positions), 1 change of
the user or the machine, 1 refusal. A device comes and goes only while the agent
is idle.

### DisplaySettings

`OpenDesktop`, `Register`, `LeaveDesktop` are one round of
`input_desktop_message_loop`: the window exists, and is told of a logon, only
between the last two. `DispatchMessage` is `WM_WTSSESSION_CHANGE`, `HandleControl` the
LOGON and SWITCH commands, `HandleDisplayConfig` the client's message, `Load` and
`LoadOptions` the class. `shown` are the settings in force, `own` the user's.
`missed` and `failed` remember what makes the promise void: a notification that
found no window, a registry that could not be read, a shell that did not run yet
when something had to be given back. Bounds: 2 features, 2 commands in the
control queue, 1 failure of the registry; logons, locks and restarts are not
bounded.


## 3. The runs

| Run | What it asks | Properties |
|---|---|---|
| `pf_accepted` | an accepted connection with both sides sending, closing, SHUTDOWN and the destructor; nothing fails and nothing stalls | `OneRead`, `ReadArmed`, `OneWrite`, `ListeningArmed`, `FlowConservation`, `QuietAfterClose`, `ClientWindowReturns`, `ClosingEnds`, `AllDelivered`, `DestructorReturns` |
| `pf_connected` | a connection asked for, beside a port nobody connects to; any operation may fail | `StreamIntact`, `CloseIsFinal`, `AckConservation` |
| `send` | the queues keep in step, nothing is torn, everything goes out | `CommandsAnnounced`, `OneOverlapped`, `WireIntact`, `ImplementsOutbox`, `StopFinishes`, `SendsGoOut` |
| `send_blocked` | *violated:* see section 5 | `SentIsDelivered` |
| `service` | any order of connects, stops, deaths, failed launches, hanging agents; restarts, crash loops and stops come to their end | `RightSession`, `OneAgent`, `Recovers`, `CrashLoopEnds`, `StopEnds` |
| `service_stop` | *violated:* see section 5 | `StopIsHonoured` |
| `mouse` | early moves, the timer, presses, desktop switches, refusals | `ButtonsFollow`, `MovesGoOut` |
| `files` | transfers that end in every way, with RESETs handled early and late | `NoPartialFiles`, `Agreement`, `WholeFilesAreKept` |
| `clip` | copies and pastes that cross, in several chunks, in eight worlds | `Reassembled`, `StreamKept`, `ClientKnows`, `PasteIsServed`, `PasteEnds` |
| `clip_torn` | *violated:* see section 5 | `ForgottenWhenComplete` |
| `layout` | requests, their repetition, refusals, the user's changes and notices late and early, with both drivers | `PointerFollows`, `RequestIsMet`, `PrimaryIsSupplied` |
| `settings` | logons, locks, prompts, restarts, requests in any order | `SettingsFollow`, `LogonLoads` |

Every module has a type invariant, and no run checks it, since the runs' properties
are about more than types. Those of the seven components of section 4 are proved, the clipboard's as
part of its invariant (`Sorts`).

Deadlock is not checked in these runs: the programs stop, and the outside world
is bounded, so every behaviour ends. That nothing blocks on the way is what the
liveness properties say.

`ImplementsOutbox` is a refinement: `written` is the number of the forwarder's
messages whose chunk is complete on the wire, and `queued` has the numbers of
those in the message queue, the other chunks of which are left out, followed by
those in `commands`.

### Fairness

* *PortForward:* the I/O thread takes packets in the order they were queued and
  no handler blocks, so it goes on (weak fairness of `IoThread`); the destructor
  goes on; the peer reads what is written to it, the client reads and
  acknowledges. Nobody has to send anything.
* *SendPath:* a thread that is not blocked runs. A mutex that is free again and
  again is got (strong fairness of the steps that take one), and the wait
  returns for the control event, whose handle is the first. The port takes what
  is written. The I/O thread need not get packets.
* *VDService:* the main thread runs when it can; the service manager finishes a
  notification it began. Agents need not die and nobody has to connect.
* *MouseInput:* the main thread gets to the timer's message.
* *Clipboard:* the wait returns for the control event, the client reads, answers
  what it is asked and finishes the messages it has begun. The timeout is not
  fair: `PasteEnds` shows that a paste does not depend on it.
* *DesktopLayout:* none; `RequestIsMet` counts the repetitions instead, as the
  client repeats its request in practice.
* *DisplaySettings:* the agent's thread goes on, the service starts an agent that
  died, and Windows sends the notification it owes. Users need not do anything,
  and nobody has to ask.


## 4. The proofs

### PortForward

For any ports, ids, window, buffer size and intervals, with failed operations
allowed:

| Theorem | Says |
|---|---|
| `TypesAreKept` | `Spec => []TypeOK` |
| `OneReadOutstanding` | `Spec => []OneRead` |
| `WindowIsBounded` | `Spec => []WindowBound` (checked by no run, since `ReadArmed` implies most of it) |
| `StreamStaysIntact` | `Spec => []StreamIntact` |
| `Inductive` | `Spec => []IInv` |
| `ReadingNeverStalls` | `Spec => []ReadArmed` |
| `WritingNeverStalls` | `Spec => []OneWrite` |
| `AcceptingNeverStalls` | `Spec => []ListeningArmed` |
| `CloseIsTheLastWord` | `Spec => []CloseIsFinal` |
| `NothingAfterClientsClose` | `Spec => QuietAfterClose` |
| `WindowIsConserved` | `Spec => []FlowConservation` |
| `AcksAreConserved` | `Spec => []AckConservation` |

Assumptions: `BoundsAssumption` (types of the bounds), `WindowAssumption`
(window and buffer are positive, intervals between 1 and the window: the client
announces them; the agent itself announces half a window) and
`IdsAssumption` (the ids the agent generates and the ones the client chooses
are different: `connections[id]` does not test it).

`TypeOK` is not inductive: `handle_write` takes the front of `write_buffer`, which
exists only because a write is outstanding only while there is something to
write. `OneRead` is not inductive either: that `ack_data` may post a read when
the window opens needs that none is outstanding when the window is full. So
`IInv` is `TypeOK` and, for every connection, `ConnInv`, a conjunction of

* `FreshPart`: an id nobody has used has left no trace (for `handle_accept` and
  CONNECT, which assume a new entry);
* `DeadPart`: nothing is pending on the socket of an erased connection;
* `WritePart`: at most one write, and only with a buffer to write;
* `ReadPart`: at most one read, only on an acknowledged connection with an open
  window (and possibly one that is closing); `data_sent` below the window plus a buffer;
* `ConnectPart`: a connect is under way only where nothing else has happened,
  so that its completion may post the first read;
* `StreamPart`: the buffers hold the client's bytes without a gap up to what it
  has sent, and the outstanding write begins where the peer's stream ends.

Since `ConnInv` speaks of one connection, the proof has a lemma per action for
the connection it touches and one, `Frame`, for all others.

The last seven theorems need more. Five need a second invariant,
`SafetyInv`: `IInv`, `ListeningArmed` and, for every connection, `Safe`, which is

* `Armed`: `IInv` says that there are never too many reads and writes, `Armed`
  that there are never too few: a read exactly while the window of an open,
  acknowledged connection is open, a write while the buffer has data. It holds
  where operations do not fail (`IoFailures` is false), since the packet of a
  failed one is deleted and nothing is posted in its place;
* `Final`: a CLOSE in the client's channel is its last message, and the
  connection is erased. That handlers send only about connections in the table
  keeps it;
* `Leaving`: what the client has closed and the agent still has is `closing`.
  With it `handle_read` does not send what a read that was outstanding brings.

The two about conservation need a third, on top of that one: for every
connection, `Kept`, which says that the client of a new one has sent, acknowledged
and read nothing (`NewClient`), and that the accounts of the others agree
(`Balanced`): what the agent counts as unacknowledged is on its way to the client or
still to be acknowledged by it, and what the client counts is in the agent's
buffers, counted there as received, or on its way back. While a connection is
being set up there is an account of its own: nothing has been received, nothing
is in the buffers, and the first ACK of a connection the client asked for is the
first of its messages. The totals are of sequences, and defined by recursion; that a
total grows by what is appended, and loses what the front loses, is shown over
the partial sums, with an induction over a set of natural numbers instead of a
formula (`Induction`), which follows from the least element of its complement.

### SendPath

For any size of chunks and any number of messages and commands; assumption:
`SizesAssumption`.

| Theorem | Says |
|---|---|
| `TypeCorrect` | `Spec => []TypeOK` |
| `AlwaysAnnounced` | `Spec => []CommandsAnnounced` |
| `AlwaysOneOverlapped` | `Spec => []OneOverlapped` |
| `WireStaysIntact` | `Spec => []WireIntact` |
| `PathIsAnOutbox` | `Spec => ImplementsOutbox` |

`TypeOK` is not inductive here either: `write_pos`
stays below a chunk only because the write that completes was requested for the
rest of the front chunk (`Describes`), and `write_completion` takes that chunk off
a queue that is not empty only because a write is outstanding exactly then
(`OneOverlapped`). `WireIntact` needs `Ending`: the last byte on the wire is the one
before `write_pos`, of the front chunk. Together they are `SendInv`. The counting
of DATA commands is by the cardinality of their places in the queue
(`CountAppend`, `CountTail`), so that it needs no induction.

The refinement adds `InOrder`: everything in `commands` is the forwarder's; what is
complete on the wire and what waits are together what has been sent; and what
waits is numbered from the next number on, without a gap. With it the one byte
that completes a chunk of the forwarder completes the first one that waits, which
is what `Outbox` says of a write, and all other steps but `IoSends` leave `Outbox`
alone: those that move chunks between the queues because `queued` is the same
before and after (`Numbering`), those that take or append another's chunk because
`Forwarded` passes over it (`ForwardedAppend`, `ForwardedTail`). These
are about a recursive function, by the same induction over a set.

### VDService

For any number of connects, stops and restarts, with failing launches and agents
that hang or die at any time; assumption: `ServiceBounds` (types of the bounds).

| Theorem | Says |
|---|---|
| `AgentIsInConsoleSession` | `Spec => []RightSession` |
| `OneAgentAtATime` | `Spec => []OneAgent` |

Neither is inductive. That no agent but those given up is there when one is launched
rests on `kill_agent`, which looks at `_agent_alive` and not at the process: `Flagged`
says that the process launched last is the only one that may run without having been
given up, and does so only with the flag, `Cleared` that the flag is off where a
launch comes. `FirstLoop` and `EndsClean` carry the exception: a process that
nobody ends was launched while the main thread was in its first loop.
`RightSession` needs in addition that queueing keeps a `RESTART` queued and that only
its own handler takes it off (`QueuedAppend`, `QueuedTail`).

### MouseInput

For any buttons, positions, events and desktop switches; assumption:
`MouseBounds`.

| Theorem | Says |
|---|---|
| `ButtonsAlwaysFollow` | `Spec => []ButtonsFollow` |
| `MouseTypesAreKept` | `Spec => []TypeOK` |

`ButtonsFollow` compares the guest with the client, and the handler computes the
next input from `_buttons_state`: `Following` says that both agree with it.
`OnlyMovesWait` says that what is put off, and may be injected again by the timer,
presses no button and turns no wheel.

### FileXfer

For any ids, names, sizes and clients, with RESETs handled at any time; assumption:
`FileXferBounds`.

| Theorem | Says |
|---|---|
| `TypeIsRight` | `Spec => []TypeOK` |
| `NothingPartial` | `Spec => []NoPartialFiles` |
| `TheyAgree` | `Spec => []Agreement` |
| `WholeFilesStay` | `Spec => WholeFilesAreKept` |

`DiskInv` ties the tasks to the disk: the file of a task is open and as long as
the task's position (`Held`), no two tasks write the same file (`Distinct`, which
`CREATE_NEW` gives), a file nobody has open is whole (`Whole`). Without `Distinct`,
closing one task's file could take another's. `TransferInv` says besides whose files
these are and what their clients know. A task is of the client that is there only if
that client has asked for it, and of an earlier one only while a RESET waits
(`Dated`); what a client has asked for has a name (`Named`); every open file is a task's or an orphan
(`Written`), and an orphan is no task's and of a client that is gone
(`Orphaned`). `Agreed` says what may be in the client's channel for each state of a
transfer, and where the transfer may be one that was cut. `Agreement` is about the
moment when nothing is in the channel; to prove it one has to say what is in it
before.

### Clipboard

For messages of any length and any number of copies, pastes, clients and messages, in
every world; assumption: `ClipboardWorlds`.

| Theorem | Says |
|---|---|
| `TheClientKnows` | `Spec => []ClientKnows` |
| `PastesAreServed` | `Spec => PasteIsServed` |
| `TheStreamIsKept` | `Spec => []StreamKept` |
| `PutTogether` | `Spec => []Reassembled` |

`Sorts` are the types, `SentInParts` what comes in pieces. On top of these each
theorem has an invariant for the worlds it speaks of:

* `GuestOwns`: the guest owns the clipboard only outside of a paste, and the
  client knows. A change of the desktop ends that, and queues the RELEASE, in one step. A grab of the client that crosses the guest's takes the ownership
  from the guest as soon as it comes in;
* `PasteInv`: outside of a paste no answer is due; in one at most one is, to this
  paste (`OneDue`: the request on its way, the client about to answer, or
  in the middle of it), and answers that come in are its pieces (`DataIsDue`). A
  command waits only when nothing is due any more, and then the paste has been
  served. So no answer outlives its paste, which is what would end the next one;
* `StreamInv`: the agent runs, and has all of what the client is in the middle
  of. It needs `PasteInv`: the pieces in `_in_msg` are forgotten with the end of a
  wait, and may be because they are the answer's;
* `InStep`, for clients that stay: what is in `_in_msg` is what the client has sent
  so far of the message it is in the middle of. It needs no assumption about the
  time answers take.

### DisplaySettings

For any features and any number of logons, locks, restarts and requests; assumption:
`SettingsConstants`.

| Theorem | Says |
|---|---|
| `SettingsAreTyped` | `Spec => []SettingsTypeOK` |
| `TheSettingsFollow` | `Spec => []SettingsFollow` |

`SettingsFollow` is about an agent at rest. `FollowsOrWill` says what holds on the
way: the settings are in force, or there is something ahead that makes the agent
load them (`LogonAhead`: the logon not yet announced, its notification, its
command, its flag, or the first load), or the property does not apply. Each step
takes the obligation one place further. `OnInputDesktop` says that an agent that has
not been told of a change is on the desktop it believes to be on, so that a
notification on the logon desktop is kept in `_logon_occured` and not lost;
`Untouched` that a client which asked for nothing has changed nothing, which
covers the load that is passed over.

### DesktopLayout

For any devices, sizes and drivers, any requests and any number of refusals and
changes. Assumptions: `DisplayBounds` (there are finitely many devices, numbered
from 1, and a size is positive) and `LayoutConstants` (a request is a sequence of
monitors, each on or off, with a place and with a size that exists; Windows
puts displays at places with integer coordinates, the origin among them).

| Theorem | Says |
|---|---|
| `LayoutTypes` | `Spec => []LayoutTypeOK` |
| `PointerIsRight` | `Spec => []PointerFollows` |
| `PrimaryIsAlwaysSupplied` | `Spec => PrimaryIsSupplied` |
| `RequestsAreMet` | `Spec => []RequestIsMet` |

None of the four is inductive. `LayoutTypeOK` needs to know that `set_displays`,
in the middle of its loop, is at a device there is and the table has a mode for
(`Looping`), and the types of the configuration, which it leaves open (`Typed`).
`PointerFollows` is about an agent at rest; `Pointed` says the same whenever no
request is carried out and no notice of a change is on its way, which includes
the steps of `set_display_depth`: these write what the table holds already. When
a request has been carried out, and when a notice comes, the table is read
again, and what is proved about `get_displays` is that it `Mirrors` the desktop:
each display once, under the number of its device, with its positions from the
origin (`RankFacts` and `IdFacts`: the numbers, defined by cardinalities, differ),
and that the normalisation moves the origin to the top left corner and makes the
total the extent of the desktop. That rests on the least and greatest elements
of finite sets of integers (`MinOf`, `MaxOf`), which are shown to exist by
induction over the cardinality.

`PrimaryIsSupplied` needs a third invariant, `Aligned`, on top of these two. It
says, of a WDDM driver and a table that is not stale: the table knows which
displays are at the origin (`Knowing`) and, outside of a request, which are on
(`Attaching`); while a request is carried out the agent has noticed that it took
the primary display away (`primary_detached`), so that `verify_primary_position`
will choose another one, or some path of the configuration is at the origin and
is set there again when its device is visited (`Anchored`): positions are set
relative to `normal`, the place in the table of the entry that was primary.

`RequestIsMet` counts the repetitions of a request, so its invariant, `Nearing`,
has to say how far each of them gets. Between two tries the displays are what is
asked for (`Met`), or what was tried and the displays still to be switched on
(`Lacking`) together are fewer than the tries there are (`Near`). A try can only
end in two ways (`Passing`). Either it gets through all devices, and then every path
of the configuration is as the table has it, measured from the primary display
(`Set`): a move of all of them by `verify_primary_position` or by Windows
(`Reroot`) leaves what is asked for intact. Or it stops at a device that it has just switched
on, for which there is no mode yet (`Stopped`), and then `Lacking` has one less.
Windows does take that configuration because a path that is off is at the origin
(`Hidden`), and what is put in front of it at the end because of `Aligned`, the
invariant of `PrimaryIsSupplied`. The first try needs no induction: some display
is on, so less than all are lacking. All of it holds as long as the request is
the same, no call is refused, the displays change by nobody else's hand and the devices
are of one driver (`Counting`, `Consistent` in it).

The proof has found an error in how the model counted: a query refused to
`WM_DISPLAYCHANGE` between two tries leaves a table with every display detached,
and the next try, which starts from it, may switch one on again and stop there;
two devices and two requests are enough for TLC to show it. `HandleMonConfig` now
starts the count anew after such a refusal. The program's own state is not
concerned.

TLC checked `Typed`, `Looping`, `Pointed`, `Aligned` and `Nearing` on the instance of
the run `layout` before they were proved, and `Nearing` on two QXL devices with two
changes as well.

### What is only model-checked

Every liveness property (and what needs `ENABLED`), `LogonLoads` among them. Every
invariant and every action property that a run checks has a theorem.

Induction over data is not available as the library states it, with an operator
as a parameter. Where a recursion is a function of the module's own, the set-form
`Induction` takes its place; folds of the community modules are out of reach, and
`Total` and `Forwarded` are recursive functions for that reason.


## 5. Where the code does something else than it says

Each of the three has a run that shows it.

1. **The two queues' mutexes are taken in opposite orders** (`send_blocked`).
   `send()` logs "Sending command" (VA:202) and calls `set_control_event` with
   the mutex of `commands` held; `handle_control_event` calls `get_chunk` with
   `_control_mutex` held. When the main thread has popped the DATA command of
   one message while the I/O thread sends the next, both wait for ever.
   `StopFinishes` and `SendsGoOut` show that nothing else holds a message up:
   they exclude exactly this state (`Deadlocked`).
2. **A restart behind a stop undoes it** (`service_stop`). `control_handler`
   logs "Stop service" (VS:277) and reports STOP_PENDING; `handle_control_event`
   assigns the result of `restart_agent(true)`, always true, to `_running`
   (VS:259).
3. **The end of a paste forgets a message that is still coming in**
   (`clip_torn`). The comment says "reset incoming message state only upon
   completion" (VA:1101); the chunks that follow the answer may already be in
   `_in_msg` when the wait ends. The next of them is taken for a header, and the
   agent stops ("Invalid protocol"). `StreamKept` is stated without such messages
   (`Files` off), and `Reassembled` where clients also leave.

Seen while modelling, without a run of their own; the properties are stated so
that they do not depend on them:

* a failed accept is not posted again, so a port can stay in the table with
  nothing accepting on it (PF:352); a failed read or write is not reported;
* the socket of an accept handled after its port was shut down is neither kept
  nor closed, since `handle_to` clears `client` whatever `handle_accept` did
  (PF:179);
* after a failed first launch the service stays in its first loop: an agent
  launched later is not watched (VS:398), and not killed at the end (the
  exception in `OneAgent`);
* `handle_mouse_event` clears `_input` (VA:643) although a put-off move may be
  waiting in it, and computes the new one against the position of that move: a
  press at the same place is injected where the guest's pointer was before, and
  a state that changes nothing drops the move. `MovesGoOut` is about moves that no
  event replaces;
* a START for an id that has a task, which a client can send before the RESET for the
  one before it is handled, replaces the task without closing its file (FX:112; hence
  the exception for `orphans` in `NoPartialFiles`);
* the RESET of a client that went away is only queued, and when it is late it cancels
  the transfers of the next client, which is not told before it sends data (VA:1383;
  hence the exception for `cut` in `Agreement`);
* an agent that `kill_agent` gave up (VS:758) is taken for a dead one. It is left behind
  when the service ends, and gets a second one beside it: at the next console connect;
  after a death, when two connects during the wait launch an agent and fail to end it
  (VS:431, where the comment above expects an agent that "was killed manually (or
  crashed)"). Hence `OneAgent` is about the others;
* a client that goes away in the middle of a long message that is no answer
  leaves its beginning in `_in_msg` (VA:431); an answer is forgotten with the wait
  that the RESET ends, which `StreamKept` checks;
* an answer that comes after its paste timed out ends the wait of the next one
  (VA:1473), which is then not served, and the answer to that one comes when
  nobody waits for it (hence `AnswersInTime`);
* a GRAB during a paste clears `_grab_types` before `OpenClipboard` fails
  (VA:1120; hence `ClientKnows` excludes refused grabs and `PasteIsServed` clients
  that change their mind). When the grabs of both sides cross each may end up
  taking the other for the owner;
* a change of the desktop takes what the client offered off the clipboard, and
  neither tells the client nor changes `_clipboard_owner` (VA:534): `run()` does so
  only for what the guest owned (VA:393);
* `set_displays` reads through a null pointer for a device whose entry in the
  table is `NULL` (DL:160, state `null`); a device that comes between
  `get_displays` and `set_displays` can be one;
* `set_display_depth` does not set `_updating_display_config`, so that a
  `WM_DISPLAYCHANGE` delivered inside one of its calls deletes the `DisplayMode`
  it goes on to use (VA:859, state `dangling`). Whether Windows delivers it there
  is not in the repository;
* when the devices are of different drivers `get_displays` and `set_displays` do
  nothing, and the client's positions stay in the table without being
  normalised; a query of the configuration that fails shows every display as
  detached, to the request that follows as well (section 4); the result of `EnumDisplaySettings` is not looked at, so an inactive
  display may get the mode of the one before (DL:90);
* a display that is switched on has no mode when its position is set, so
  `set_displays` stops at it; repeating the request gets further each time
  (`RequestIsMet`);
* `_path_state` matters in the constructor only, and `set_path_state` applies a
  configuration of its own without `verify_primary_position`;
* `reload_from_registry` rethrows without an exception to rethrow, which ends the
  agent (`LoadOptions`, third case; the service starts it again);
* a logon notification is lost when it is posted to a window that goes with its
  desktop, or comes while there is none (VA:534), and the notification is about
  any session's logon, not only the agent's (`NOTIFY_FOR_ALL_SESSIONS`);
* settings that are to be given back while the user's `explorer.exe` does not run
  yet are not, and nothing tries again.


## 6. Not modelled, and the plan

Not modelled, and not planned: logging, string and path helpers, installing the
service, GDI image conversion, impersonation (a failed one is a failed START in
`FileXfer`), the header reads of `read_completion`, the clipboard viewer chain
before Windows 7 (but for the first message of a new viewer), the depth of
displays, loading the CCD interface from user32, cloned paths, the monitor
escape's effect inside the driver, single registry values that are missing, a
QXL device whose number cannot be read. Multi-chunk messages on the server's
port are excluded by the code's own comment (VA:1445). What the desktop event
thread does with an agent that was deleted is undefined, and the model stops the
thread there.

Left of the plan:

1. The capabilities of the client (`_client_caps`, `_max_clipboard`), which
   RESET does not clear, and clients without `CLIPBOARD_BY_DEMAND`.
2. Ids one client uses twice in `FileXfer`.
3. An abstract specification of the mouse (every button change in order, the
   position of the client in the end), with the exception of replaced moves
   stated in it, and `MouseInput` shown to implement it; its composition with
   the table of `DesktopLayout`.
4. The composition of `SendPath` with the forwarder's `toClient`.

Questions that share an instance share a run, so that a full pass stays short.
