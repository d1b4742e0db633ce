------------------------------- MODULE FileXfer -------------------------------
(***************************************************************************)
(* Files the client copies to the guest's desktop (vdagent/file_xfer.cpp,  *)
(* with its callers in vdagent/vdagent.cpp).  The client asks with START,  *)
(* is told CAN_SEND_DATA, sends the file in pieces and is told how it      *)
(* ended; it may cancel, and it may go away.  A client that goes away is   *)
(* noticed at once, but its transfers are only cancelled when the main     *)
(* thread gets to the RESET in its control queue, which may be after it    *)
(* has read the next client's first messages.                              *)
(*                                                                         *)
(* The client, the file system and the user are modelled from how the code *)
(* uses them: a message is dispatched in the step that sends it, statuses  *)
(* travel in toClient and are lost with the client.  The contents of a     *)
(* file are counted, not spelt out.                                        *)
(***************************************************************************)
EXTENDS Integers, Sequences, FiniteSets

CONSTANTS
    Ids,            \* the ids a client gives its transfers
    Names,          \* the names of the files
    MaxSize,        \* bound: the size of a file
    MaxClients      \* bound: clients, one after the other

NoName == "no name"     \* of no file

ASSUME FileXferBounds ==
    /\ NoName \notin Names
    /\ MaxSize \in Nat \ {0} /\ MaxClients \in Nat \ {0}

VARIABLES
    tasks,      \* FileXfer::_tasks
    disk,       \* the files on the desktop
    locked,     \* VDAgent::_session_is_locked
    resets,     \* the RESET commands in VDAgent::_control_queue
    agent,      \* whether the agent runs
    client,     \* the number of the client, and whether it is there
    cl,         \* per id: the client's side of the transfer
    toClient    \* the statuses on their way to the client

\* What has happened, for the properties; no step depends on it.
VARIABLES
    orphans,    \* the files whose task a START with its id has replaced
    cut         \* the transfers of the client that a RESET has cancelled

history == <<orphans, cut>>
vars    == <<tasks, disk, locked, resets, agent, client, cl, toClient, history>>

NoTask == [name |-> NoName, size |-> 0, pos |-> 0]
Tasks  == [name : Names, size : 0 .. MaxSize, pos : 0 .. MaxSize]
Absent == [client |-> 0, size |-> 0, bytes |-> 0, open |-> FALSE]
Files  == [client : 0 .. MaxClients, size : 0 .. MaxSize, bytes : 0 .. MaxSize, open : BOOLEAN]

\* A file of the user's own; no client has the number 0.
UsersFile == [Absent EXCEPT !.size = 1, !.bytes = 1]

Results == {"CAN_SEND_DATA", "SUCCESS", "ERROR"}
Idle    == [state |-> "idle", name |-> NoName, size |-> 0, sent |-> 0]

TypeOK ==
    /\ tasks \in [Ids -> Tasks \cup {NoTask}]
    /\ disk \in [Names -> Files]
    /\ locked \in BOOLEAN /\ resets \in 0 .. MaxClients
    /\ agent \in {"running", "stopped"}
    /\ client \in [number : 1 .. MaxClients, here : BOOLEAN]
    /\ cl \in [Ids -> [state : {"idle", "asked", "sending", "done", "failed", "cancelled"},
                       name : Names \cup {NoName}, size : 0 .. MaxSize, sent : 0 .. MaxSize + 1]]
    /\ toClient \in Seq([id : Ids, result : Results])
    /\ orphans \subseteq Names /\ cut \subseteq Ids

Init ==
    /\ tasks = [id \in Ids |-> NoTask]
    /\ disk \in [Names -> {Absent, UsersFile}]
    /\ locked = FALSE /\ resets = 0 /\ agent = "running"
    /\ client = [number |-> 1, here |-> TRUE]
    /\ cl = [id \in Ids |-> Idle]
    /\ toClient = <<>> /\ orphans = {} /\ cut = {}

------------------------------------------------------------------------------
(***************************************************************************)
(* The messages of the client.                                             *)
(***************************************************************************)
Dispatches ==
    /\ agent = "running" /\ client.here
    /\ UNCHANGED <<locked, resets, agent, client, cut>>

StatusQuiet(id, result) ==                      \* mutant: failures are not told
    IF result = "ERROR" THEN UNCHANGED toClient
    ELSE toClient' = Append(toClient, [id |-> id, result |-> result])

Status(id, result) == toClient' = Append(toClient, [id |-> id, result |-> result])

\* CloseHandle and, unless the file is whole, DeleteFile; the task is erased.
Closed(name) == [disk EXCEPT ![name].open = FALSE]
Deleted(name) == [disk EXCEPT ![name] = Absent]
Forget(id) == tasks' = [tasks EXCEPT ![id] = NoTask]

\* CreateFile(CREATE_NEW): a file that is there is not opened.
CreatesAlways(name) == ~disk[name].open         \* mutant: CREATE_ALWAYS
Creates(name) == disk[name] = Absent

\* START: the session is locked, the file cannot be made, or it is made.  An
\* older task of the same id is only replaced, and its file stays open.
Start(id, name, size) ==
    /\ Dispatches
    /\ cl[id].state = "idle"
    /\ cl' = [cl EXCEPT ![id] = [state |-> "asked", name |-> name, size |-> size, sent |-> 0]]
    /\ \/ /\ ~locked /\ Creates(name)
          /\ disk' = [disk EXCEPT ![name] = [client |-> client.number, size |-> size,
                                             bytes |-> 0, open |-> TRUE]]
          /\ tasks' = [tasks EXCEPT ![id] = [name |-> name, size |-> size, pos |-> 0]]
          /\ orphans' = orphans \cup ({tasks[id].name} \ {NoName})
          /\ Status(id, "CAN_SEND_DATA")
       \/ Status(id, "ERROR") /\ UNCHANGED <<tasks, disk, orphans>>

\* DATA: the file is written, finished or given up.  The client may send more
\* than it announced; nothing is sent once, for a file of no bytes.
Untold(id) == \A i \in 1 .. Len(toClient) : toClient[i].id # id

LongerAllowed(pos, size) == FALSE               \* mutant: the length is not tested
Longer(pos, size) == pos > size

Finished(pos, size) == pos >= size

Data(id, n) ==
    /\ Dispatches
    /\ cl[id].state = "sending" /\ cl[id].sent + n <= cl[id].size + 1
    /\ n = 0 => cl[id].size = 0 /\ Untold(id)
    /\ cl' = [cl EXCEPT ![id].sent = @ + n] /\ UNCHANGED orphans
    /\ LET task == tasks[id]
           pos  == task.pos + n
       IN  \/ /\ task = NoTask
              /\ Status(id, "ERROR")
              /\ UNCHANGED <<tasks, disk>>
           \/ /\ task # NoTask
              /\ disk' = Deleted(task.name)     \* too long, or WriteFile failed
              /\ Status(id, "ERROR") /\ Forget(id)
           \/ /\ task # NoTask /\ ~Longer(pos, task.size)
              /\ Finished(pos, task.size)
              /\ disk' = [Closed(task.name) EXCEPT ![task.name].bytes = @ + n]
              /\ Status(id, "SUCCESS") /\ Forget(id)
           \/ /\ task # NoTask /\ ~Longer(pos, task.size)
              /\ ~Finished(pos, task.size)
              /\ disk' = [disk EXCEPT ![task.name].bytes = @ + n]
              /\ tasks' = [tasks EXCEPT ![id].pos = pos]
              /\ UNCHANGED toClient

\* STATUS: only a cancellation is taken.
Cancel(id) ==
    /\ Dispatches
    /\ cl[id].state \in {"asked", "sending"}
    /\ cl' = [cl EXCEPT ![id].state = "cancelled"]
    /\ \/ tasks[id] # NoTask /\ disk' = Deleted(tasks[id].name) /\ Forget(id)
       \/ tasks[id] = NoTask /\ UNCHANGED <<tasks, disk>>
    /\ UNCHANGED <<toClient, orphans>>

------------------------------------------------------------------------------
(***************************************************************************)
(* The reset, for a client that went away and for the agent's end.         *)
(***************************************************************************)
ResetForgets(left) ==           \* mutant: the tasks are not cancelled
    /\ tasks' = [id \in Ids |-> NoTask]
    /\ UNCHANGED disk

\* Every task is cancelled; the files that are left to Windows are closed only.
Reset(left) ==
    /\ disk' = [n \in Names |->
                  IF \E id \in Ids : tasks[id].name = n THEN Absent
                  ELSE IF n \in left THEN [disk[n] EXCEPT !.open = FALSE] ELSE disk[n]]
    /\ tasks' = [id \in Ids |-> NoTask]

Disconnect ==
    /\ agent = "running" /\ client.here
    /\ client' = [client EXCEPT !.here = FALSE]
    /\ resets' = resets + 1
    /\ cl' = [id \in Ids |-> Idle]
    /\ toClient' = <<>> /\ cut' = {}
    /\ UNCHANGED <<tasks, disk, locked, agent, orphans>>

HandlesReset ==
    /\ agent = "running" /\ resets > 0
    /\ resets' = resets - 1
    /\ Reset({})
    /\ cut' = cut \cup {id \in Ids : tasks[id] # NoTask /\ cl[id].state # "idle"}
    /\ UNCHANGED <<locked, agent, client, cl, toClient, orphans>>

\* The handles of a process are closed when it ends.
AgentEnds ==
    /\ agent = "running"
    /\ agent' = "stopped"
    /\ Reset(orphans)
    /\ UNCHANGED <<locked, resets, client, cl, toClient, history>>

------------------------------------------------------------------------------
(***************************************************************************)
(* The client and the user.                                                *)
(***************************************************************************)
ConnectsClient ==
    /\ ~client.here /\ client.number < MaxClients
    /\ client' = [number |-> client.number + 1, here |-> TRUE]
    /\ UNCHANGED <<tasks, disk, locked, resets, agent, cl, toClient, history>>

Told(c, result) ==
    CASE result = "CAN_SEND_DATA" /\ c.state = "asked" -> [c EXCEPT !.state = "sending"]
      [] result = "SUCCESS" /\ c.state = "sending"     -> [c EXCEPT !.state = "done"]
      [] result = "ERROR" /\ c.state \in {"asked", "sending"} -> [c EXCEPT !.state = "failed"]
      [] OTHER -> c

ClientReceives ==
    /\ toClient # <<>>
    /\ toClient' = Tail(toClient)
    /\ LET m == Head(toClient) IN cl' = [cl EXCEPT ![m.id] = Told(@, m.result)]
    /\ UNCHANGED <<tasks, disk, locked, resets, agent, client, history>>

LockOrUnlock ==
    /\ locked' = ~locked
    /\ UNCHANGED <<tasks, disk, resets, agent, client, cl, toClient, history>>

\* The user may move a file away that is not open.
UserRemoves(name) ==
    /\ disk[name] # Absent /\ ~disk[name].open
    /\ disk' = [disk EXCEPT ![name] = Absent]
    /\ orphans' = orphans \ {name}
    /\ UNCHANGED <<tasks, locked, resets, agent, client, cl, toClient, cut>>

------------------------------------------------------------------------------
Next ==
    \/ \E id \in Ids, name \in Names, size \in 0 .. MaxSize : Start(id, name, size)
    \/ \E id \in Ids, n \in 0 .. MaxSize : Data(id, n)
    \/ \E id \in Ids : Cancel(id)
    \/ Disconnect \/ HandlesReset \/ AgentEnds
    \/ ConnectsClient \/ ClientReceives \/ LockOrUnlock
    \/ \E name \in Names : UserRemoves(name)

Spec == Init /\ [][Next]_vars

------------------------------------------------------------------------------
Transfers(name) == {id \in Ids : tasks[id].name = name}

\* The transfers of the client that is there.
Current(name) == client.here /\ disk[name].client = client.number

\* No partial file is left behind: a file that is not as long as announced is
\* still being written, by exactly one task, in whatever way its client, the
\* session or the agent ended the others; and by a task of the client that is
\* there, unless a RESET is still to be handled.  Nobody writes, closes or
\* deletes the file of a client that is gone whose id the next client has used
\* in a START before the RESET was handled.
NoPartialFiles ==
    \A name \in Names :
        disk[name].bytes # disk[name].size \/ disk[name].open
            => \/ /\ Cardinality(Transfers(name)) = 1
                  /\ resets > 0 \/ Current(name)
               \/ name \in orphans /\ disk[name].client < client.number

\* The client and the agent agree on a transfer: while the client is sending
\* and has been told nothing to the contrary, the agent has its task, at the
\* position the client has sent; but a RESET for the client before it may have
\* cancelled it, and then the agent has none.
Agreement ==
    \A id \in Ids :
        /\ agent = "running"
        /\ cl[id].state = "sending"
        /\ Untold(id)
        => \/ tasks[id].pos = cl[id].sent /\ tasks[id].name = cl[id].name
           \/ id \in cut /\ tasks[id] = NoTask

\* The agent never touches a file that is whole: neither the user's, nor one
\* that a transfer finished, when a later transfer of the name fails or ends.
WholeFilesAreKept ==
    [][\A name \in Names :
          disk[name] # Absent /\ ~disk[name].open /\ disk'[name] # disk[name]
              => UserRemoves(name)]_vars

==============================================================================
