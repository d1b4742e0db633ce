---------------------------- MODULE FileXferProofs ----------------------------
(***************************************************************************)
(* NoPartialFiles, Agreement and WholeFilesAreKept of FileXfer, for any    *)
(* number of transfers, files and clients, and whenever the RESET of a     *)
(* client that went away is handled.                                       *)
(***************************************************************************)
EXTENDS FileXfer, SequenceTheorems, FiniteSetTheorems, TLAPS

\* The file of a task is open, and as far as the task says.
Held(id) ==
    tasks[id] # NoTask =>
        LET f == disk[tasks[id].name]
        IN  /\ f.open /\ f.size = tasks[id].size /\ f.bytes = tasks[id].pos
            /\ tasks[id].pos <= tasks[id].size

\* No two tasks write the same file.
Distinct ==
    \A i, j \in Ids : tasks[i] # NoTask /\ tasks[i].name = tasks[j].name => i = j

\* A file that is closed is as long as announced, or was left to Windows.
Whole(name) == ~disk[name].open => disk[name].bytes = disk[name].size \/ name \in orphans

\* A RESET is queued for a client that went away.
ResetsOwed == resets <= client.number /\ (client.here => resets < client.number)

\* What holds of the files.
DiskInv ==
    /\ TypeOK /\ Distinct /\ ResetsOwed
    /\ \A id \in Ids : Held(id)
    /\ \A name \in Names : Whole(name)

------------------------------------------------------------------------------
\* The agent's task is where the client is, or a RESET has cancelled it.
Matches(id) == tasks[id].pos = cl[id].sent /\ tasks[id].name = cl[id].name
Cut(id)     == id \in cut /\ tasks[id] = NoTask
Settled(id) == Matches(id) \/ Cut(id)

About(id) == {i \in 1 .. Len(toClient) : toClient[i].id = id}

\* A transfer the client has asked for is told to go on once, and nothing else;
\* one that goes on is told nothing but its end.
Agreed(id) ==
    /\ cl[id].state = "idle" => Untold(id)
    /\ cl[id].state = "asked" =>
          \A i \in About(id) :
              toClient[i].result = "CAN_SEND_DATA" => Settled(id) /\ About(id) = {i}
    /\ cl[id].state = "sending" =>
          /\ \A i \in About(id) : toClient[i].result # "CAN_SEND_DATA"
          /\ Untold(id) => Settled(id)

\* What the client has asked for has a name.
Named(id) == cl[id].state # "idle" => cl[id].name \in Names

\* A task is the present client's if it has asked for it, and an earlier one's
\* only while a RESET is queued.
Dated(id) ==
    tasks[id] # NoTask =>
        LET name == tasks[id].name
        IN  /\ 0 < disk[name].client /\ disk[name].client <= client.number
            /\ cl[id].state = "idle" => ~Current(name)
            /\ resets > 0 \/ Current(name)

\* A file whose task was replaced is an earlier client's, and nobody's now.
Orphaned(name) ==
    /\ 0 < disk[name].client /\ disk[name].client < client.number
    /\ \A id \in Ids : tasks[id].name # name

\* A file that is open is a task's, or its task was replaced.
Written ==
    \A name \in Names :
        disk[name].open => name \in orphans \/ \E id \in Ids : tasks[id].name = name

\* Whose the files are, and what the clients think of them.
TransferInv ==
    /\ \A id \in Ids : Dated(id) /\ Named(id)
    /\ \A name \in orphans : Orphaned(name)
    /\ Written
    /\ agent = "running" => \A id \in Ids : Agreed(id)

------------------------------------------------------------------------------
(***************************************************************************)
(* What the handlers do to the files.                                      *)
(***************************************************************************)
DiskPart ==
    /\ tasks \in [Ids -> Tasks \cup {NoTask}] /\ disk \in [Names -> Files]
    /\ Distinct
    /\ \A id \in Ids : Held(id)
    /\ \A name \in Names : Whole(name)

LEMMA TaskTypes ==
    ASSUME tasks \in [Ids -> Tasks \cup {NoTask}], NEW id \in Ids
    PROVE  /\ tasks[id] \in Tasks \cup {NoTask}
           /\ tasks[id] # NoTask => /\ tasks[id].name \in Names
                                    /\ tasks[id].size \in 0 .. MaxSize
                                    /\ tasks[id].pos \in 0 .. MaxSize
           /\ tasks[id].name \in Names => tasks[id] # NoTask
<1>1. tasks[id] \in Tasks \cup {NoTask}
  OBVIOUS
<1>2. NoTask.name = NoName /\ NoName \notin Names
  BY FileXferBounds DEF NoTask
<1>3. \A t \in Tasks : t.name \in Names /\ t.size \in 0 .. MaxSize /\ t.pos \in 0 .. MaxSize
  BY DEF Tasks
<1> QED
  BY <1>1, <1>2, <1>3

LEMMA FileTypes ==
    /\ Absent \in Files /\ UsersFile \in Files
    /\ ~Absent.open /\ Absent.bytes = Absent.size
    /\ ~UsersFile.open /\ UsersFile.bytes = UsersFile.size
<1>1. 0 \in 0 .. MaxSize /\ 1 \in 0 .. MaxSize /\ 0 \in 0 .. MaxClients
  BY FileXferBounds
<1> QED
  BY <1>1 DEF Absent, UsersFile, Files

\* The task ends, and its file is closed whole or deleted.
LEMMA TaskEnds ==
    ASSUME DiskPart, NEW id \in Ids, tasks[id] # NoTask,
           NEW f \in Files, ~f.open, f.bytes = f.size,
           disk' = [disk EXCEPT ![tasks[id].name] = f], Forget(id), UNCHANGED orphans
    PROVE  DiskPart'
<1> DEFINE n == tasks[id].name
<1>1. n \in Names
  BY TaskTypes DEF DiskPart
<1>2. /\ tasks' \in [Ids -> Tasks \cup {NoTask}] /\ disk' \in [Names -> Files]
      /\ tasks'[id] = NoTask
      /\ \A j \in Ids \ {id} : tasks'[j] = tasks[j]
      /\ disk'[n] = f
      /\ \A m \in Names \ {n} : disk'[m] = disk[m]
  BY <1>1 DEF DiskPart, Forget
<1>3. \A j \in Ids : j # id /\ tasks[j] # NoTask => tasks[j].name \in Names \ {n}
  BY TaskTypes DEF DiskPart, Distinct
<1> HIDE DEF n
<1>4. Distinct'
  <2> SUFFICES ASSUME NEW i \in Ids, NEW j \in Ids, tasks'[i] # NoTask,
                      tasks'[i].name = tasks'[j].name
               PROVE  i = j
    BY DEF Distinct
  <2>1. i # id /\ tasks'[i] = tasks[i]
    BY <1>2
  <2>2. CASE j = id
    <3>1. tasks[i].name \in Names /\ NoTask.name = NoName
      BY <1>3, <2>1 DEF NoTask
    <3> QED
      BY <1>2, <2>1, <2>2, <3>1, FileXferBounds
  <2>3. CASE j # id
    BY <1>2, <2>1, <2>3 DEF DiskPart, Distinct
  <2> QED
    BY <2>2, <2>3
<1>5. ASSUME NEW j \in Ids PROVE Held(j)'
  <2> SUFFICES ASSUME tasks'[j] # NoTask
               PROVE  /\ disk'[tasks'[j].name].open
                      /\ disk'[tasks'[j].name].size = tasks'[j].size
                      /\ disk'[tasks'[j].name].bytes = tasks'[j].pos
                      /\ tasks'[j].pos <= tasks'[j].size
    BY DEF Held
  <2>1. j # id /\ tasks'[j] = tasks[j] /\ disk'[tasks[j].name] = disk[tasks[j].name]
    BY <1>2, <1>3
  <2> QED
    BY <2>1 DEF DiskPart, Held
<1>6. ASSUME NEW m \in Names PROVE Whole(m)'
  BY <1>2 DEF DiskPart, Whole
<1> QED
  BY <1>2, <1>4, <1>5, <1>6 DEF DiskPart

\* CREATE_NEW gives a task a file of its own; the task it replaces is lost.
LEMMA TaskBegins ==
    ASSUME DiskPart, NEW id \in Ids, NEW name \in Names, NEW size \in 0 .. MaxSize,
           NEW f \in Files, f.open, f.size = size, f.bytes = 0, Creates(name),
           disk' = [disk EXCEPT ![name] = f],
           tasks' = [tasks EXCEPT ![id] = [name |-> name, size |-> size, pos |-> 0]],
           orphans \subseteq orphans'
    PROVE  DiskPart'
<1> DEFINE t == [name |-> name, size |-> size, pos |-> 0]
<1>0. 0 \in 0 .. MaxSize
  BY FileXferBounds
<1>1. t \in Tasks /\ t.name = name /\ t.size = size /\ t.pos = 0
  BY <1>0 DEF Tasks
<1>2. /\ tasks' \in [Ids -> Tasks \cup {NoTask}] /\ disk' \in [Names -> Files]
      /\ tasks'[id] = t
      /\ \A j \in Ids \ {id} : tasks'[j] = tasks[j]
      /\ disk'[name] = f
      /\ \A m \in Names \ {name} : disk'[m] = disk[m]
  BY <1>1 DEF DiskPart
<1>3. \A j \in Ids : tasks[j] # NoTask => tasks[j].name \in Names \ {name}
  BY TaskTypes, FileTypes DEF DiskPart, Held, Creates
<1>4. \A j \in Ids : tasks[j].name # name
  <2> SUFFICES ASSUME NEW j \in Ids, tasks[j].name = name PROVE FALSE
    OBVIOUS
  <2>1. tasks[j] # NoTask
    BY TaskTypes DEF DiskPart
  <2> QED
    BY <1>3, <2>1
<1> HIDE DEF t
<1>5. Distinct'
  <2> SUFFICES ASSUME NEW i \in Ids, NEW j \in Ids, tasks'[i] # NoTask,
                      tasks'[i].name = tasks'[j].name
               PROVE  i = j
    BY DEF Distinct
  <2>1. CASE i # id /\ j # id
    BY <1>2, <2>1 DEF DiskPart, Distinct
  <2>2. CASE i = id \/ j = id
    BY <1>1, <1>2, <1>4, <2>2
  <2> QED
    BY <2>1, <2>2
<1>6. ASSUME NEW j \in Ids PROVE Held(j)'
  <2> SUFFICES ASSUME tasks'[j] # NoTask
               PROVE  /\ disk'[tasks'[j].name].open
                      /\ disk'[tasks'[j].name].size = tasks'[j].size
                      /\ disk'[tasks'[j].name].bytes = tasks'[j].pos
                      /\ tasks'[j].pos <= tasks'[j].size
    BY DEF Held
  <2>1. CASE j = id
    BY <1>1, <1>2, <2>1
  <2>2. CASE j # id
    <3>1. tasks'[j] = tasks[j] /\ disk'[tasks[j].name] = disk[tasks[j].name]
      BY <1>2, <1>3, <2>2
    <3> QED
      BY <3>1 DEF DiskPart, Held
  <2> QED
    BY <2>1, <2>2
<1>7. ASSUME NEW m \in Names PROVE Whole(m)'
  BY <1>2 DEF DiskPart, Whole
<1> QED
  BY <1>2, <1>5, <1>6, <1>7 DEF DiskPart

\* A piece of the file is written.
LEMMA TaskGoesOn ==
    ASSUME DiskPart, NEW id \in Ids, tasks[id] # NoTask, NEW n \in 0 .. MaxSize,
           tasks[id].pos + n <= tasks[id].size,
           disk' = [disk EXCEPT ![tasks[id].name].bytes = @ + n],
           tasks' = [tasks EXCEPT ![id].pos = tasks[id].pos + n], UNCHANGED orphans
    PROVE  DiskPart'
<1> DEFINE name == tasks[id].name
           t == [tasks[id] EXCEPT !.pos = tasks[id].pos + n]
           f == [disk[name] EXCEPT !.bytes = @ + n]
<1>1. /\ name \in Names /\ tasks[id] \in Tasks /\ disk[name] \in Files
      /\ tasks[id].pos \in 0 .. MaxSize /\ tasks[id].size \in 0 .. MaxSize
      /\ disk[name].open /\ disk[name].size = tasks[id].size /\ disk[name].bytes = tasks[id].pos
  BY TaskTypes DEF DiskPart, Held
<1>2. tasks[id].pos + n \in 0 .. MaxSize
  <2>1. \A a, b, c \in 0 .. MaxSize : a + b <= c => a + b \in 0 .. MaxSize
    BY FileXferBounds
  <2> QED
    BY <1>1, <2>1
<1>3. t \in Tasks /\ t.name = name /\ t.size = tasks[id].size /\ t.pos = tasks[id].pos + n
  BY <1>1, <1>2 DEF Tasks
<1>4. f \in Files /\ f.open /\ f.size = tasks[id].size /\ f.bytes = tasks[id].pos + n
  BY <1>1, <1>2 DEF Files
<1>5. tasks' = [tasks EXCEPT ![id] = t] /\ disk' = [disk EXCEPT ![name] = f]
  OBVIOUS
<1>6. \A j \in Ids : j # id /\ tasks[j] # NoTask => tasks[j].name \in Names \ {name}
  BY TaskTypes DEF DiskPart, Distinct
<1> HIDE DEF t, f, name
<1>7. /\ tasks' \in [Ids -> Tasks \cup {NoTask}] /\ disk' \in [Names -> Files]
      /\ tasks'[id] = t
      /\ \A j \in Ids \ {id} : tasks'[j] = tasks[j]
      /\ disk'[name] = f
      /\ \A m \in Names \ {name} : disk'[m] = disk[m]
  BY <1>1, <1>3, <1>4, <1>5 DEF DiskPart
<1>8. Distinct'
  <2>1. \A j \in Ids : tasks'[j].name = tasks[j].name
    BY <1>3, <1>7 DEF name
  <2> QED
    BY <1>7, <2>1 DEF DiskPart, Distinct
<1>9. ASSUME NEW j \in Ids PROVE Held(j)'
  <2> SUFFICES ASSUME tasks'[j] # NoTask
               PROVE  /\ disk'[tasks'[j].name].open
                      /\ disk'[tasks'[j].name].size = tasks'[j].size
                      /\ disk'[tasks'[j].name].bytes = tasks'[j].pos
                      /\ tasks'[j].pos <= tasks'[j].size
    BY DEF Held
  <2>1. CASE j = id
    BY <1>3, <1>4, <1>7, <2>1
  <2>2. CASE j # id
    <3>1. tasks'[j] = tasks[j] /\ disk'[tasks[j].name] = disk[tasks[j].name]
      BY <1>6, <1>7, <2>2
    <3> QED
      BY <3>1 DEF DiskPart, Held
  <2> QED
    BY <2>1, <2>2
<1>10. ASSUME NEW m \in Names PROVE Whole(m)'
  BY <1>4, <1>7 DEF DiskPart, Whole
<1> QED
  BY <1>7, <1>8, <1>9, <1>10 DEF DiskPart

\* CONTROL_RESET, and the end of the agent, which leaves its open files to Windows.
LEMMA AllTasksEnd ==
    ASSUME DiskPart, NEW left \in SUBSET orphans, Reset(left), UNCHANGED orphans
    PROVE  DiskPart'
<1>1. NoTask \in Tasks \cup {NoTask} /\ \A id \in Ids : tasks'[id] = NoTask
  BY DEF Reset
<1>2. tasks' \in [Ids -> Tasks \cup {NoTask}]
  BY DEF Reset
<1>3. \A name \in Names : \/ disk'[name] = Absent \/ disk'[name] = disk[name]
                          \/ name \in orphans /\ disk'[name] = [disk[name] EXCEPT !.open = FALSE]
  BY DEF Reset
<1>4. disk' \in [Names -> Files]
  <2>1. \A f \in Files : [f EXCEPT !.open = FALSE] \in Files
    BY DEF Files
  <2>2. \A name \in Names : disk'[name] \in Files
    BY <1>3, <2>1, FileTypes DEF DiskPart
  <2> QED
    BY <2>2 DEF Reset
<1>5. ASSUME NEW name \in Names PROVE Whole(name)'
  BY <1>3, FileTypes DEF Whole, DiskPart
<1> QED
  BY <1>1, <1>2, <1>4, <1>5 DEF DiskPart, Distinct, Held

------------------------------------------------------------------------------
(***************************************************************************)
(* DiskInv is inductive.                                                   *)
(***************************************************************************)
Statuses == [id : Ids, result : Results]

LEMMA DiskInitial == Init => DiskInv
<1> SUFFICES ASSUME Init PROVE DiskInv
  OBVIOUS
<1>1. /\ 0 \in 0 .. MaxClients /\ 1 \in 1 .. MaxClients /\ 0 \in 0 .. MaxSize
      /\ 0 \in 0 .. MaxSize + 1 /\ 0 <= 1 /\ 0 < 1
  BY FileXferBounds
<1>2. disk \in [Names -> Files]
  BY FileTypes DEF Init
<1>3. <<>> \in Seq(Statuses)
  BY EmptySeq
<1>4. TypeOK
  BY <1>1, <1>2, <1>3 DEF Init, TypeOK, Idle, Statuses
<1>5. \A name \in Names : Whole(name)
  BY FileTypes DEF Init, Whole
<1>6. ResetsOwed
  BY <1>1 DEF Init, ResetsOwed
<1> QED
  BY <1>4, <1>5, <1>6 DEF Init, DiskInv, Distinct, Held

LEMMA StatusType ==
    ASSUME toClient \in Seq(Statuses), NEW id \in Ids, NEW result \in Results, Status(id, result)
    PROVE  /\ toClient' \in Seq(Statuses)
           /\ Len(toClient') = Len(toClient) + 1 /\ Len(toClient) \in Nat
           /\ toClient'[Len(toClient) + 1] = [id |-> id, result |-> result]
           /\ \A i \in 1 .. Len(toClient) : toClient'[i] = toClient[i]
<1> DEFINE m == [id |-> id, result |-> result]
<1>1. m \in Statuses
  BY DEF Statuses
<1>2. toClient' = Append(toClient, m)
  BY DEF Status
<1> HIDE DEF m
<1>3. /\ toClient' \in Seq(Statuses)
      /\ Len(toClient') = Len(toClient) + 1 /\ Len(toClient) \in Nat
      /\ toClient'[Len(toClient) + 1] = m
      /\ \A i \in 1 .. Len(toClient) : toClient'[i] = toClient[i]
  BY <1>1, <1>2, AppendProperties, LenProperties
<1> QED
  BY <1>3 DEF m

Client == [state : {"idle", "asked", "sending", "done", "failed", "cancelled"},
           name : Names \cup {NoName}, size : 0 .. MaxSize, sent : 0 .. MaxSize + 1]

LEMMA DiskStart ==
    ASSUME DiskInv, NEW id \in Ids, NEW name \in Names, NEW size \in 0 .. MaxSize,
           Start(id, name, size)
    PROVE  DiskInv'
<1>1. /\ UNCHANGED <<locked, resets, agent, client, cut>>
      /\ orphans \subseteq orphans' /\ orphans' \subseteq Names
  <2>1. tasks[id].name \in Names \cup {NoName}
    BY TaskTypes DEF DiskInv, TypeOK, NoTask
  <2> QED
    BY <2>1 DEF Start, Dispatches, DiskInv, TypeOK
<1>2. cl' \in [Ids -> Client]
  <2>1. 0 \in 0 .. MaxSize + 1
    BY FileXferBounds
  <2>2. [state |-> "asked", name |-> name, size |-> size, sent |-> 0] \in Client
    BY <2>1 DEF Client
  <2> QED
    BY <2>2 DEF Start, DiskInv, TypeOK, Client
<1>3. toClient' \in Seq(Statuses)
  BY StatusType DEF Start, Results, DiskInv, TypeOK, Statuses
<1>4. DiskPart
  BY DEF DiskInv, TypeOK, DiskPart
<1>5. DiskPart'
  <2>1. CASE UNCHANGED <<tasks, disk>>
    BY <1>1, <1>4, <2>1 DEF DiskPart, Distinct, Held, Whole
  <2>2. CASE /\ Creates(name)
             /\ disk' = [disk EXCEPT ![name] = [client |-> client.number, size |-> size,
                                                bytes |-> 0, open |-> TRUE]]
             /\ tasks' = [tasks EXCEPT ![id] = [name |-> name, size |-> size, pos |-> 0]]
    <3> DEFINE f == [client |-> client.number, size |-> size, bytes |-> 0, open |-> TRUE]
    <3>1. client.number \in 0 .. MaxClients /\ 0 \in 0 .. MaxSize
      BY FileXferBounds DEF DiskInv, TypeOK
    <3>2. f \in Files /\ f.open /\ f.size = size /\ f.bytes = 0
      BY <3>1 DEF Files
    <3>3. disk' = [disk EXCEPT ![name] = f]
      BY <2>2
    <3> HIDE DEF f
    <3> QED
      BY <1>1, <1>4, <2>2, <3>2, <3>3, TaskBegins
  <2> QED
    BY <2>1, <2>2 DEF Start
<1>6. ResetsOwed'
  BY <1>1 DEF DiskInv, ResetsOwed
<1> QED
  BY <1>1, <1>2, <1>3, <1>5, <1>6 DEF DiskInv, TypeOK, DiskPart, Client, Statuses

\* A status, or none.
LEMMA DiskData ==
    ASSUME DiskInv, NEW id \in Ids, NEW n \in 0 .. MaxSize, Data(id, n)
    PROVE  DiskInv'
<1> DEFINE task == tasks[id]
           pos == task.pos + n
<1>1. UNCHANGED <<locked, resets, agent, client, history>>
  BY DEF Data, Dispatches, history
<1>2. cl' \in [Ids -> Client]
  <2>1. cl[id] \in Client /\ cl[id].sent + n <= cl[id].size + 1
    BY DEF Data, DiskInv, TypeOK, Client
  <2>2. cl[id].sent \in 0 .. MaxSize + 1 /\ cl[id].size \in 0 .. MaxSize
    BY <2>1 DEF Client
  <2>3. cl[id].sent + n \in 0 .. MaxSize + 1
    BY <2>1, <2>2, FileXferBounds
  <2>4. [cl[id] EXCEPT !.sent = @ + n] \in Client
    BY <2>1, <2>3 DEF Client
  <2> QED
    BY <2>4 DEF Data, DiskInv, TypeOK, Client
<1>3. toClient' \in Seq(Statuses)
  <2>1. toClient \in Seq(Statuses) /\ {"ERROR", "SUCCESS"} \subseteq Results
    BY DEF DiskInv, TypeOK, Statuses, Results
  <2>2. Status(id, "ERROR") \/ Status(id, "SUCCESS") \/ UNCHANGED toClient
    BY DEF Data
  <2> QED
    BY <2>1, <2>2, StatusType
<1>4. DiskPart
  BY DEF DiskInv, TypeOK, DiskPart
<1>5. DiskPart'
  <2>1. CASE UNCHANGED <<tasks, disk>>
    BY <1>1, <1>4, <2>1 DEF DiskPart, Distinct, Held, Whole, history
  <2>2. CASE task # NoTask /\ disk' = Deleted(task.name) /\ Forget(id)
    BY <1>1, <1>4, <2>2, TaskEnds, FileTypes DEF Deleted, history
  <2>3. CASE /\ task # NoTask /\ ~Longer(pos, task.size) /\ Finished(pos, task.size)
             /\ disk' = [Closed(task.name) EXCEPT ![task.name].bytes = @ + n] /\ Forget(id)
    <3> DEFINE name == task.name
               f == [disk[name] EXCEPT !.open = FALSE, !.bytes = @ + n]
    <3>1. /\ name \in Names /\ disk[name] \in Files
          /\ disk[name].size = task.size /\ disk[name].bytes = task.pos
          /\ task.pos \in 0 .. MaxSize /\ task.size \in 0 .. MaxSize
      BY <1>4, <2>3, TaskTypes DEF DiskPart, Held
    <3>2. task.pos + n = task.size
      BY <2>3, <3>1, FileXferBounds DEF Longer, Finished
    <3>3. f \in Files /\ ~f.open /\ f.bytes = f.size
      BY <3>1, <3>2 DEF Files
    <3>4. disk' = [disk EXCEPT ![name] = f]
      BY <1>4, <2>3, <3>1 DEF Closed, DiskPart
    <3> HIDE DEF f
    <3> QED
      BY <1>1, <1>4, <2>3, <3>3, <3>4, TaskEnds DEF history
  <2>4. CASE /\ task # NoTask /\ ~Longer(pos, task.size) /\ ~Finished(pos, task.size)
             /\ disk' = [disk EXCEPT ![task.name].bytes = @ + n]
             /\ tasks' = [tasks EXCEPT ![id].pos = pos]
    <3>1. task.pos \in 0 .. MaxSize /\ task.size \in 0 .. MaxSize
      BY <1>4, <2>4, TaskTypes DEF DiskPart
    <3>2. task.pos + n <= task.size
      BY <2>4, <3>1, FileXferBounds DEF Longer
    <3> QED
      BY <1>1, <1>4, <2>4, <3>2, TaskGoesOn DEF history
  <2> QED
    BY <2>1, <2>2, <2>3, <2>4 DEF Data
<1>6. ResetsOwed'
  BY <1>1 DEF DiskInv, ResetsOwed
<1> QED
  BY <1>1, <1>2, <1>3, <1>5, <1>6 DEF DiskInv, TypeOK, DiskPart, Client, Statuses, history

LEMMA DiskCancel ==
    ASSUME DiskInv, NEW id \in Ids, Cancel(id)
    PROVE  DiskInv'
<1>1. UNCHANGED <<locked, resets, agent, client, toClient, history>>
  BY DEF Cancel, Dispatches, history
<1>2. cl' \in [Ids -> Client]
  <2>1. cl \in [Ids -> Client]
    BY DEF DiskInv, TypeOK, Client
  <2>2. [cl[id] EXCEPT !.state = "cancelled"] \in Client
    BY <2>1 DEF Client
  <2> QED
    BY <2>1, <2>2 DEF Cancel
<1>3. DiskPart
  BY DEF DiskInv, TypeOK, DiskPart
<1>4. DiskPart'
  <2>1. CASE UNCHANGED <<tasks, disk>>
    BY <1>1, <1>3, <2>1 DEF DiskPart, Distinct, Held, Whole, history
  <2>2. CASE tasks[id] # NoTask /\ disk' = Deleted(tasks[id].name) /\ Forget(id)
    BY <1>1, <1>3, <2>2, TaskEnds, FileTypes DEF Deleted, history
  <2> QED
    BY <2>1, <2>2 DEF Cancel
<1>5. ResetsOwed'
  BY <1>1 DEF DiskInv, ResetsOwed
<1> QED
  BY <1>1, <1>2, <1>4, <1>5 DEF DiskInv, TypeOK, DiskPart, Client, history

LEMMA DiskReset ==
    ASSUME DiskInv, HandlesReset \/ AgentEnds
    PROVE  DiskInv'
<1>1. DiskPart'
  <2>1. DiskPart /\ UNCHANGED orphans /\ \E left \in SUBSET orphans : Reset(left)
    BY DEF DiskInv, TypeOK, DiskPart, HandlesReset, AgentEnds, history
  <2> QED
    BY <2>1, AllTasksEnd
<1>2. /\ UNCHANGED <<locked, client, cl, toClient, orphans>> /\ agent' \in {"running", "stopped"}
      /\ resets' = resets \/ (resets > 0 /\ resets' = resets - 1)
      /\ cut' \subseteq Ids
  BY DEF HandlesReset, AgentEnds, DiskInv, TypeOK, history
<1>3. resets \in 0 .. MaxClients /\ client.number \in 1 .. MaxClients
  BY DEF DiskInv, TypeOK
<1>4. resets' \in 0 .. MaxClients /\ ResetsOwed'
  BY <1>2, <1>3, FileXferBounds DEF DiskInv, ResetsOwed
<1> QED
  BY <1>1, <1>2, <1>4 DEF DiskInv, TypeOK, DiskPart

\* The steps that leave the files to themselves.
LEMMA DiskOthers ==
    ASSUME DiskInv, Disconnect \/ ConnectsClient \/ ClientReceives \/ LockOrUnlock \/ UNCHANGED vars
    PROVE  DiskInv'
<1>1. /\ UNCHANGED <<tasks, disk, orphans>> /\ cut' \in SUBSET Ids
      /\ agent' \in {"running", "stopped"} /\ locked' \in BOOLEAN
  BY DEF Disconnect, ConnectsClient, ClientReceives, LockOrUnlock, vars, history, DiskInv, TypeOK
<1>2. /\ Distinct' /\ \A id \in Ids : Held(id)'
      /\ \A name \in Names : Whole(name)'
      /\ tasks' \in [Ids -> Tasks \cup {NoTask}] /\ disk' \in [Names -> Files]
  BY <1>1 DEF DiskInv, TypeOK, Distinct, Held, Whole
<1>3. /\ resets \in 0 .. MaxClients /\ client \in [number : 1 .. MaxClients, here : BOOLEAN]
      /\ MaxClients \in Nat
  BY FileXferBounds DEF DiskInv, TypeOK
<1>4. /\ resets' \in 0 .. MaxClients /\ client' \in [number : 1 .. MaxClients, here : BOOLEAN]
      /\ ResetsOwed'
  <2>1. CASE Disconnect
    <3>1. /\ resets' = resets + 1 /\ resets < client.number /\ client'.number = client.number
          /\ ~client'.here /\ client.number \in 1 .. MaxClients
          /\ client' \in [number : 1 .. MaxClients, here : BOOLEAN]
      BY <1>3, <2>1 DEF Disconnect, DiskInv, ResetsOwed
    <3> QED
      BY <1>3, <3>1 DEF ResetsOwed
  <2>2. CASE ConnectsClient
    <3>1. /\ resets' = resets /\ resets <= client.number /\ client'.number = client.number + 1
          /\ client.number < MaxClients /\ client.number \in 1 .. MaxClients
          /\ client' = [number |-> client.number + 1, here |-> TRUE]
      BY <1>3, <2>2 DEF ConnectsClient, DiskInv, ResetsOwed
    <3>2. client.number + 1 \in 1 .. MaxClients
      BY <1>3, <3>1
    <3> QED
      BY <1>3, <3>1, <3>2 DEF ResetsOwed
  <2>3. CASE ClientReceives \/ LockOrUnlock \/ UNCHANGED vars
    BY <1>3, <2>3 DEF ClientReceives, LockOrUnlock, vars, DiskInv, ResetsOwed
  <2> QED
    BY <2>1, <2>2, <2>3
<1>5. cl' \in [Ids -> Client] /\ toClient' \in Seq(Statuses)
  <2>1. cl \in [Ids -> Client] /\ toClient \in Seq(Statuses)
    BY DEF DiskInv, TypeOK, Client, Statuses
  <2>2. CASE Disconnect
    <3>1. Idle \in Client
      <4>1. 0 \in 0 .. MaxSize /\ 0 \in 0 .. MaxSize + 1
        BY FileXferBounds
      <4> QED
        BY <4>1 DEF Idle, Client
    <3>2. <<>> \in Seq(Statuses)
      BY EmptySeq
    <3> QED
      BY <2>2, <3>1, <3>2 DEF Disconnect
  <2>3. CASE ClientReceives
    <3> DEFINE m == Head(toClient)
    <3>1. m \in Statuses /\ Tail(toClient) \in Seq(Statuses)
      BY <2>1, <2>3, HeadTailProperties DEF ClientReceives
    <3>2. m.id \in Ids
      BY <3>1 DEF Statuses
    <3>3. \A c \in Client : Told(c, m.result) \in Client
      BY DEF Told, Client
    <3>4. cl' = [cl EXCEPT ![m.id] = Told(@, m.result)] /\ toClient' = Tail(toClient)
      BY <2>3 DEF ClientReceives
    <3> HIDE DEF m
    <3> QED
      BY <2>1, <3>1, <3>2, <3>3, <3>4
  <2>4. CASE ConnectsClient \/ LockOrUnlock \/ UNCHANGED vars
    BY <2>1, <2>4 DEF ConnectsClient, LockOrUnlock, vars
  <2> QED
    BY <2>2, <2>3, <2>4
<1> QED
  BY <1>1, <1>2, <1>4, <1>5 DEF DiskInv, TypeOK, Client, Statuses

LEMMA DiskRemove ==
    ASSUME DiskInv, NEW name \in Names, UserRemoves(name)
    PROVE  DiskInv'
<1>1. /\ UNCHANGED <<tasks, locked, resets, agent, client, cl, toClient, cut>>
      /\ disk \in [Names -> Files] /\ ~disk[name].open
      /\ orphans' = orphans \ {name} /\ orphans \subseteq Names
      /\ disk' = [disk EXCEPT ![name] = Absent]
  BY DEF UserRemoves, DiskInv, TypeOK
<1>2. disk' \in [Names -> Files] /\ \A m \in Names : Whole(m)'
  BY <1>1, FileTypes DEF DiskInv, Whole
<1>3. ASSUME NEW id \in Ids PROVE Held(id)'
  <2> SUFFICES ASSUME tasks[id] # NoTask
               PROVE  disk'[tasks[id].name] = disk[tasks[id].name]
    BY <1>1 DEF Held, DiskInv
  <2>1. tasks[id].name \in Names /\ disk[tasks[id].name].open
    BY TaskTypes DEF DiskInv, TypeOK, Held
  <2> QED
    BY <1>1, <2>1
<1> QED
  BY <1>1, <1>2, <1>3 DEF DiskInv, TypeOK, Distinct, ResetsOwed

LEMMA DiskStep == DiskInv /\ [Next]_vars => DiskInv'
<1> SUFFICES ASSUME DiskInv, [Next]_vars PROVE DiskInv'
  OBVIOUS
<1>1. ASSUME NEW id \in Ids, NEW name \in Names, NEW size \in 0 .. MaxSize, Start(id, name, size)
      PROVE  DiskInv'
  BY <1>1, DiskStart
<1>2. ASSUME NEW id \in Ids, NEW n \in 0 .. MaxSize, Data(id, n)
      PROVE  DiskInv'
  BY <1>2, DiskData
<1>3. ASSUME NEW id \in Ids, Cancel(id)
      PROVE  DiskInv'
  BY <1>3, DiskCancel
<1>4. ASSUME NEW name \in Names, UserRemoves(name)
      PROVE  DiskInv'
  BY <1>4, DiskRemove
<1>5. CASE HandlesReset \/ AgentEnds
  BY <1>5, DiskReset
<1>6. CASE Disconnect \/ ConnectsClient \/ ClientReceives \/ LockOrUnlock \/ UNCHANGED vars
  BY <1>6, DiskOthers
<1> QED
  BY <1>1, <1>2, <1>3, <1>4, <1>5, <1>6 DEF Next

LEMMA DiskAlways == Spec => []DiskInv
BY DiskInitial, DiskStep, PTL DEF Spec

------------------------------------------------------------------------------
(***************************************************************************)
(* TransferInv.                                                            *)
(***************************************************************************)
LEMMA TransferInitial == Init => TransferInv
<1> SUFFICES ASSUME Init PROVE TransferInv
  OBVIOUS
<1>1. \A name \in Names : ~disk[name].open
  BY FileTypes DEF Init
<1>2. toClient = <<>> /\ \A id \in Ids : cl[id].state = "idle"
  BY DEF Init, Idle
<1> QED
  BY <1>1, <1>2 DEF Init, TransferInv, Written, Agreed, Untold, Dated, Named, Orphaned

\* A transfer that a step does not touch.
LEMMA AgreedKept ==
    ASSUME NEW id \in Ids, Agreed(id), UNCHANGED <<toClient, cut>>,
           cl'[id] = cl[id], tasks'[id] = tasks[id]
    PROVE  Agreed(id)'
<1>1. Settled(id)' = Settled(id)
  BY DEF Settled, Matches, Cut
<1> QED
  BY <1>1 DEF Agreed, Untold, About

\* Another one is told something.
LEMMA AgreedOther ==
    ASSUME TypeOK, NEW id \in Ids, NEW j \in Ids, j # id, Agreed(j),
           NEW result \in Results, Status(id, result),
           cl'[j] = cl[j], tasks'[j] = tasks[j], UNCHANGED cut
    PROVE  Agreed(j)'
<1>0. /\ Len(toClient') = Len(toClient) + 1 /\ Len(toClient) \in Nat
      /\ toClient'[Len(toClient) + 1] = [id |-> id, result |-> result]
      /\ \A i \in 1 .. Len(toClient) : toClient'[i] = toClient[i]
  BY StatusType DEF TypeOK, Statuses
<1>1. /\ Len(toClient') = Len(toClient) + 1 /\ Len(toClient) \in Nat
      /\ toClient'[Len(toClient) + 1].id = id
      /\ \A i \in 1 .. Len(toClient) : toClient'[i] = toClient[i]
  BY <1>0
<1>2. /\ \A i \in 1 .. Len(toClient) : i \in 1 .. Len(toClient')
      /\ \A i \in 1 .. Len(toClient') : i \in 1 .. Len(toClient) \/ i = Len(toClient) + 1
  BY <1>1
<1>3. About(j)' = About(j)
  BY <1>1, <1>2 DEF About
<1>4. \A i \in About(j) : toClient'[i] = toClient[i]
  BY <1>1 DEF About
<1>5. /\ Untold(j) <=> About(j) = {}
      /\ Untold(j)' <=> About(j)' = {}
  BY DEF Untold, About
<1>6. Settled(j)' = Settled(j)
  BY DEF Settled, Matches, Cut
<1> QED
  BY <1>3, <1>4, <1>5, <1>6 DEF Agreed

\* What the client is told last is the answer to its last message.
LEMMA Answered ==
    ASSUME TypeOK, NEW id \in Ids, NEW result \in Results, Status(id, result)
    PROVE  /\ About(id)' = About(id) \cup {Len(toClient) + 1}
           /\ \A i \in About(id) : toClient'[i] = toClient[i]
           /\ toClient'[Len(toClient) + 1].result = result
           /\ ~Untold(id)'
<1>1. /\ Len(toClient') = Len(toClient) + 1 /\ Len(toClient) \in Nat
      /\ toClient'[Len(toClient) + 1] = [id |-> id, result |-> result]
      /\ \A i \in 1 .. Len(toClient) : toClient'[i] = toClient[i]
  BY StatusType DEF TypeOK, Statuses
<1>2. /\ \A i \in 1 .. Len(toClient) : i \in 1 .. Len(toClient')
      /\ \A i \in 1 .. Len(toClient') : i \in 1 .. Len(toClient) \/ i = Len(toClient) + 1
      /\ Len(toClient) + 1 \in 1 .. Len(toClient')
  BY <1>1
<1>3. toClient'[Len(toClient) + 1].id = id
  BY <1>1
<1>4. About(id)' = About(id) \cup {Len(toClient) + 1}
  BY <1>1, <1>2, <1>3 DEF About
<1>5. ~Untold(id)'
  BY <1>2, <1>3 DEF Untold
<1> QED
  BY <1>1, <1>4, <1>5 DEF About

LEMMA StartAgreed ==
    ASSUME DiskInv, TransferInv, agent = "running", NEW id \in Ids, NEW name \in Names,
           NEW size \in 0 .. MaxSize, Start(id, name, size), NEW j \in Ids
    PROVE  Agreed(j)'
<1>1. Agreed(j) /\ Agreed(id)
  BY DEF TransferInv
<1>2. TypeOK /\ {"ERROR", "CAN_SEND_DATA"} \subseteq Results
  BY DEF DiskInv, Results
<1>3. CASE j # id
  <2>1. cl'[j] = cl[j] /\ tasks'[j] = tasks[j]
    BY <1>2, <1>3 DEF Start, TypeOK
  <2> QED
    BY <1>1, <1>2, <1>3, <2>1, AgreedOther DEF Start, Dispatches
<1>4. CASE j = id
  <2>1. cl[id].state = "idle" /\ Untold(id) /\ About(id) = {}
    BY <1>1 DEF Start, Agreed, Untold, About
  <2>2. cl'[id] = [state |-> "asked", name |-> name, size |-> size, sent |-> 0]
    BY <1>2 DEF Start, TypeOK
  <2>3. CASE /\ Status(id, "CAN_SEND_DATA")
             /\ tasks' = [tasks EXCEPT ![id] = [name |-> name, size |-> size, pos |-> 0]]
    <3>1. tasks'[id].pos = cl'[id].sent /\ tasks'[id].name = cl'[id].name
      BY <1>2, <2>2, <2>3 DEF TypeOK
    <3>2. \E i : About(id)' = {i}
      BY <1>2, <2>1, <2>3, Answered
    <3> QED
      BY <1>4, <2>2, <3>1, <3>2 DEF Agreed, Settled, Matches
  <2>4. CASE Status(id, "ERROR")
    <3>0. /\ About(id)' = {Len(toClient) + 1}
          /\ toClient'[Len(toClient) + 1].result = "ERROR"
      BY <1>2, <2>1, <2>4, Answered
    <3>1. \A i \in About(id)' : toClient'[i].result = "ERROR"
      BY <3>0
    <3> QED
      BY <1>4, <2>2, <3>1 DEF Agreed
  <2> QED
    BY <2>3, <2>4 DEF Start
<1> QED
  BY <1>3, <1>4

LEMMA DataAgreed ==
    ASSUME DiskInv, TransferInv, agent = "running", NEW id \in Ids, NEW n \in 0 .. MaxSize,
           Data(id, n), NEW j \in Ids
    PROVE  Agreed(j)'
<1>1. Agreed(j) /\ Agreed(id)
  BY DEF TransferInv
<1>2. TypeOK /\ {"ERROR", "SUCCESS"} \subseteq Results
  BY DEF DiskInv, Results
<1>3. /\ cl[id].state = "sending" /\ cl'[id].state = "sending"
      /\ cl'[id].sent = cl[id].sent + n /\ cl'[id].name = cl[id].name
      /\ j # id => cl'[j] = cl[j]
      /\ UNCHANGED cut
  BY <1>2 DEF Data, Dispatches, TypeOK
<1>4. CASE Status(id, "ERROR") \/ Status(id, "SUCCESS")
  <2>1. PICK result \in {"ERROR", "SUCCESS"} : Status(id, result)
    BY <1>4
  <2>2. CASE j # id
    <3>1. tasks'[j] = tasks[j]
      BY <1>2, <1>4, <2>2 DEF Data, Forget, TypeOK, Status
    <3> QED
      BY <1>1, <1>2, <1>3, <2>1, <2>2, <3>1, AgreedOther
  <2>3. CASE j = id
    <3>1. \A i \in About(id) : toClient[i].result # "CAN_SEND_DATA"
      BY <1>1, <1>3 DEF Agreed
    <3>4. /\ About(id)' = About(id) \cup {Len(toClient) + 1}
          /\ \A i \in About(id) : toClient'[i] = toClient[i]
          /\ toClient'[Len(toClient) + 1].result = result
      BY <1>2, <2>1, Answered
    <3>2. \A i \in About(id)' : toClient'[i].result # "CAN_SEND_DATA"
      BY <2>1, <3>1, <3>4
    <3>3. ~Untold(id)'
      BY <1>2, <2>1, Answered
    <3> QED
      BY <1>3, <2>3, <3>2, <3>3 DEF Agreed
  <2> QED
    BY <2>2, <2>3
<1>5. CASE /\ tasks[id] # NoTask
           /\ tasks' = [tasks EXCEPT ![id].pos = tasks[id].pos + n]
           /\ UNCHANGED toClient
  <2>1. /\ tasks'[id].pos = tasks[id].pos + n /\ tasks'[id].name = tasks[id].name
        /\ j # id => tasks'[j] = tasks[j]
    <3>1. tasks[id] \in Tasks \cup {NoTask}
      BY <1>2 DEF TypeOK
    <3>2. [tasks[id] EXCEPT !.pos = tasks[id].pos + n].pos = tasks[id].pos + n
      BY <3>1 DEF Tasks, NoTask
    <3> QED
      BY <1>2, <1>5, <3>1, <3>2 DEF TypeOK, Tasks, NoTask
  <2>2. CASE j # id
    BY <1>1, <1>3, <1>5, <2>1, <2>2, AgreedKept
  <2>3. CASE j = id
    <3>1. Settled(id) => Settled(id)'
      BY <1>3, <1>5, <2>1 DEF Settled, Matches, Cut
    <3>2. About(id)' = About(id) /\ (Untold(id)' <=> Untold(id))
      BY <1>5 DEF About, Untold
    <3> QED
      BY <1>1, <1>3, <1>5, <2>3, <3>1, <3>2 DEF Agreed
  <2> QED
    BY <2>2, <2>3
<1> QED
  BY <1>4, <1>5 DEF Data

LEMMA ReceiveAgreed ==
    ASSUME DiskInv, TransferInv, agent = "running", ClientReceives, NEW j \in Ids
    PROVE  Agreed(j)'
<1> DEFINE m == Head(toClient)
<1>1. /\ Agreed(j) /\ TypeOK /\ UNCHANGED <<tasks, cut>>
      /\ toClient \in Seq(Statuses) /\ toClient # <<>> /\ toClient' = Tail(toClient)
      /\ cl' = [cl EXCEPT ![m.id] = Told(@, m.result)] /\ cl \in [Ids -> Client]
  BY DEF TransferInv, DiskInv, TypeOK, ClientReceives, Statuses, Client, history
<1>2. /\ m = toClient[1] /\ m \in Statuses
      /\ Len(toClient) \in Nat /\ Len(toClient) > 0 /\ Len(toClient') = Len(toClient) - 1
      /\ \A i \in 1 .. Len(toClient') : toClient'[i] = toClient[i + 1]
  BY <1>1, HeadTailProperties, LenProperties, EmptySeq
<1>3. m.id \in Ids /\ m.result \in Results
  BY <1>2 DEF Statuses
<1> HIDE DEF m
<1>4. /\ \A i \in About(j)' : i + 1 \in About(j) /\ toClient'[i] = toClient[i + 1]
      /\ \A i \in About(j) : i \in Nat /\ (i # 1 => i - 1 \in About(j)' /\ (i - 1) + 1 = i)
      /\ 1 \in About(j) <=> m.id = j
      /\ \A i \in About(j)' : i \in Nat
  <2>1. /\ \A i \in 1 .. Len(toClient') : i + 1 \in 1 .. Len(toClient) /\ i \in Nat
        /\ \A i \in 1 .. Len(toClient) :
              i \in Nat /\ (i # 1 => i - 1 \in 1 .. Len(toClient') /\ (i - 1) + 1 = i)
        /\ 1 \in 1 .. Len(toClient)
    BY <1>2
  <2> QED
    BY <1>2, <2>1 DEF About
<1>5. /\ Untold(j) <=> About(j) = {}
      /\ Untold(j)' <=> About(j)' = {}
  BY DEF Untold, About
<1>6. CASE m.id # j
  <2>1. cl'[j] = cl[j]
    BY <1>1, <1>3, <1>6
  <2>2. About(j)' = {} <=> About(j) = {}
    BY <1>4, <1>6
  <2>3. ASSUME NEW i, About(j) = {i}, NEW k \in About(j)'
        PROVE  About(j)' = {k}
    <3>1. k + 1 = i /\ k \in Nat
      <4>1. k + 1 \in About(j) /\ k \in Nat
        BY <1>4
      <4> QED
        BY <2>3, <4>1
    <3>2. ASSUME NEW l \in About(j)' PROVE l = k
      <4>1. l + 1 \in About(j) /\ l \in Nat
        BY <1>4
      <4>2. l + 1 = i
        BY <2>3, <4>1
      <4> QED
        BY <3>1, <4>1, <4>2
    <3> QED
      BY <2>3, <3>1, <3>2
  <2>4. Settled(j)' <=> Settled(j)
    BY <1>1, <2>1 DEF Settled, Matches, Cut
  <2>5. CASE cl[j].state = "asked"
    BY <1>1, <1>4, <2>1, <2>3, <2>4, <2>5 DEF Agreed
  <2>6. CASE cl[j].state # "asked"
    BY <1>1, <1>4, <1>5, <2>1, <2>2, <2>4, <2>6 DEF Agreed
  <2> QED
    BY <2>5, <2>6
<1>7. CASE m.id = j
  <2>1. /\ cl'[j] = Told(cl[j], m.result) /\ cl[j] \in Client
        /\ 1 \in About(j) /\ ~Untold(j) /\ cl[j].state # "idle"
    BY <1>1, <1>4, <1>5, <1>7 DEF Agreed
  <2>2. CASE cl[j].state = "asked" /\ m.result = "CAN_SEND_DATA"
    <3>1. Settled(j) /\ About(j) = {1}
      BY <1>1, <1>2, <2>1, <2>2 DEF Agreed
    <3>2. About(j)' = {}
      <4>1. \A i \in About(j)' : i \in Nat /\ i + 1 = 1 /\ i \in 1 .. Len(toClient')
        BY <1>4, <3>1 DEF About
      <4> QED
        BY <4>1
    <3>3. cl'[j].state = "sending" /\ cl'[j].sent = cl[j].sent /\ cl'[j].name = cl[j].name
      BY <2>1, <2>2 DEF Told, Client
    <3>4. Settled(j)'
      BY <1>1, <3>1, <3>3 DEF Settled, Matches, Cut
    <3> QED
      BY <3>2, <3>3, <3>4 DEF Agreed
  <2>3. CASE cl[j].state = "asked" /\ m.result # "CAN_SEND_DATA"
    <3>1. /\ cl'[j].state \in {"asked", "failed"}
          /\ cl'[j].sent = cl[j].sent /\ cl'[j].name = cl[j].name
      BY <2>1, <2>3 DEF Told, Client
    <3>2. ASSUME NEW i \in About(j)', toClient'[i].result = "CAN_SEND_DATA"
          PROVE  FALSE
      <4>1. i + 1 \in About(j) /\ toClient[i + 1].result = "CAN_SEND_DATA" /\ i \in Nat
        BY <1>4, <3>2
      <4>2. About(j) = {i + 1}
        BY <1>1, <2>3, <4>1 DEF Agreed
      <4>3. i + 1 = 1 /\ i \in 1 .. Len(toClient')
        BY <2>1, <3>2, <4>2 DEF About
      <4> QED
        BY <4>1, <4>3
    <3> QED
      BY <3>1, <3>2 DEF Agreed
  <2>4. CASE cl[j].state = "sending"
    <3>1. m.result # "CAN_SEND_DATA" /\ cl'[j].state \in {"done", "failed"}
      BY <1>1, <1>2, <1>3, <2>1, <2>4 DEF Agreed, Told, Client, Results
    <3> QED
      BY <3>1 DEF Agreed
  <2>5. CASE cl[j].state \in {"done", "failed", "cancelled"}
    <3>1. cl'[j].state \in {"done", "failed", "cancelled"}
      BY <2>1, <2>5 DEF Told
    <3> QED
      BY <3>1 DEF Agreed
  <2> QED
    BY <2>1, <2>2, <2>3, <2>4, <2>5 DEF Client
<1> QED
  BY <1>6, <1>7

\* The file of a task is closed with it, and no other is.
LEMMA WrittenEnds ==
    ASSUME DiskInv, Written, NEW id \in Ids, tasks[id] # NoTask,
           disk' = Deleted(tasks[id].name) \/ \E n \in 0 .. MaxSize :
               disk' = [Closed(tasks[id].name) EXCEPT ![tasks[id].name].bytes = @ + n],
           Forget(id), UNCHANGED orphans
    PROVE  Written'
<1>1. /\ tasks[id].name \in Names /\ disk \in [Names -> Files]
      /\ tasks \in [Ids -> Tasks \cup {NoTask}]
  BY TaskTypes DEF DiskInv, TypeOK
<1>2. ~disk'[tasks[id].name].open
  <2> DEFINE name == tasks[id].name
  <2>1. CASE disk' = Deleted(name)
    BY <1>1, <2>1, FileTypes DEF Deleted
  <2>2. ASSUME NEW n \in 0 .. MaxSize, disk' = [Closed(name) EXCEPT ![name].bytes = @ + n]
        PROVE  ~disk'[name].open
    <3>1. disk[name] \in Files
      BY <1>1
    <3>2. disk'[name] = [[disk[name] EXCEPT !.open = FALSE] EXCEPT !.bytes = @ + n]
      BY <1>1, <2>2 DEF Closed
    <3> QED
      BY <3>1, <3>2 DEF Files
  <2> QED
    BY <2>1, <2>2
<1>3. \A m \in Names \ {tasks[id].name} : disk'[m] = disk[m]
  BY <1>1 DEF Deleted, Closed
<1>4. \A j \in Ids \ {id} : tasks'[j] = tasks[j]
  BY <1>1 DEF Forget
<1> SUFFICES ASSUME NEW m \in Names, disk'[m].open, m \notin orphans
             PROVE  \E j \in Ids : tasks'[j].name = m
  BY DEF Written
<1>5. m # tasks[id].name /\ disk[m].open
  BY <1>2, <1>3
<1>6. PICK j \in Ids : tasks[j].name = m
  BY <1>5 DEF Written
<1> QED
  BY <1>4, <1>5, <1>6

\* Tasks go on or end, and no file but theirs changes hands.
LEMMA FilesKept ==
    ASSUME DiskInv, DiskInv', TransferInv, UNCHANGED <<client, resets, orphans>>,
           \A j \in Ids : tasks'[j].name = tasks[j].name \/ tasks'[j] = NoTask,
           \A m \in Names : \/ disk'[m].client = disk[m].client
                            \/ \E i \in Ids : tasks[i].name = m /\ tasks'[i] = NoTask,
           \A j \in Ids : cl'[j].state = "idle" <=> cl[j].state = "idle"
    PROVE  /\ \A j \in Ids : Dated(j)'
           /\ \A m \in orphans' : Orphaned(m)'
<1>1. /\ tasks \in [Ids -> Tasks \cup {NoTask}] /\ tasks' \in [Ids -> Tasks \cup {NoTask}]
      /\ orphans \subseteq Names
  BY DEF DiskInv, TypeOK
<1>2. ASSUME NEW j \in Ids PROVE Dated(j)'
  <2> SUFFICES ASSUME tasks'[j] # NoTask PROVE Dated(j)'
    BY DEF Dated
  <2>1. tasks'[j] \in Tasks /\ tasks'[j].name \in Names /\ tasks'[j].name = tasks[j].name
    BY <1>1 DEF Tasks
  <2>2. tasks[j] # NoTask
    BY <1>1, <2>1, TaskTypes
  <2>3. ~\E i \in Ids : tasks[i].name = tasks[j].name /\ tasks'[i] = NoTask
    BY <2>2 DEF DiskInv, Distinct
  <2>4. disk'[tasks[j].name].client = disk[tasks[j].name].client
    BY <2>1, <2>3
  <2> QED
    BY <2>1, <2>2, <2>4 DEF TransferInv, Dated, Current
<1>3. ASSUME NEW m \in orphans PROVE Orphaned(m)'
  <2>1. Orphaned(m) /\ m \in Names /\ m # NoName
    BY <1>1, FileXferBounds DEF TransferInv
  <2>2. disk'[m].client = disk[m].client
    BY <2>1 DEF Orphaned
  <2>3. \A id \in Ids : tasks'[id].name # m
    BY <2>1 DEF Orphaned, NoTask
  <2> QED
    BY <2>1, <2>2, <2>3 DEF Orphaned
<1> QED
  BY <1>2, <1>3

\* A task of the same id, if there is one, is of a client that is gone: the one
\* that has asked now is the first of this client with the id.
LEMMA TransferStart ==
    ASSUME DiskInv, DiskInv', TransferInv, NEW id \in Ids, NEW name \in Names,
           NEW size \in 0 .. MaxSize, Start(id, name, size)
    PROVE  TransferInv'
<1>1. /\ UNCHANGED <<resets, client>> /\ agent = "running" /\ client.here
      /\ cl[id].state = "idle"
      /\ tasks \in [Ids -> Tasks \cup {NoTask}] /\ disk \in [Names -> Files]
      /\ orphans \subseteq Names
      /\ client.number \in Nat /\ client.number > 0
  BY FileXferBounds DEF Start, Dispatches, DiskInv, TypeOK
<1>2. \A j \in Ids : Agreed(j)'
  BY <1>1, StartAgreed
<1>3. /\ cl'[id].state = "asked" /\ cl'[id].name = name
      /\ \A j \in Ids \ {id} : cl'[j] = cl[j]
  BY DEF Start, DiskInv, TypeOK
<1>4. \A j \in Ids : Named(j)'
  BY <1>3 DEF TransferInv, Named
<1>5. CASE UNCHANGED <<tasks, disk, orphans>>
  <2>1. ASSUME NEW j \in Ids PROVE Dated(j)'
    BY <1>1, <1>3, <1>5 DEF TransferInv, Dated, Current
  <2>2. \A m \in orphans' : Orphaned(m)'
    BY <1>1, <1>5 DEF TransferInv, Orphaned
  <2>3. Written'
    BY <1>5 DEF TransferInv, Written
  <2> QED
    BY <1>2, <1>4, <2>1, <2>2, <2>3 DEF TransferInv
<1>6. CASE /\ Creates(name)
           /\ disk' = [disk EXCEPT ![name] = [client |-> client.number, size |-> size,
                                              bytes |-> 0, open |-> TRUE]]
           /\ tasks' = [tasks EXCEPT ![id] = [name |-> name, size |-> size, pos |-> 0]]
           /\ orphans' = orphans \cup ({tasks[id].name} \ {NoName})
  <2>1. /\ disk'[name].client = client.number
        /\ \A m \in Names \ {name} : disk'[m] = disk[m]
        /\ tasks'[id] # NoTask /\ tasks'[id].name = name
        /\ \A j \in Ids \ {id} : tasks'[j] = tasks[j]
    BY <1>1, <1>6, FileXferBounds DEF NoTask
  <2>2. disk[name].client = 0 /\ ~disk[name].open
    BY <1>6 DEF Creates, Absent
  <2>3. \A j \in Ids : tasks[j] # NoTask => tasks[j].name \in Names \ {name}
    BY <1>1, <2>2, TaskTypes DEF DiskInv, Held
  <2>4. ASSUME NEW j \in Ids PROVE Dated(j)'
    <3>1. CASE j = id
      BY <1>1, <1>3, <2>1, <3>1 DEF Dated, Current
    <3>2. CASE j # id
      <4>1. tasks[j] # NoTask => disk'[tasks[j].name] = disk[tasks[j].name]
        BY <2>1, <2>3
      <4> QED
        BY <1>1, <1>3, <2>1, <3>2, <4>1 DEF TransferInv, Dated, Current
    <3> QED
      BY <3>1, <3>2
  <2>5. ASSUME NEW m \in orphans' PROVE Orphaned(m)'
    <3>1. CASE m \in orphans
      <4>1. Orphaned(m) /\ m \in Names /\ m # name
        BY <1>1, <2>2, <3>1 DEF TransferInv, Orphaned
      <4> QED
        BY <1>1, <2>1, <4>1 DEF Orphaned
    <3>2. CASE m \notin orphans
      <4>1. m = tasks[id].name /\ m # NoName
        BY <1>6, <3>2
      <4>2. tasks[id] # NoTask
        BY <4>1 DEF NoTask
      <4>3. m \in Names \ {name} /\ disk[m] \in Files
        BY <1>1, <2>3, <4>1, <4>2
      <4>4. 0 < disk[m].client /\ disk[m].client <= client.number /\ disk[m].client # client.number
        BY <1>1, <4>1, <4>2 DEF TransferInv, Dated, Current
      <4>5. \A j \in Ids : tasks'[j].name # m
        <5>1. \A j \in Ids : tasks[j].name = m => j = id
          BY <4>1, <4>2 DEF DiskInv, Distinct
        <5> QED
          BY <2>1, <4>3, <5>1
      <4>6. disk[m].client < client.number
        <5>1. disk[m].client \in Nat
          BY <4>3, FileXferBounds DEF Files
        <5> QED
          BY <1>1, <4>4, <5>1
      <4> QED
        BY <1>1, <2>1, <4>3, <4>4, <4>5, <4>6 DEF Orphaned
    <3> QED
      BY <3>1, <3>2
  <2>6. Written'
    <3> SUFFICES ASSUME NEW m \in Names, disk'[m].open, m \notin orphans'
                 PROVE  \E j \in Ids : tasks'[j].name = m
      BY DEF Written
    <3>1. CASE m = name
      BY <2>1, <3>1
    <3>2. CASE m # name
      <4>1. disk[m].open /\ m \notin orphans
        BY <1>6, <2>1, <3>2
      <4>2. PICK j \in Ids : tasks[j].name = m
        BY <4>1 DEF TransferInv, Written
      <4>3. j # id
        BY <1>6, <4>2, FileXferBounds
      <4> QED
        BY <2>1, <4>2, <4>3
    <3> QED
      BY <3>1, <3>2
  <2> QED
    BY <1>2, <1>4, <2>4, <2>5, <2>6 DEF TransferInv
<1> QED
  BY <1>5, <1>6 DEF Start

LEMMA TransferData ==
    ASSUME DiskInv, DiskInv', TransferInv, NEW id \in Ids, NEW n \in 0 .. MaxSize, Data(id, n)
    PROVE  TransferInv'
<1>1. /\ UNCHANGED <<resets, client, orphans>> /\ agent = "running" /\ cl[id].state = "sending"
      /\ tasks \in [Ids -> Tasks \cup {NoTask}] /\ disk \in [Names -> Files]
  BY DEF Data, Dispatches, DiskInv, TypeOK
<1>2. \A j \in Ids : Agreed(j)'
  BY <1>1, DataAgreed
<1>3. \A j \in Ids : cl'[j].state = cl[j].state /\ cl'[j].name = cl[j].name
  BY DEF Data, DiskInv, TypeOK
<1>4. \A j \in Ids : Named(j)'
  BY <1>3 DEF TransferInv, Named
<1>5. Written
  BY DEF TransferInv, Written
<1>6. CASE UNCHANGED <<tasks, disk>>
  <2>1. Written'
    BY <1>1, <1>5, <1>6 DEF Written
  <2> QED
    BY <1>1, <1>2, <1>3, <1>4, <1>6, <2>1, FilesKept DEF TransferInv
<1>7. CASE /\ tasks[id] # NoTask /\ Forget(id)
           /\ \/ disk' = Deleted(tasks[id].name)
              \/ disk' = [Closed(tasks[id].name) EXCEPT ![tasks[id].name].bytes = @ + n]
  <2>1. Written'
    BY <1>1, <1>5, <1>7, WrittenEnds
  <2>2. tasks'[id] = NoTask /\ \A j \in Ids \ {id} : tasks'[j] = tasks[j]
    BY <1>1, <1>7 DEF Forget
  <2>3. \A m \in Names : m # tasks[id].name => disk'[m] = disk[m]
    BY <1>1, <1>7 DEF Deleted, Closed
  <2> QED
    BY <1>1, <1>2, <1>3, <1>4, <2>1, <2>2, <2>3, FilesKept DEF TransferInv
<1>8. CASE /\ disk' = [disk EXCEPT ![tasks[id].name].bytes = @ + n]
           /\ tasks' = [tasks EXCEPT ![id].pos = tasks[id].pos + n]
  <2>1. \A m \in Names : disk'[m].open = disk[m].open /\ disk'[m].client = disk[m].client
    BY <1>1, <1>8 DEF Files
  <2>2. \A j \in Ids : tasks'[j].name = tasks[j].name
    BY <1>1, <1>8 DEF Tasks, NoTask
  <2>3. Written'
    BY <1>1, <1>5, <2>1, <2>2 DEF Written
  <2> QED
    BY <1>1, <1>2, <1>3, <1>4, <2>1, <2>2, <2>3, FilesKept DEF TransferInv
<1> QED
  BY <1>6, <1>7, <1>8 DEF Data

LEMMA TransferCancel ==
    ASSUME DiskInv, DiskInv', TransferInv, NEW id \in Ids, Cancel(id)
    PROVE  TransferInv'
<1>1. /\ UNCHANGED <<resets, client, toClient, history>> /\ agent = "running"
      /\ cl[id].state # "idle" /\ cl'[id].state = "cancelled" /\ cl'[id].name = cl[id].name
      /\ tasks \in [Ids -> Tasks \cup {NoTask}] /\ disk \in [Names -> Files]
  BY DEF Cancel, Dispatches, DiskInv, TypeOK, history
<1>2. \A j \in Ids \ {id} : tasks'[j] = tasks[j] /\ cl'[j] = cl[j]
  BY DEF Cancel, Forget, DiskInv, TypeOK
<1>3. ASSUME NEW j \in Ids PROVE Agreed(j)' /\ Named(j)'
  <2>1. CASE j = id
    BY <1>1, <2>1 DEF Agreed, TransferInv, Named
  <2>2. CASE j # id
    BY <1>1, <1>2, <2>2, AgreedKept DEF TransferInv, Named, history
  <2> QED
    BY <2>1, <2>2
<1>4. \A j \in Ids : cl'[j].state = "idle" <=> cl[j].state = "idle"
  BY <1>1, <1>2
<1>5. CASE UNCHANGED <<tasks, disk>>
  <2>1. Written'
    BY <1>1, <1>5 DEF TransferInv, Written, history
  <2> QED
    BY <1>1, <1>3, <1>4, <1>5, <2>1, FilesKept DEF TransferInv, history
<1>6. CASE tasks[id] # NoTask /\ disk' = Deleted(tasks[id].name) /\ Forget(id)
  <2>1. Written'
    BY <1>1, <1>6, WrittenEnds DEF TransferInv, history
  <2>2. tasks'[id] = NoTask
    BY <1>1, <1>6 DEF Forget
  <2>3. \A m \in Names : m # tasks[id].name => disk'[m] = disk[m]
    BY <1>1, <1>6 DEF Deleted
  <2> QED
    BY <1>1, <1>2, <1>3, <1>4, <2>1, <2>2, <2>3, FilesKept DEF TransferInv, history
<1> QED
  BY <1>5, <1>6 DEF Cancel

\* A client that goes away leaves its tasks to the RESET that is queued.
LEMMA TransferDisconnect ==
    ASSUME DiskInv, TransferInv, Disconnect
    PROVE  TransferInv'
<1>1. /\ resets' > 0 /\ ~client'.here /\ client'.number = client.number
      /\ UNCHANGED <<tasks, disk, orphans>>
  BY DEF Disconnect, DiskInv, TypeOK
<1>2. toClient' = <<>> /\ \A id \in Ids : cl'[id].state = "idle"
  BY DEF Disconnect, Idle
<1>3. \A id \in Ids : Dated(id)' /\ Named(id)' /\ Agreed(id)'
  BY <1>1, <1>2 DEF TransferInv, Dated, Current, Named, Agreed, Untold
<1>4. \A name \in orphans' : Orphaned(name)'
  BY <1>1 DEF TransferInv, Orphaned
<1> QED
  BY <1>1, <1>3, <1>4 DEF TransferInv, Written

\* The next client is told apart by its number.
LEMMA TransferConnects ==
    ASSUME DiskInv, TransferInv, ConnectsClient
    PROVE  TransferInv'
<1>1. /\ ~client.here /\ client' = [number |-> client.number + 1, here |-> TRUE]
      /\ UNCHANGED <<tasks, disk, resets, agent, cl, toClient, orphans, cut>>
      /\ client.number \in Nat /\ disk \in [Names -> Files]
      /\ tasks \in [Ids -> Tasks \cup {NoTask}] /\ orphans \subseteq Names
  BY FileXferBounds DEF ConnectsClient, DiskInv, TypeOK, history
<1>2. \A name \in Names : disk[name].client \in Nat
  BY <1>1, FileXferBounds DEF Files
<1>3. client'.number = client.number + 1
  BY <1>1
<1>4. ASSUME NEW id \in Ids PROVE Dated(id)'
  <2> SUFFICES ASSUME tasks[id] # NoTask PROVE Dated(id)'
    BY <1>1 DEF Dated
  <2>1. tasks[id].name \in Names
    BY <1>1, TaskTypes
  <2>2. /\ 0 < disk[tasks[id].name].client /\ disk[tasks[id].name].client <= client.number
        /\ resets > 0
    BY <1>1 DEF TransferInv, Dated, Current
  <2>3. disk[tasks[id].name].client < client'.number
    BY <1>1, <1>2, <1>3, <2>1, <2>2
  <2>4. disk[tasks[id].name].client <= client'.number /\ disk[tasks[id].name].client # client'.number
    BY <1>1, <1>2, <1>3, <2>1, <2>3
  <2> QED
    BY <1>1, <2>2, <2>4 DEF Dated, Current
<1>5. ASSUME NEW name \in orphans' PROVE Orphaned(name)'
  BY <1>1, <1>2, <1>3 DEF TransferInv, Orphaned
<1>6. ASSUME NEW id \in Ids PROVE Named(id)' /\ (Agreed(id) => Agreed(id)')
  BY <1>1, AgreedKept DEF TransferInv, Named
<1> QED
  BY <1>1, <1>4, <1>5, <1>6 DEF TransferInv, Written

\* RESET is handled: what the client has asked for and the agent had is cut.
LEMMA TransferHandlesReset ==
    ASSUME DiskInv, TransferInv, HandlesReset
    PROVE  TransferInv'
<1>1. /\ \A id \in Ids : tasks'[id] = NoTask
      /\ UNCHANGED <<cl, toClient, agent, client, orphans>>
      /\ cut' = cut \cup {id \in Ids : tasks[id] # NoTask /\ cl[id].state # "idle"}
      /\ \A name \in Names : disk'[name] = IF \E id \in Ids : tasks[id].name = name
                                           THEN Absent ELSE disk[name]
      /\ orphans \subseteq Names
  BY DEF HandlesReset, Reset, DiskInv, TypeOK
<1>2. ASSUME NEW id \in Ids, Agreed(id) PROVE Agreed(id)'
  <2>1. cl[id].state # "idle" /\ Settled(id) => Settled(id)'
    <3>1. CASE cl[id].state # "idle" /\ Matches(id)
      <4>1. tasks[id].name \in Names
        BY <3>1 DEF TransferInv, Named, Matches
      <4>2. tasks[id] # NoTask
        BY <4>1, FileXferBounds DEF NoTask
      <4> QED
        BY <1>1, <3>1, <4>2 DEF Settled, Cut
    <3>2. CASE Cut(id)
      BY <1>1, <3>2 DEF Settled, Cut
    <3> QED
      BY <3>1, <3>2 DEF Settled
  <2>2. About(id)' = About(id) /\ (Untold(id)' <=> Untold(id))
    BY <1>1 DEF About, Untold
  <2> QED
    BY <1>1, <1>2, <2>1, <2>2 DEF Agreed
<1>3. \A id \in Ids : Dated(id)' /\ Named(id)'
  BY <1>1 DEF TransferInv, Dated, Named
<1>4. ASSUME NEW name \in orphans' PROVE Orphaned(name)'
  <2>1. Orphaned(name) /\ name \in Names /\ name # NoName
    BY <1>1, FileXferBounds DEF TransferInv
  <2>2. disk'[name] = disk[name]
    BY <1>1, <2>1 DEF Orphaned
  <2> QED
    BY <1>1, <2>1, <2>2 DEF Orphaned, NoTask
<1>5. Written'
  BY <1>1, FileTypes DEF TransferInv, Written
<1> QED
  BY <1>1, <1>2, <1>3, <1>4, <1>5 DEF TransferInv

\* The agent ends, and Windows closes what it has left.
LEMMA TransferAgentEnds ==
    ASSUME DiskInv, TransferInv, AgentEnds
    PROVE  TransferInv'
<1>1. /\ \A id \in Ids : tasks'[id] = NoTask
      /\ UNCHANGED <<cl, client, orphans>> /\ agent' # "running"
      /\ \A name \in Names : disk'[name] =
            IF \E id \in Ids : tasks[id].name = name THEN Absent
            ELSE IF name \in orphans THEN [disk[name] EXCEPT !.open = FALSE] ELSE disk[name]
      /\ orphans \subseteq Names /\ disk \in [Names -> Files]
  BY DEF AgentEnds, Reset, DiskInv, TypeOK, history
<1>2. \A id \in Ids : Dated(id)' /\ Named(id)'
  BY <1>1 DEF TransferInv, Dated, Named
<1>3. \A f \in Files : /\ [f EXCEPT !.open = FALSE].client = f.client
                       /\ ~[f EXCEPT !.open = FALSE].open
  BY DEF Files
<1>4. ASSUME NEW name \in orphans' PROVE Orphaned(name)'
  <2>1. Orphaned(name) /\ name \in Names /\ name # NoName
    BY <1>1, FileXferBounds DEF TransferInv
  <2>2. disk'[name] = [disk[name] EXCEPT !.open = FALSE]
    BY <1>1, <2>1 DEF Orphaned
  <2>3. disk'[name].client = disk[name].client
    BY <1>1, <1>3, <2>1, <2>2
  <2> QED
    BY <1>1, <2>1, <2>3 DEF Orphaned, NoTask
<1>5. ASSUME NEW name \in Names PROVE ~disk'[name].open
  <2>1. disk[name] \in Files
    BY <1>1
  <2>2. disk[name].open => name \in orphans \/ \E id \in Ids : tasks[id].name = name
    BY DEF TransferInv, Written
  <2> QED
    BY <1>1, <1>3, <2>1, <2>2, FileTypes
<1> QED
  BY <1>1, <1>2, <1>4, <1>5 DEF TransferInv, Written

LEMMA TransferReceives ==
    ASSUME DiskInv, DiskInv', TransferInv, ClientReceives
    PROVE  TransferInv'
<1>1. UNCHANGED <<tasks, disk, resets, agent, client, orphans>>
  BY DEF ClientReceives, history
<1>2. \A id \in Ids : /\ cl'[id].state = "idle" <=> cl[id].state = "idle"
                      /\ cl'[id].name = cl[id].name
  <2> DEFINE m == Head(toClient)
  <2>1. /\ cl' = [cl EXCEPT ![m.id] = Told(@, m.result)] /\ cl \in [Ids -> Client]
    BY DEF ClientReceives, DiskInv, TypeOK, Client
  <2>2. \A c \in Client : /\ Told(c, m.result).state = "idle" <=> c.state = "idle"
                          /\ Told(c, m.result).name = c.name
    BY DEF Told, Client
  <2> HIDE DEF m
  <2> QED
    BY <2>1, <2>2
<1>3. agent' = "running" => \A id \in Ids : Agreed(id)'
  BY <1>1, ReceiveAgreed
<1>4. \A id \in Ids : Named(id)'
  BY <1>2 DEF TransferInv, Named
<1>5. /\ \A id \in Ids : Dated(id)'
      /\ \A name \in orphans' : Orphaned(name)'
  BY <1>1, <1>2, FilesKept
<1> QED
  BY <1>1, <1>3, <1>4, <1>5 DEF TransferInv, Written

LEMMA TransferOthers ==
    ASSUME TransferInv, LockOrUnlock \/ UNCHANGED vars
    PROVE  TransferInv'
<1>1. UNCHANGED <<tasks, disk, resets, agent, client, cl, toClient, orphans, cut>>
  BY DEF LockOrUnlock, vars, history
<1>2. \A id \in Ids : Agreed(id) => Agreed(id)'
  BY <1>1, AgreedKept
<1>3. \A id \in Ids : Dated(id)' = Dated(id) /\ Named(id)' = Named(id)
  BY <1>1 DEF Dated, Current, Named
<1>4. \A name \in orphans : Orphaned(name)' = Orphaned(name)
  BY <1>1 DEF Orphaned
<1> QED
  BY <1>1, <1>2, <1>3, <1>4 DEF TransferInv, Written

\* The user takes a file that nobody writes.
LEMMA TransferRemove ==
    ASSUME DiskInv, TransferInv, NEW name \in Names, UserRemoves(name)
    PROVE  TransferInv'
<1>1. /\ UNCHANGED <<tasks, resets, agent, client, cl, toClient, cut>>
      /\ orphans' = orphans \ {name} /\ ~disk[name].open
      /\ disk'[name] = Absent /\ \A m \in Names \ {name} : disk'[m] = disk[m]
      /\ orphans \subseteq Names
  BY DEF UserRemoves, DiskInv, TypeOK
<1>2. \A id \in Ids : tasks[id] # NoTask => tasks[id].name \in Names \ {name}
  BY <1>1, TaskTypes DEF DiskInv, TypeOK, Held
<1>3. ASSUME NEW id \in Ids PROVE Dated(id)' /\ Named(id)' /\ (Agreed(id) => Agreed(id)')
  BY <1>1, <1>2, AgreedKept DEF TransferInv, Dated, Current, Named
<1>4. ASSUME NEW m \in orphans' PROVE Orphaned(m)'
  BY <1>1 DEF TransferInv, Orphaned
<1>5. Written'
  BY <1>1, FileTypes DEF TransferInv, Written
<1> QED
  BY <1>1, <1>3, <1>4, <1>5 DEF TransferInv

LEMMA TransferStep == DiskInv /\ TransferInv /\ [Next]_vars => TransferInv'
<1> SUFFICES ASSUME DiskInv, TransferInv, [Next]_vars PROVE TransferInv'
  OBVIOUS
<1>0. DiskInv'
  BY DiskStep
<1>1. ASSUME NEW id \in Ids, NEW name \in Names, NEW size \in 0 .. MaxSize, Start(id, name, size)
      PROVE  TransferInv'
  BY <1>0, <1>1, TransferStart
<1>2. ASSUME NEW id \in Ids, NEW n \in 0 .. MaxSize, Data(id, n)
      PROVE  TransferInv'
  BY <1>0, <1>2, TransferData
<1>3. ASSUME NEW id \in Ids, Cancel(id)
      PROVE  TransferInv'
  BY <1>0, <1>3, TransferCancel
<1>4. ASSUME NEW name \in Names, UserRemoves(name)
      PROVE  TransferInv'
  BY <1>4, TransferRemove
<1>5. CASE Disconnect
  BY <1>5, TransferDisconnect
<1>6. CASE HandlesReset
  BY <1>6, TransferHandlesReset
<1>7. CASE AgentEnds
  BY <1>7, TransferAgentEnds
<1>8. CASE ClientReceives
  BY <1>0, <1>8, TransferReceives
<1>9. CASE ConnectsClient
  BY <1>9, TransferConnects
<1>10. CASE LockOrUnlock \/ UNCHANGED vars
  BY <1>10, TransferOthers
<1> QED
  BY <1>1, <1>2, <1>3, <1>4, <1>5, <1>6, <1>7, <1>8, <1>9, <1>10 DEF Next

LEMMA TransferAlways == Spec => [](DiskInv /\ TransferInv)
<1>1. Init => DiskInv /\ TransferInv
  BY DiskInitial, TransferInitial
<1>2. DiskInv /\ TransferInv /\ [Next]_vars => (DiskInv /\ TransferInv)'
  BY DiskStep, TransferStep
<1> QED
  BY <1>1, <1>2, PTL DEF Spec

------------------------------------------------------------------------------
(***************************************************************************)
(* The theorems.                                                           *)
(***************************************************************************)
\* Every variable keeps its type.
THEOREM TypeIsRight == Spec => []TypeOK
<1>1. DiskInv => TypeOK
  BY DEF DiskInv
<1> QED
  BY <1>1, DiskAlways, PTL

\* No partial file is left behind, whenever RESET is handled: a file that is not
\* whole is written by one task, of the client that is there unless a RESET is
\* queued; or it was a gone client's, whose id a late RESET let the next one use.
THEOREM NothingPartial == Spec => []NoPartialFiles
<1>1. DiskInv /\ TransferInv => NoPartialFiles
  <2> SUFFICES ASSUME DiskInv, TransferInv, NEW name \in Names,
                      disk[name].bytes # disk[name].size \/ disk[name].open
               PROVE  \/ Cardinality(Transfers(name)) = 1 /\ (resets > 0 \/ Current(name))
                      \/ name \in orphans /\ disk[name].client < client.number
    BY DEF NoPartialFiles
  <2>1. CASE name \in orphans
    BY <2>1 DEF TransferInv, Orphaned
  <2>2. CASE name \notin orphans
    <3>1. disk[name].open
      BY <2>2 DEF DiskInv, Whole
    <3>2. PICK id \in Ids : tasks[id].name = name
      BY <2>2, <3>1 DEF TransferInv, Written
    <3>3. tasks[id] # NoTask
      BY <3>2, TaskTypes DEF DiskInv, TypeOK
    <3>4. \A j \in Ids : tasks[j].name = name => j = id
      BY <3>2, <3>3 DEF DiskInv, Distinct
    <3>5. Transfers(name) = {id}
      BY <3>2, <3>4 DEF Transfers
    <3>6. resets > 0 \/ Current(name)
      BY <3>2, <3>3 DEF TransferInv, Dated
    <3> QED
      BY <3>5, <3>6, FS_Singleton
  <2> QED
    BY <2>1, <2>2
<1> QED
  BY <1>1, TransferAlways, PTL

\* The client and the agent agree on a transfer that goes on, whenever RESET is
\* handled: the only one the agent may have ended without a word is one that a
\* RESET cancelled, and then the agent has no task for it.
THEOREM TheyAgree == Spec => []Agreement
<1>1. DiskInv /\ TransferInv => Agreement
  BY DEF TransferInv, Agreed, Settled, Matches, Cut, Agreement
<1> QED
  BY <1>1, TransferAlways, PTL

\* The agent touches no file that is whole, whenever RESET is handled.
THEOREM WholeFilesStay == Spec => WholeFilesAreKept
<1> DEFINE Kept == \A name \in Names :
              disk[name] # Absent /\ ~disk[name].open /\ disk'[name] # disk[name]
                  => UserRemoves(name)
<1>1. DiskInv /\ [Next]_vars => [Kept]_vars
  <2> SUFFICES ASSUME DiskInv, Next, NEW name \in Names,
                      disk[name] # Absent, ~disk[name].open, disk'[name] # disk[name]
               PROVE  UserRemoves(name)
    BY DEF vars
  <2>1. /\ disk \in [Names -> Files] /\ tasks \in [Ids -> Tasks \cup {NoTask}]
        /\ \A id \in Ids : tasks[id] # NoTask => tasks[id].name \in Names \ {name}
    BY TaskTypes DEF DiskInv, TypeOK, Held
  <2>2. ASSUME NEW id \in Ids, NEW m \in Names, NEW size \in 0 .. MaxSize, Start(id, m, size)
        PROVE  FALSE
    BY <2>1, <2>2 DEF Start, Creates
  <2>3. ASSUME NEW id \in Ids, NEW n \in 0 .. MaxSize, Data(id, n)
        PROVE  FALSE
    BY <2>1, <2>3 DEF Data, Deleted, Closed
  <2>4. ASSUME NEW id \in Ids, Cancel(id)
        PROVE  FALSE
    BY <2>1, <2>4 DEF Cancel, Deleted
  <2>5. CASE HandlesReset \/ AgentEnds
    <3>1. PICK id \in Ids : tasks[id].name = name
      <4>1. [disk[name] EXCEPT !.open = FALSE] = disk[name]
        <5>1. disk[name] \in Files /\ disk[name].open = FALSE
          BY <2>1 DEF Files
        <5> QED
          BY <5>1 DEF Files
      <4> QED
        BY <2>5, <4>1 DEF HandlesReset, AgentEnds, Reset
    <3>2. tasks[id] # NoTask
      BY <3>1, TaskTypes DEF DiskInv, TypeOK
    <3> QED
      BY <2>1, <3>1, <3>2
  <2>6. CASE Disconnect \/ ConnectsClient \/ ClientReceives \/ LockOrUnlock
    BY <2>6 DEF Disconnect, ConnectsClient, ClientReceives, LockOrUnlock
  <2>7. ASSUME NEW m \in Names, UserRemoves(m)
        PROVE  m = name
    BY <2>1, <2>7 DEF UserRemoves
  <2> QED
    BY <2>2, <2>3, <2>4, <2>5, <2>6, <2>7 DEF Next
<1> QED
  BY <1>1, DiskAlways, PTL DEF Spec, WholeFilesAreKept

==============================================================================
