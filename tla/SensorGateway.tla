--------------------------- MODULE SensorGateway ---------------------------
(***************************************************************************)
(* The sensor gateway process: its main thread, the three threads conn_mgr *)
(* (accepts sensor nodes and receives their readings), data_mgr (sorts and *)
(* averages the shared list) and stor_mgr (moves marked readings to the    *)
(* data file), the sensor nodes that connect to it, and the SIGTERM it     *)
(* sends to the log process when it is done.                               *)
(*                                                                         *)
(* A call of write_to_FIFO is one step here, during which its thread can   *)
(* be cancelled and in which it can fail; what happens to the line is the  *)
(* subject of LogFifo.                                                     *)
(***************************************************************************)
EXTENDS SensorList

CONSTANTS
    Client,        \* the sensor nodes
    NoClient,      \* an empty slot of client_socket
    Device,        \* the DEVICE_ID of each sensor node
    MaxClients,    \* MAX_CLIENTS
    Messages,      \* how many readings a sensor node sends (10)
    GatewayMayFail,\* the calls that handle_error is called after may fail
    OpenMayFail    \* fopen of the data file may fail

ASSUME GatewayAssumption ==
    /\ NoClient \notin Client
    /\ Device \in [Client -> 1..9]
    /\ MaxClients \in Nat \ {0}
    /\ Messages \in Nat
    /\ GatewayMayFail \in BOOLEAN
    /\ OpenMayFail \in BOOLEAN

VARIABLES
    \* the gateway's shared data
    head,          \* the list of readings
    mutex,         \* the holder of data_mutex, "free" when there is none
    serSem,        \* ser_ready_for_data_mgr
    storSem,       \* ser_ready_for_stor_mgr
    running,
    \* its threads
    mainPc, connPc, dataPc, storPc,
    cancel,        \* the threads pthread_cancel was called for
    client_socket, \* conn_mgr: the slots
    client_fd,     \* conn_mgr: the connection just accepted
    readfds,       \* conn_mgr: the slots select found ready and not yet served
    msg,           \* conn_mgr: the reading just parsed
    temp,          \* data_mgr: the position of the group to look at next
    \* what it leaves behind
    averages,      \* the windows whose averages data_mgr has logged
    dataFile,      \* data.txt
    logProcess,    \* whether the log process runs, is told to end
    \* the sensor nodes and the network
    node,          \* whether each is off, connected or closed
    sent,          \* how many readings each has sent
    stream,        \* its bytes in flight: the times of the readings
    backlog        \* connections not yet accepted

sharedVars == <<head, mutex, serSem, storSem, running>>
connVars   == <<connPc, client_socket, client_fd, readfds, msg>>
outVars    == <<averages, dataFile, logProcess>>
netVars    == <<node, sent, stream, backlog>>
vars == <<head, mutex, serSem, storSem, running, mainPc, dataPc, storPc, cancel, temp,
          connVars, outVars, netVars>>

Slot == 1..MaxClients

Init ==
    /\ head = <<>>
    /\ mutex = "free"
    /\ serSem = 0
    /\ storSem = 0
    /\ running = TRUE
    /\ mainPc = "join_conn"
    /\ connPc = "setup"
    /\ dataPc = "loop"
    /\ storPc = "loop"
    /\ cancel = {}
    /\ client_socket = [i \in Slot |-> NoClient]
    /\ client_fd = NoClient
    /\ readfds = {}
    /\ msg = <<>>
    /\ temp = 1
    /\ averages = <<>>
    /\ dataFile = <<>>
    /\ logProcess = "running"
    /\ node = [c \in Client |-> "off"]
    /\ sent = [c \in Client |-> 0]
    /\ stream = [c \in Client |-> <<>>]
    /\ backlog = <<>>

-----------------------------------------------------------------------------
(* The sensor nodes: client_1.c and client_2.c. *)

Connect(c) ==
    /\ node[c] = "off"
    /\ connPc \notin {"setup", "done"} /\ mainPc # "exited"
    /\ node' = [node EXCEPT ![c] = "connected"]
    /\ backlog' = Append(backlog, c)
    /\ UNCHANGED <<sent, stream>>

Send(c) ==
    /\ node[c] = "connected"
    /\ sent[c] < Messages
    /\ connPc # "done" /\ mainPc # "exited"
    /\ sent' = [sent EXCEPT ![c] = @ + 1]
    /\ stream' = [stream EXCEPT ![c] = Append(@, sent[c] + 1)]
    /\ UNCHANGED <<node, backlog>>

\* After the last reading, or because the node is stopped.
Close(c) ==
    /\ node[c] = "connected"
    /\ node' = [node EXCEPT ![c] = "closed"]
    /\ UNCHANGED <<sent, stream, backlog>>

SensorNode(c) ==
    /\ Connect(c) \/ Send(c) \/ Close(c)
    /\ UNCHANGED <<sharedVars, mainPc, dataPc, storPc, cancel, temp, connVars, outVars>>

-----------------------------------------------------------------------------
(* conn_mgr: socket_server_processing. *)

\* socket, bind, listen.
Setup ==
    /\ connPc = "setup"
    /\ connPc' = "select"
    /\ UNCHANGED <<sharedVars, mainPc, client_socket, client_fd, readfds, msg>>
    /\ UNCHANGED netVars

\* A slot is readable when its stream has bytes or its peer has closed.
Readable(i) ==
    /\ client_socket[i] # NoClient
    /\ stream[client_socket[i]] # <<>> \/ node[client_socket[i]] = "closed"

\* select finds the listening socket ready: this round only accepts.
SelectAccept ==
    /\ connPc = "select"
    /\ backlog # <<>>
    /\ client_fd' = Head(backlog)
    /\ backlog' = Tail(backlog)
    /\ connPc' = "opened"
    /\ UNCHANGED <<sharedVars, mainPc, client_socket, readfds, msg, node, sent, stream>>

\* The line for the new connection is written, then the connection gets the
\* first empty slot.  Without one it is served by nobody.
LogOpened ==
    /\ connPc = "opened"
    /\ LET empty == {i \in Slot : client_socket[i] = NoClient}
       IN  client_socket' =
             [i \in Slot |-> IF i \in empty /\ \A j \in empty : i <= j
                             THEN client_fd ELSE client_socket[i]]
    /\ client_fd' = NoClient
    /\ connPc' = "select"
    /\ UNCHANGED <<sharedVars, mainPc, readfds, msg, netVars>>

\* Only slots are ready: they are served in the order of their numbers.
SelectData ==
    /\ connPc = "select"
    /\ backlog = <<>>
    /\ \E i \in Slot : Readable(i)
    /\ readfds' = {i \in Slot : Readable(i)}
    /\ connPc' = "scan"
    /\ UNCHANGED <<sharedVars, mainPc, client_socket, client_fd, msg, netVars>>

\* Nothing happened for seven seconds.
SelectTimeout ==
    /\ connPc = "select"
    /\ backlog = <<>>
    /\ \A i \in Slot : ~Readable(i)
    /\ running' = FALSE
    /\ connPc' = "closing"
    /\ UNCHANGED <<head, mutex, serSem, storSem, mainPc>>
    /\ UNCHANGED <<client_socket, client_fd, readfds, msg, netVars>>

Serving == CHOOSE i \in readfds : \A j \in readfds : i <= j

\* sscanf of all the bytes that have arrived.  When several readings have, only
\* the first is taken, and its time runs into the ID that begins the second:
\* "1/20/7" and "1/18/9" are read as "1/20/71/18/9".
Parse(c) ==
    [id   |-> Device[c],
     time |-> IF Len(stream[c]) = 1 THEN stream[c][1]
              ELSE 10 * stream[c][1] + Device[c]]

Receive ==
    /\ connPc = "scan"
    /\ readfds # {}
    /\ LET c == client_socket[Serving]
       IN  IF stream[c] # <<>>
           THEN /\ msg' = <<Parse(c)>>
                /\ stream' = [stream EXCEPT ![c] = <<>>]
                /\ connPc' = "lock"
           ELSE /\ connPc' = "closed"
                /\ UNCHANGED <<msg, stream>>
    /\ UNCHANGED <<sharedVars, mainPc, client_socket, client_fd, readfds>>
    /\ UNCHANGED <<node, sent, backlog>>

\* read returned 0: the line is written, the slot becomes empty.
LogClosed ==
    /\ connPc = "closed"
    /\ client_socket' = [client_socket EXCEPT ![Serving] = NoClient]
    /\ readfds' = readfds \ {Serving}
    /\ connPc' = "scan"
    /\ UNCHANGED <<sharedVars, mainPc, client_fd, msg, netVars>>

\* The critical section of conn_mgr.
\* Wrong: no mutex is taken.
SaveReadingUnlocked ==
    /\ connPc = "lock"
    /\ head' = Save(head, msg[1].id, msg[1].time)
    /\ msg' = <<>>
    /\ connPc' = "post"
    /\ UNCHANGED <<mutex, serSem, storSem, running, mainPc>>
    /\ UNCHANGED <<client_socket, client_fd, readfds, netVars>>

SaveReading ==
    /\ connPc = "lock"
    /\ mutex = "free"
    /\ head' = Save(head, msg[1].id, msg[1].time)
    /\ msg' = <<>>
    /\ connPc' = "post"
    /\ UNCHANGED <<mutex, serSem, storSem, running, mainPc>>
    /\ UNCHANGED <<client_socket, client_fd, readfds, netVars>>

\* Wrong: data_mgr is not woken.
PostReadingForgotten ==
    /\ connPc = "post"
    /\ readfds' = readfds \ {Serving}
    /\ connPc' = "scan"
    /\ UNCHANGED <<sharedVars, mainPc, client_socket, client_fd, msg, netVars>>

PostReading ==
    /\ connPc = "post"
    /\ serSem' = serSem + 1
    /\ readfds' = readfds \ {Serving}
    /\ connPc' = "scan"
    /\ UNCHANGED <<head, mutex, storSem, running, mainPc>>
    /\ UNCHANGED <<client_socket, client_fd, msg, netVars>>

\* Back to the head of the loop; only this thread ever ends the loop.
ScanEnds ==
    /\ connPc = "scan"
    /\ readfds = {}
    /\ connPc' = "select"
    /\ UNCHANGED <<sharedVars, mainPc, client_socket, client_fd, readfds, msg, netVars>>

\* The sockets are closed and the thread exits.
CloseAll ==
    /\ connPc = "closing"
    /\ client_socket' = [i \in Slot |-> NoClient]
    /\ connPc' = "done"
    /\ UNCHANGED <<sharedVars, mainPc, client_fd, readfds, msg, netVars>>

ConnMgr ==
    /\ \/ Setup \/ SelectAccept \/ LogOpened \/ SelectData
       \/ SelectTimeout \/ Receive \/ LogClosed \/ SaveReading \/ PostReading
       \/ ScanEnds \/ CloseAll
    /\ UNCHANGED <<dataPc, storPc, cancel, temp, outVars>>

\* What conn_mgr is bound to do: seven seconds of silence may never come.
ConnMgrServes == ConnMgr /\ ~SelectTimeout

-----------------------------------------------------------------------------
(* data_mgr: thr_data_mgr_handle. *)

DataLoop ==
    /\ dataPc = "loop"
    /\ dataPc' = IF running THEN "wait" ELSE "done"
    /\ UNCHANGED <<sharedVars, temp, averages>>

\* Wrong: sem_wait does not wait.
DataWaitNever ==
    /\ dataPc = "wait"
    /\ serSem' = serSem - 1
    /\ dataPc' = "lock"
    /\ UNCHANGED <<head, mutex, storSem, running, temp, averages>>

DataWait ==
    /\ dataPc = "wait"
    /\ serSem > 0
    /\ serSem' = serSem - 1
    /\ dataPc' = "lock"
    /\ UNCHANGED <<head, mutex, storSem, running, temp, averages>>

\* The mutex is taken, the list sorted.
DataSort ==
    /\ dataPc = "lock"
    /\ mutex = "free"
    /\ mutex' = "data_mgr"
    /\ head' \in Sorted(head)
    /\ temp' = 1
    /\ dataPc' = "average"
    /\ UNCHANGED <<serSem, storSem, running, averages>>

\* One round of the outer loop of averaged_temp_linked_list: the group is too
\* small, or its average is to be logged.
AverageGroup ==
    /\ dataPc = "average"
    /\ temp <= Len(head)
    /\ IF HasWindow(head, temp)
       THEN dataPc' = "log" /\ UNCHANGED temp
       ELSE temp' = NextGroup(head, temp) /\ UNCHANGED dataPc
    /\ UNCHANGED <<sharedVars, averages>>

\* printf, write_to_FIFO, and the mark on the first reading of the group.
LogAverage ==
    /\ dataPc = "log"
    /\ averages' = Append(averages, WindowAt(head, temp))
    /\ head' = Mark(head, temp)
    /\ temp' = NextGroup(head, temp)
    /\ dataPc' = "average"
    /\ UNCHANGED <<mutex, serSem, storSem, running>>

DataUnlock ==
    /\ dataPc = "average"
    /\ temp > Len(head)
    /\ mutex' = "free"
    /\ dataPc' = "post"
    /\ UNCHANGED <<head, serSem, storSem, running, temp, averages>>

\* Wrong: stor_mgr is not woken.
DataPostForgotten ==
    /\ dataPc = "post"
    /\ dataPc' = "loop"
    /\ UNCHANGED <<sharedVars, temp, averages>>

DataPost ==
    /\ dataPc = "post"
    /\ storSem' = storSem + 1
    /\ dataPc' = "loop"
    /\ UNCHANGED <<head, mutex, serSem, running, temp, averages>>

\* pthread_cancel is acted upon in sem_wait and in the calls that write the
\* line, after or before it is in the FIFO, never in pthread_mutex_lock.
\* Nothing releases the mutex.
DataCancelled ==
    /\ "data_mgr" \in cancel
    /\ \/ dataPc = "wait" /\ UNCHANGED averages
       \/ /\ dataPc = "log"
          /\ averages' \in {averages, Append(averages, WindowAt(head, temp))}
    /\ dataPc' = "cancelled"
    /\ UNCHANGED <<sharedVars, temp>>

DataMgr ==
    /\ \/ DataLoop \/ DataWait \/ DataSort \/ AverageGroup \/ LogAverage
       \/ DataUnlock \/ DataPost \/ DataCancelled
    /\ UNCHANGED <<mainPc, storPc, cancel, connVars, dataFile, logProcess, netVars>>

-----------------------------------------------------------------------------
(* stor_mgr: thr_stor_mgr_handle. *)

StorLoop ==
    /\ storPc = "loop"
    /\ storPc' = IF running THEN "wait" ELSE "done"
    /\ UNCHANGED <<sharedVars, dataFile>>

StorWait ==
    /\ storPc = "wait"
    /\ storSem > 0
    /\ storSem' = storSem - 1
    /\ storPc' = "lock"
    /\ UNCHANGED <<head, mutex, serSem, running, dataFile>>

\* Wrong: no mutex is taken.
StorLockForgotten ==
    /\ storPc = "lock"
    /\ storPc' = "copy"
    /\ UNCHANGED <<sharedVars, dataFile>>

StorLock ==
    /\ storPc = "lock"
    /\ mutex = "free"
    /\ mutex' = "stor_mgr"
    /\ storPc' = "copy"
    /\ UNCHANGED <<head, serSem, storSem, running, dataFile>>

\* copy_data_from_linked_list_to_data_file.
Copy ==
    /\ storPc = "copy"
    /\ dataFile' = dataFile \o Marked(head)
    /\ storPc' = "remove"
    /\ UNCHANGED sharedVars

\* fopen failed: nothing is written, and the caller is not told.
CopyFails ==
    /\ OpenMayFail
    /\ storPc = "copy"
    /\ storPc' = "remove"
    /\ UNCHANGED <<sharedVars, dataFile>>

\* Wrong: what was copied stays in the list.
RemoveNothing ==
    /\ storPc = "remove"
    /\ mutex' = "free"
    /\ storPc' = "loop"
    /\ UNCHANGED <<head, serSem, storSem, running, dataFile>>

\* remove_data_from_linked_list, and the mutex is released.
RemoveMarked ==
    /\ storPc = "remove"
    /\ head' = Unmarked(head)
    /\ mutex' = "free"
    /\ storPc' = "loop"
    /\ UNCHANGED <<serSem, storSem, running, dataFile>>

\* In sem_wait, or in the calls that write the data file: the readings are in
\* it by then or not.
StorCancelled ==
    /\ "stor_mgr" \in cancel
    /\ \/ storPc = "wait" /\ UNCHANGED dataFile
       \/ storPc = "copy" /\ dataFile' \in {dataFile, dataFile \o Marked(head)}
    /\ storPc' = "cancelled"
    /\ UNCHANGED sharedVars

StorMgr ==
    /\ \/ StorLoop \/ StorWait \/ StorLock \/ Copy \/ CopyFails \/ RemoveMarked
       \/ StorCancelled
    /\ UNCHANGED <<mainPc, dataPc, cancel, temp, connVars, averages, logProcess, netVars>>

-----------------------------------------------------------------------------
(* The main thread of the gateway process, and the log process it ends. *)

Ended(pc) == pc \in {"done", "cancelled"}

\* conn_mgr is joined, data_mgr is to be cancelled.
JoinConn ==
    /\ mainPc = "join_conn"
    /\ connPc = "done"
    /\ cancel' = cancel \cup {"data_mgr"}
    /\ mainPc' = "join_data"
    /\ UNCHANGED logProcess

JoinData ==
    /\ mainPc = "join_data"
    /\ Ended(dataPc)
    /\ cancel' = cancel \cup {"stor_mgr"}
    /\ mainPc' = "join_stor"
    /\ UNCHANGED logProcess

\* Wrong: no signal is sent.
JoinStorSilently ==
    /\ mainPc = "join_stor"
    /\ Ended(storPc)
    /\ mainPc' = "spin"
    /\ UNCHANGED <<cancel, logProcess>>

\* stor_mgr is joined; kill(getppid(), SIGTERM).
JoinStor ==
    /\ mainPc = "join_stor"
    /\ Ended(storPc)
    /\ logProcess' = "told"
    /\ mainPc' = "spin"
    /\ UNCHANGED cancel

\* while (1);
Spin == mainPc = "spin" /\ UNCHANGED <<mainPc, cancel, logProcess>>

MainThread ==
    /\ JoinConn \/ JoinData \/ JoinStor \/ Spin
    /\ UNCHANGED <<sharedVars, dataPc, storPc, temp, connVars, averages, dataFile, netVars>>

\* sigterm_handle, in the other process.
LogProcessEnds ==
    /\ logProcess = "told"
    /\ logProcess' = "ended"
    /\ UNCHANGED <<sharedVars, mainPc, dataPc, storPc, cancel, temp, connVars,
                   averages, dataFile, netVars>>

-----------------------------------------------------------------------------
(* handle_error, in whichever thread: exit ends the whole process.  Its         *)
(* memory, which nobody reads any more, is left as it was; the log process is   *)
(* not told.                                                                    *)

\* socket, bind and listen; select and accept; write_to_FIFO for a connection.
ConnFails == connPc \in {"setup", "select", "opened", "closed"}

\* write_to_FIFO for an average.
DataFails == dataPc = "log"

\* exit flushes the data file that stor_mgr is writing: of the marked readings
\* those get there that it has printed by then.
HandleError ==
    /\ GatewayMayFail
    /\ ConnFails \/ DataFails
    /\ mainPc' = "exited"
    /\ IF storPc = "copy"
       THEN \E n \in 0..Len(Marked(head)) : dataFile' = dataFile \o SubSeq(Marked(head), 1, n)
       ELSE UNCHANGED dataFile
    /\ UNCHANGED <<sharedVars, dataPc, storPc, cancel, temp, connVars, averages,
                   logProcess, netVars>>

-----------------------------------------------------------------------------
Next ==
    \/ mainPc # "exited" /\ (ConnMgr \/ DataMgr \/ StorMgr \/ MainThread \/ HandleError)
    \/ \E c \in Client : SensorNode(c)
    \/ LogProcessEnds

Fairness ==
    /\ WF_vars(mainPc # "exited" /\ ConnMgrServes)
    /\ WF_vars(mainPc # "exited" /\ DataMgr)
    /\ WF_vars(mainPc # "exited" /\ StorMgr)
    /\ WF_vars(mainPc # "exited" /\ MainThread)
    /\ WF_vars(LogProcessEnds)

Spec == Init /\ [][Next]_vars

FairSpec == Spec /\ Fairness
-----------------------------------------------------------------------------
(* Properties. *)

MsgReading == [id : Nat, time : Nat]

SharedTypes ==
    /\ head \in Seq(Reading)
    /\ mutex \in {"free", "data_mgr", "stor_mgr"}
    /\ serSem \in Nat
    /\ storSem \in Nat
    /\ running \in BOOLEAN

ThreadTypes ==
    /\ mainPc \in {"join_conn", "join_data", "join_stor", "spin", "exited"}
    /\ dataPc \in {"loop", "wait", "lock", "average", "log", "post", "done", "cancelled"}
    /\ storPc \in {"loop", "wait", "lock", "copy", "remove", "done", "cancelled"}
    /\ cancel \subseteq {"data_mgr", "stor_mgr"}
    /\ temp \in Nat \ {0}

ConnTypes ==
    /\ connPc \in {"setup", "select", "opened", "scan", "lock", "post", "closed",
                   "closing", "done"}
    /\ client_socket \in [Slot -> Client \cup {NoClient}]
    /\ client_fd \in Client \cup {NoClient}
    /\ readfds \subseteq Slot
    /\ msg \in Seq(MsgReading)

OutTypes ==
    /\ averages \in Seq(Seq(Reading))
    /\ dataFile \in Seq(Reading)
    /\ logProcess \in {"running", "told", "ended"}

NetTypes ==
    /\ node \in [Client -> {"off", "connected", "closed"}]
    /\ sent \in [Client -> Nat]
    /\ stream \in [Client -> Seq(Nat)]
    /\ backlog \in Seq(Client)

\* Every variable has its type.
TypeOK == SharedTypes /\ ThreadTypes /\ ConnTypes /\ OutTypes /\ NetTypes

\* While data_mgr walks the list it stays in order and temp stays at the start
\* of a group or behind the end, though conn_mgr and stor_mgr go on running: the
\* average it logs and the mark it sets are those of the group it looked at.
WalkIsStable ==
    dataPc \in {"average", "log"} =>
        /\ Ordered(head)
        /\ temp <= Len(head) + 1
        /\ 1 < temp /\ temp <= Len(head) => head[temp - 1].id # head[temp].id
        /\ dataPc = "log" => temp <= Len(head) /\ HasWindow(head, temp)

Key(r) == <<r.id, r.time>>
Keys(list) == {Key(list[i]) : i \in DOMAIN list}

\* fopen of the data file never fails.
AlwaysOpens == ~OpenMayFail

\* With a data file that can always be opened, the three threads, the shared
\* list and the file are a store of readings: what is saved is kept until it is
\* the oldest of a full window, is then written to the file once, and only then
\* removed, through every sort, average, copy, removal and cancellation, until
\* the process ends, if handle_error ends it.
Store == INSTANCE ReadingStore WITH
    kept   <- Keys(head) \ Keys(dataFile),
    due    <- {Key(head[i]) : i \in {j \in DOMAIN head : head[j].del}} \ Keys(dataFile),
    stored <- [i \in DOMAIN dataFile |-> Key(dataFile[i])],
    up     <- mainPc # "exited"
ImplementsReadingStore == Store!Spec

\* A time that Parse did not run together with an ID: with the ten messages of
\* the sensor nodes it can be told by its size.
Genuine(r) == r.time <= Messages /\ Messages <= 10

\* The readings of one sensor reach the data file oldest first, whatever order
\* the threads run in (readings whose time was garbled on arrival aside).
StoredInTimeOrder ==
    \A i, j \in DOMAIN dataFile :
        (/\ i < j
         /\ dataFile[i].id = dataFile[j].id
         /\ Genuine(dataFile[i]) /\ Genuine(dataFile[j]))
        => dataFile[i].time < dataFile[j].time

\* A reading is marked, and later stored, only after the average of a window it
\* is the oldest of was logged.
AveragedBeforeStored ==
    \A r \in {head[i] : i \in DOMAIN head} \cup {dataFile[i] : i \in DOMAIN dataFile} :
        r.del => \E i \in DOMAIN averages : Key(averages[i][1]) = Key(r)

\* All threads wait for work.
AllWait == connPc = "select" /\ dataPc = "wait" /\ storPc = "wait" /\ serSem = 0 /\ storSem = 0

\* The wake-ups of data_mgr and the readings saved cannot drift apart: when all
\* threads wait, data_mgr has sorted the list since the last reading came in and
\* stor_mgr has removed what was marked.
QuietIsProcessed == AllWait => Ordered(head) /\ \A i \in DOMAIN head : ~head[i].del

\* After conn_mgr has ended the log process is ended too, but for two cases: main
\* waits for ever for stor_mgr, which waits for the mutex data_mgr held when it
\* was cancelled; or data_mgr was not cancelled in its write_to_FIFO but failed
\* there, and handle_error has ended the process before the SIGTERM was sent.
Stuck == mutex = "data_mgr" /\ dataPc = "cancelled" /\ storPc = "lock"
FailedInLog == mainPc = "exited" /\ DataFails
ShutdownOrStuck == connPc = "done" ~> (logProcess = "ended" \/ Stuck \/ FailedInLog)

\* With a data file that can always be opened, a marked reading reaches the data
\* file, or the gateway shuts down or is ended by handle_error.
MarkedIsStored ==
    AlwaysOpens =>
        \A c \in Client, t \in 1..Messages :
            (\E i \in DOMAIN head : head[i].del /\ Key(head[i]) = <<Device[c], t>>)
            ~> (\/ <<Device[c], t>> \in Keys(dataFile)
                \/ connPc = "done"
                \/ mainPc = "exited")

\* readme.md: when for seven seconds nothing connects and no data arrives the
\* program ends by itself.
ShutdownCompletes == ~running ~> logProcess = "ended"
=============================================================================
