------------------------------ MODULE LogFifo ------------------------------
(***************************************************************************)
(* The event log of the sensor gateway: the threads of the gateway process *)
(* write one line per event into a named FIFO (write_to_FIFO), the log     *)
(* process reads the FIFO and appends what it read to log.txt              *)
(* (write_to_LOG_file).  Both sides open and close the FIFO around every   *)
(* single transfer, so the kernel's rule that a pipe nobody holds open     *)
(* forgets its content is part of the behaviour.                           *)
(*                                                                         *)
(* A line is a record: the thread that wrote it, which of its events it    *)
(* is, what happened, and the sequence number printed in front of it.  A   *)
(* read returns whole lines, at most ReadMax of them; bytes are not        *)
(* modelled, nor is a full pipe (64 kB, hundreds of lines).                *)
(***************************************************************************)
EXTENDS Naturals, Sequences

CONSTANTS
    Writer,         \* the threads that log
    First,          \* those of them that may log before any other has
    Cancellable,    \* those of them that main cancels with pthread_cancel
    GatewayMayFail, \* handle_error may end the writers' process
    LogMayFail,     \* handle_error may end the log process
    What,           \* the events there are to log
    NoLine,         \* log_event, a local variable, outside its block
    ReadMax,        \* how many lines one read of BUFFER_SIZE - 1 bytes returns
    MaxEvents       \* bound: lines one writer produces

ASSUME LogFifoAssumption ==
    /\ First \subseteq Writer
    /\ Cancellable \subseteq Writer
    /\ GatewayMayFail \in BOOLEAN
    /\ LogMayFail \in BOOLEAN
    /\ ReadMax \in Nat \ {0}
    /\ MaxEvents \in Nat

VARIABLES
    seqno,     \* log_sequence_number, shared by the writers without a lock
    wpc,       \* where each writer is inside "sprintf(...++...); write_to_FIFO"
    entry,     \* log_event, the line each writer is producing
    made,      \* history: how many lines each writer has begun
    pipe,      \* the content of the FIFO
    holders,   \* the writers that have it open (O_RDWR)
    lpc,       \* where the log process is
    chunk,     \* buffer, what its last read returned
    logFile,   \* log.txt
    sigterm    \* a SIGTERM has been sent to the log process

writerVars == <<seqno, wpc, entry, made>>
vars       == <<seqno, wpc, entry, made, pipe, holders, lpc, chunk, logFile, sigterm>>

Line == [src : Writer, k : Nat \ {0}, what : What, n : Nat]

\* The log process holds the FIFO from the moment its open(O_RDONLY) starts to
\* wait for a writer until its close.
LogHolds == lpc \in {"blocked", "read", "close"}

\* What is left in the FIFO once the writers in h are the only ones to hold it.
KeptBy(h, logHolds) == IF h = {} /\ ~logHolds THEN <<>> ELSE pipe

Init ==
    /\ seqno = 0
    /\ wpc = [w \in Writer |-> "idle"]
    /\ entry = [w \in Writer |-> NoLine]
    /\ made = [w \in Writer |-> 0]
    /\ pipe = <<>>
    /\ holders = {}
    /\ lpc = "sleep"
    /\ chunk = <<>>
    /\ logFile = <<>>
    /\ sigterm = FALSE

-----------------------------------------------------------------------------
(* The writers. *)

\* The thread v has written a line.
HasLogged(v) == made[v] > 1 \/ (made[v] = 1 /\ wpc[v] = "idle")

\* A thread has an event to report and starts to format its line.  data_mgr
\* reports averages of what came over a connection, and conn_mgr has written
\* the line of that connection before it reads from it.
StartLog(w, what) ==
    /\ wpc[w] = "idle"
    /\ w \in First \/ \E v \in First : HasLogged(v)
    /\ made[w] < MaxEvents
    /\ made' = [made EXCEPT ![w] = @ + 1]
    /\ entry' = [entry EXCEPT ![w] =
                    [src |-> w, k |-> made[w] + 1, what |-> what, n |-> 0]]
    /\ wpc' = [wpc EXCEPT ![w] = "load"]
    /\ UNCHANGED <<seqno, pipe, holders, lpc, chunk, logFile, sigterm>>

\* log_sequence_number++ is a load ...
LoadSeq(w) ==
    /\ wpc[w] = "load"
    /\ entry' = [entry EXCEPT ![w].n = seqno]
    /\ wpc' = [wpc EXCEPT ![w] = "store"]
    /\ UNCHANGED <<seqno, made, pipe, holders, lpc, chunk, logFile, sigterm>>

\* Wrong: the number is decremented.
StoreSeqDown(w) ==
    /\ wpc[w] = "store"
    /\ seqno' = entry[w].n - 1
    /\ wpc' = [wpc EXCEPT ![w] = "open"]
    /\ UNCHANGED <<entry, made, pipe, holders, lpc, chunk, logFile, sigterm>>

\* ... and a store, with nothing that keeps the other writer out between them.
StoreSeq(w) ==
    /\ wpc[w] = "store"
    /\ seqno' = entry[w].n + 1
    /\ wpc' = [wpc EXCEPT ![w] = "open"]
    /\ UNCHANGED <<entry, made, pipe, holders, lpc, chunk, logFile, sigterm>>

\* Wrong: an open(O_WRONLY), which waits for a reader.
OpenFifoWriteOnly(w) ==
    /\ wpc[w] = "open"
    /\ LogHolds
    /\ holders' = holders \cup {w}
    /\ lpc' = IF lpc = "blocked" THEN "read" ELSE lpc
    /\ wpc' = [wpc EXCEPT ![w] = "write"]
    /\ UNCHANGED <<seqno, entry, made, pipe, chunk, logFile, sigterm>>

\* open(O_RDWR) never waits, and lets a reader waiting in its own open go on.
OpenFifo(w) ==
    /\ wpc[w] = "open"
    /\ holders' = holders \cup {w}
    /\ lpc' = IF lpc = "blocked" THEN "read" ELSE lpc
    /\ wpc' = [wpc EXCEPT ![w] = "write"]
    /\ UNCHANGED <<seqno, entry, made, pipe, chunk, logFile, sigterm>>

WriteFifo(w) ==
    /\ wpc[w] = "write"
    /\ pipe' = Append(pipe, entry[w])
    /\ wpc' = [wpc EXCEPT ![w] = "close"]
    /\ UNCHANGED <<seqno, entry, made, holders, lpc, chunk, logFile, sigterm>>

CloseFifo(w) ==
    /\ wpc[w] = "close"
    /\ holders' = holders \ {w}
    /\ pipe' = KeptBy(holders \ {w}, LogHolds)
    /\ entry' = [entry EXCEPT ![w] = NoLine]
    /\ wpc' = [wpc EXCEPT ![w] = "idle"]
    /\ UNCHANGED <<seqno, made, lpc, chunk, logFile, sigterm>>

\* A pthread_cancel that is pending takes effect at the next cancellation
\* point: the printf in front of the sprintf, or the open, write or close.  A
\* descriptor that is open then stays open.
CancelWriter(w) ==
    /\ wpc[w] \in {"load", "open", "write", "close"}
    /\ wpc' = [wpc EXCEPT ![w] = "cancelled"]
    /\ entry' = [entry EXCEPT ![w] = NoLine]
    /\ UNCHANGED <<seqno, made, pipe, holders, lpc, chunk, logFile, sigterm>>

\* handle_error ends the whole gateway process, wherever its threads are.
WritersExit ==
    /\ \E w \in Writer : wpc[w] # "gone"
    /\ wpc' = [w \in Writer |-> "gone"]
    /\ entry' = [w \in Writer |-> NoLine]
    /\ holders' = {}
    /\ pipe' = KeptBy({}, LogHolds)
    /\ UNCHANGED <<seqno, made, lpc, chunk, logFile, sigterm>>

-----------------------------------------------------------------------------
(* The log process. *)

\* sleep(1), and then the loop.
LogWake ==
    /\ lpc = "sleep"
    /\ lpc' = "open"
    /\ UNCHANGED <<writerVars, pipe, holders, chunk, logFile, sigterm>>

\* open(O_RDONLY) waits until somebody has the FIFO open for writing.
LogOpen ==
    /\ lpc = "open"
    /\ lpc' = IF holders = {} THEN "blocked" ELSE "read"
    /\ UNCHANGED <<writerVars, pipe, holders, chunk, logFile, sigterm>>

\* Wrong: a read that leaves in the FIFO what it returns.
LogReadPeek ==
    /\ lpc = "read"
    /\ pipe # <<>> \/ holders = {}
    /\ chunk' = SubSeq(pipe, 1, IF Len(pipe) < ReadMax THEN Len(pipe) ELSE ReadMax)
    /\ lpc' = "close"
    /\ UNCHANGED <<writerVars, pipe, holders, logFile, sigterm>>

\* read waits while the FIFO is empty and a writer has it open; without a
\* writer it returns 0.
LogRead ==
    /\ lpc = "read"
    /\ pipe # <<>> \/ holders = {}
    /\ LET n == IF Len(pipe) < ReadMax THEN Len(pipe) ELSE ReadMax
       IN  /\ chunk' = SubSeq(pipe, 1, n)
           /\ pipe' = SubSeq(pipe, n + 1, Len(pipe))
    /\ lpc' = "close"
    /\ UNCHANGED <<writerVars, holders, logFile, sigterm>>

\* Wrong: a close that empties the FIFO whoever has it open.
LogCloseFlush ==
    /\ lpc = "close"
    /\ pipe' = <<>>
    /\ lpc' = IF chunk = <<>> THEN "open" ELSE "append"
    /\ UNCHANGED <<writerVars, holders, chunk, logFile, sigterm>>

\* Wrong: no close, and the FIFO keeps its content.
LogCloseForgotten ==
    /\ lpc = "close"
    /\ lpc' = IF chunk = <<>> THEN "open" ELSE "append"
    /\ UNCHANGED <<writerVars, pipe, holders, chunk, logFile, sigterm>>

\* close, which empties the FIFO when no writer has it open.
LogClose ==
    /\ lpc = "close"
    /\ pipe' = KeptBy(holders, FALSE)
    /\ lpc' = IF chunk = <<>> THEN "open" ELSE "append"
    /\ UNCHANGED <<writerVars, holders, chunk, logFile, sigterm>>

\* Wrong: the log file cannot be opened, and the loop goes on.
LogAppendNothing ==
    /\ lpc = "append"
    /\ chunk' = <<>>
    /\ lpc' = "open"
    /\ UNCHANGED <<writerVars, pipe, holders, logFile, sigterm>>

\* fopen, fputs, fclose.
LogAppend ==
    /\ lpc = "append"
    /\ logFile' = logFile \o chunk
    /\ chunk' = <<>>
    /\ lpc' = "open"
    /\ UNCHANGED <<writerVars, pipe, holders, sigterm>>

SendSigterm ==
    /\ ~sigterm
    /\ sigterm' = TRUE
    /\ UNCHANGED <<writerVars, pipe, holders, lpc, chunk, logFile>>

\* The log process ends; what it had read and not yet appended is gone.
LogExit ==
    /\ lpc' = "exited"
    /\ chunk' = <<>>
    /\ pipe' = KeptBy(holders, FALSE)
    /\ UNCHANGED <<writerVars, holders, logFile, sigterm>>

\* sigterm_handle (during the sleep: the default action) exits wherever the
\* process is.
LogSigterm == sigterm /\ lpc # "exited" /\ LogExit

\* handle_error: the open, the read or the fopen of log.txt has failed.
LogFails == LogMayFail /\ lpc \in {"open", "read", "append"} /\ LogExit

-----------------------------------------------------------------------------
LogStep(w) ==
    \/ LoadSeq(w) \/ StoreSeq(w) \/ OpenFifo(w) \/ WriteFifo(w) \/ CloseFifo(w)

LogProcess == LogWake \/ LogOpen \/ LogRead \/ LogClose \/ LogAppend \/ LogSigterm

Next ==
    \/ \E w \in Writer, what \in What : StartLog(w, what)
    \/ \E w \in Writer : LogStep(w)
    \/ \E w \in Cancellable : CancelWriter(w)
    \/ GatewayMayFail /\ WritersExit
    \/ SendSigterm
    \/ LogProcess
    \/ LogFails

Fairness ==
    /\ \A w \in Writer : WF_vars(LogStep(w))
    /\ WF_vars(LogProcess)

Spec == Init /\ [][Next]_vars

FairSpec == Spec /\ Fairness

-----------------------------------------------------------------------------
(* Properties. *)

WriterState == {"idle", "load", "store", "open", "write", "close", "cancelled", "gone"}
LogState    == {"sleep", "open", "blocked", "read", "close", "append", "exited"}

\* Every variable has its type.
TypeOK ==
    /\ seqno \in Nat
    /\ wpc \in [Writer -> WriterState]
    /\ entry \in [Writer -> Line \cup {NoLine}]
    /\ made \in [Writer -> Nat]
    /\ pipe \in Seq(Line)
    /\ holders \subseteq Writer
    /\ lpc \in LogState
    /\ chunk \in Seq(Line)
    /\ logFile \in Seq(Line)
    /\ sigterm \in BOOLEAN

\* When the log process waits in open(O_RDONLY) nothing is waiting for it: no
\* line is in the FIFO and no writer has it open, so the wait can never be the
\* reason why a line that was written is not logged.
NoStrandedData == lpc = "blocked" => pipe = <<>> /\ holders = {}

\* The lines on their way, oldest first, and with those in log.txt before them.
Way   == chunk \o pipe
Trail == logFile \o Way

\* However opens, reads and closes interleave, the lines of one thread reach
\* log.txt in the order in which the thread produced them and none comes twice.
WriterOrder ==
    \A i, j \in DOMAIN Trail :
        i < j /\ Trail[i].src = Trail[j].src => Trail[i].k < Trail[j].k

\* The FIFO, opened and closed around every transfer by both sides, is a log
\* into which a line enters once or never, and from which nothing comes twice,
\* late or out of order: lines are lost only at one end of the way.
Log == INSTANCE EventLog WITH
    begun   <- made,
    pending <- {w \in Writer : wpc[w] \in {"load", "store", "open", "write"}},
    way     <- Way,
    file    <- logFile
ImplementsEventLog == Log!Spec

\* A line in the FIFO, in the log process's buffer or in log.txt stays there as
\* long as some writer has the FIFO open: only the last close, and the end of
\* the log process, lose lines.
NoLossWhileHeld ==
    [][ holders # {} /\ holders' # {} /\ lpc' # "exited" =>
          /\ Len(Trail) <= Len(Trail')
          /\ Trail = SubSeq(Trail', 1, Len(Trail)) ]_vars

\* write_to_FIFO opens with O_RDWR so that logging never depends on the log
\* process: a call that has begun ends, with the log process asleep, busy or
\* gone, unless its own thread is cancelled or its process ends.
LogCallReturns ==
    \A w \in Writer : wpc[w] = "load" ~> wpc[w] \in {"idle", "cancelled", "gone"}

\* A line among the first ReadMax in the FIFO when the log process is about to
\* read reaches log.txt, unless the process ends on the way: by the SIGTERM, or
\* by handle_error when the read or the fopen of log.txt fails.  It never goes
\* on to the next read without what it has read.
ReadIsLogged ==
    \A w \in Writer, k \in 1..MaxEvents :
        (/\ lpc = "read"
         /\ \E i \in 1..Len(pipe) : i <= ReadMax /\ pipe[i].src = w /\ pipe[i].k = k)
        ~> (\/ lpc = "exited"
            \/ \E i \in 1..Len(logFile) : logFile[i].src = w /\ logFile[i].k = k)

\* What explain_server.md promises of the log process, that it always reads the
\* FIFO and writes what comes into the log: when no call is under way and the
\* log process waits for the next line, every line produced is in log.txt.
NoEventLost ==
    (lpc = "blocked" /\ \A w \in Writer : wpc[w] = "idle") =>
        \A w \in Writer : \A k \in 1..made[w] :
            \E i \in 1..Len(logFile) : logFile[i].src = w /\ logFile[i].k = k

=============================================================================
