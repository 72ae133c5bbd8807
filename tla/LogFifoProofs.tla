--------------------------- MODULE LogFifoProofs ---------------------------
(***************************************************************************)
(* What holds of the event log for any number of threads that write to it, *)
(* any number of events and any size of a read.                            *)
(***************************************************************************)
EXTENDS LogFifo, SequenceTheorems, TLAPS

\* A line that is being produced belongs to the thread that produces it.
OwnLine ==
    \A w \in Writer :
        wpc[w] \in {"load", "store", "open", "write", "close"} => entry[w] \in Line

TypeInv == TypeOK /\ OwnLine

\* The inductive invariant: a thread that appends its line has one.
LEMMA Typed == Spec => []TypeInv
<1>1. Init => TypeInv
  <2> SUFFICES ASSUME Init PROVE TypeInv
    OBVIOUS
  <2>1. <<>> \in Seq(Line)
    BY EmptySeq
  <2>2. wpc \in [Writer -> WriterState] /\ \A w \in Writer : wpc[w] = "idle"
    BY DEF Init, WriterState
  <2>3. lpc \in LogState
    BY DEF Init, LogState
  <2>4. TypeOK
    BY <2>1, <2>2, <2>3 DEF Init, TypeOK
  <2>5. QED
    BY <2>2, <2>4 DEF OwnLine, TypeInv
<1>2. TypeInv /\ [Next]_vars => TypeInv'
  <2> SUFFICES ASSUME TypeInv, [Next]_vars PROVE TypeInv'
    OBVIOUS
  <2> USE LogFifoAssumption
  <2>1. ASSUME NEW w \in Writer, NEW what \in What, StartLog(w, what) PROVE TypeInv'
    <3>1. [src |-> w, k |-> made[w] + 1, what |-> what, n |-> 0] \in Line
      BY DEF Line, TypeInv, TypeOK
    <3>2. QED
      BY <2>1, <3>1 DEF StartLog, TypeInv, TypeOK, OwnLine, WriterState
  <2>2. ASSUME NEW w \in Writer, LoadSeq(w) PROVE TypeInv'
    <3>1. [entry[w] EXCEPT !.n = seqno] \in Line
      BY <2>2 DEF LoadSeq, Line, TypeInv, TypeOK, OwnLine
    <3>2. QED
      BY <2>2, <3>1 DEF LoadSeq, TypeInv, TypeOK, OwnLine, WriterState
  <2>3. ASSUME NEW w \in Writer, StoreSeq(w) PROVE TypeInv'
    <3>1. entry[w].n \in Nat
      BY <2>3 DEF StoreSeq, Line, TypeInv, OwnLine
    <3>2. QED
      BY <2>3, <3>1 DEF StoreSeq, TypeInv, TypeOK, OwnLine, WriterState
  <2>4. ASSUME NEW w \in Writer, OpenFifo(w) PROVE TypeInv'
    BY <2>4 DEF OpenFifo, TypeInv, TypeOK, OwnLine, WriterState, LogState
  <2>5. ASSUME NEW w \in Writer, WriteFifo(w) PROVE TypeInv'
    <3>1. Append(pipe, entry[w]) \in Seq(Line)
      BY <2>5 DEF WriteFifo, TypeInv, TypeOK, OwnLine
    <3>2. QED
      BY <2>5, <3>1 DEF WriteFifo, TypeInv, TypeOK, OwnLine, WriterState
  <2>6. ASSUME NEW w \in Writer, CloseFifo(w) PROVE TypeInv'
    <3>1. <<>> \in Seq(Line)
      BY EmptySeq
    <3>2. pipe' \in Seq(Line)
      BY <2>6, <3>1 DEF CloseFifo, KeptBy, TypeInv, TypeOK
    <3>3. QED
      BY <2>6, <3>2 DEF CloseFifo, LogHolds, TypeInv, TypeOK, OwnLine, WriterState
  <2>7. ASSUME NEW w \in Cancellable, CancelWriter(w) PROVE TypeInv'
    BY <2>7 DEF CancelWriter, TypeInv, TypeOK, OwnLine, WriterState
  <2>8. CASE WritersExit
    <3>1. <<>> \in Seq(Line)
      BY EmptySeq
    <3>2. pipe' \in Seq(Line)
      BY <2>8, <3>1 DEF WritersExit, KeptBy, TypeInv, TypeOK
    <3>3. QED
      BY <2>8, <3>2 DEF WritersExit, LogHolds, TypeInv, TypeOK, OwnLine, WriterState
  <2>9. CASE SendSigterm
    BY <2>9 DEF SendSigterm, writerVars, TypeInv, TypeOK, OwnLine
  <2>10. CASE LogWake
    BY <2>10 DEF LogWake, writerVars, TypeInv, TypeOK, OwnLine, LogState
  <2>11. CASE LogOpen
    BY <2>11 DEF LogOpen, writerVars, TypeInv, TypeOK, OwnLine, LogState
  <2>12. CASE LogRead
    <3> DEFINE n == IF Len(pipe) < ReadMax THEN Len(pipe) ELSE ReadMax
    <3>1. pipe \in Seq(Line) /\ n \in 0..Len(pipe)
      BY DEF TypeInv, TypeOK
    <3>2. \A i \in 1..Len(pipe) : pipe[i] \in Line
      BY <3>1
    <3>3. SubSeq(pipe, 1, n) \in Seq(Line) /\ SubSeq(pipe, n + 1, Len(pipe)) \in Seq(Line)
      BY <3>1, <3>2, SubSeqProperties
    <3>4. QED
      BY <2>12, <3>3 DEF LogRead, writerVars, TypeInv, TypeOK, OwnLine, LogState
  <2>13. CASE LogClose
    <3>1. <<>> \in Seq(Line)
      BY EmptySeq
    <3>2. pipe' \in Seq(Line)
      BY <2>13, <3>1 DEF LogClose, KeptBy, TypeInv, TypeOK
    <3>3. QED
      BY <2>13, <3>2 DEF LogClose, writerVars, TypeInv, TypeOK, OwnLine, LogState
  <2>14. CASE LogAppend
    <3>1. logFile \o chunk \in Seq(Line) /\ <<>> \in Seq(Line)
      BY DEF TypeInv, TypeOK
    <3>2. QED
      BY <2>14, <3>1 DEF LogAppend, writerVars, TypeInv, TypeOK, OwnLine, LogState
  <2>15. CASE LogSigterm \/ LogFails
    <3>1. <<>> \in Seq(Line)
      BY EmptySeq
    <3>2. pipe' \in Seq(Line)
      BY <2>15, <3>1 DEF LogSigterm, LogFails, LogExit, KeptBy, TypeInv, TypeOK
    <3>3. QED
      BY <2>15, <3>1, <3>2 DEF LogSigterm, LogFails, LogExit, writerVars, TypeInv,
                               TypeOK, OwnLine, LogState
  <2>16. CASE UNCHANGED vars
    BY <2>16 DEF vars, TypeInv, TypeOK, OwnLine
  <2>17. QED
    BY <2>1, <2>2, <2>3, <2>4, <2>5, <2>6, <2>7, <2>8, <2>9, <2>10, <2>11, <2>12,
       <2>13, <2>14, <2>15, <2>16 DEF Next, LogStep, LogProcess
<1>3. QED
  BY <1>1, <1>2, PTL DEF Spec
-----------------------------------------------------------------------------
(* Who has the FIFO open, and what that says about its content. *)

\* Every variable of the log keeps its type: what is in the FIFO, in the log
\* process's buffer and in log.txt are lines that write_to_FIFO was called with.
THEOREM Typing == Spec => []TypeOK
<1>1. TypeInv => TypeOK
  BY DEF TypeInv
<1>2. QED
  BY <1>1, Typed, PTL

\* A FIFO that nobody has open is empty, and a descriptor is open only inside
\* write_to_FIFO or in a thread cancelled there.
HeldWhileFilled ==
    /\ pipe # <<>> => holders # {} \/ LogHolds
    /\ \A w \in Writer :
         /\ wpc[w] \in {"write", "close"} => w \in holders
         /\ w \in holders => wpc[w] \in {"write", "close", "cancelled"}

HeldInv == HeldWhileFilled /\ NoStrandedData

\* The FIFO has content only while somebody has it open, and the log process
\* never waits in open for a line that is already there: for any number of
\* writers, however opens, writes, closes and cancellations interleave.
THEOREM NothingStranded == Spec => [](HeldWhileFilled /\ NoStrandedData)
<1>1. Init => HeldInv
  BY DEF Init, HeldInv, HeldWhileFilled, NoStrandedData
<1>2. TypeInv /\ HeldInv /\ [Next]_vars => HeldInv'
  <2> SUFFICES ASSUME TypeInv, HeldInv, [Next]_vars PROVE HeldInv'
    OBVIOUS
  <2> USE LogFifoAssumption DEF HeldInv, HeldWhileFilled, NoStrandedData
  <2>0. wpc \in [Writer -> WriterState] /\ holders \subseteq Writer
    BY DEF TypeInv, TypeOK
  <2>1. ASSUME NEW w \in Writer, NEW what \in What, StartLog(w, what) PROVE HeldInv'
    BY <2>0, <2>1 DEF StartLog, LogHolds
  <2>2. ASSUME NEW w \in Writer, LoadSeq(w) PROVE HeldInv'
    BY <2>0, <2>2 DEF LoadSeq, LogHolds
  <2>3. ASSUME NEW w \in Writer, StoreSeq(w) PROVE HeldInv'
    BY <2>0, <2>3 DEF StoreSeq, LogHolds
  <2>4. ASSUME NEW w \in Writer, OpenFifo(w) PROVE HeldInv'
    BY <2>0, <2>4 DEF OpenFifo, LogHolds
  <2>5. ASSUME NEW w \in Writer, WriteFifo(w) PROVE HeldInv'
    <3>1. w \in holders /\ lpc # "blocked"
      BY <2>0, <2>5 DEF WriteFifo
    <3>2. QED
      BY <2>0, <2>5, <3>1 DEF WriteFifo, LogHolds
  <2>6. ASSUME NEW w \in Writer, CloseFifo(w) PROVE HeldInv'
    BY <2>0, <2>6 DEF CloseFifo, KeptBy, LogHolds
  <2>7. ASSUME NEW w \in Cancellable, CancelWriter(w) PROVE HeldInv'
    BY <2>0, <2>7 DEF CancelWriter, LogHolds
  <2>8. CASE WritersExit
    BY <2>0, <2>8 DEF WritersExit, KeptBy, LogHolds
  <2>9. CASE SendSigterm
    BY <2>9 DEF SendSigterm, writerVars, LogHolds
  <2>10. CASE LogWake
    BY <2>10 DEF LogWake, writerVars, LogHolds
  <2>11. CASE LogOpen
    BY <2>11 DEF LogOpen, writerVars, LogHolds
  <2>12. CASE LogRead
    BY <2>12 DEF LogRead, writerVars, LogHolds
  <2>13. CASE LogClose
    BY <2>13 DEF LogClose, KeptBy, writerVars, LogHolds
  <2>14. CASE LogAppend
    BY <2>14 DEF LogAppend, writerVars, LogHolds
  <2>15. CASE LogSigterm \/ LogFails
    BY <2>15 DEF LogSigterm, LogFails, LogExit, KeptBy, writerVars, LogHolds
  <2>16. CASE UNCHANGED vars
    BY <2>16 DEF vars, LogHolds
  <2>17. QED
    BY <2>1, <2>2, <2>3, <2>4, <2>5, <2>6, <2>7, <2>8, <2>9, <2>10, <2>11, <2>12,
       <2>13, <2>14, <2>15, <2>16 DEF Next, LogStep, LogProcess
<1>3. QED
  BY <1>1, <1>2, Typed, PTL DEF Spec, HeldInv
-----------------------------------------------------------------------------
(* The FIFO implements the event log: every step is a step of EventLog, or  *)
(* leaves its variables alone.                                              *)

\* A line is its thread's latest, and the log process holds what it has read
\* only until it has appended it.
LatestLine ==
    \A w \in Writer :
        wpc[w] \in {"load", "store", "open", "write", "close"} =>
            entry[w].src = w /\ entry[w].k = made[w]
ChunkHeld == lpc \notin {"close", "append"} => chunk = <<>>

MapInv == LatestLine /\ ChunkHeld

LEMMA Mapped == Spec => []MapInv
<1>1. Init => MapInv
  BY DEF Init, MapInv, LatestLine, ChunkHeld
<1>2. TypeInv /\ MapInv /\ [Next]_vars => MapInv'
  <2> SUFFICES ASSUME TypeInv, MapInv, [Next]_vars PROVE MapInv'
    OBVIOUS
  <2> USE LogFifoAssumption DEF MapInv, LatestLine, ChunkHeld
  <2>0. /\ wpc \in [Writer -> WriterState] /\ made \in [Writer -> Nat]
        /\ entry \in [Writer -> Line \cup {NoLine}]
    BY DEF TypeInv, TypeOK
  <2>1. ASSUME NEW w \in Writer, NEW what \in What, StartLog(w, what) PROVE MapInv'
    BY <2>0, <2>1 DEF StartLog
  <2>2. ASSUME NEW w \in Writer, LoadSeq(w) PROVE MapInv'
    <3>1. entry[w] \in Line
      BY <2>2 DEF LoadSeq, TypeInv, OwnLine
    <3>2. entry'[w].src = entry[w].src /\ entry'[w].k = entry[w].k
      BY <2>0, <2>2, <3>1 DEF LoadSeq, Line
    <3>3. QED
      BY <2>0, <2>2, <3>2 DEF LoadSeq
  <2>3. ASSUME NEW w \in Writer, StoreSeq(w) PROVE MapInv'
    BY <2>0, <2>3 DEF StoreSeq
  <2>4. ASSUME NEW w \in Writer, OpenFifo(w) PROVE MapInv'
    BY <2>0, <2>4 DEF OpenFifo
  <2>5. ASSUME NEW w \in Writer, WriteFifo(w) PROVE MapInv'
    BY <2>0, <2>5 DEF WriteFifo
  <2>6. ASSUME NEW w \in Writer, CloseFifo(w) PROVE MapInv'
    BY <2>0, <2>6 DEF CloseFifo
  <2>7. ASSUME NEW w \in Cancellable, CancelWriter(w) PROVE MapInv'
    BY <2>0, <2>7 DEF CancelWriter
  <2>8. CASE WritersExit
    BY <2>0, <2>8 DEF WritersExit
  <2>9. CASE SendSigterm
    BY <2>9 DEF SendSigterm, writerVars
  <2>10. CASE LogProcess \/ LogFails
    BY <2>10 DEF LogProcess, LogWake, LogOpen, LogRead, LogClose, LogAppend,
                 LogSigterm, LogFails, LogExit, writerVars
  <2>11. CASE UNCHANGED vars
    BY <2>11 DEF vars
  <2>12. QED
    BY <2>1, <2>2, <2>3, <2>4, <2>5, <2>6, <2>7, <2>8, <2>9, <2>10, <2>11
       DEF Next, LogStep
<1>3. QED
  BY <1>1, <1>2, Typed, PTL DEF Spec

\* What is behind the first Len(s) elements of s \o t, and what is before.
LEMMA SplitConcat ==
  ASSUME NEW S, NEW s \in Seq(S), NEW t \in Seq(S)
  PROVE  /\ SubSeq(s \o t, 1, Len(s)) = s
         /\ SubSeq(s \o t, Len(s) + 1, Len(s \o t)) = t
<1> DEFINE u == s \o t
           a == SubSeq(u, 1, Len(s))
           b == SubSeq(u, Len(s) + 1, Len(u))
<1>1. /\ u \in Seq(S) /\ Len(u) = Len(s) + Len(t)
      /\ \A i \in 1..(Len(s) + Len(t)) : u[i] = IF i <= Len(s) THEN s[i] ELSE t[i - Len(s)]
  BY ConcatProperties
<1>2. Len(s) \in Nat /\ Len(t) \in Nat
  BY LenProperties
<1>3. \A i \in 1..Len(u) : u[i] \in S
  BY <1>1, ElementOfSeq
<1> HIDE DEF u
<1>4. a \in Seq(S) /\ Len(a) = Len(s) /\ \A i \in 1..Len(s) : a[i] = u[i]
  <2>1. \A i \in 1..Len(s) : u[i] \in S
    BY <1>1, <1>2, <1>3
  <2>2. QED
    BY <1>2, <2>1, SubSeqProperties
<1>5. b \in Seq(S) /\ Len(b) = Len(t) /\ \A i \in 1..Len(t) : b[i] = u[Len(s) + i]
  <2>1. \A i \in (Len(s) + 1)..Len(u) : u[i] \in S
    BY <1>1, <1>2, <1>3
  <2>2. /\ b \in Seq(S)
        /\ Len(b) = IF Len(s) + 1 <= Len(u) THEN Len(u) - (Len(s) + 1) + 1 ELSE 0
        /\ \A i \in 1..(Len(u) - (Len(s) + 1) + 1) : b[i] = u[Len(s) + 1 + i - 1]
    BY <1>1, <1>2, <2>1, SubSeqProperties
  <2>3. QED
    BY <1>1, <1>2, <2>2
<1>6. a = s
  <2>1. \A i \in 1..Len(s) : a[i] = s[i]
    BY <1>1, <1>2, <1>4
  <2>2. QED
    BY <1>4, <2>1, SeqEqual
<1>7. b = t
  <2>1. \A i \in 1..Len(t) : b[i] = t[i]
    BY <1>1, <1>2, <1>5
  <2>2. QED
    BY <1>5, <2>1, SeqEqual
<1>8. QED
  BY <1>6, <1>7 DEF u

LEMMA WayType == TypeInv => chunk \in Seq(Line) /\ pipe \in Seq(Line) /\ Way \in Seq(Line)
  BY ConcatProperties DEF TypeInv, TypeOK, Way

\* What is left on the way when what the log process has read, what is in the
\* FIFO, or both are lost is one piece of it.
LEMMA OnePieceLeft ==
  ASSUME TypeInv, NEW c \in {<<>>, chunk}, NEW q \in {<<>>, pipe}
  PROVE  \E m \in 1..(Len(Way) + 1), n \in 0..Len(Way) : c \o q = SubSeq(Way, m, n)
<1>1. /\ chunk \in Seq(Line) /\ pipe \in Seq(Line) /\ Way \in Seq(Line)
      /\ <<>> \in Seq(Line)
  BY WayType, EmptySeq
<1>2. /\ Len(chunk) \in Nat /\ Len(pipe) \in Nat
      /\ Len(Way) = Len(chunk) + Len(pipe)
  BY <1>1, LenProperties, ConcatProperties DEF Way
<1>3. SubSeq(Way, 1, Len(chunk)) = chunk /\ SubSeq(Way, Len(chunk) + 1, Len(Way)) = pipe
  BY <1>1, SplitConcat DEF Way
<1>4. CASE c = <<>> /\ q = <<>>
  <2>1. SubSeq(Way, 1, 0) = <<>>
    BY SubSeqEmpty
  <2>2. c \o q = <<>>
    BY <1>1, <1>4, ConcatEmptySeq
  <2>3. QED
    BY <1>2, <2>1, <2>2
<1>5. CASE c = chunk /\ q = <<>>
  <2>1. c \o q = SubSeq(Way, 1, Len(chunk))
    BY <1>1, <1>3, <1>5, ConcatEmptySeq
  <2>2. 1 \in 1..(Len(Way) + 1) /\ Len(chunk) \in 0..Len(Way)
    BY <1>2
  <2>3. QED
    BY <2>1, <2>2
<1>6. CASE c = <<>> /\ q = pipe
  <2>1. c \o q = SubSeq(Way, Len(chunk) + 1, Len(Way))
    BY <1>1, <1>3, <1>6, ConcatEmptySeq
  <2>2. Len(chunk) + 1 \in 1..(Len(Way) + 1) /\ Len(Way) \in 0..Len(Way)
    BY <1>2
  <2>3. QED
    BY <2>1, <2>2
<1>7. CASE c = chunk /\ q = pipe
  <2>1. c \o q = SubSeq(Way, 1, Len(Way))
    BY <1>1, <1>7, SubSeqFull DEF Way
  <2>2. QED
    BY <1>2, <2>1
<1>8. QED
  BY <1>4, <1>5, <1>6, <1>7

\* A write extends the way at its end.
LEMMA WriteExtendsWay ==
  ASSUME TypeInv, NEW w \in Writer, WriteFifo(w)
  PROVE  entry[w] \in Line /\ Way' = Append(Way, entry[w])
<1>1. entry[w] \in Line
  BY DEF WriteFifo, TypeInv, OwnLine
<1>2. chunk \in Seq(Line) /\ pipe \in Seq(Line) /\ Way \in Seq(Line) /\ <<entry[w]>> \in Seq(Line)
  BY <1>1, WayType
<1>3. Append(pipe, entry[w]) = pipe \o <<entry[w]>>
  BY <1>1, <1>2, AppendIsConcat
<1>4. Append(Way, entry[w]) = Way \o <<entry[w]>>
  BY <1>1, <1>2, AppendIsConcat
<1>5. (chunk \o pipe) \o <<entry[w]>> = chunk \o (pipe \o <<entry[w]>>)
  BY <1>2, ConcatAssociative
<1>6. QED
  BY <1>1, <1>3, <1>4, <1>5 DEF Way, WriteFifo

\* A read moves lines along the way.
LEMMA ReadKeepsWay ==
  ASSUME TypeInv, MapInv, LogRead
  PROVE  Way' = Way
<1> DEFINE n == IF Len(pipe) < ReadMax THEN Len(pipe) ELSE ReadMax
<1>1. pipe \in Seq(Line) /\ Len(pipe) \in Nat /\ n \in 0..Len(pipe)
  BY WayType, LenProperties, LogFifoAssumption
<1>2. SubSeq(pipe, 1, n) \o SubSeq(pipe, n + 1, Len(pipe)) = SubSeq(pipe, 1, Len(pipe))
  <2>1. /\ 1 \in 1..(Len(pipe) + 1) /\ n \in (1 - 1)..Len(pipe)
        /\ Len(pipe) \in n..Len(pipe)
    BY <1>1
  <2>2. QED
    BY <1>1, <2>1, ConcatAdjacentSubSeq
<1>3. SubSeq(pipe, 1, Len(pipe)) = pipe
  BY <1>1, SubSeqFull
<1>4. chunk' \o pipe' = pipe
  BY <1>2, <1>3 DEF LogRead
<1>5. chunk \o pipe = pipe
  BY <1>1, ConcatEmptySeq DEF LogRead, MapInv, ChunkHeld
<1>6. QED
  BY <1>4, <1>5 DEF Way

LEMMA StepImplements == TypeInv /\ MapInv /\ [Next]_vars => [Log!Next]_(Log!vars)
<1> SUFFICES ASSUME TypeInv, MapInv, [Next]_vars PROVE [Log!Next]_(Log!vars)
  OBVIOUS
<1> USE LogFifoAssumption
<1> DEFINE pending == {w \in Writer : wpc[w] \in {"load", "store", "open", "write"}}
           Stutter == UNCHANGED <<made, pending, Way, logFile>>
<1>0. /\ wpc \in [Writer -> WriterState] /\ made \in [Writer -> Nat]
      /\ chunk \in Seq(Line) /\ pipe \in Seq(Line) /\ Way \in Seq(Line)
      /\ <<>> \in Seq(Line)
  BY WayType, EmptySeq DEF TypeInv, TypeOK
<1>1. ASSUME Stutter PROVE [Log!Next]_(Log!vars)
  BY <1>1 DEF Log!vars
\* Any step that keeps or loses what it read and what is in the FIFO.
<1>2. ASSUME chunk' \in {<<>>, chunk}, pipe' \in {<<>>, pipe},
             pending' \subseteq pending, UNCHANGED <<made, logFile>>
      PROVE  Log!Next
  <2>1. PICK m \in 1..(Len(Way) + 1), n \in 0..Len(Way) : chunk' \o pipe' = SubSeq(Way, m, n)
    BY <1>2, OnePieceLeft
  <2>2. Way' = SubSeq(Way, m, n)
    BY <2>1 DEF Way
  <2>3. Log!Lose(m, n)
    BY <1>2, <2>2 DEF Log!Lose
  <2>4. QED
    BY <2>3 DEF Log!Next
<1>3. ASSUME NEW w \in Writer, NEW what \in What, StartLog(w, what) PROVE Log!Next
  <2>1. w \notin pending /\ pending' = pending \cup {w}
    BY <1>0, <1>3 DEF StartLog
  <2>2. Way' = Way
    BY <1>3 DEF StartLog, Way
  <2>3. Log!Begin(w)
    BY <1>3, <2>1, <2>2 DEF StartLog, Log!Begin
  <2>4. QED
    BY <2>3 DEF Log!Next
<1>4. ASSUME NEW w \in Writer, LoadSeq(w) \/ StoreSeq(w) \/ OpenFifo(w) PROVE Stutter
  <2>1. pending' = pending
    BY <1>0, <1>4 DEF LoadSeq, StoreSeq, OpenFifo
  <2>2. QED
    BY <1>4, <2>1 DEF LoadSeq, StoreSeq, OpenFifo, Way
<1>5. ASSUME NEW w \in Writer, WriteFifo(w) PROVE Log!Next
  <2>1. w \in pending /\ pending' = pending \ {w}
    BY <1>0, <1>5 DEF WriteFifo
  <2>2. entry[w] \in Line /\ entry[w].src = w /\ entry[w].k = made[w]
    BY <1>5 DEF WriteFifo, TypeInv, OwnLine, MapInv, LatestLine
  <2>4. Way' = Append(Way, entry[w])
    BY <1>5, WriteExtendsWay
  <2>5. Len(Way') = Len(Way) + 1 /\ Way'[Len(Way) + 1] = entry[w]
    BY <1>0, <2>2, <2>4, AppendProperties
  <2>6. Log!Enter(w)
    BY <1>5, <2>1, <2>2, <2>4, <2>5 DEF WriteFifo, Log!Enter
  <2>7. QED
    BY <2>6 DEF Log!Next
<1>6. ASSUME NEW w \in Writer, CloseFifo(w) PROVE Log!Next
  <2>1. pending' \subseteq pending
    BY <1>0, <1>6 DEF CloseFifo
  <2>2. QED
    BY <1>2, <1>6, <2>1 DEF CloseFifo, KeptBy
<1>7. ASSUME NEW w \in Cancellable, CancelWriter(w) PROVE Log!Next
  <2>1. pending' \subseteq pending
    BY <1>0, <1>7 DEF CancelWriter
  <2>2. QED
    BY <1>2, <1>7, <2>1 DEF CancelWriter
<1>8. ASSUME WritersExit PROVE Log!Next
  <2>1. pending' \subseteq pending
    BY <1>8 DEF WritersExit
  <2>2. QED
    BY <1>2, <1>8, <2>1 DEF WritersExit, KeptBy
<1>9. ASSUME SendSigterm \/ LogWake \/ LogOpen PROVE Stutter
  BY <1>9 DEF SendSigterm, LogWake, LogOpen, writerVars, Way
<1>10. ASSUME LogRead PROVE Stutter
  <2>1. Way' = Way
    BY <1>10, ReadKeepsWay
  <2>2. QED
    BY <1>10, <2>1 DEF LogRead, writerVars
<1>11. ASSUME LogClose \/ LogSigterm \/ LogFails PROVE Log!Next
  <2>1. pending' \subseteq pending
    BY <1>11 DEF LogClose, LogSigterm, LogFails, LogExit, writerVars
  <2>2. QED
    BY <1>2, <1>11, <2>1 DEF LogClose, LogSigterm, LogFails, LogExit, KeptBy, writerVars
<1>12. ASSUME LogAppend PROVE Log!Next
  <2> DEFINE n == Len(chunk)
  <2>1. n \in 0..Len(Way)
    BY <1>0, LenProperties, ConcatProperties DEF Way
  <2>2. SubSeq(Way, 1, n) = chunk /\ SubSeq(Way, n + 1, Len(Way)) = pipe
    BY <1>0, SplitConcat DEF Way
  <2>3. Way' = pipe
    BY <1>0, <1>12, ConcatEmptySeq DEF LogAppend, Way
  <2>4. Log!Arrive(n)
    BY <1>12, <2>2, <2>3 DEF LogAppend, writerVars, Log!Arrive
  <2>5. QED
    BY <2>1, <2>4 DEF Log!Next
<1>13. ASSUME UNCHANGED vars PROVE Stutter
  BY <1>13 DEF vars, Way
<1>14. QED
  BY <1>1, <1>3, <1>4, <1>5, <1>6, <1>7, <1>8, <1>9, <1>10, <1>11, <1>12, <1>13
     DEF Next, LogStep, LogProcess

\* For any number of threads, events and lines per read, the FIFO that both
\* sides open and close around every transfer implements the event log: a line
\* enters once or never and nothing comes twice, late or out of order.
THEOREM LogIsImplemented == Spec => ImplementsEventLog
<1>1. Init => Log!Init
  <2> SUFFICES ASSUME Init PROVE Log!Init
    OBVIOUS
  <2>1. Way = <<>>
    <3>1. <<>> \in Seq(Line)
      BY EmptySeq
    <3>2. QED
      BY <3>1, ConcatEmptySeq DEF Init, Way
  <2>2. QED
    BY <2>1 DEF Init, Log!Init
<1>2. QED
  BY <1>1, StepImplements, Typed, Mapped, PTL DEF Spec, ImplementsEventLog, Log!Spec
-----------------------------------------------------------------------------
(* What follows for the order of the lines: an event log keeps it.          *)

Pending == {w \in Writer : wpc[w] \in {"load", "store", "open", "write"}}

\* What is on the trail is older than what is still to enter.
OlderThanPending ==
    \A i \in DOMAIN Trail :
        /\ Trail[i].k <= made[Trail[i].src]
        /\ Trail[i].src \in Pending => Trail[i].k < made[Trail[i].src]

OrderInv == WriterOrder /\ OlderThanPending

TrailShape ==
    /\ logFile \in Seq(Line) /\ Way \in Seq(Line) /\ Trail \in Seq(Line)
    /\ Len(logFile) \in Nat /\ Len(Way) \in Nat
    /\ Len(Trail) = Len(logFile) + Len(Way)
    /\ DOMAIN Trail = 1..Len(Trail)
    /\ \A i \in 1..Len(Trail) :
         /\ Trail[i] \in Line
         /\ Trail[i] = IF i <= Len(logFile) THEN logFile[i] ELSE Way[i - Len(logFile)]

LEMMA TrailType == TypeInv => TrailShape
<1> SUFFICES ASSUME TypeInv PROVE TrailShape
  OBVIOUS
<1>1. logFile \in Seq(Line) /\ Way \in Seq(Line)
  BY WayType DEF TypeInv, TypeOK
<1>2. Len(logFile) \in Nat /\ Len(Way) \in Nat
  BY <1>1, LenProperties
<1>3. /\ Trail \in Seq(Line)
      /\ Len(Trail) = Len(logFile) + Len(Way)
      /\ \A i \in 1..(Len(logFile) + Len(Way)) :
            Trail[i] = IF i <= Len(logFile) THEN logFile[i] ELSE Way[i - Len(logFile)]
  BY <1>1, ConcatProperties DEF Trail
<1>4. DOMAIN Trail = 1..Len(Trail) /\ \A i \in 1..Len(Trail) : Trail[i] \in Line
  BY <1>3, LenProperties, ElementOfSeq
<1>5. QED
  BY <1>1, <1>2, <1>3, <1>4 DEF TrailShape

\* Elements that move from the head of one sequence to the end of another.
LEMMA MovedWithin ==
  ASSUME NEW S, NEW s \in Seq(S), NEW t \in Seq(S), NEW n \in 0..Len(t)
  PROVE  (s \o SubSeq(t, 1, n)) \o SubSeq(t, n + 1, Len(t)) = s \o t
<1> DEFINE a == SubSeq(t, 1, n)
           b == SubSeq(t, n + 1, Len(t))
<1>1. Len(t) \in Nat
  BY LenProperties
<1>2. \A i \in 1..Len(t) : t[i] \in S
  BY ElementOfSeq
<1>3. a \in Seq(S)
  BY <1>1, <1>2, SubSeqProperties
<1>4. b \in Seq(S)
  BY <1>1, <1>2, SubSeqProperties
<1>5. a \o b = t
  <2>1. 1 \in 1..(Len(t) + 1) /\ n \in (1 - 1)..Len(t) /\ Len(t) \in n..Len(t)
    BY <1>1
  <2>2. a \o b = SubSeq(t, 1, Len(t))
    BY <1>1, <2>1, ConcatAdjacentSubSeq
  <2>3. QED
    BY <2>2, SubSeqFull
<1> HIDE DEF a, b
<1>6. (s \o a) \o b = s \o (a \o b)
  BY <1>3, <1>4, ConcatAssociative
<1>7. QED
  BY <1>5, <1>6 DEF a, b

LEMMA OrderIsKept == TypeInv /\ TypeInv' /\ OrderInv /\ [Log!Next]_(Log!vars) => OrderInv'
<1> SUFFICES ASSUME TypeInv, TypeInv', OrderInv, [Log!Next]_(Log!vars) PROVE OrderInv'
  OBVIOUS
<1>0. made \in [Writer -> Nat]
  BY DEF TypeInv, TypeOK
<1>1. /\ logFile \in Seq(Line) /\ Way \in Seq(Line)
      /\ Len(logFile) \in Nat /\ Len(Way) \in Nat
      /\ Len(Trail) = Len(logFile) + Len(Way)
      /\ DOMAIN Trail = 1..Len(Trail)
      /\ \A i \in 1..Len(Trail) :
            /\ Trail[i].src \in Writer /\ Trail[i].k \in Nat
            /\ Trail[i] = IF i <= Len(logFile) THEN logFile[i] ELSE Way[i - Len(logFile)]
  <2>1. \A line \in Line : line.src \in Writer /\ line.k \in Nat
    BY DEF Line
  <2>2. QED
    BY <2>1, TrailType DEF TrailShape
<1>2. /\ Way' \in Seq(Line)
      /\ Len(logFile') \in Nat /\ Len(Way') \in Nat
      /\ Len(Trail') = Len(logFile') + Len(Way')
      /\ DOMAIN Trail' = 1..Len(Trail')
      /\ \A i \in 1..Len(Trail') :
            Trail'[i] = IF i <= Len(logFile') THEN logFile'[i] ELSE Way'[i - Len(logFile')]
  <2>1. TrailShape'
    BY TrailType, PTL
  <2>2. QED
    BY <2>1 DEF TrailShape
<1>3. CASE UNCHANGED <<made, Pending, Way, logFile>>
  BY <1>3 DEF OrderInv, WriterOrder, OlderThanPending, Trail
<1>4. ASSUME NEW w \in Writer, Log!Begin(w) PROVE OrderInv'
  <2>1. /\ Trail' = Trail
        /\ made' = [made EXCEPT ![w] = @ + 1]
        /\ Pending' = Pending \cup {w}
    BY <1>4 DEF Log!Begin, Trail, Pending
  <2>2. \A i \in 1..Len(Trail) : Trail[i].k <= made[Trail[i].src]
    BY <1>1 DEF OrderInv, OlderThanPending
  <2>3. QED
    BY <1>0, <1>1, <2>1, <2>2 DEF OrderInv, WriterOrder, OlderThanPending
<1>5. ASSUME NEW w \in Writer, Log!Enter(w) PROVE OrderInv'
  <2> DEFINE line == Way'[Len(Way) + 1]
  <2>1. /\ w \in Pending /\ Pending' = Pending \ {w}
        /\ Len(Way') = Len(Way) + 1 /\ Way' = Append(Way, line)
        /\ line.src = w /\ line.k = made[w]
        /\ made' = made /\ logFile' = logFile
    BY <1>5 DEF Log!Enter, Pending
  <2>2. line \in Line
    BY <1>1, <1>2, <2>1, ElementOfSeq
  <2>3. \A i \in 1..Len(Way) : Way'[i] = Way[i]
    <3> HIDE DEF line
    <3>1. QED
      BY <1>1, <2>1, <2>2, AppendProperties
  <2>4. /\ Len(Trail') = Len(Trail) + 1
        /\ \A i \in 1..Len(Trail) : Trail'[i] = Trail[i]
        /\ Trail'[Len(Trail) + 1] = line
    <3>1. Len(Trail') = Len(Trail) + 1 /\ Len(logFile') = Len(logFile)
      BY <1>1, <1>2, <2>1
    <3>2. ASSUME NEW i \in 1..Len(Trail) PROVE Trail'[i] = Trail[i]
      <4>1. i \in 1..Len(Trail')
        BY <1>1, <3>1
      <4>2. CASE i <= Len(logFile)
        BY <1>1, <1>2, <2>1, <4>1, <4>2
      <4>3. CASE ~(i <= Len(logFile))
        <5>1. i - Len(logFile) \in 1..Len(Way)
          BY <1>1, <4>3
        <5>2. Way'[i - Len(logFile)] = Way[i - Len(logFile)]
          BY <2>3, <5>1
        <5>3. QED
          BY <1>1, <1>2, <2>1, <4>1, <4>3, <5>2
      <4>4. QED
        BY <4>2, <4>3
    <3>3. Trail'[Len(Trail) + 1] = line
      <4>1. /\ Len(Trail) + 1 \in 1..Len(Trail') /\ ~(Len(Trail) + 1 <= Len(logFile))
            /\ Len(Trail) + 1 - Len(logFile) = Len(Way) + 1
        BY <1>1, <3>1
      <4>2. Trail'[Len(Trail) + 1] = Way'[Len(Trail) + 1 - Len(logFile')]
        BY <1>2, <2>1, <4>1
      <4>3. QED
        BY <2>1, <4>1, <4>2
    <3>4. QED
      BY <3>1, <3>2, <3>3
  <2>4a. \A i \in 1..Len(Trail') : i \in 1..Len(Trail) \/ i = Len(Trail) + 1
    <3>1. Len(Trail) \in Nat
      BY <1>1
    <3>2. QED
      BY <2>4, <3>1
  <2> HIDE DEF line
  <2>5. \A i \in 1..Len(Trail) : Trail[i].src = w => Trail[i].k < line.k
    BY <1>1, <2>1 DEF OrderInv, OlderThanPending
  <2>6. WriterOrder'
    <3>1. ASSUME NEW i \in 1..Len(Trail'), NEW j \in 1..Len(Trail'),
                 i < j, Trail'[i].src = Trail'[j].src
          PROVE  Trail'[i].k < Trail'[j].k
      <4>1. i \in 1..Len(Trail) /\ Trail'[i] = Trail[i]
        BY <1>1, <2>4, <3>1
      <4>2. CASE j = Len(Trail) + 1
        BY <2>1, <2>4, <2>5, <3>1, <4>1, <4>2
      <4>3. CASE j \in 1..Len(Trail)
        BY <1>1, <2>4, <3>1, <4>1, <4>3 DEF OrderInv, WriterOrder
      <4>4. QED
        BY <2>4a, <4>2, <4>3
    <3>2. QED
      BY <1>2, <3>1 DEF WriterOrder
  <2>7. OlderThanPending'
    <3>1. ASSUME NEW i \in 1..Len(Trail')
          PROVE  /\ Trail'[i].k <= made[Trail'[i].src]
                 /\ Trail'[i].src \in Pending' => Trail'[i].k < made[Trail'[i].src]
      <4>1. CASE i = Len(Trail) + 1
        <5>1. Trail'[i] = line /\ line.src = w /\ line.k = made[w] /\ made[w] \in Nat
          BY <1>0, <2>1, <2>4, <4>1
        <5>2. w \notin Pending'
          BY <2>1
        <5>3. QED
          BY <5>1, <5>2
      <4>2. CASE i \in 1..Len(Trail)
        BY <1>1, <2>1, <2>4, <4>2 DEF OrderInv, OlderThanPending
      <4>3. QED
        BY <2>4a, <4>1, <4>2
    <3>2. QED
      BY <1>2, <2>1, <3>1 DEF OlderThanPending
  <2>8. QED
    BY <2>6, <2>7 DEF OrderInv
<1>6. ASSUME NEW n \in 0..Len(Way), Log!Arrive(n) PROVE OrderInv'
  <2>1. /\ logFile' = logFile \o SubSeq(Way, 1, n) /\ Way' = SubSeq(Way, n + 1, Len(Way))
        /\ made' = made /\ Pending' = Pending
    BY <1>6 DEF Log!Arrive, Pending
  <2>2. Trail' = Trail
    BY <1>1, <2>1, MovedWithin DEF Trail
  <2>3. QED
    BY <2>1, <2>2 DEF OrderInv, WriterOrder, OlderThanPending
<1>7. ASSUME NEW m \in 1..(Len(Way) + 1), NEW n \in 0..Len(Way), Log!Lose(m, n) PROVE OrderInv'
  <2>1. /\ Way' = SubSeq(Way, m, n) /\ Pending' \subseteq Pending
        /\ made' = made /\ logFile' = logFile
    BY <1>7 DEF Log!Lose, Pending
  <2>2. \A i \in m..n : Way[i] \in Line
    BY <1>1, ElementOfSeq
  <2>3. /\ Len(Way') = IF m <= n THEN n - m + 1 ELSE 0
        /\ \A i \in 1..(n - m + 1) : Way'[i] = Way[m + i - 1]
    BY <1>1, <2>1, <2>2, SubSeqProperties
  <2> DEFINE old(i) == IF i <= Len(logFile) THEN i ELSE i + m - 1
  <2>4. \A i \in 1..Len(Trail') : old(i) \in 1..Len(Trail) /\ Trail'[i] = Trail[old(i)]
    <3> TAKE i \in 1..Len(Trail')
    <3>1. CASE i <= Len(logFile)
      <4>1. i \in 1..Len(Trail) /\ old(i) = i
        BY <1>1, <1>2, <3>1
      <4>2. Trail'[i] = logFile'[i] /\ Trail[i] = logFile[i]
        BY <1>1, <1>2, <2>1, <3>1, <4>1
      <4>3. QED
        BY <2>1, <4>1, <4>2
    <3>2. CASE i > Len(logFile)
      <4>0. i - Len(logFile) \in 1..Len(Way')
        BY <1>1, <1>2, <2>1, <3>2
      <4>1. m <= n /\ i - Len(logFile) \in 1..(n - m + 1) /\ Trail'[i] = Way'[i - Len(logFile)]
        <5>1. Trail'[i] = Way'[i - Len(logFile)]
          <6>1. Trail'[i] = Way'[i - Len(logFile')]
            <7>1. i \in 1..Len(Trail') /\ ~(i <= Len(logFile'))
              BY <1>1, <2>1, <3>2
            <7>2. QED
              BY <1>2, <7>1
          <6>2. QED
            BY <2>1, <6>1
        <5>2. QED
          BY <1>2, <2>3, <4>0, <5>1
      <4>2. Trail'[i] = Way[m + (i - Len(logFile)) - 1]
        BY <2>3, <4>1
      <4>3. old(i) = i + m - 1 /\ old(i) \in 1..Len(Trail) /\ old(i) > Len(logFile)
        BY <1>1, <3>2, <4>1
      <4>4. Trail[old(i)] = Way[old(i) - Len(logFile)]
        BY <1>1, <4>3
      <4>5. m + (i - Len(logFile)) - 1 = old(i) - Len(logFile)
        BY <1>1, <4>3
      <4>6. QED
        BY <4>2, <4>3, <4>4, <4>5
    <3>3. QED
      BY <1>1, <1>2, <3>1, <3>2
  <2>5. \A i, j \in 1..Len(Trail') : i < j => old(i) < old(j)
    BY <1>1, <1>2
  <2> HIDE DEF old
  <2>6. WriterOrder'
    <3>1. ASSUME NEW i \in 1..Len(Trail'), NEW j \in 1..Len(Trail'),
                 i < j, Trail'[i].src = Trail'[j].src
          PROVE  Trail'[i].k < Trail'[j].k
      <4>1. /\ old(i) \in DOMAIN Trail /\ old(j) \in DOMAIN Trail /\ old(i) < old(j)
            /\ Trail'[i] = Trail[old(i)] /\ Trail'[j] = Trail[old(j)]
        BY <1>1, <2>4, <2>5, <3>1
      <4>2. Trail[old(i)].k < Trail[old(j)].k
        BY <3>1, <4>1 DEF OrderInv, WriterOrder
      <4>3. QED
        BY <4>1, <4>2
    <3>2. QED
      BY <1>2, <3>1 DEF WriterOrder
  <2>7. OlderThanPending'
    BY <1>1, <1>2, <2>1, <2>4 DEF OrderInv, OlderThanPending
  <2>8. QED
    BY <2>6, <2>7 DEF OrderInv
<1>8. QED
  BY <1>3, <1>4, <1>5, <1>6, <1>7 DEF Log!Next, Log!vars, Pending

\* For any number of threads, events and lines per read, the lines of a thread
\* are on their way and in log.txt in the order in which it produced them, each
\* at most once.
THEOREM LinesInOrder == Spec => []WriterOrder
<1>1. Init => OrderInv
  <2> SUFFICES ASSUME Init PROVE OrderInv
    OBVIOUS
  <2>1. <<>> \in Seq(Line)
    BY EmptySeq
  <2>2. Trail = <<>>
    BY <2>1, ConcatEmptySeq DEF Init, Trail, Way
  <2>3. QED
    BY <2>2 DEF OrderInv, WriterOrder, OlderThanPending
<1>2. TypeInv /\ TypeInv' /\ MapInv /\ OrderInv /\ [Next]_vars => OrderInv'
  BY StepImplements, OrderIsKept
<1>3. OrderInv => WriterOrder
  BY DEF OrderInv
<1>4. QED
  BY <1>1, <1>2, <1>3, Typed, Mapped, PTL DEF Spec

\* For any number of threads, events and lines per read, no line is lost while
\* some writer has the FIFO open and the log process lives.
THEOREM NothingLostWhileHeld == Spec => NoLossWhileHeld
<1> DEFINE Held  == holders # {} /\ holders' # {} /\ lpc' # "exited"
           Grown == Len(Trail) <= Len(Trail') /\ Trail = SubSeq(Trail', 1, Len(Trail))
<1>1. TypeInv /\ MapInv /\ [Next]_vars => [Held => Grown]_vars
  <2> SUFFICES ASSUME TypeInv, MapInv, Next, Held PROVE Grown
    OBVIOUS
  <2>0. /\ logFile \in Seq(Line) /\ Way \in Seq(Line) /\ Trail \in Seq(Line)
        /\ chunk \in Seq(Line) /\ pipe \in Seq(Line) /\ <<>> \in Seq(Line)
        /\ Len(Trail) \in Nat
    BY TrailType, WayType, EmptySeq, LenProperties DEF TrailShape
  <2>1. ASSUME Trail' = Trail PROVE Grown
    BY <2>0, <2>1, SubSeqFull
  <2>2. ASSUME UNCHANGED <<logFile, chunk, pipe>> PROVE Grown
    BY <2>1, <2>2 DEF Trail, Way
  <2>3. ASSUME NEW w \in Writer, WriteFifo(w) PROVE Grown
    <3>1. entry[w] \in Line /\ Way' = Append(Way, entry[w]) /\ <<entry[w]>> \in Seq(Line)
      BY <2>3, WriteExtendsWay
    <3>2. Way' = Way \o <<entry[w]>>
      BY <2>0, <3>1, AppendIsConcat
    <3>3. logFile \o (Way \o <<entry[w]>>) = (logFile \o Way) \o <<entry[w]>>
      BY <2>0, <3>1, ConcatAssociative
    <3>4. Trail' = Trail \o <<entry[w]>>
      BY <2>3, <3>2, <3>3 DEF Trail, WriteFifo
    <3>5. Len(Trail') = Len(Trail) + Len(<<entry[w]>>)
      BY <2>0, <3>1, <3>4, ConcatProperties
    <3>6. SubSeq(Trail', 1, Len(Trail)) = Trail
      BY <2>0, <3>1, <3>4, SplitConcat
    <3>7. QED
      BY <2>0, <3>1, <3>5, <3>6
  <2>4. CASE LogRead
    <3>1. Way' = Way /\ logFile' = logFile
      BY <2>4, ReadKeepsWay DEF LogRead
    <3>2. QED
      BY <2>1, <3>1 DEF Trail
  <2>5. CASE LogAppend
    <3>1. Trail' = (logFile \o chunk) \o (<<>> \o pipe)
      BY <2>5 DEF LogAppend, Trail, Way
    <3>2. <<>> \o pipe = pipe
      BY <2>0, ConcatEmptySeq
    <3>3. (logFile \o chunk) \o pipe = logFile \o (chunk \o pipe)
      BY <2>0, ConcatAssociative
    <3>4. QED
      BY <2>1, <3>1, <3>2, <3>3 DEF Trail, Way
  <2>6. ASSUME NEW w \in Writer, CloseFifo(w) PROVE Grown
    BY <2>2, <2>6 DEF CloseFifo, KeptBy
  <2>7. CASE LogClose
    BY <2>2, <2>7 DEF LogClose, KeptBy
  <2>8. CASE LogWake \/ LogOpen
    BY <2>2, <2>8 DEF LogWake, LogOpen
  <2>9. CASE SendSigterm
    BY <2>2, <2>9 DEF SendSigterm
  <2>10. ASSUME NEW w \in Writer,
                LoadSeq(w) \/ StoreSeq(w) \/ OpenFifo(w) \/ CancelWriter(w)
                  \/ \E what \in What : StartLog(w, what)
         PROVE  Grown
    BY <2>2, <2>10 DEF LoadSeq, StoreSeq, OpenFifo, CancelWriter, StartLog
  <2>11. ~WritersExit /\ ~LogSigterm /\ ~LogFails
    BY DEF WritersExit, LogSigterm, LogFails, LogExit
  <2>12. QED
    BY <2>3, <2>4, <2>5, <2>6, <2>7, <2>8, <2>9, <2>10, <2>11, LogFifoAssumption
       DEF Next, LogStep, LogProcess
<1>2. QED
  BY <1>1, Typed, Mapped, PTL DEF Spec, NoLossWhileHeld
=============================================================================
