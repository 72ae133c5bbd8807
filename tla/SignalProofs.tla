---------------------------- MODULE SignalProofs ----------------------------
(***************************************************************************)
(* However many signals others send, and whichever they are, SIGRTMIN      *)
(* among them: each of the exercises shows what its readme explains.       *)
(*                                                                         *)
(* What makes it inductive is, for each program, what it has arranged when *)
(* it stands at a call: which signals have a handler, which it holds back, *)
(* and where what it sent is now - still pending or already caught.        *)
(***************************************************************************)
EXTENDS SignalPrograms, SequenceTheorems, WellFoundedInduction, TLAPS

\* A queue of the kernel: a standard signal is in it once, and without a value.
Queue(q) ==
    /\ q \in Pending
    /\ \A i, j \in DOMAIN q : q[i][1] = q[j][1] /\ i # j => q[i][1] = "RTMIN"
    /\ \A i \in DOMAIN q : q[i][1] # "RTMIN" => q[i][2] = 0

Has(q, s) == \E i \in DOMAIN q : q[i][1] = s

Catch == Task \X Signal \X {0, 42, 84}
CaughtBy(t, s) == \E i \in DOMAIN caught : caught[i] = <<t, s, 0>>

\* Where a task can be, and that only the threads of Ex5 have signals of their own
Places ==
    /\ program \in Program /\ ip \in [Task -> Nat] /\ ip["main"] # 0
    /\ \A t \in Task : ip[t] <= Len(Code(program, t)) + 1 \/ (t = "main" /\ ip[t] = 99)
    /\ program # "SigpendingThread" =>
         ip["thread1"] = 0 /\ ip["thread2"] = 0 /\ \A t \in Task : own[t] = <<>>

Kernel ==
    /\ mask \in [Task -> SUBSET Signal] /\ handled \subseteq Signal
    /\ own \in [Task -> Pending] /\ Queue(shared) /\ \A t \in Task : Queue(own[t])
    /\ caught \in Seq(Catch)
    /\ child \in {"none", "running", "zombie", "reaped"}
    /\ early \in BOOLEAN /\ outside \in 0..MaxOutside

\* Ex1: SIGCHLD has its handler before there is a child.
SigchildWaitAt(n) ==
    /\ n >= 2 => "CHLD" \in handled
    /\ n < 4 => child = "none"
    /\ n = 6 => "CHLD" \notin mask["main"]
    /\ child \in {"zombie", "reaped"} => Has(shared, "CHLD") \/ HasCaught("CHLD")

\* Ex4: the process holds SIGUSR1 back from before it sends it until the first check.
SigpendingProcessAt(n) ==
    /\ n >= 2 => "USR1" \in handled
    /\ n \in 3..5 => mask["main"] = {"USR1"}
    /\ n \in 4..5 => Has(shared, "USR1")
    /\ n >= 6 => mask["main"] = {} /\ (Has(shared, "USR1") \/ HasCaught("USR1"))

\* Ex5: each thread holds one of the two signals back and catches the other.
SigpendingThreadAt(n) ==
    /\ n >= 4 => ip["thread1"] = 7
    /\ n >= 5 => ip["thread2"] = 7

ThreadAt(t, n, blocked, other) ==
    /\ n >= 2 => {"USR1", "USR2"} \subseteq handled
    /\ n >= 3 => mask[t] = {blocked}
    /\ (n >= 4 /\ blocked = "USR1") \/ n >= 5 => Has(own[t], blocked)
    /\ (n >= 4 /\ other = "USR1") \/ n >= 5 => Has(own[t], other) \/ CaughtBy(t, other)
    /\ n >= 6 => CaughtBy(t, other)

\* Ex7: how many of the two real-time signals that the program sends itself are
\* pending, and how many were caught.  Those of others have no value.
Own(s) == s[1] = "RTMIN" /\ s[2] # 0
OwnCatch(c) == c[2] = "RTMIN" /\ c[3] # 0
NonePending(q) == \A k \in DOMAIN q : ~Own(q[k])
OnePending(q, v) ==
    /\ v # 0
    /\ \E i \in DOMAIN q : q[i] = <<"RTMIN", v>> /\ \A k \in DOMAIN q : Own(q[k]) => k = i
TwoPending(q) ==
    \E i, j \in DOMAIN q : /\ i < j /\ q[i] = <<"RTMIN", 42>> /\ q[j] = <<"RTMIN", 84>>
                           /\ \A k \in DOMAIN q : Own(q[k]) => k \in {i, j}
NoneCaught == \A k \in DOMAIN caught : ~OwnCatch(caught[k])
OneCaught ==
    \E i \in DOMAIN caught : /\ caught[i] = <<"main", "RTMIN", 42>>
                             /\ \A k \in DOMAIN caught : OwnCatch(caught[k]) => k = i
TwoCaught ==
    \E i, j \in DOMAIN caught :
       /\ i < j /\ caught[i] = <<"main", "RTMIN", 42>> /\ caught[j] = <<"main", "RTMIN", 84>>
       /\ \A k \in DOMAIN caught : OwnCatch(caught[k]) => k \in {i, j}

RealtimeAt(n) ==
    /\ n >= 2 => "RTMIN" \in handled
    /\ n \in 3..5 => "RTMIN" \in mask["main"]
    /\ n = 6 => "RTMIN" \notin mask["main"]
    /\ n <= 3 => NonePending(shared) /\ NoneCaught
    /\ n = 4 => OnePending(shared, 42) /\ NoneCaught
    /\ n = 5 => TwoPending(shared) /\ NoneCaught
    /\ n >= 6 => \/ TwoPending(shared) /\ NoneCaught
                 \/ OnePending(shared, 84) /\ OneCaught
                 \/ NonePending(shared) /\ TwoCaught

Arranged ==
    /\ program = "SigchildWait" => SigchildWaitAt(ip["main"])
    /\ program = "SigpendingProcess" => SigpendingProcessAt(ip["main"])
    /\ program = "SigpendingThread" =>
         /\ SigpendingThreadAt(ip["main"])
         /\ ThreadAt("thread1", ip["thread1"], "USR1", "USR2")
         /\ ThreadAt("thread2", ip["thread2"], "USR2", "USR1")
    /\ program = "Realtime" => RealtimeAt(ip["main"])

IInv == Places /\ Kernel /\ (~Gone => Arranged)

-----------------------------------------------------------------------------
(* The calls *)

LEMMA Lengths ==
  /\ Len(Waitpid) = 3 /\ Len(SafeFork) = 3 /\ Len(SigchildWait) = 5
  /\ Len(SigpendingProcess) = 6 /\ Len(SigpendingThread) = 4 /\ Len(SignalMask) = 2
  /\ Len(Realtime) = 5 /\ Len(StandardSignal) = 2
  /\ \A b, o : Len(Thread(b, o)) = 6
BY DEF Waitpid, SafeFork, SigchildWait, SigpendingProcess, SigpendingThread, SignalMask,
       Realtime, StandardSignal, Thread

LEMMA Programs ==
  /\ Program = {"Waitpid", "SafeFork", "SigchildWait", "SigpendingProcess", "SigpendingThread",
                "SignalMask", "Realtime", "StandardSignal"}
  /\ Main["Waitpid"] = Waitpid /\ Main["SafeFork"] = SafeFork
  /\ Main["SigchildWait"] = SigchildWait /\ Main["SigpendingProcess"] = SigpendingProcess
  /\ Main["SigpendingThread"] = SigpendingThread /\ Main["SignalMask"] = SignalMask
  /\ Main["Realtime"] = Realtime /\ Main["StandardSignal"] = StandardSignal
BY DEF Program, Main

LEMMA Codes ==
  /\ \A p : Code(p, "main") = Main[p]
  /\ \A p : Code(p, "thread1") = Thread("USR1", "USR2")
  /\ \A p : Code(p, "thread2") = Thread("USR2", "USR1")
BY DEF Code

LEMMA CodeLengths ==
  /\ \A p \in Program, t \in Task : Len(Code(p, t)) \in 2..6
  /\ \A p : Len(Code(p, "thread1")) = 6 /\ Len(Code(p, "thread2")) = 6
BY Lengths, Programs, Codes DEF Task

\* What the calls of the programs look like
CallType(p, t, c) ==
  /\ c[1] \in {"signal", "block", "unblock", "setmask", "kill", "tkill", "check", "create", "join",
              "fork", "wait", "loop"}
  /\ c[1] \in {"signal", "block", "unblock", "setmask"} => c[2] \subseteq Signal
  /\ c[1] \in {"kill", "tkill"} =>
       /\ c[2] \in Signal /\ c[3] \in {0, 42, 84}
       /\ c[2] # "RTMIN" => c[3] = 0
  /\ c[1] = "tkill" => p = "SigpendingThread"
  /\ c[1] \in {"create", "join"} =>
       p = "SigpendingThread" /\ t = "main" /\ c[2] \in {"thread1", "thread2"}

LEMMA MainCallTypes ==
  ASSUME NEW p \in Program, NEW i \in 1..Len(Main[p])
  PROVE  CallType(p, "main", Main[p][i])
<1>1. CASE p = "Waitpid"
  BY <1>1, Programs, Lengths DEF CallType, Waitpid
<1>2. CASE p = "SafeFork"
  BY <1>2, Programs, Lengths DEF CallType, SafeFork, Signal
<1>3. CASE p = "SigchildWait"
  BY <1>3, Programs, Lengths DEF CallType, SigchildWait, Signal
<1>4. CASE p = "SigpendingProcess"
  BY <1>4, Programs, Lengths DEF CallType, SigpendingProcess, Signal
<1>5. CASE p = "SigpendingThread"
  BY <1>5, Programs, Lengths DEF CallType, SigpendingThread, Signal
<1>6. CASE p = "SignalMask"
  BY <1>6, Programs, Lengths DEF CallType, SignalMask, Signal
<1>7. CASE p = "Realtime"
  BY <1>7, Programs, Lengths DEF CallType, Realtime, Signal
<1>8. CASE p = "StandardSignal"
  BY <1>8, Programs, Lengths DEF CallType, StandardSignal, Signal
<1>9. QED
  BY <1>1, <1>2, <1>3, <1>4, <1>5, <1>6, <1>7, <1>8, Programs

LEMMA ThreadCallTypes ==
  ASSUME NEW b \in {"USR1", "USR2"}, NEW o \in {"USR1", "USR2"}, NEW i \in 1..6,
         NEW t \in Task
  PROVE  CallType("SigpendingThread", t, Thread(b, o)[i])
BY DEF CallType, Thread, Signal

-----------------------------------------------------------------------------
(* Queues *)

LEMMA RemoveAtIs ==
  ASSUME NEW S, NEW q \in Seq(S), NEW i \in DOMAIN q
  PROVE  /\ RemoveAt(q, i) \in Seq(S)
         /\ Len(RemoveAt(q, i)) = Len(q) - 1
         /\ \A k \in 1..(Len(q) - 1) : RemoveAt(q, i)[k] = IF k < i THEN q[k] ELSE q[k + 1]
<1>1. i \in 1..Len(q) /\ Len(q) \in Nat
  OBVIOUS
<1> DEFINE before == SubSeq(q, 1, i - 1)
           after == SubSeq(q, i + 1, Len(q))
<1>2. /\ before \in Seq(S) /\ Len(before) = i - 1
      /\ \A k \in 1..(i - 1) : before[k] = q[k]
  BY <1>1
<1>3. /\ after \in Seq(S) /\ Len(after) = Len(q) - i
      /\ \A k \in 1..(Len(q) - i) : after[k] = q[i + k]
  BY <1>1
<1>4. RemoveAt(q, i) = before \o after
  BY DEF RemoveAt
<1> HIDE DEF before, after
<1>5. /\ before \o after \in Seq(S) /\ Len(before \o after) = Len(q) - 1
      /\ \A k \in 1..(Len(q) - 1) :
           (before \o after)[k] = IF k <= i - 1 THEN before[k] ELSE after[k - (i - 1)]
  <2>1. /\ before \o after \in Seq(S) /\ Len(before \o after) = Len(before) + Len(after)
        /\ \A k \in 1..(Len(before) + Len(after)) :
             (before \o after)[k] = IF k <= Len(before) THEN before[k] ELSE after[k - Len(before)]
    BY <1>2, <1>3, ConcatProperties
  <2>2. Len(before) + Len(after) = Len(q) - 1
    BY <1>1, <1>2, <1>3
  <2>3. QED
    BY <2>1, <2>2, <1>2
<1>6. ASSUME NEW k \in 1..(Len(q) - 1)
      PROVE  (before \o after)[k] = IF k < i THEN q[k] ELSE q[k + 1]
  <2>1. CASE k < i
    BY <2>1, <1>1, <1>2, <1>5
  <2>2. CASE ~(k < i)
    <3>1. k - (i - 1) \in 1..(Len(q) - i) /\ i + (k - (i - 1)) = k + 1
      BY <2>2, <1>1
    <3>2. after[k - (i - 1)] = q[k + 1]
      BY <3>1, <1>3
    <3>3. k \in 1..(Len(q) - 1) /\ ~(k <= i - 1)
      BY <2>2, <1>1
    <3>4. (before \o after)[k] = after[k - (i - 1)]
      BY <3>3, <1>5
    <3>5. QED
      BY <3>2, <3>4, <2>2
  <2>3. QED
    BY <2>1, <2>2
<1>7. QED
  BY <1>4, <1>5, <1>6

\* Where an element of the queue is when one has been removed, and the other way round
LEMMA RemoveAtMoves ==
  ASSUME NEW S, NEW q \in Seq(S), NEW i \in DOMAIN q
  PROVE  /\ \A k \in DOMAIN q : k < i => k \in DOMAIN RemoveAt(q, i) /\ RemoveAt(q, i)[k] = q[k]
         /\ \A k \in DOMAIN q : k > i =>
              k - 1 \in DOMAIN RemoveAt(q, i) /\ RemoveAt(q, i)[k - 1] = q[k]
         /\ \A k \in DOMAIN RemoveAt(q, i) :
              \/ k \in DOMAIN q /\ k < i /\ RemoveAt(q, i)[k] = q[k]
              \/ k + 1 \in DOMAIN q /\ k + 1 > i /\ RemoveAt(q, i)[k] = q[k + 1]
<1> DEFINE r == RemoveAt(q, i)
<1>1. /\ r \in Seq(S) /\ Len(r) = Len(q) - 1 /\ Len(q) \in Nat
      /\ DOMAIN r = 1..(Len(q) - 1) /\ DOMAIN q = 1..Len(q)
      /\ \A k \in 1..(Len(q) - 1) : r[k] = IF k < i THEN q[k] ELSE q[k + 1]
  BY RemoveAtIs
<1> HIDE DEF r
<1>2. \A k \in DOMAIN q : k < i => k \in DOMAIN r /\ r[k] = q[k]
  BY <1>1
<1>3. \A k \in DOMAIN q : k > i => k - 1 \in DOMAIN r /\ r[k - 1] = q[k]
  BY <1>1
<1>4. \A k \in DOMAIN r :
        \/ k \in DOMAIN q /\ k < i /\ r[k] = q[k]
        \/ k + 1 \in DOMAIN q /\ k + 1 > i /\ r[k] = q[k + 1]
  BY <1>1
<1>5. QED
  BY <1>2, <1>3, <1>4 DEF r

LEMMA AppendIs ==
  ASSUME NEW S, NEW q \in Seq(S), NEW e \in S
  PROVE  /\ Append(q, e) \in Seq(S) /\ Len(q) \in Nat
         /\ DOMAIN q = 1..Len(q) /\ DOMAIN Append(q, e) = 1..(Len(q) + 1)
         /\ Append(q, e)[Len(q) + 1] = e
         /\ \A k \in DOMAIN q : k \in DOMAIN Append(q, e) /\ Append(q, e)[k] = q[k]
         /\ \A k \in DOMAIN Append(q, e) : k = Len(q) + 1 \/ k \in DOMAIN q
OBVIOUS

Item == Signal \X {0, 42, 84}

LEMMA ItemIs ==
  /\ \A e \in Item : e = <<e[1], e[2]>> /\ e[1] \in Signal /\ e[2] \in {0, 42, 84}
  /\ \A s \in Signal, v \in {0, 42, 84} : <<s, v>> \in Item
BY DEF Item

LEMMA RemoveAtQueue ==
  ASSUME NEW q, Queue(q), NEW i \in DOMAIN q
  PROVE  /\ Queue(RemoveAt(q, i))
         /\ \A s : Has(q, s) /\ s # q[i][1] => Has(RemoveAt(q, i), s)
         /\ \A s : Has(RemoveAt(q, i), s) => Has(q, s)
<1> DEFINE r == RemoveAt(q, i)
<1>1. q \in Seq(Item)
  BY DEF Queue, Pending, Item
<1>2. /\ \A k \in DOMAIN q : k < i => k \in DOMAIN r /\ r[k] = q[k]
      /\ \A k \in DOMAIN q : k > i => k - 1 \in DOMAIN r /\ r[k - 1] = q[k]
      /\ \A k \in DOMAIN r :
           \/ k \in DOMAIN q /\ k < i /\ r[k] = q[k]
           \/ k + 1 \in DOMAIN q /\ k + 1 > i /\ r[k] = q[k + 1]
  BY <1>1, RemoveAtMoves
<1>3. r \in Seq(Item)
  BY <1>1, RemoveAtIs
<1> HIDE DEF r
<1>4. DOMAIN q \subseteq Nat /\ DOMAIN r \subseteq Nat
  BY <1>1, <1>3
<1>5. \A s : Has(q, s) /\ s # q[i][1] => Has(r, s)
  BY <1>2, <1>4 DEF Has
<1>6. \A s : Has(r, s) => Has(q, s)
  BY <1>2, <1>4 DEF Has
<1>7. ASSUME NEW j \in DOMAIN r, NEW k \in DOMAIN r, r[j][1] = r[k][1], j # k
      PROVE  r[j][1] = "RTMIN"
  <2>1. PICK m \in DOMAIN q : q[m] = r[j] /\ ((m = j /\ j < i) \/ (m = j + 1 /\ j + 1 > i))
    BY <1>2
  <2>2. PICK n \in DOMAIN q : q[n] = r[k] /\ ((n = k /\ k < i) \/ (n = k + 1 /\ k + 1 > i))
    BY <1>2
  <2>3. m # n
    BY <2>1, <2>2, <1>4, <1>7
  <2>4. QED
    BY <2>1, <2>2, <2>3, <1>7 DEF Queue
<1>8. \A k \in DOMAIN r : r[k][1] # "RTMIN" => r[k][2] = 0
  BY <1>2 DEF Queue
<1>9. Queue(r)
  BY <1>3, <1>7, <1>8 DEF Queue, Pending, Item
<1>10. QED
  BY <1>5, <1>6, <1>9 DEF r

LEMMA EnqueueQueue ==
  ASSUME NEW q, Queue(q), NEW e \in Item, e[1] # "RTMIN" => e[2] = 0
  PROVE  /\ Queue(Enqueue(q, e))
         /\ Has(Enqueue(q, e), e[1])
         /\ \A s : Has(q, s) => Has(Enqueue(q, e), s)
         /\ \A s : Has(Enqueue(q, e), s) => Has(q, s) \/ s = e[1]
<1>1. CASE e[1] # "RTMIN" /\ Has(q, e[1])
  <2>1. Enqueue(q, e) = q
    BY <1>1 DEF Enqueue, Has, Standard, Item
  <2>2. QED
    BY <2>1, <1>1
<1>2. CASE ~(e[1] # "RTMIN" /\ Has(q, e[1]))
  <2> DEFINE r == Append(q, e)
  <2>1. Enqueue(q, e) = r
    BY <1>2 DEF Enqueue, Has, Standard
  <2>2. q \in Seq(Item)
    BY DEF Queue, Pending, Item
  <2>3. /\ r \in Seq(Item) /\ Len(q) \in Nat /\ DOMAIN q = 1..Len(q)
        /\ Len(q) + 1 \in DOMAIN r /\ r[Len(q) + 1] = e
        /\ \A k \in DOMAIN q : k \in DOMAIN r /\ r[k] = q[k]
        /\ \A k \in DOMAIN r : k = Len(q) + 1 \/ k \in DOMAIN q
    BY <2>2, AppendIs
  <2> HIDE DEF r
  <2>4. ASSUME NEW j \in DOMAIN r, NEW k \in DOMAIN r, r[j][1] = r[k][1], j # k
        PROVE  r[j][1] = "RTMIN"
    <3>1. CASE j \in DOMAIN q /\ k \in DOMAIN q
      BY <3>1, <2>3, <2>4 DEF Queue
    <3>2. CASE j = Len(q) + 1 /\ k \in DOMAIN q
      BY <3>2, <2>3, <2>4, <1>2 DEF Has
    <3>3. CASE k = Len(q) + 1 /\ j \in DOMAIN q
      BY <3>3, <2>3, <2>4, <1>2 DEF Has
    <3>4. QED
      BY <3>1, <3>2, <3>3, <2>3, <2>4
  <2>5. \A k \in DOMAIN r : r[k][1] # "RTMIN" => r[k][2] = 0
    BY <2>3 DEF Queue
  <2>6. Queue(r)
    BY <2>3, <2>4, <2>5 DEF Queue, Pending, Item
  <2>7. /\ Has(r, e[1])
        /\ \A s : Has(q, s) => Has(r, s)
        /\ \A s : Has(r, s) => Has(q, s) \/ s = e[1]
    BY <2>3 DEF Has
  <2>8. QED
    BY <2>1, <2>6, <2>7
<1>3. QED
  BY <1>1, <1>2

LEMMA TakesStandard ==
  ASSUME NEW q, Queue(q), NEW t \in Task, NEW s, s # "RTMIN", Has(q, s), s \notin mask[t]
  PROVE  Takes(t, q) # {}
<1>1. PICK i \in DOMAIN q : q[i][1] = s
  BY DEF Has
<1>2. DOMAIN q = 1..Len(q) /\ Len(q) \in Nat
  BY DEF Queue, Pending
<1>3. \A j \in 1..(i - 1) : j \in DOMAIN q /\ j # i
  BY <1>2
<1>4. i \in Takes(t, q)
  BY <1>1, <1>3 DEF Takes, Queue
<1>5. QED
  BY <1>4

\* A set of naturals that is not empty has a least element.
LEMMA LeastExists ==
  ASSUME NEW S \in SUBSET Nat, S # {}
  PROVE  \E k \in S : \A j \in S : k <= j
<1>1. PICK i \in S : \A j \in S : ~ (<<j, i>> \in OpToRel(<, Nat))
  BY NatLessThanWellFounded, WFMin
<1>2. \A i1, j1 \in Nat : j1 < i1 => <<j1, i1>> \in OpToRel(<, Nat)
  BY Zenon DEF OpToRel
<1>3. \A j \in S : ~ (j < i)
  BY <1>1, <1>2
<1>4. QED
  BY <1>3

LEMMA TakesRealtime ==
  ASSUME NEW q, Queue(q), NEW t \in Task, "RTMIN" \notin mask[t],
         TwoPending(q) \/ \E v : OnePending(q, v)
  PROVE  Takes(t, q) # {}
<1>1. DOMAIN q = 1..Len(q) /\ Len(q) \in Nat
  BY DEF Queue, Pending
<1> DEFINE R == {i \in DOMAIN q : q[i][1] = "RTMIN"}
<1>2. R # {}
  <2>1. CASE TwoPending(q)
    BY <2>1 DEF TwoPending
  <2>2. CASE \E v : OnePending(q, v)
    BY <2>2 DEF OnePending
  <2>3. QED
    BY <2>1, <2>2
<1>3. R \in SUBSET Nat
  BY <1>1
<1> HIDE DEF R
<1>4. PICK i \in R : \A j \in R : i <= j
  BY <1>2, <1>3, LeastExists
<1>5. i \in Takes(t, q)
  <2>1. i \in DOMAIN q /\ q[i][1] = "RTMIN" /\ \A k \in DOMAIN q : q[k][1] = "RTMIN" => i <= k
    BY <1>4 DEF R
  <2>2. \A k \in 1..(i - 1) : k \in DOMAIN q /\ ~ (i <= k)
    BY <1>1, <2>1
  <2>3. QED
    BY <2>1, <2>2 DEF Takes
<1>6. QED
  BY <1>5

-----------------------------------------------------------------------------
(* The real-time signals of Ex7, in the queue and among what was caught *)

LEMMA RemoveAtRealtime ==
  ASSUME NEW q, Queue(q), NEW i \in DOMAIN q
  PROVE  /\ ~Own(q[i]) =>
              /\ NonePending(q) => NonePending(RemoveAt(q, i))
              /\ \A v : OnePending(q, v) => OnePending(RemoveAt(q, i), v)
              /\ TwoPending(q) => TwoPending(RemoveAt(q, i))
         /\ Own(q[i]) /\ (\A j \in 1..(i - 1) : ~Own(q[j])) =>
              /\ \A v : OnePending(q, v) => q[i][2] = v /\ NonePending(RemoveAt(q, i))
              /\ TwoPending(q) => q[i][2] = 42 /\ OnePending(RemoveAt(q, i), 84)
<1> DEFINE r == RemoveAt(q, i)
<1>1. q \in Seq(Item) /\ DOMAIN q = 1..Len(q) /\ Len(q) \in Nat
  BY DEF Queue, Pending, Item
<1>2. /\ \A k \in DOMAIN q : k < i => k \in DOMAIN r /\ r[k] = q[k]
      /\ \A k \in DOMAIN q : k > i => k - 1 \in DOMAIN r /\ r[k - 1] = q[k]
      /\ \A k \in DOMAIN r :
           \/ k \in DOMAIN q /\ k < i /\ r[k] = q[k]
           \/ k + 1 \in DOMAIN q /\ k + 1 > i /\ r[k] = q[k + 1]
  BY <1>1, RemoveAtMoves
<1>3. DOMAIN r \subseteq Nat
  BY <1>1, RemoveAtIs
<1> HIDE DEF r
<1>4. NonePending(q) => NonePending(r)
  BY <1>2 DEF NonePending
<1>5. ASSUME NEW k \in DOMAIN q, k # i
      PROVE  \E n \in DOMAIN r : r[n] = q[k] /\ n = IF k < i THEN k ELSE k - 1
  BY <1>1, <1>2, <1>5
<1>6. ASSUME NEW n \in DOMAIN r
      PROVE  \E k \in DOMAIN q : k # i /\ r[n] = q[k] /\ n = IF k < i THEN k ELSE k - 1
  <2>1. n \in Nat /\ i \in Nat
    BY <1>1, <1>3
  <2>2. CASE n \in DOMAIN q /\ n < i /\ r[n] = q[n]
    BY <2>1, <2>2
  <2>3. CASE n + 1 \in DOMAIN q /\ n + 1 > i /\ r[n] = q[n + 1]
    <3>1. n + 1 # i /\ ~(n + 1 < i) /\ n = (n + 1) - 1
      BY <2>1, <2>3
    <3>2. QED
      BY <2>3, <3>1
  <2>4. QED
    BY <1>2, <2>2, <2>3
<1>7. ASSUME ~Own(q[i]), NEW v, OnePending(q, v)
      PROVE  OnePending(r, v)
  <2>1. PICK k \in DOMAIN q :
          q[k] = <<"RTMIN", v>> /\ \A m \in DOMAIN q : Own(q[m]) => m = k
    BY <1>7 DEF OnePending
  <2>2. PICK n \in DOMAIN r : r[n] = q[k] /\ n = IF k < i THEN k ELSE k - 1
    <3>1. k # i
      <4>1. v # 0
        BY <1>7 DEF OnePending
      <4>2. Own(q[k])
        BY <2>1, <4>1 DEF Own
      <4>3. QED
        BY <1>7, <4>2
    <3>2. QED
      BY <1>5, <3>1
  <2>3. \A m \in DOMAIN r : Own(r[m]) => m = n
    BY <1>6, <2>1, <2>2
  <2>4. QED
    BY <1>7, <2>1, <2>2, <2>3 DEF OnePending
<1>8. ASSUME ~Own(q[i]), TwoPending(q)
      PROVE  TwoPending(r)
  <2>1. PICK k \in DOMAIN q, l \in DOMAIN q :
          /\ k < l /\ q[k] = <<"RTMIN", 42>> /\ q[l] = <<"RTMIN", 84>>
          /\ \A m \in DOMAIN q : Own(q[m]) => m \in {k, l}
    BY <1>8 DEF TwoPending
  <2>2. k # i /\ l # i
    BY <1>8, <2>1 DEF Own
  <2>3. PICK n \in DOMAIN r : r[n] = q[k] /\ n = IF k < i THEN k ELSE k - 1
    BY <1>5, <2>2
  <2>4. PICK o \in DOMAIN r : r[o] = q[l] /\ o = IF l < i THEN l ELSE l - 1
    BY <1>5, <2>2
  <2>5. n < o
    BY <2>1, <2>2, <2>3, <2>4, <1>1
  <2>6. \A m \in DOMAIN r : Own(r[m]) => m \in {n, o}
    BY <1>6, <2>1, <2>3, <2>4
  <2>7. QED
    BY <2>1, <2>3, <2>4, <2>5, <2>6 DEF TwoPending
<1>9. ASSUME Own(q[i]), NEW v, OnePending(q, v)
      PROVE  q[i][2] = v /\ NonePending(r)
  <2>1. q[i] = <<"RTMIN", v>> /\ \A m \in DOMAIN q : Own(q[m]) => m = i
    BY <1>9 DEF OnePending
  <2>2. NonePending(r)
    BY <1>6, <2>1 DEF NonePending
  <2>3. QED
    BY <2>1, <2>2
<1>10. ASSUME Own(q[i]), \A j \in 1..(i - 1) : ~Own(q[j]), TwoPending(q)
       PROVE  q[i][2] = 42 /\ OnePending(r, 84)
  <2>1. PICK k \in DOMAIN q, l \in DOMAIN q :
          /\ k < l /\ q[k] = <<"RTMIN", 42>> /\ q[l] = <<"RTMIN", 84>>
          /\ \A m \in DOMAIN q : Own(q[m]) => m \in {k, l}
    BY <1>10 DEF TwoPending
  <2>2. i = k
    <3>1. i \in {k, l} /\ Own(q[k])
      BY <1>10, <2>1 DEF Own
    <3>2. k \notin 1..(i - 1)
      BY <1>10, <3>1
    <3>3. QED
      BY <3>1, <3>2, <2>1, <1>1
  <2>3. PICK o \in DOMAIN r : r[o] = q[l] /\ o = IF l < i THEN l ELSE l - 1
    <3>1. l # i
      BY <2>1, <2>2, <1>1
    <3>2. QED
      BY <3>1, <1>5
  <2>4. \A m \in DOMAIN r : Own(r[m]) => m = o
    BY <1>6, <2>1, <2>2, <2>3
  <2>5. QED
    BY <2>1, <2>2, <2>3, <2>4 DEF OnePending
<1>11. QED
  BY <1>4, <1>7, <1>8, <1>9, <1>10 DEF r

LEMMA EnqueueRealtime ==
  ASSUME NEW q, Queue(q), NEW e \in Item
  PROVE  /\ ~Own(e) =>
              /\ NonePending(q) => NonePending(Enqueue(q, e))
              /\ \A v : OnePending(q, v) => OnePending(Enqueue(q, e), v)
              /\ TwoPending(q) => TwoPending(Enqueue(q, e))
         /\ Own(e) /\ NonePending(q) => OnePending(Enqueue(q, e), e[2])
         /\ e = <<"RTMIN", 84>> /\ OnePending(q, 42) => TwoPending(Enqueue(q, e))
<1> DEFINE r == Append(q, e)
<1>1. q \in Seq(Item)
  BY DEF Queue, Pending, Item
<1>2. /\ r \in Seq(Item) /\ Len(q) \in Nat /\ DOMAIN q = 1..Len(q)
      /\ Len(q) + 1 \in DOMAIN r /\ r[Len(q) + 1] = e
      /\ \A k \in DOMAIN q : k \in DOMAIN r /\ r[k] = q[k]
      /\ \A k \in DOMAIN r : k = Len(q) + 1 \/ k \in DOMAIN q
  BY <1>1, AppendIs
<1> HIDE DEF r
<1>3. Enqueue(q, e) = r \/ (Enqueue(q, e) = q /\ ~Own(e))
  BY DEF Enqueue, Standard, r, Own
<1>4. ASSUME ~Own(e)
      PROVE  /\ NonePending(q) => NonePending(r)
             /\ \A v : OnePending(q, v) => OnePending(r, v)
             /\ TwoPending(q) => TwoPending(r)
  <2>1. NonePending(q) => NonePending(r)
    BY <1>2, <1>4 DEF NonePending
  <2>2. \A v : OnePending(q, v) => OnePending(r, v)
    <3>1. SUFFICES ASSUME NEW v, OnePending(q, v) PROVE OnePending(r, v)
      OBVIOUS
    <3>2. PICK i \in DOMAIN q :
            q[i] = <<"RTMIN", v>> /\ \A k \in DOMAIN q : Own(q[k]) => k = i
      BY <3>1 DEF OnePending
    <3>3. i \in DOMAIN r /\ r[i] = <<"RTMIN", v>>
      BY <3>2, <1>2
    <3>4. \A k \in DOMAIN r : Own(r[k]) => k = i
      BY <3>2, <1>2, <1>4
    <3>5. QED
      BY <3>1, <3>3, <3>4 DEF OnePending
  <2>3. TwoPending(q) => TwoPending(r)
    <3>1. SUFFICES ASSUME TwoPending(q) PROVE TwoPending(r)
      OBVIOUS
    <3>2. PICK i \in DOMAIN q, j \in DOMAIN q :
            /\ i < j /\ q[i] = <<"RTMIN", 42>> /\ q[j] = <<"RTMIN", 84>>
            /\ \A k \in DOMAIN q : Own(q[k]) => k \in {i, j}
      BY <3>1 DEF TwoPending
    <3>3. i \in DOMAIN r /\ r[i] = <<"RTMIN", 42>> /\ j \in DOMAIN r /\ r[j] = <<"RTMIN", 84>>
      BY <3>2, <1>2
    <3>4. \A k \in DOMAIN r : Own(r[k]) => k \in {i, j}
      BY <3>2, <1>2, <1>4
    <3>5. QED
      BY <3>2, <3>3, <3>4 DEF TwoPending
  <2>4. QED
    BY <2>1, <2>2, <2>3
<1>5. ASSUME Own(e), NonePending(q)
      PROVE  OnePending(r, e[2])
  <2>1. e = <<"RTMIN", e[2]>> /\ e[2] # 0
    BY <1>5, ItemIs DEF Own
  <2>2. \A k \in DOMAIN r : Own(r[k]) => k = Len(q) + 1
    BY <1>2, <1>5 DEF NonePending
  <2>3. QED
    BY <1>2, <2>1, <2>2 DEF OnePending
<1>6. ASSUME e = <<"RTMIN", 84>>, OnePending(q, 42)
      PROVE  TwoPending(r)
  <2>1. PICK i \in DOMAIN q :
          q[i] = <<"RTMIN", 42>> /\ \A k \in DOMAIN q : Own(q[k]) => k = i
    BY <1>6 DEF OnePending
  <2>2. i < Len(q) + 1
    BY <1>2
  <2>3. \A k \in DOMAIN r : Own(r[k]) => k \in {i, Len(q) + 1}
    BY <1>2, <2>1
  <2>4. QED
    BY <1>2, <1>6, <2>1, <2>2, <2>3 DEF TwoPending
<1>7. e = <<"RTMIN", 84>> => Own(e)
  BY DEF Own
<1>8. Own(e) => Enqueue(q, e) = r
  BY <1>3
<1>9. ASSUME ~Own(e)
      PROVE  /\ NonePending(q) => NonePending(Enqueue(q, e))
             /\ \A v : OnePending(q, v) => OnePending(Enqueue(q, e), v)
             /\ TwoPending(q) => TwoPending(Enqueue(q, e))
  BY <1>3, <1>4, <1>9
<1>10. QED
  BY <1>5, <1>6, <1>7, <1>8, <1>9

\* A handler runs: what was caught before is still there, and the new one behind it.
Catches(t, s) == caught' = Append(caught, <<t, s[1], s[2]>>)

LEMMA CatchesKeeps ==
  ASSUME caught \in Seq(Catch), NEW t \in Task, NEW s \in Item, Catches(t, s)
  PROVE  /\ caught' \in Seq(Catch)
         /\ HasCaught(s[1])'
         /\ s[2] = 0 => CaughtBy(t, s[1])'
         /\ \A c \in Signal : HasCaught(c) => HasCaught(c)'
         /\ \A u \in Task, c \in Signal : CaughtBy(u, c) => CaughtBy(u, c)'
         /\ ~Own(s) => /\ NoneCaught => NoneCaught'
                       /\ OneCaught => OneCaught'
                       /\ TwoCaught => TwoCaught'
         /\ t = "main" /\ s = <<"RTMIN", 42>> /\ NoneCaught => OneCaught'
         /\ t = "main" /\ s = <<"RTMIN", 84>> /\ OneCaught => TwoCaught'
<1> DEFINE e == <<t, s[1], s[2]>>
           n == Len(caught) + 1
<1>1. e \in Catch /\ e[1] = t /\ e[2] = s[1] /\ e[3] = s[2]
      /\ (OwnCatch(e) <=> Own(s))
  BY DEF Catch, Item, Own, OwnCatch
<1>2. /\ caught' \in Seq(Catch) /\ Len(caught) \in Nat /\ DOMAIN caught = 1..Len(caught)
      /\ n \in DOMAIN caught' /\ caught'[n] = e
      /\ \A k \in DOMAIN caught : k \in DOMAIN caught' /\ caught'[k] = caught[k] /\ k < n
      /\ \A k \in DOMAIN caught' : k = n \/ k \in DOMAIN caught
  <2>1. caught' = Append(caught, e)
    BY DEF Catches
  <2> HIDE DEF e
  <2>2. QED
    BY <2>1, <1>1, AppendIs
<1> HIDE DEF n
<1>3. HasCaught(s[1])' /\ (s[2] = 0 => CaughtBy(t, s[1])')
  BY <1>1, <1>2 DEF HasCaught, CaughtBy
<1>4. \A c \in Signal : HasCaught(c) => HasCaught(c)'
  BY <1>2 DEF HasCaught
<1>5. \A u \in Task, c \in Signal : CaughtBy(u, c) => CaughtBy(u, c)'
  BY <1>2 DEF CaughtBy
<1>6. ASSUME ~Own(s)
      PROVE  /\ NoneCaught => NoneCaught'
             /\ OneCaught => OneCaught'
             /\ TwoCaught => TwoCaught'
  <2> HIDE DEF e
  <2>1. NoneCaught => NoneCaught'
    BY <1>1, <1>2, <1>6 DEF NoneCaught
  <2>2. OneCaught => OneCaught'
    <3>1. SUFFICES ASSUME OneCaught PROVE OneCaught'
      OBVIOUS
    <3>2. PICK i \in DOMAIN caught :
            /\ caught[i] = <<"main", "RTMIN", 42>>
            /\ \A k \in DOMAIN caught : OwnCatch(caught[k]) => k = i
      BY <3>1 DEF OneCaught
    <3>3. i \in DOMAIN caught' /\ caught'[i] = <<"main", "RTMIN", 42>>
      BY <3>2, <1>2
    <3>4. \A k \in DOMAIN caught' : OwnCatch(caught'[k]) => k = i
      BY <3>2, <1>1, <1>2, <1>6
    <3>5. QED
      BY <3>3, <3>4 DEF OneCaught
  <2>3. TwoCaught => TwoCaught'
    <3>1. SUFFICES ASSUME TwoCaught PROVE TwoCaught'
      OBVIOUS
    <3>2. PICK i \in DOMAIN caught, j \in DOMAIN caught :
            /\ i < j
            /\ caught[i] = <<"main", "RTMIN", 42>> /\ caught[j] = <<"main", "RTMIN", 84>>
            /\ \A k \in DOMAIN caught : OwnCatch(caught[k]) => k \in {i, j}
      BY <3>1 DEF TwoCaught
    <3>3. /\ i \in DOMAIN caught' /\ caught'[i] = <<"main", "RTMIN", 42>>
          /\ j \in DOMAIN caught' /\ caught'[j] = <<"main", "RTMIN", 84>>
      BY <3>2, <1>2
    <3>4. \A k \in DOMAIN caught' : OwnCatch(caught'[k]) => k \in {i, j}
      BY <3>2, <1>1, <1>2, <1>6
    <3>5. QED
      BY <3>2, <3>3, <3>4 DEF TwoCaught
  <2>4. QED
    BY <2>1, <2>2, <2>3
<1>7. ASSUME t = "main", s = <<"RTMIN", 42>>, NoneCaught
      PROVE  OneCaught'
  <2>1. \A k \in DOMAIN caught' : OwnCatch(caught'[k]) => k = n
    BY <1>2, <1>7 DEF NoneCaught
  <2>2. caught'[n] = <<"main", "RTMIN", 42>>
    BY <1>2, <1>7
  <2>3. QED
    BY <1>2, <2>1, <2>2 DEF OneCaught
<1>8. ASSUME t = "main", s = <<"RTMIN", 84>>, OneCaught
      PROVE  TwoCaught'
  <2>1. PICK i \in DOMAIN caught :
          /\ caught[i] = <<"main", "RTMIN", 42>>
          /\ \A k \in DOMAIN caught : OwnCatch(caught[k]) => k = i
    BY <1>8 DEF OneCaught
  <2>2. /\ i \in DOMAIN caught' /\ i < n /\ caught'[i] = <<"main", "RTMIN", 42>>
        /\ n \in DOMAIN caught' /\ caught'[n] = <<"main", "RTMIN", 84>>
    BY <1>2, <1>8, <2>1
  <2>3. \A k \in DOMAIN caught' : OwnCatch(caught'[k]) => k \in {i, n}
    BY <1>2, <2>1
  <2>4. QED
    BY <2>2, <2>3 DEF TwoCaught
<1>9. QED
  BY <1>2, <1>3, <1>4, <1>5, <1>6, <1>7, <1>8

-----------------------------------------------------------------------------
(* What every step of the kernel and every call keeps *)

LEMMA RunsAt ==
  ASSUME Places, NEW t \in Task, Running(t)
  PROVE  /\ program # "SigpendingThread" => t = "main"
         /\ ~Ended(t) => ip[t] \in 1..Len(Code(program, t)) /\ CallType(program, t, Call(t))
<1>1. /\ program \in Program /\ ip[t] \in Nat /\ ip[t] > 0
      /\ ip[t] <= Len(Code(program, t)) + 1
  BY DEF Places, Running, Gone
<1>2. program # "SigpendingThread" => t = "main"
  BY <1>1 DEF Places, Task
<1>3. ASSUME ~Ended(t)
      PROVE  ip[t] \in 1..Len(Code(program, t)) /\ CallType(program, t, Call(t))
  <2>1. ip[t] \in 1..Len(Code(program, t))
    BY <1>1, <1>3, CodeLengths DEF Ended
  <2>2. CASE t = "main"
    BY <1>1, <2>1, <2>2, Codes, MainCallTypes DEF Call
  <2>3. CASE t # "main"
    <3>1. program = "SigpendingThread" /\ t \in {"thread1", "thread2"}
      BY <1>2, <2>3 DEF Task
    <3>2. ip[t] \in 1..6
      BY <2>1, <3>1, CodeLengths
    <3>3. PICK b \in {"USR1", "USR2"}, o \in {"USR1", "USR2"} :
            Code(program, t) = Thread(b, o)
      BY <3>1, Codes
    <3>4. QED
      BY <3>1, <3>2, <3>3, <2>1, ThreadCallTypes DEF Call
  <2>4. QED
    BY <2>2, <2>3
<1>4. QED
  BY <1>2, <1>3

LEMMA ToProcessKeeps ==
  ASSUME Kernel, NEW e \in Item, e[1] # "RTMIN" => e[2] = 0
  PROVE  /\ Queue(ToProcess(e))
         /\ \A s : Has(shared, s) => Has(ToProcess(e), s)
         /\ e[1] # "CHLD" \/ "CHLD" \in handled => Has(ToProcess(e), e[1])
         /\ ~Own(e) =>
              /\ NonePending(shared) => NonePending(ToProcess(e))
              /\ \A v : OnePending(shared, v) => OnePending(ToProcess(e), v)
              /\ TwoPending(shared) => TwoPending(ToProcess(e))
         /\ Own(e) /\ NonePending(shared) => OnePending(ToProcess(e), e[2])
         /\ e = <<"RTMIN", 84>> /\ OnePending(shared, 42) => TwoPending(ToProcess(e))
<1>1. Queue(shared)
  BY DEF Kernel
<1>2. CASE e[1] = "CHLD" /\ "CHLD" \notin handled \cup mask["main"]
  <2>1. ToProcess(e) = shared
    BY <1>2 DEF ToProcess
  <2>2. e # <<"RTMIN", 84>> /\ ~Own(e)
    BY <1>2 DEF Own
  <2>3. QED
    BY <1>1, <1>2, <2>1, <2>2
<1>3. CASE ~(e[1] = "CHLD" /\ "CHLD" \notin handled \cup mask["main"])
  <2>1. ToProcess(e) = Enqueue(shared, e)
    BY <1>3 DEF ToProcess
  <2>2. QED
    BY <1>1, <2>1, EnqueueQueue, EnqueueRealtime
<1>4. QED
  BY <1>2, <1>3

\* A queue from which something was sent to the process keeps all that Arranged says of it.
Grows ==
    /\ \A s : Has(shared, s) => Has(shared, s)'
    /\ NonePending(shared) => NonePending(shared')
    /\ \A v : OnePending(shared, v) => OnePending(shared', v)
    /\ TwoPending(shared) => TwoPending(shared')

LEMMA SetEffect ==
  ASSUME Kernel, NEW t \in Task, SetHandlerOrMask(t)
  PROVE  /\ Call(t)[1] = "signal" => handled' = handled \cup Call(t)[2] /\ mask' = mask
         /\ Call(t)[1] # "signal" => handled' = handled
         /\ Call(t)[1] = "setmask" => mask'[t] = Call(t)[2]
         /\ Call(t)[1] = "block" => mask'[t] = mask[t] \cup Call(t)[2]
         /\ Call(t)[1] = "unblock" => mask'[t] = mask[t] \ Call(t)[2]
         /\ \A u \in Task \ {t} : mask'[u] = mask[u]
         /\ DOMAIN mask' = Task /\ mask' = [mask EXCEPT ![t] = mask'[t]]
         /\ UNCHANGED <<own, shared, child>> /\ ip' = Next1(t)
<1> DEFINE c == Call(t)
<1>1. mask \in [Task -> SUBSET Signal]
  BY DEF Kernel
<1>2. /\ c[1] \in {"signal", "setmask", "block", "unblock"}
      /\ handled' = IF c[1] = "signal" THEN handled \cup c[2] ELSE handled
      /\ mask' = [mask EXCEPT ![t] = CASE c[1] = "signal" -> mask[t]
                                       [] c[1] = "setmask" -> c[2]
                                       [] c[1] = "block" -> mask[t] \cup c[2]
                                       [] c[1] = "unblock" -> mask[t] \ c[2]]
  BY DEF SetHandlerOrMask
<1> HIDE DEF c
<1>3. /\ c[1] = "signal" => handled' = handled \cup c[2] /\ mask' = mask
      /\ c[1] # "signal" => handled' = handled
      /\ c[1] = "setmask" => mask'[t] = c[2]
      /\ c[1] = "block" => mask'[t] = mask[t] \cup c[2]
      /\ c[1] = "unblock" => mask'[t] = mask[t] \ c[2]
      /\ \A u \in Task \ {t} : mask'[u] = mask[u]
      /\ DOMAIN mask' = Task /\ mask' = [mask EXCEPT ![t] = mask'[t]]
  BY <1>1, <1>2
<1>4. UNCHANGED <<own, shared, child>> /\ ip' = Next1(t)
  BY DEF SetHandlerOrMask
<1>5. QED
  BY <1>3, <1>4 DEF c

LEMMA SetKeeps ==
  ASSUME Places, Kernel, NEW t \in Task, Step(t), SetHandlerOrMask(t)
  PROVE  Places' /\ Kernel'
<1>1. /\ CallType(program, t, Call(t)) /\ ip[t] \in 1..Len(Code(program, t))
      /\ Call(t)[1] \in {"signal", "block", "unblock", "setmask"}
      /\ Len(Code(program, t)) \in Nat
  <2>1. Running(t) /\ ~Ended(t)
    BY DEF Step
  <2>2. QED
    BY <2>1, RunsAt, CodeLengths DEF SetHandlerOrMask, Places
<1>2. Call(t)[2] \subseteq Signal
  BY <1>1 DEF CallType
<1>3. mask'[t] \subseteq Signal /\ handled' \subseteq Signal
  BY <1>1, <1>2, SetEffect DEF Kernel
<1>4. mask' \in [Task -> SUBSET Signal]
  BY <1>3, SetEffect DEF Kernel
<1>5. UNCHANGED <<program, own, shared, caught, child, early, outside>> /\ ip' = Next1(t)
  BY DEF Step, SetHandlerOrMask
<1>6. Kernel'
  BY <1>3, <1>4, <1>5 DEF Kernel, Queue
<1>7. Places'
  BY <1>1, <1>5, RunsAt DEF Places, Next1, Step
<1>8. QED
  BY <1>6, <1>7

LEMMA StepRuns ==
  ASSUME Places, NEW t \in Task, Step(t)
  PROVE  /\ CallType(program, t, Call(t)) /\ ip[t] \in 1..Len(Code(program, t))
         /\ Len(Code(program, t)) \in Nat
         /\ program # "SigpendingThread" => t = "main"
         /\ ~Gone /\ ~Interrupted(t)
         /\ UNCHANGED <<program, caught, early, outside>>
<1>1. Running(t) /\ ~Ended(t) /\ ~Interrupted(t) /\ UNCHANGED <<program, caught, early, outside>>
  BY DEF Step
<1>2. QED
  BY <1>1, RunsAt, CodeLengths DEF Places, Running

LEMMA SentIs ==
  ASSUME Places, NEW t \in Task, Step(t), Send(t)
  PROVE  Sent(t) \in Item /\ (Sent(t)[1] # "RTMIN" => Sent(t)[2] = 0)
<1>1. CallType(program, t, Call(t)) /\ Call(t)[1] \in {"kill", "tkill"}
  BY StepRuns DEF Send
<1>2. Call(t)[2] \in Signal /\ Call(t)[3] \in {0, 42, 84} /\ (Call(t)[2] # "RTMIN" => Call(t)[3] = 0)
  BY <1>1 DEF CallType
<1>3. QED
  BY <1>2, ItemIs DEF Sent

\* A step to the next call, whatever else it does
LEMMA NextPlaces ==
  ASSUME Places, NEW t \in Task, Step(t), ip' = Next1(t),
         program = "SigpendingThread" \/ own' = own
  PROVE  Places'
<1>1. /\ ip[t] \in 1..Len(Code(program, t)) /\ Len(Code(program, t)) \in Nat
      /\ program' = program /\ (program # "SigpendingThread" => t = "main")
  BY StepRuns
<1>2. ip \in [Task -> Nat]
  BY DEF Places
<1>3. /\ ip' \in [Task -> Nat] /\ ip'[t] = ip[t] + 1 /\ \A u \in Task \ {t} : ip'[u] = ip[u]
  BY <1>1, <1>2 DEF Next1
<1>4. \A u \in Task : ip'[u] <= Len(Code(program', u)) + 1 \/ (u = "main" /\ ip'[u] = 99)
  BY <1>1, <1>3 DEF Places
<1>5. ip'["main"] # 0
  <2>1. "main" \in Task /\ ip["main"] \in Nat /\ ip["main"] # 0 /\ ip[t] \in Nat
    BY <1>2 DEF Places, Task
  <2>2. CASE t = "main"
    BY <2>1, <2>2, <1>3
  <2>3. CASE t # "main"
    BY <2>1, <2>3, <1>3
  <2>4. QED
    BY <2>2, <2>3
<1>6. program # "SigpendingThread" =>
        ip'["thread1"] = 0 /\ ip'["thread2"] = 0 /\ \A u \in Task : own'[u] = <<>>
  BY <1>1, <1>3 DEF Places, Task
<1>7. QED
  BY <1>1, <1>3, <1>4, <1>5, <1>6 DEF Places

LEMMA SendKeeps ==
  ASSUME Places, Kernel, NEW t \in Task, Step(t), Send(t)
  PROVE  Places' /\ Kernel'
<1>1. Sent(t) \in Item /\ (Sent(t)[1] # "RTMIN" => Sent(t)[2] = 0)
  BY SentIs
<1>2. /\ ip' = Next1(t) /\ CallType(program, t, Call(t))
      /\ UNCHANGED <<mask, handled, child, caught, early, outside>>
  BY StepRuns DEF Send
<1>3. CASE Call(t)[1] = "kill" /\ shared' = ToProcess(Sent(t)) /\ own' = own
  <2>1. Queue(shared')
    BY <1>1, <1>3, ToProcessKeeps
  <2>2. Kernel'
    BY <1>2, <1>3, <2>1 DEF Kernel
  <2>3. QED
    BY <1>2, <1>3, <2>2, NextPlaces
<1>4. CASE /\ Call(t)[1] = "tkill" /\ shared' = shared
           /\ own' = [own EXCEPT ![t] = Enqueue(own[t], Sent(t))]
  <2>1. program = "SigpendingThread"
    BY <1>2, <1>4 DEF CallType
  <2>2. own \in [Task -> Pending] /\ \A u \in Task : Queue(own[u])
    BY DEF Kernel
  <2>3. Queue(Enqueue(own[t], Sent(t)))
    BY <1>1, <2>2, EnqueueQueue
  <2>4. own' \in [Task -> Pending] /\ \A u \in Task : Queue(own'[u])
    BY <1>4, <2>2, <2>3 DEF Queue
  <2>5. Kernel'
    BY <1>2, <1>4, <2>4 DEF Kernel
  <2>6. QED
    BY <1>2, <2>1, <2>5, NextPlaces
<1>5. QED
  BY <1>3, <1>4 DEF Send

LEMMA OtherCallsKeep ==
  ASSUME Places, Kernel, NEW t \in Task, Step(t),
         Check(t) \/ Fork(t) \/ WaitForChild(t) \/ Create(t) \/ Join(t)
  PROVE  Places' /\ Kernel'
<1>1. /\ CallType(program, t, Call(t)) /\ program' = program
      /\ Len(Code(program, t)) \in Nat /\ ip[t] \in 1..Len(Code(program, t))
      /\ (program # "SigpendingThread" => t = "main")
      /\ UNCHANGED <<own, shared, handled, caught, early, outside>>
  BY StepRuns DEF Check, Fork, WaitForChild, Create, Join
<1>2. child' \in {"none", "running", "zombie", "reaped"}
  BY DEF Kernel, Check, Fork, WaitForChild, Create, Join, Wait
<1>3. mask' \in [Task -> SUBSET Signal]
  <2>1. CASE Create(t) /\ mask' # mask
    BY <2>1 DEF Create, Kernel
  <2>2. CASE mask' = mask
    BY <2>2 DEF Kernel
  <2>3. QED
    BY <2>1, <2>2 DEF Check, Fork, WaitForChild, Create, Join
<1>4. Kernel'
  BY <1>1, <1>2, <1>3 DEF Kernel
<1>5. Places'
  <2>1. CASE ip' = Next1(t)
    BY <1>1, <2>1, NextPlaces
  <2>2. CASE ip' = [ip EXCEPT ![t] = Len(Code(program, t)) + 1]
    BY <1>1, <2>2 DEF Places, Task
  <2>3. CASE Create(t) /\ ip' = [ip EXCEPT !["main"] = 99]
    BY <1>1, <2>3 DEF Places, Task
  <2>4. CASE Create(t) /\ ip' = [Next1(t) EXCEPT ![Call(t)[2]] = 1]
    <3>1. program = "SigpendingThread" /\ t = "main" /\ Call(t)[2] \in {"thread1", "thread2"}
      BY <1>1, <2>4 DEF CallType, Create
    <3>2. PICK u \in {"thread1", "thread2"} : u = Call(t)[2]
      BY <3>1
    <3>3. ip' = [[ip EXCEPT !["main"] = ip["main"] + 1] EXCEPT ![u] = 1]
      BY <2>4, <3>1, <3>2 DEF Next1
    <3>4. Len(Code(program, u)) = 6
      BY <3>2, CodeLengths
    <3>5. ip \in [Task -> Nat] /\ u \in Task /\ u # "main" /\ "main" \in Task
      BY DEF Places, Task
    <3>6. /\ ip' \in [Task -> Nat] /\ ip'[u] = 1 /\ ip'["main"] = ip["main"] + 1
          /\ \A v \in Task \ {u, "main"} : ip'[v] = ip[v]
      BY <3>3, <3>5
    <3>7. \A v \in Task : ip'[v] <= Len(Code(program', v)) + 1 \/ (v = "main" /\ ip'[v] = 99)
      BY <1>1, <3>1, <3>4, <3>5, <3>6 DEF Places
    <3>8. QED
      BY <1>1, <3>1, <3>5, <3>6, <3>7 DEF Places
  <2>5. QED
    BY <2>1, <2>2, <2>3, <2>4 DEF Check, Fork, WaitForChild, Create, Join
<1>6. QED
  BY <1>4, <1>5

LEMMA StepKeeps ==
  ASSUME Places, Kernel, NEW t \in Task, Step(t)
  PROVE  Places' /\ Kernel'
<1>1. \/ SetHandlerOrMask(t) \/ Send(t) \/ Check(t) \/ Fork(t) \/ WaitForChild(t)
      \/ Create(t) \/ Join(t)
  BY DEF Step
<1>2. QED
  BY <1>1, SetKeeps, SendKeeps, OtherCallsKeep

LEMMA FromOutsideKeeps ==
  ASSUME Places, Kernel, SendFromOutside \/ ChildEnds
  PROVE  /\ Places' /\ Kernel' /\ Grows
         /\ ~Gone /\ UNCHANGED <<program, ip, mask, own, handled, caught>>
         /\ child' = child \/ child = "running"
         /\ "CHLD" \in handled /\ child' # child => Has(shared', "CHLD")
<1>1. PICK s \in Signal :
        /\ shared' = ToProcess(<<s, 0>>)
        /\ child' # child => s = "CHLD"
  BY OutsideAreSignals DEF SendFromOutside, ChildEnds, Signal
<1>2. /\ ~Gone /\ UNCHANGED <<program, ip, mask, own, handled, caught>>
      /\ child' \in {child, "zombie"} /\ (child' = child \/ child = "running")
      /\ early' \in BOOLEAN
  BY DEF SendFromOutside, ChildEnds, Kernel
<1>3. outside' \in 0..MaxOutside
  BY MaxOutsideIsNat DEF SendFromOutside, ChildEnds, Kernel
<1>4. <<s, 0>> \in Item /\ ~Own(<<s, 0>>) /\ <<s, 0>>[1] = s /\ <<s, 0>>[2] = 0
  BY ItemIs DEF Own
<1>5. /\ Queue(shared')
      /\ \A c : Has(shared, c) => Has(shared', c)
      /\ s # "CHLD" \/ "CHLD" \in handled => Has(shared', s)
      /\ NonePending(shared) => NonePending(shared')
      /\ \A v : OnePending(shared, v) => OnePending(shared', v)
      /\ TwoPending(shared) => TwoPending(shared')
  BY <1>1, <1>4, ToProcessKeeps
<1>6. Grows
  BY <1>5 DEF Grows, Has
<1>7. Kernel'
  BY <1>2, <1>3, <1>5 DEF Kernel
<1>8. Places'
  BY <1>2 DEF Places
<1>9. QED
  BY <1>1, <1>2, <1>5, <1>6, <1>7, <1>8

\* A task takes a signal s that is pending in a queue at position i.
LEMMA HandleKeeps ==
  ASSUME Places, Kernel, NEW t \in Task, NEW s \in Item, Handle(t, s),
         program' = program, program = "SigpendingThread" \/ own' = own
  PROVE  /\ Places' /\ caught' \in Seq(Catch)
         /\ child' \in {"none", "running", "zombie", "reaped"}
         /\ program # "SafeFork" => child' = child
         /\ \/ Catches(t, s) /\ s[1] \in handled /\ ip' = ip
            \/ s[1] = "CHLD" /\ s[1] \notin handled /\ caught' = caught /\ ip' = ip
            \/ caught' = caught /\ s[1] \notin handled /\ Gone'
<1>1. \/ s[1] \in handled /\ Func(s) /\ Catches(t, s) /\ ip' = ip
      \/ s[1] \notin handled /\ s[1] = "CHLD" /\ UNCHANGED <<ip, caught, child>>
      \/ s[1] \notin handled /\ ip' = [ip EXCEPT !["main"] = 99] /\ UNCHANGED <<caught, child>>
  BY DEF Handle, Catches
<1>2. /\ child' \in {"none", "running", "zombie", "reaped"}
      /\ program # "SafeFork" => child' = child
  BY <1>1 DEF Kernel, Func, Wait
<1>3. caught' \in Seq(Catch)
  BY <1>1, CatchesKeeps DEF Kernel
<1>4. ip' = ip \/ ip' = [ip EXCEPT !["main"] = 99]
  BY <1>1
<1>5. Places'
  <2>1. CASE ip' = ip
    BY <2>1 DEF Places
  <2>2. CASE ip' = [ip EXCEPT !["main"] = 99]
    BY <2>2 DEF Places, Task
  <2>3. QED
    BY <1>4, <2>1, <2>2
<1>6. ip' = [ip EXCEPT !["main"] = 99] => Gone'
  BY DEF Gone, Places, Task
<1>7. QED
  BY <1>1, <1>2, <1>3, <1>5, <1>6

\* What one task takes, from its own queue or from that of the process
LEMMA DeliverIs ==
  ASSUME Places, Kernel, NEW t \in Task, Deliver(t)
  PROVE  /\ Places' /\ Kernel' /\ ~Gone
         /\ program # "SigpendingThread" => t = "main"
         /\ UNCHANGED <<program, mask, handled>>
         /\ program # "SafeFork" => child' = child
         /\ \E q \in {own[t], shared} : \E i \in DOMAIN q :
              /\ q[i] \in Item /\ Queue(q) /\ i \in Takes(t, q)
              /\ \/ q = own[t] /\ own' = [own EXCEPT ![t] = RemoveAt(q, i)] /\ shared' = shared
                 \/ q = shared /\ shared' = RemoveAt(q, i) /\ own' = own
              /\ \/ Catches(t, q[i]) /\ q[i][1] \in handled /\ ip' = ip
                 \/ q[i][1] = "CHLD" /\ q[i][1] \notin handled /\ caught' = caught /\ ip' = ip
                 \/ caught' = caught /\ q[i][1] \notin handled /\ Gone'
<1>1. PICK q \in {own[t], shared} : \E i \in Takes(t, q) :
        /\ Handle(t, q[i])
        /\ \/ q = own[t] /\ own' = [own EXCEPT ![t] = RemoveAt(q, i)] /\ shared' = shared
           \/ q = shared /\ shared' = RemoveAt(q, i) /\ own' = own
  BY DEF Deliver
<1>2. PICK i \in Takes(t, q) :
        /\ Handle(t, q[i])
        /\ \/ q = own[t] /\ own' = [own EXCEPT ![t] = RemoveAt(q, i)] /\ shared' = shared
           \/ q = shared /\ shared' = RemoveAt(q, i) /\ own' = own
  BY <1>1
<1>3. /\ ~Gone /\ UNCHANGED <<program, mask, handled, early, outside>>
      /\ (program # "SigpendingThread" => t = "main")
  BY RunsAt DEF Deliver, Running
<1>4. /\ Queue(q) /\ q \in Seq(Item) /\ i \in DOMAIN q
      /\ own \in [Task -> Pending] /\ \A u \in Task : Queue(own[u])
      /\ Queue(shared)
  BY DEF Kernel, Takes, Queue, Pending, Item
<1>5. q[i] \in Item
  BY <1>4
<1>6. program = "SigpendingThread" \/ own' = own
  <2>1. CASE q = own[t] /\ program # "SigpendingThread"
    <3>1. q = <<>>
      BY <2>1 DEF Places
    <3>2. QED
      BY <3>1, <1>4
  <2>2. QED
    BY <1>2, <2>1
<1>7. /\ Places' /\ caught' \in Seq(Catch)
      /\ child' \in {"none", "running", "zombie", "reaped"}
      /\ program # "SafeFork" => child' = child
      /\ \/ Catches(t, q[i]) /\ q[i][1] \in handled /\ ip' = ip
         \/ q[i][1] = "CHLD" /\ q[i][1] \notin handled /\ caught' = caught /\ ip' = ip
         \/ caught' = caught /\ q[i][1] \notin handled /\ Gone'
  BY <1>2, <1>3, <1>5, <1>6, HandleKeeps
<1>8. Queue(RemoveAt(q, i))
  BY <1>4, RemoveAtQueue
<1>9. own' \in [Task -> Pending] /\ Queue(shared') /\ \A u \in Task : Queue(own'[u])
  BY <1>2, <1>4, <1>8 DEF Queue
<1>10. Kernel'
  BY <1>3, <1>7, <1>9 DEF Kernel
<1>11. QED
  BY <1>2, <1>3, <1>4, <1>5, <1>7, <1>10

-----------------------------------------------------------------------------
(* What a program has arranged survives what comes from outside ... *)

LEMMA FromOutsideArranged ==
  ASSUME Places, Kernel, Arranged, SendFromOutside \/ ChildEnds
  PROVE  Arranged'
<1>1. /\ Grows /\ UNCHANGED <<program, ip, mask, own, handled, caught>>
      /\ (child' = child \/ child = "running")
      /\ ("CHLD" \in handled /\ child' # child => Has(shared', "CHLD"))
  BY FromOutsideKeeps
<1>2. /\ \A s : Has(shared, s) => Has(shared', s)
      /\ NonePending(shared) => NonePending(shared')
      /\ \A v : OnePending(shared, v) => OnePending(shared', v)
      /\ TwoPending(shared) => TwoPending(shared')
  BY <1>1 DEF Grows, Has
<1>3. /\ \A s : HasCaught(s)' <=> HasCaught(s)
      /\ \A t, s : CaughtBy(t, s)' <=> CaughtBy(t, s)
      /\ NoneCaught' <=> NoneCaught
      /\ OneCaught' <=> OneCaught
      /\ TwoCaught' <=> TwoCaught
  BY <1>1 DEF HasCaught, CaughtBy, NoneCaught, OneCaught, TwoCaught
<1>4. ip["main"] \in Nat
  BY DEF Places, Task
<1>5. program = "SigchildWait" => SigchildWaitAt(ip["main"])'
  <2>1. SUFFICES ASSUME SigchildWaitAt(ip["main"]) PROVE SigchildWaitAt(ip["main"])'
    BY DEF Arranged
  <2>2. /\ ip["main"] >= 2 => "CHLD" \in handled
        /\ ip["main"] < 4 => child = "none"
        /\ ip["main"] = 6 => "CHLD" \notin mask["main"]
        /\ child \in {"zombie", "reaped"} => Has(shared, "CHLD") \/ HasCaught("CHLD")
    BY <2>1 DEF SigchildWaitAt
  <2>3. child' # child => ip["main"] >= 4
    BY <1>1, <1>4, <2>2
  <2>4. child' \in {"zombie", "reaped"} => Has(shared', "CHLD") \/ HasCaught("CHLD")'
    BY <1>1, <1>2, <1>3, <1>4, <2>2, <2>3
  <2>5. ip["main"] < 4 => child' = "none"
    BY <1>1, <1>4, <2>2, <2>3
  <2>6. QED
    BY <1>1, <2>2, <2>4, <2>5 DEF SigchildWaitAt, Has, HasCaught
<1>6. program = "SigpendingProcess" => SigpendingProcessAt(ip["main"])'
  BY <1>1, <1>2, <1>3 DEF Arranged, SigpendingProcessAt
<1>7. program = "SigpendingThread" =>
         /\ SigpendingThreadAt(ip["main"])'
         /\ ThreadAt("thread1", ip["thread1"], "USR1", "USR2")'
         /\ ThreadAt("thread2", ip["thread2"], "USR2", "USR1")'
  BY <1>1, <1>3 DEF Arranged, SigpendingThreadAt, ThreadAt, Has
<1>8. program = "Realtime" => RealtimeAt(ip["main"])'
  <2>1. SUFFICES ASSUME RealtimeAt(ip["main"]) PROVE RealtimeAt(ip["main"])'
    BY DEF Arranged
  <2>2. QED
    BY <1>1, <1>2, <1>3, <2>1 DEF RealtimeAt
<1>9. QED
  BY <1>1, <1>5, <1>6, <1>7, <1>8 DEF Arranged

-----------------------------------------------------------------------------
(* ... and what the tasks take *)

\* Whatever is taken: what was caught stays, and a signal that is not the
\* one taken is still where it was.
Took(s) ==
    /\ s \in Item /\ UNCHANGED <<program, ip, mask, handled>>
    /\ \A c \in Signal : Has(shared, c) /\ c # s[1] => Has(shared', c)
    /\ \A c \in Signal : HasCaught(c) => HasCaught(c)'
    /\ \A u \in Task, c \in Signal : CaughtBy(u, c) => CaughtBy(u, c)'
    /\ \/ s[1] \in handled /\ HasCaught(s[1])'
       \/ s[1] = "CHLD" /\ s[1] \notin handled

LEMMA TookIs ==
  ASSUME Places, Kernel, NEW t \in Task, Deliver(t), ~Gone'
  PROVE  \E q \in {own[t], shared} : \E i \in DOMAIN q :
           /\ Took(q[i]) /\ Queue(q) /\ i \in Takes(t, q)
           /\ \/ q = own[t] /\ own' = [own EXCEPT ![t] = RemoveAt(q, i)] /\ shared' = shared
              \/ q = shared /\ shared' = RemoveAt(q, i) /\ own' = own
           /\ \/ Catches(t, q[i]) /\ q[i][1] \in handled
              \/ caught' = caught /\ q[i][1] = "CHLD" /\ q[i][1] \notin handled
<1>0. PICK q \in {own[t], shared} : \E i \in DOMAIN q :
        /\ q[i] \in Item /\ Queue(q) /\ i \in Takes(t, q)
        /\ \/ q = own[t] /\ own' = [own EXCEPT ![t] = RemoveAt(q, i)] /\ shared' = shared
           \/ q = shared /\ shared' = RemoveAt(q, i) /\ own' = own
        /\ \/ Catches(t, q[i]) /\ q[i][1] \in handled /\ ip' = ip
           \/ q[i][1] = "CHLD" /\ q[i][1] \notin handled /\ caught' = caught /\ ip' = ip
           \/ caught' = caught /\ q[i][1] \notin handled /\ Gone'
  BY DeliverIs
<1>1. PICK i \in DOMAIN q :
        /\ q[i] \in Item /\ Queue(q) /\ i \in Takes(t, q)
        /\ \/ q = own[t] /\ own' = [own EXCEPT ![t] = RemoveAt(q, i)] /\ shared' = shared
           \/ q = shared /\ shared' = RemoveAt(q, i) /\ own' = own
        /\ \/ Catches(t, q[i]) /\ q[i][1] \in handled /\ ip' = ip
           \/ q[i][1] = "CHLD" /\ q[i][1] \notin handled /\ caught' = caught /\ ip' = ip
           \/ caught' = caught /\ q[i][1] \notin handled /\ Gone'
  BY <1>0
<1>2. UNCHANGED <<program, ip, mask, handled>>
  BY <1>1, DeliverIs
<1>3. \A c \in Signal : Has(shared, c) /\ c # q[i][1] => Has(shared', c)
  BY <1>1, RemoveAtQueue
<1>4. CASE Catches(t, q[i]) /\ q[i][1] \in handled
  <2>1. /\ HasCaught(q[i][1])'
        /\ \A c \in Signal : HasCaught(c) => HasCaught(c)'
        /\ \A u \in Task, c \in Signal : CaughtBy(u, c) => CaughtBy(u, c)'
    BY <1>1, <1>4, CatchesKeeps DEF Kernel
  <2>2. Took(q[i])
    BY <1>1, <1>2, <1>3, <1>4, <2>1 DEF Took
  <2>3. QED
    BY <1>1, <1>4, <2>2
<1>5. CASE q[i][1] = "CHLD" /\ q[i][1] \notin handled /\ caught' = caught
  <2>1. /\ \A c \in Signal : HasCaught(c) => HasCaught(c)'
        /\ \A u \in Task, c \in Signal : CaughtBy(u, c) => CaughtBy(u, c)'
    BY <1>5 DEF HasCaught, CaughtBy
  <2>2. Took(q[i])
    BY <1>1, <1>2, <1>3, <1>5, <2>1 DEF Took
  <2>3. QED
    BY <1>1, <1>5, <2>2
<1>6. QED
  BY <1>1, <1>4, <1>5

LEMMA DeliverSigchildWait ==
  ASSUME Places, Kernel, program = "SigchildWait", SigchildWaitAt(ip["main"]),
         NEW t \in Task, Deliver(t), ~Gone'
  PROVE  SigchildWaitAt(ip["main"])'
<1>1. PICK s : Took(s)
  BY TookIs
<1>2. child' = child
  BY DeliverIs
<1>3. ip["main"] \in Nat /\ "CHLD" \in Signal
  BY DEF Places, Task, Signal
<1>4. /\ UNCHANGED <<ip, mask, handled>>
      /\ (Has(shared, "CHLD") /\ "CHLD" # s[1] => Has(shared', "CHLD"))
      /\ (HasCaught("CHLD") => HasCaught("CHLD")')
      /\ (s[1] = "CHLD" /\ "CHLD" \in handled => HasCaught("CHLD")')
  BY <1>1, <1>3 DEF Took
<1>5. child \in {"zombie", "reaped"} => "CHLD" \in handled
  BY <1>3 DEF SigchildWaitAt
<1>6. child' \in {"zombie", "reaped"} => Has(shared', "CHLD") \/ HasCaught("CHLD")'
  BY <1>2, <1>4, <1>5 DEF SigchildWaitAt
<1>7. QED
  BY <1>2, <1>4, <1>6 DEF SigchildWaitAt, Has, HasCaught

LEMMA DeliverSigpendingProcess ==
  ASSUME Places, Kernel, program = "SigpendingProcess", SigpendingProcessAt(ip["main"]),
         NEW t \in Task, Deliver(t), ~Gone'
  PROVE  SigpendingProcessAt(ip["main"])'
<1>0. PICK q \in {own[t], shared} : \E i \in DOMAIN q : Took(q[i]) /\ i \in Takes(t, q)
  BY TookIs
<1>1. PICK i \in DOMAIN q : Took(q[i]) /\ i \in Takes(t, q)
  BY <1>0
<1>2. ip["main"] \in Nat /\ "USR1" \in Signal /\ t = "main"
  BY DeliverIs DEF Places, Task, Signal
<1>3. q[i][1] \notin mask["main"]
  BY <1>1, <1>2 DEF Takes
<1>4. /\ UNCHANGED <<ip, mask, handled>>
      /\ (Has(shared, "USR1") /\ "USR1" # q[i][1] => Has(shared', "USR1"))
      /\ (HasCaught("USR1") => HasCaught("USR1")')
      /\ (q[i][1] = "USR1" => HasCaught("USR1")')
  BY <1>1, <1>2 DEF Took
<1>5. ip["main"] \in 4..5 => Has(shared', "USR1")
  BY <1>3, <1>4 DEF SigpendingProcessAt
<1>6. ip["main"] >= 6 => Has(shared', "USR1") \/ HasCaught("USR1")'
  BY <1>4 DEF SigpendingProcessAt
<1>7. QED
  BY <1>4, <1>5, <1>6 DEF SigpendingProcessAt, Has, HasCaught

LEMMA DeliverThread ==
  ASSUME Places, Kernel, NEW t \in Task, Deliver(t), ~Gone',
         NEW u \in Task, NEW b \in {"USR1", "USR2"}, NEW o \in {"USR1", "USR2"} \ {b},
         ThreadAt(u, ip[u], b, o)
  PROVE  ThreadAt(u, ip[u], b, o)'
<1>0. PICK q \in {own[t], shared} : \E i \in DOMAIN q :
        /\ Took(q[i]) /\ Queue(q) /\ i \in Takes(t, q)
        /\ \/ q = own[t] /\ own' = [own EXCEPT ![t] = RemoveAt(q, i)] /\ shared' = shared
           \/ q = shared /\ shared' = RemoveAt(q, i) /\ own' = own
        /\ \/ Catches(t, q[i]) /\ q[i][1] \in handled
           \/ caught' = caught /\ q[i][1] = "CHLD" /\ q[i][1] \notin handled
  BY TookIs
<1>1. PICK i \in DOMAIN q :
        /\ Took(q[i]) /\ Queue(q) /\ i \in Takes(t, q)
        /\ \/ q = own[t] /\ own' = [own EXCEPT ![t] = RemoveAt(q, i)] /\ shared' = shared
           \/ q = shared /\ shared' = RemoveAt(q, i) /\ own' = own
        /\ \/ Catches(t, q[i]) /\ q[i][1] \in handled
           \/ caught' = caught /\ q[i][1] = "CHLD" /\ q[i][1] \notin handled
  BY <1>0
<1>2. /\ ip[u] \in Nat /\ b \in Signal /\ o \in Signal /\ b # o /\ b # "CHLD" /\ o # "CHLD"
      /\ o # "RTMIN" /\ own \in [Task -> Pending] /\ caught \in Seq(Catch)
  BY DEF Places, Signal, Kernel
<1>3. /\ q[i] \in Item /\ UNCHANGED <<ip, mask, handled>> /\ (CaughtBy(u, o) => CaughtBy(u, o)')
  BY <1>1, <1>2 DEF Took
<1>4. \A c : Has(own[u], c) /\ (t = u => c # q[i][1]) => Has(own'[u], c)
  BY <1>1, <1>2, RemoveAtQueue
<1>5. q[i][1] \notin mask[t]
  BY <1>1 DEF Takes
<1>6. ip[u] >= 3 /\ Has(own[u], b) => Has(own'[u], b)
  BY <1>4, <1>5 DEF ThreadAt
<1>7. ip[u] >= 3 /\ (Has(own[u], o) \/ CaughtBy(u, o)) => Has(own'[u], o) \/ CaughtBy(u, o)'
  <2>1. CASE t = u /\ q[i][1] = o
    <3>1. Catches(t, q[i]) /\ q[i][2] = 0
      BY <1>1, <1>2, <2>1 DEF Queue
    <3>2. CaughtBy(u, o)'
      BY <1>2, <1>3, <2>1, <3>1, CatchesKeeps
    <3>3. QED
      BY <3>2
  <2>2. CASE ~(t = u /\ q[i][1] = o)
    BY <1>3, <1>4, <2>2
  <2>3. QED
    BY <2>1, <2>2
<1>8. (ip[u] >= 4 /\ b = "USR1") \/ ip[u] >= 5 => Has(own'[u], b)
  BY <1>2, <1>6 DEF ThreadAt
<1>9. (ip[u] >= 4 /\ o = "USR1") \/ ip[u] >= 5 => Has(own'[u], o) \/ CaughtBy(u, o)'
  BY <1>2, <1>7 DEF ThreadAt
<1>10. ip[u] >= 6 => CaughtBy(u, o)'
  BY <1>3 DEF ThreadAt
<1>11. QED
  BY <1>3, <1>8, <1>9, <1>10 DEF ThreadAt, Has, CaughtBy

LEMMA DeliverRealtime ==
  ASSUME Places, Kernel, program = "Realtime", RealtimeAt(ip["main"]),
         NEW t \in Task, Deliver(t), ~Gone'
  PROVE  RealtimeAt(ip["main"])'
<1>0. PICK q \in {own[t], shared} : \E i \in DOMAIN q :
        /\ Took(q[i]) /\ Queue(q) /\ i \in Takes(t, q)
        /\ \/ q = own[t] /\ own' = [own EXCEPT ![t] = RemoveAt(q, i)] /\ shared' = shared
           \/ q = shared /\ shared' = RemoveAt(q, i) /\ own' = own
        /\ \/ Catches(t, q[i]) /\ q[i][1] \in handled
           \/ caught' = caught /\ q[i][1] = "CHLD" /\ q[i][1] \notin handled
  BY TookIs
<1>1. PICK i \in DOMAIN q :
        /\ Took(q[i]) /\ Queue(q) /\ i \in Takes(t, q)
        /\ \/ q = own[t] /\ own' = [own EXCEPT ![t] = RemoveAt(q, i)] /\ shared' = shared
           \/ q = shared /\ shared' = RemoveAt(q, i) /\ own' = own
        /\ \/ Catches(t, q[i]) /\ q[i][1] \in handled
           \/ caught' = caught /\ q[i][1] = "CHLD" /\ q[i][1] \notin handled
  BY <1>0
<1>2. ip["main"] \in Nat /\ t = "main" /\ own[t] = <<>> /\ caught \in Seq(Catch)
  BY DeliverIs DEF Places, Task, Kernel
<1>3. q = shared /\ shared' = RemoveAt(shared, i) /\ i \in DOMAIN shared /\ Queue(shared)
  BY <1>1, <1>2
<1>4. /\ shared[i] \in Item /\ UNCHANGED <<ip, mask, handled>>
      /\ shared[i][1] \notin mask["main"]
      /\ \A j \in 1..(i - 1) : shared[j][1] # shared[i][1]
      /\ Catches(t, shared[i]) \/ (caught' = caught /\ shared[i][1] = "CHLD")
  BY <1>1, <1>2, <1>3 DEF Took, Takes
<1>5. CASE ~Own(shared[i])
  <2>1. /\ NonePending(shared) => NonePending(shared')
        /\ \A v : OnePending(shared, v) => OnePending(shared', v)
        /\ TwoPending(shared) => TwoPending(shared')
    BY <1>3, <1>5, RemoveAtRealtime
  <2>2. /\ NoneCaught => NoneCaught'
        /\ OneCaught => OneCaught'
        /\ TwoCaught => TwoCaught'
    <3>1. CASE Catches(t, shared[i])
      BY <1>2, <1>4, <1>5, <3>1, CatchesKeeps
    <3>2. CASE caught' = caught
      BY <3>2 DEF NoneCaught, OneCaught, TwoCaught
    <3>3. QED
      BY <1>4, <3>1, <3>2
  <2>3. QED
    BY <1>4, <2>1, <2>2 DEF RealtimeAt
<1>6. CASE Own(shared[i])
  <2>1. Catches(t, shared[i]) /\ shared[i] = <<"RTMIN", shared[i][2]>>
    BY <1>4, <1>6, ItemIs DEF Own
  <2>2. /\ \A v : OnePending(shared, v) => shared[i][2] = v /\ NonePending(shared')
        /\ TwoPending(shared) => shared[i][2] = 42 /\ OnePending(shared', 84)
    <3>1. \A j \in 1..(i - 1) : ~Own(shared[j])
      BY <1>4, <1>6 DEF Own
    <3>2. QED
      BY <1>3, <1>6, <3>1, RemoveAtRealtime
  <2>3. ~NonePending(shared)
    BY <1>3, <1>6 DEF NonePending
  <2>4. ip["main"] >= 6
    BY <1>2, <1>4, <1>6, <2>3 DEF RealtimeAt, Own
  <2>5. CASE TwoPending(shared) /\ NoneCaught
    <3>1. shared[i] = <<"RTMIN", 42>> /\ OnePending(shared', 84)
      BY <2>1, <2>2, <2>5
    <3>2. OneCaught'
      BY <1>2, <1>4, <2>1, <2>5, <3>1, CatchesKeeps
    <3>3. QED
      BY <1>2, <1>4, <2>4, <3>1, <3>2 DEF RealtimeAt
  <2>6. CASE OnePending(shared, 84) /\ OneCaught
    <3>1. shared[i] = <<"RTMIN", 84>> /\ NonePending(shared')
      BY <2>1, <2>2, <2>6
    <3>2. TwoCaught'
      BY <1>2, <1>4, <2>1, <2>6, <3>1, CatchesKeeps
    <3>3. QED
      BY <1>2, <1>4, <2>4, <3>1, <3>2 DEF RealtimeAt
  <2>7. QED
    BY <2>3, <2>4, <2>5, <2>6 DEF RealtimeAt
<1>7. QED
  BY <1>5, <1>6

LEMMA DeliverArranged ==
  ASSUME Places, Kernel, Arranged, NEW t \in Task, Deliver(t), ~Gone'
  PROVE  Arranged'
<1>1. UNCHANGED <<program, ip>>
  BY TookIs DEF Took
<1>2. program = "SigchildWait" => SigchildWaitAt(ip["main"])'
  BY DeliverSigchildWait DEF Arranged
<1>3. program = "SigpendingProcess" => SigpendingProcessAt(ip["main"])'
  BY DeliverSigpendingProcess DEF Arranged
<1>4. program = "SigpendingThread" => SigpendingThreadAt(ip["main"])'
  BY <1>1 DEF Arranged, SigpendingThreadAt
<1>5. program = "SigpendingThread" =>
         /\ ThreadAt("thread1", ip["thread1"], "USR1", "USR2")'
         /\ ThreadAt("thread2", ip["thread2"], "USR2", "USR1")'
  BY DeliverThread DEF Arranged, Task
<1>6. program = "Realtime" => RealtimeAt(ip["main"])'
  BY DeliverRealtime DEF Arranged
<1>7. QED
  BY <1>1, <1>2, <1>3, <1>4, <1>5, <1>6 DEF Arranged

-----------------------------------------------------------------------------
(* The calls of the programs, one after the other *)

\* Which call it is decides what the step does.
LEMMA StepDoes ==
  ASSUME NEW t \in Task, Step(t)
  PROVE  /\ Call(t)[1] \in {"signal", "setmask", "block", "unblock"} => SetHandlerOrMask(t)
         /\ Call(t)[1] \in {"kill", "tkill"} => Send(t)
         /\ Call(t)[1] = "check" => Check(t)
         /\ Call(t)[1] = "fork" => Fork(t)
         /\ Call(t)[1] = "wait" => WaitForChild(t)
         /\ Call(t)[1] = "create" => Create(t)
         /\ Call(t)[1] = "join" => Join(t)
<1>1. \/ SetHandlerOrMask(t) \/ Send(t) \/ Check(t) \/ Fork(t) \/ WaitForChild(t)
      \/ Create(t) \/ Join(t)
  BY DEF Step
<1>2. /\ SetHandlerOrMask(t) => Call(t)[1] \in {"signal", "setmask", "block", "unblock"}
      /\ Send(t) => Call(t)[1] \in {"kill", "tkill"}
      /\ Check(t) => Call(t)[1] = "check"
      /\ Fork(t) => Call(t)[1] = "fork"
      /\ WaitForChild(t) => Call(t)[1] = "wait"
      /\ Create(t) => Call(t)[1] = "create"
      /\ Join(t) => Call(t)[1] = "join"
  BY DEF SetHandlerOrMask, Send, Check, Fork, WaitForChild, Create, Join
<1>3. QED
  BY <1>1, <1>2

LEMMA MainNext ==
  ASSUME Places, ip' = Next1("main")
  PROVE  ip'["main"] = ip["main"] + 1 /\ ip["main"] \in Nat
BY DEF Places, Next1, Task

LEMMA StepSigchildWait ==
  ASSUME Places, Kernel, program = "SigchildWait", SigchildWaitAt(ip["main"]),
         NEW t \in Task, Step(t)
  PROVE  SigchildWaitAt(ip["main"])'
<1>1. /\ t = "main" /\ ip["main"] \in 1..5 /\ Call("main") = SigchildWait[ip["main"]]
      /\ "main" \in Task /\ UNCHANGED <<program, caught>> /\ ip["main"] \in Nat
  BY StepRuns, Programs, Codes, Lengths DEF Places, Call
<1>2. HasCaught("CHLD")' <=> HasCaught("CHLD")
  BY <1>1 DEF HasCaught
<1>3. CASE ip["main"] = 1
  <2>1. Call("main") = <<"signal", {"CHLD"}>>
    BY <1>1, <1>3 DEF SigchildWait
  <2>2. SetHandlerOrMask("main")
    BY <1>1, <2>1, StepDoes
  <2>3. "CHLD" \in handled' /\ ip' = Next1("main") /\ UNCHANGED <<shared, child>>
    BY <1>1, <2>1, <2>2, SetEffect
  <2>4. QED
    BY <1>3, <2>3, MainNext DEF SigchildWaitAt
<1>4. CASE ip["main"] = 2
  <2>1. Call("main") = <<"block", {"CHLD"}>>
    BY <1>1, <1>4 DEF SigchildWait
  <2>2. SetHandlerOrMask("main")
    BY <1>1, <2>1, StepDoes
  <2>3. handled' = handled /\ ip' = Next1("main") /\ UNCHANGED <<shared, child>>
    BY <1>1, <2>1, <2>2, SetEffect
  <2>4. QED
    BY <1>4, <2>3, MainNext DEF SigchildWaitAt
<1>5. CASE ip["main"] = 3
  <2>1. Call("main") = <<"fork">>
    BY <1>1, <1>5 DEF SigchildWait
  <2>2. Fork("main")
    BY <1>1, <2>1, StepDoes
  <2>3. handled' = handled /\ ip' = Next1("main") /\ child' \in {"running", child}
    BY <1>1, <2>2 DEF Fork
  <2>4. child = "none"
    BY <1>5 DEF SigchildWaitAt
  <2>5. QED
    BY <1>5, <2>3, <2>4, MainNext DEF SigchildWaitAt
<1>6. CASE ip["main"] = 4
  <2>1. Call("main") = <<"wait">>
    BY <1>1, <1>6 DEF SigchildWait
  <2>2. WaitForChild("main")
    BY <1>1, <2>1, StepDoes
  <2>3. /\ UNCHANGED <<handled, shared>> /\ ip' = Next1("main")
        /\ child' \in {"zombie", "reaped"} => child \in {"zombie", "reaped"}
    BY <2>2 DEF WaitForChild, Wait
  <2>4. "CHLD" \in handled
    BY <1>6 DEF SigchildWaitAt
  <2>5. child' \in {"zombie", "reaped"} => Has(shared', "CHLD") \/ HasCaught("CHLD")'
    BY <1>2, <2>3 DEF SigchildWaitAt
  <2>6. ip'["main"] = 5
    BY <1>6, <2>3, MainNext
  <2>7. QED
    BY <2>3, <2>4, <2>5, <2>6 DEF SigchildWaitAt, Has, HasCaught
<1>7. CASE ip["main"] = 5
  <2>1. Call("main") = <<"unblock", {"CHLD"}>>
    BY <1>1, <1>7 DEF SigchildWait
  <2>2. SetHandlerOrMask("main")
    BY <1>1, <2>1, StepDoes
  <2>3. /\ handled' = handled /\ "CHLD" \notin mask'["main"] /\ ip' = Next1("main")
        /\ UNCHANGED <<shared, child>>
    BY <1>1, <2>1, <2>2, SetEffect
  <2>4. "CHLD" \in handled
    BY <1>7 DEF SigchildWaitAt
  <2>5. child' \in {"zombie", "reaped"} => Has(shared', "CHLD") \/ HasCaught("CHLD")'
    BY <1>2, <2>3 DEF SigchildWaitAt
  <2>6. ip'["main"] = 6
    BY <1>7, <2>3, MainNext
  <2>7. QED
    BY <2>3, <2>4, <2>5, <2>6 DEF SigchildWaitAt, Has, HasCaught
<1>8. QED
  BY <1>1, <1>3, <1>4, <1>5, <1>6, <1>7

LEMMA StepSigpendingProcess ==
  ASSUME Places, Kernel, program = "SigpendingProcess", SigpendingProcessAt(ip["main"]),
         NEW t \in Task, Step(t)
  PROVE  SigpendingProcessAt(ip["main"])'
<1>1. /\ t = "main" /\ ip["main"] \in 1..6 /\ Call("main") = SigpendingProcess[ip["main"]]
      /\ "main" \in Task /\ UNCHANGED <<program, caught>> /\ ip["main"] \in Nat
  BY StepRuns, Programs, Codes, Lengths DEF Places, Call
<1>2. HasCaught("USR1")' <=> HasCaught("USR1")
  BY <1>1 DEF HasCaught
<1>3. CASE ip["main"] = 1
  <2>1. Call("main") = <<"signal", {"USR1"}>>
    BY <1>1, <1>3 DEF SigpendingProcess
  <2>2. SetHandlerOrMask("main")
    BY <1>1, <2>1, StepDoes
  <2>3. "USR1" \in handled' /\ ip' = Next1("main")
    BY <1>1, <2>1, <2>2, SetEffect
  <2>4. QED
    BY <1>3, <2>3, MainNext DEF SigpendingProcessAt
<1>4. CASE ip["main"] = 2
  <2>1. Call("main") = <<"setmask", {"USR1"}>>
    BY <1>1, <1>4 DEF SigpendingProcess
  <2>2. SetHandlerOrMask("main")
    BY <1>1, <2>1, StepDoes
  <2>3. handled' = handled /\ mask'["main"] = {"USR1"} /\ ip' = Next1("main")
    BY <1>1, <2>1, <2>2, SetEffect
  <2>4. QED
    BY <1>4, <2>3, MainNext DEF SigpendingProcessAt
<1>5. CASE ip["main"] = 3
  <2>1. Call("main") = <<"kill", "USR1", 0>>
    BY <1>1, <1>5 DEF SigpendingProcess
  <2>2. Send("main")
    BY <1>1, <2>1, StepDoes
  <2>3. /\ shared' = ToProcess(<<"USR1", 0>>) /\ UNCHANGED <<handled, mask>>
        /\ ip' = Next1("main")
    BY <2>1, <2>2 DEF Send, Sent
  <2>4. Has(shared', "USR1")
    BY <2>3, ToProcessKeeps, ItemIs DEF Signal
  <2>5. "USR1" \in handled /\ mask["main"] = {"USR1"} /\ ip'["main"] = 4
    BY <1>5, <2>3, MainNext DEF SigpendingProcessAt
  <2>6. QED
    BY <2>3, <2>4, <2>5 DEF SigpendingProcessAt, Has
<1>6. CASE ip["main"] = 4
  <2>1. Call("main")[1] = "check"
    BY <1>1, <1>6 DEF SigpendingProcess
  <2>2. Check("main")
    BY <1>1, <2>1, StepDoes
  <2>3. UNCHANGED <<handled, mask, shared>> /\ ip' = Next1("main")
    BY <2>2 DEF Check
  <2>4. "USR1" \in handled /\ mask["main"] = {"USR1"} /\ Has(shared, "USR1") /\ ip'["main"] = 5
    BY <1>6, <2>3, MainNext DEF SigpendingProcessAt
  <2>5. QED
    BY <2>3, <2>4 DEF SigpendingProcessAt, Has
<1>7. CASE ip["main"] = 5
  <2>1. Call("main") = <<"setmask", {}>>
    BY <1>1, <1>7 DEF SigpendingProcess
  <2>2. SetHandlerOrMask("main")
    BY <1>1, <2>1, StepDoes
  <2>3. /\ handled' = handled /\ mask'["main"] = {} /\ shared' = shared /\ ip' = Next1("main")
    BY <1>1, <2>1, <2>2, SetEffect
  <2>4. "USR1" \in handled /\ Has(shared, "USR1") /\ ip'["main"] = 6
    BY <1>7, <2>3, MainNext DEF SigpendingProcessAt
  <2>5. QED
    BY <2>3, <2>4 DEF SigpendingProcessAt, Has
<1>8. CASE ip["main"] = 6
  <2>1. Call("main")[1] = "check"
    BY <1>1, <1>8 DEF SigpendingProcess
  <2>2. Check("main")
    BY <1>1, <2>1, StepDoes
  <2>3. UNCHANGED <<handled, mask, shared>> /\ ip' = Next1("main")
    BY <2>2 DEF Check
  <2>4. /\ "USR1" \in handled /\ mask["main"] = {} /\ ip'["main"] = 7
        /\ Has(shared, "USR1") \/ HasCaught("USR1")
    BY <1>8, <2>3, MainNext DEF SigpendingProcessAt
  <2>5. QED
    BY <1>2, <2>3, <2>4 DEF SigpendingProcessAt, Has, HasCaught
<1>9. QED
  BY <1>1, <1>3, <1>4, <1>5, <1>6, <1>7, <1>8

LEMMA StepRealtime ==
  ASSUME Places, Kernel, program = "Realtime", RealtimeAt(ip["main"]),
         NEW t \in Task, Step(t)
  PROVE  RealtimeAt(ip["main"])'
<1>1. /\ t = "main" /\ ip["main"] \in 1..5 /\ Call("main") = Realtime[ip["main"]]
      /\ "main" \in Task /\ UNCHANGED <<program, caught>> /\ ip["main"] \in Nat
  BY StepRuns, Programs, Codes, Lengths DEF Places, Call
<1>2. NoneCaught' <=> NoneCaught
  BY <1>1 DEF NoneCaught
<1>3. CASE ip["main"] = 1
  <2>1. Call("main") = <<"signal", {"RTMIN"}>>
    BY <1>1, <1>3 DEF Realtime
  <2>2. SetHandlerOrMask("main")
    BY <1>1, <2>1, StepDoes
  <2>3. "RTMIN" \in handled' /\ shared' = shared /\ ip' = Next1("main")
    BY <1>1, <2>1, <2>2, SetEffect
  <2>4. NonePending(shared) /\ NoneCaught /\ ip'["main"] = 2
    BY <1>3, <2>3, MainNext DEF RealtimeAt
  <2>5. QED
    BY <1>2, <2>3, <2>4 DEF RealtimeAt
<1>4. CASE ip["main"] = 2
  <2>1. Call("main") = <<"block", {"RTMIN"}>>
    BY <1>1, <1>4 DEF Realtime
  <2>2. SetHandlerOrMask("main")
    BY <1>1, <2>1, StepDoes
  <2>3. /\ handled' = handled /\ "RTMIN" \in mask'["main"] /\ shared' = shared
        /\ ip' = Next1("main")
    BY <1>1, <2>1, <2>2, SetEffect
  <2>4. "RTMIN" \in handled /\ NonePending(shared) /\ NoneCaught /\ ip'["main"] = 3
    BY <1>4, <2>3, MainNext DEF RealtimeAt
  <2>5. QED
    BY <1>2, <2>3, <2>4 DEF RealtimeAt
<1>5. CASE ip["main"] = 3
  <2>1. Call("main") = <<"kill", "RTMIN", 42>>
    BY <1>1, <1>5 DEF Realtime
  <2>2. Send("main")
    BY <1>1, <2>1, StepDoes
  <2>3. /\ shared' = ToProcess(<<"RTMIN", 42>>) /\ UNCHANGED <<handled, mask>>
        /\ ip' = Next1("main")
    BY <2>1, <2>2 DEF Send, Sent
  <2>4. /\ "RTMIN" \in handled /\ "RTMIN" \in mask["main"] /\ NonePending(shared) /\ NoneCaught
        /\ ip'["main"] = 4
    BY <1>5, <2>3, MainNext DEF RealtimeAt
  <2>5. OnePending(shared', 42)
    BY <2>3, <2>4, ToProcessKeeps, ItemIs DEF Signal, Own
  <2>6. QED
    BY <1>2, <2>3, <2>4, <2>5 DEF RealtimeAt
<1>6. CASE ip["main"] = 4
  <2>1. Call("main") = <<"kill", "RTMIN", 84>>
    BY <1>1, <1>6 DEF Realtime
  <2>2. Send("main")
    BY <1>1, <2>1, StepDoes
  <2>3. /\ shared' = ToProcess(<<"RTMIN", 84>>) /\ UNCHANGED <<handled, mask>>
        /\ ip' = Next1("main")
    BY <2>1, <2>2 DEF Send, Sent
  <2>4. /\ "RTMIN" \in handled /\ "RTMIN" \in mask["main"] /\ OnePending(shared, 42) /\ NoneCaught
        /\ ip'["main"] = 5
    BY <1>6, <2>3, MainNext DEF RealtimeAt
  <2>5. TwoPending(shared')
    BY <2>3, <2>4, ToProcessKeeps, ItemIs DEF Signal, Own
  <2>6. QED
    BY <1>2, <2>3, <2>4, <2>5 DEF RealtimeAt
<1>7. CASE ip["main"] = 5
  <2>1. Call("main") = <<"unblock", {"RTMIN"}>>
    BY <1>1, <1>7 DEF Realtime
  <2>2. SetHandlerOrMask("main")
    BY <1>1, <2>1, StepDoes
  <2>3. /\ handled' = handled /\ "RTMIN" \notin mask'["main"] /\ shared' = shared
        /\ ip' = Next1("main")
    BY <1>1, <2>1, <2>2, SetEffect
  <2>4. "RTMIN" \in handled /\ TwoPending(shared) /\ NoneCaught /\ ip'["main"] = 6
    BY <1>7, <2>3, MainNext DEF RealtimeAt
  <2>5. QED
    BY <1>2, <2>3, <2>4 DEF RealtimeAt
<1>8. QED
  BY <1>1, <1>3, <1>4, <1>5, <1>6, <1>7

\* main of Ex5 creates the two threads and joins them.
LEMMA CreateOrJoin ==
  ASSUME Places, program = "SigpendingThread", Step("main"), ~Gone'
  PROVE  /\ ip["main"] \in 1..4 /\ ip'["main"] = ip["main"] + 1
         /\ UNCHANGED <<own, handled, caught>>
         /\ \/ /\ ip["main"] \in 1..2
               /\ \E u \in {"thread1", "thread2"} :
                    ip'[u] = 1 /\ \A v \in Task \ {u, "main"} : ip'[v] = ip[v] /\ mask'[v] = mask[v]
            \/ /\ ip["main"] = 3 => ip["thread1"] = 7
               /\ ip["main"] = 4 => ip["thread2"] = 7
               /\ ip["main"] >= 3 /\ mask' = mask
               /\ \A v \in Task \ {"main"} : ip'[v] = ip[v]
<1> DEFINE n == ip["main"]
<1>1. /\ n \in 1..4 /\ Call("main") = SigpendingThread[n] /\ "main" \in Task
      /\ ip \in [Task -> Nat] /\ UNCHANGED <<program, caught>>
  BY StepRuns, Programs, Codes, Lengths DEF Places, Call, Task
<1>2. CASE n \in 1..2
  <2>1. PICK u \in {"thread1", "thread2"} : Call("main") = <<"create", u>>
    BY <1>1, <1>2 DEF SigpendingThread
  <2>2. Create("main")
    BY <1>1, <2>1, StepDoes
  <2>3. ip' # [ip EXCEPT !["main"] = 99]
    BY <1>1 DEF Gone
  <2>4. /\ ip' = [[ip EXCEPT !["main"] = ip["main"] + 1] EXCEPT ![u] = 1]
        /\ mask' = [mask EXCEPT ![u] = mask["main"]]
        /\ UNCHANGED <<own, handled>>
    BY <2>1, <2>2, <2>3 DEF Create, Next1
  <2>5. u # "main" /\ u \in Task
    BY DEF Task
  <2>6. /\ ip'["main"] = n + 1 /\ ip'[u] = 1
        /\ \A v \in Task \ {u, "main"} : ip'[v] = ip[v] /\ mask'[v] = mask[v]
    BY <1>1, <2>4, <2>5
  <2>7. QED
    BY <1>1, <1>2, <2>4, <2>6
<1>3. CASE n \in 3..4
  <2>1. Call("main") = IF n = 3 THEN <<"join", "thread1">> ELSE <<"join", "thread2">>
    BY <1>1, <1>3 DEF SigpendingThread
  <2>2. Join("main")
    BY <1>1, <2>1, StepDoes
  <2>3. /\ Ended(IF n = 3 THEN "thread1" ELSE "thread2") /\ ip' = Next1("main")
        /\ UNCHANGED <<own, handled, mask>>
    BY <2>1, <2>2 DEF Join
  <2>4. (n = 3 => ip["thread1"] = 7) /\ (n = 4 => ip["thread2"] = 7)
    <3>1. (n = 3 => Ended("thread1")) /\ (n = 4 => Ended("thread2"))
      BY <2>3
    <3>2. Ended("thread1") <=> ip["thread1"] = 7
      <4>1. Len(Code(program, "thread1")) = 6
        BY CodeLengths
      <4>2. \A l : l = 6 => l + 1 = 7
        OBVIOUS
      <4>3. QED
        BY <4>1, <4>2 DEF Ended
    <3>3. Ended("thread2") <=> ip["thread2"] = 7
      <4>1. Len(Code(program, "thread2")) = 6
        BY CodeLengths
      <4>2. \A l : l = 6 => l + 1 = 7
        OBVIOUS
      <4>3. QED
        BY <4>1, <4>2 DEF Ended
    <3>4. QED
      BY <3>1, <3>2, <3>3
  <2>5. ip'["main"] = n + 1 /\ \A v \in Task \ {"main"} : ip'[v] = ip[v]
    BY <1>1, <2>3 DEF Next1
  <2>6. QED
    BY <1>1, <1>3, <2>3, <2>4, <2>5
<1>4. QED
  BY <1>1, <1>2, <1>3

\* A thread of Ex5 makes its calls one by one.
LEMMA ThreadNext ==
  ASSUME Places, Kernel, program = "SigpendingThread", NEW t \in {"thread1", "thread2"}, Step(t)
  PROVE  /\ ip[t] \in 1..6 /\ ip'[t] = ip[t] + 1
         /\ \A v \in Task \ {t} : ip'[v] = ip[v] /\ mask'[v] = mask[v] /\ own'[v] = own[v]
         /\ handled \subseteq handled' /\ caught' = caught
         /\ SetHandlerOrMask(t) \/ Send(t) \/ Check(t)
<1>1. /\ ip[t] \in 1..6 /\ UNCHANGED <<program, caught>> /\ t \in Task /\ t # "main"
      /\ CallType(program, t, Call(t)) /\ ip \in [Task -> Nat] /\ own \in [Task -> Pending]
  BY StepRuns, CodeLengths DEF Places, Kernel, Task
<1>2. PICK b \in {"USR1", "USR2"}, o \in {"USR1", "USR2"} : Call(t) = Thread(b, o)[ip[t]]
  BY Codes DEF Call
<1>3. Call(t)[1] \in {"signal", "setmask", "tkill", "check"}
  BY <1>1, <1>2 DEF Thread
<1>4. SetHandlerOrMask(t) \/ Send(t) \/ Check(t)
  BY <1>1, <1>3, StepDoes
<1>5. ip' = Next1(t)
  BY <1>4, SetEffect, <1>1 DEF Send, Check
<1>6. \A v \in Task \ {t} : mask'[v] = mask[v] /\ own'[v] = own[v]
  <2>1. CASE SetHandlerOrMask(t)
    BY <1>1, <2>1, SetEffect
  <2>2. CASE Send(t) \/ Check(t)
    BY <1>1, <2>2 DEF Send, Check
  <2>3. QED
    BY <1>4, <2>1, <2>2
<1>7. handled \subseteq handled'
  <2>1. CASE SetHandlerOrMask(t)
    BY <1>1, <2>1, SetEffect
  <2>2. CASE Send(t) \/ Check(t)
    BY <2>2 DEF Send, Check
  <2>3. QED
    BY <1>4, <2>1, <2>2
<1>8. QED
  BY <1>1, <1>4, <1>5, <1>6, <1>7 DEF Next1

LEMMA StepThread ==
  ASSUME Places, Kernel, program = "SigpendingThread", NEW t \in {"thread1", "thread2"}, Step(t),
         NEW b \in {"USR1", "USR2"}, NEW o \in {"USR1", "USR2"} \ {b},
         Code(program, t) = Thread(b, o), ThreadAt(t, ip[t], b, o)
  PROVE  ThreadAt(t, ip[t], b, o)'
<1> DEFINE n == ip[t]
<1>1. /\ n \in 1..6 /\ ip'[t] = n + 1 /\ Call(t) = Thread(b, o)[n] /\ t \in Task
      /\ handled \subseteq handled' /\ caught' = caught /\ n \in Nat
      /\ (b = "USR1" => o = "USR2") /\ (b = "USR2" => o = "USR1")
  BY ThreadNext DEF Call, Task
<1>2. CaughtBy(t, o)' <=> CaughtBy(t, o)
  BY <1>1 DEF CaughtBy
<1>3. CASE n = 1
  <2>1. Call(t) = <<"signal", {"USR1", "USR2"}>>
    BY <1>1, <1>3 DEF Thread
  <2>2. {"USR1", "USR2"} \subseteq handled' /\ ip'[t] = 2
    BY <1>1, <1>3, <2>1, StepDoes, SetEffect
  <2>3. QED
    BY <2>2 DEF ThreadAt
<1>4. CASE n = 2
  <2>1. Call(t) = <<"setmask", {b}>>
    BY <1>1, <1>4 DEF Thread
  <2>2. mask'[t] = {b}
    BY <1>1, <2>1, StepDoes, SetEffect
  <2>3. {"USR1", "USR2"} \subseteq handled' /\ ip'[t] = 3
    BY <1>1, <1>4 DEF ThreadAt
  <2>4. QED
    BY <2>2, <2>3 DEF ThreadAt
<1>5. CASE n \in 3..4
  <2> DEFINE s == IF n = 3 THEN "USR1" ELSE "USR2"
  <2>1. Call(t) = <<"tkill", s, 0>>
    BY <1>1, <1>5 DEF Thread
  <2>2. Send(t)
    BY <1>1, <2>1, StepDoes
  <2>3. own' = [own EXCEPT ![t] = Enqueue(own[t], <<s, 0>>)] /\ mask' = mask
    BY <2>1, <2>2 DEF Send, Sent
  <2>4. <<s, 0>> \in Item /\ <<s, 0>>[1] = s /\ <<s, 0>>[2] = 0 /\ s \in {"USR1", "USR2"}
    BY ItemIs DEF Signal
  <2>5. Queue(own[t]) /\ own \in [Task -> Pending]
    BY <1>1 DEF Kernel
  <2>6. Has(own'[t], s) /\ \A c : Has(own[t], c) => Has(own'[t], c)
    BY <1>1, <2>3, <2>4, <2>5, EnqueueQueue
  <2>7. {"USR1", "USR2"} \subseteq handled' /\ mask'[t] = {b}
    BY <1>1, <1>5, <2>3 DEF ThreadAt
  <2>8. CASE n = 3
    <3>1. Has(own'[t], "USR1") /\ ip'[t] = 4
      BY <1>1, <2>6, <2>8
    <3>2. QED
      BY <2>7, <3>1 DEF ThreadAt, Has
  <2>9. CASE n = 4
    <3>1. /\ b = "USR1" => Has(own[t], b)
          /\ o = "USR1" => Has(own[t], o) \/ CaughtBy(t, o)
      BY <2>9 DEF ThreadAt
    <3>2. Has(own'[t], b) /\ (Has(own'[t], o) \/ CaughtBy(t, o)') /\ ip'[t] = 5
      BY <1>1, <1>2, <2>6, <2>9, <3>1
    <3>3. QED
      BY <2>7, <3>2 DEF ThreadAt, Has, CaughtBy
  <2>10. QED
    BY <1>5, <2>8, <2>9
<1>6. CASE n \in 5..6
  <2>1. Call(t)[1] = "check"
    BY <1>1, <1>6 DEF Thread
  <2>2. Check(t)
    BY <1>1, <2>1, StepDoes
  <2>3. UNCHANGED <<mask, own>>
    BY <2>2 DEF Check
  <2>4. /\ {"USR1", "USR2"} \subseteq handled' /\ mask[t] = {b} /\ Has(own[t], b)
        /\ Has(own[t], o) \/ CaughtBy(t, o)
    BY <1>1, <1>6 DEF ThreadAt
  <2>5. ~Has(own[t], o)
    <3>1. ~Interrupted(t) /\ Queue(own[t])
      BY <1>1 DEF Kernel, Step
    <3>2. o # "RTMIN" /\ o \notin mask[t]
      BY <2>4
    <3>3. QED
      BY <1>1, <3>1, <3>2, TakesStandard DEF Interrupted
  <2>6. CaughtBy(t, o)' /\ Has(own'[t], b) /\ mask'[t] = {b}
    BY <1>2, <2>3, <2>4, <2>5
  <2>7. QED
    BY <1>1, <2>4, <2>6 DEF ThreadAt, Has, CaughtBy
<1>7. QED
  BY <1>1, <1>3, <1>4, <1>5, <1>6

LEMMA StepSigpendingThread ==
  ASSUME Places, Kernel, program = "SigpendingThread", Arranged, NEW t \in Task, Step(t), ~Gone'
  PROVE  /\ SigpendingThreadAt(ip["main"])'
         /\ ThreadAt("thread1", ip["thread1"], "USR1", "USR2")'
         /\ ThreadAt("thread2", ip["thread2"], "USR2", "USR1")'
<1>1. /\ SigpendingThreadAt(ip["main"])
      /\ ThreadAt("thread1", ip["thread1"], "USR1", "USR2")
      /\ ThreadAt("thread2", ip["thread2"], "USR2", "USR1")
      /\ ip \in [Task -> Nat] /\ {"main", "thread1", "thread2"} \subseteq Task
  BY DEF Arranged, Places, Task
<1>2. ASSUME NEW u \in Task, ip'[u] = ip[u], mask'[u] = mask[u], own'[u] = own[u],
             handled \subseteq handled', caught' = caught, NEW b, NEW o, ThreadAt(u, ip[u], b, o)
      PROVE  ThreadAt(u, ip[u], b, o)'
  <2>1. CaughtBy(u, o)' <=> CaughtBy(u, o)
    BY <1>2 DEF CaughtBy
  <2>2. QED
    BY <1>2, <2>1 DEF ThreadAt, Has, CaughtBy
<1>3. CASE t = "main"
  <2>1. /\ ip["main"] \in 1..4 /\ ip'["main"] = ip["main"] + 1
        /\ UNCHANGED <<own, handled, caught>>
        /\ \/ /\ ip["main"] \in 1..2
              /\ \E u \in {"thread1", "thread2"} :
                   ip'[u] = 1 /\ \A v \in Task \ {u, "main"} : ip'[v] = ip[v] /\ mask'[v] = mask[v]
           \/ /\ ip["main"] = 3 => ip["thread1"] = 7
              /\ ip["main"] = 4 => ip["thread2"] = 7
              /\ ip["main"] >= 3 /\ mask' = mask
              /\ \A v \in Task \ {"main"} : ip'[v] = ip[v]
    BY <1>3, CreateOrJoin
  <2>2. SigpendingThreadAt(ip["main"])'
    BY <1>1, <2>1 DEF SigpendingThreadAt
  <2>3. ASSUME NEW u \in {"thread1", "thread2"}, NEW b, NEW o, ThreadAt(u, ip[u], b, o)
        PROVE  ThreadAt(u, ip[u], b, o)'
    <3>1. CASE ip'[u] = 1
      BY <3>1 DEF ThreadAt
    <3>2. CASE ip'[u] = ip[u] /\ mask'[u] = mask[u]
      BY <1>1, <1>2, <2>1, <2>3, <3>2
    <3>3. u \in Task \ {"main"}
      BY <1>1
    <3>4. QED
      BY <2>1, <3>1, <3>2, <3>3
  <2>4. QED
    BY <1>1, <2>2, <2>3
<1>4. ASSUME NEW u \in {"thread1", "thread2"}, t = u
      PROVE  SigpendingThreadAt(ip["main"])'
  <2>1. ip[u] \in 1..6 /\ ip'["main"] = ip["main"] /\ \A v \in Task \ {u} : ip'[v] = ip[v]
    BY <1>4, <1>1, ThreadNext
  <2>2. /\ ip["main"] >= 4 => u # "thread1"
        /\ ip["main"] >= 5 => u # "thread2"
    BY <1>1, <2>1 DEF SigpendingThreadAt
  <2>3. QED
    BY <1>1, <2>1, <2>2 DEF SigpendingThreadAt
<1>5. CASE t = "thread1"
  <2>1. ThreadAt("thread1", ip["thread1"], "USR1", "USR2")'
    BY <1>1, <1>5, Codes, StepThread
  <2>2. ThreadAt("thread2", ip["thread2"], "USR2", "USR1")'
    BY <1>1, <1>2, <1>5, ThreadNext
  <2>3. QED
    BY <1>4, <1>5, <2>1, <2>2
<1>6. CASE t = "thread2"
  <2>1. ThreadAt("thread2", ip["thread2"], "USR2", "USR1")'
    BY <1>1, <1>6, Codes, StepThread
  <2>2. ThreadAt("thread1", ip["thread1"], "USR1", "USR2")'
    BY <1>1, <1>2, <1>6, ThreadNext
  <2>3. QED
    BY <1>4, <1>6, <2>1, <2>2
<1>7. QED
  BY <1>3, <1>5, <1>6 DEF Task

LEMMA StepArranged ==
  ASSUME Places, Kernel, Arranged, NEW t \in Task, Step(t), ~Gone'
  PROVE  Arranged'
<1>1. program' = program
  BY StepRuns
<1>2. program = "SigchildWait" => SigchildWaitAt(ip["main"])'
  BY StepSigchildWait DEF Arranged
<1>3. program = "SigpendingProcess" => SigpendingProcessAt(ip["main"])'
  BY StepSigpendingProcess DEF Arranged
<1>4. program = "SigpendingThread" =>
         /\ SigpendingThreadAt(ip["main"])'
         /\ ThreadAt("thread1", ip["thread1"], "USR1", "USR2")'
         /\ ThreadAt("thread2", ip["thread2"], "USR2", "USR1")'
  BY StepSigpendingThread
<1>5. program = "Realtime" => RealtimeAt(ip["main"])'
  BY StepRealtime DEF Arranged
<1>6. QED
  BY <1>1, <1>2, <1>3, <1>4, <1>5 DEF Arranged

-----------------------------------------------------------------------------
(* The inductive invariant *)

LEMMA InitIInv == Init => IInv
<1> SUFFICES ASSUME Init PROVE IInv
  OBVIOUS
<1>1. /\ program \in Program /\ ip = [t \in Task |-> IF t = "main" THEN 1 ELSE 0]
      /\ mask = [t \in Task |-> {}] /\ own = [t \in Task |-> <<>>]
      /\ shared = <<>> /\ handled = {} /\ caught = <<>>
      /\ child = "none" /\ early = FALSE /\ outside = 0
      /\ "main" \in Task /\ "thread1" \in Task /\ "thread2" \in Task
  BY DEF Init, Task
<1>2. Queue(<<>>) /\ <<>> \in Pending
  BY DEF Queue, Pending
<1>3. Kernel
  <2>1. mask \in [Task -> SUBSET Signal] /\ own \in [Task -> Pending] /\ \A t \in Task : Queue(own[t])
    BY <1>1, <1>2
  <2>2. caught \in Seq(Catch) /\ handled \subseteq Signal /\ Queue(shared)
    BY <1>1, <1>2
  <2>3. outside \in 0..MaxOutside /\ early \in BOOLEAN /\ child \in {"none", "running", "zombie", "reaped"}
    <3>1. 0 \in 0..MaxOutside
      BY MaxOutsideIsNat
    <3>2. QED
      BY <1>1, <3>1
  <2>4. QED
    BY <2>1, <2>2, <2>3 DEF Kernel
<1>4. Places
  <2>1. \A t \in Task : ip[t] <= Len(Code(program, t)) + 1
    BY <1>1, CodeLengths
  <2>2. QED
    BY <1>1, <2>1 DEF Places
<1>5. ip["main"] = 1 /\ ip["thread1"] = 0 /\ ip["thread2"] = 0
  BY <1>1
<1>6. NonePending(shared) /\ NoneCaught
  BY <1>1 DEF NonePending, NoneCaught, Has, HasCaught
<1>7. Arranged
  BY <1>1, <1>5, <1>6 DEF Arranged, SigchildWaitAt, SigpendingProcessAt, SigpendingThreadAt,
                          ThreadAt, RealtimeAt
<1>8. QED
  BY <1>3, <1>4, <1>7 DEF IInv

LEMMA NextIInv == IInv /\ [Next]_vars => IInv'
<1> SUFFICES ASSUME IInv, [Next]_vars PROVE IInv'
  OBVIOUS
<1>1. Places /\ Kernel /\ (~Gone => Arranged)
  BY DEF IInv
<1>2. ASSUME NEW t \in Task, Deliver(t)
      PROVE  IInv'
  <2>1. Places' /\ Kernel' /\ ~Gone
    BY <1>1, <1>2, DeliverIs
  <2>2. ~Gone' => Arranged'
    BY <1>1, <1>2, <2>1, DeliverArranged
  <2>3. QED
    BY <2>1, <2>2 DEF IInv
<1>3. ASSUME NEW t \in Task, Step(t)
      PROVE  IInv'
  <2>1. Places' /\ Kernel' /\ ~Gone
    BY <1>1, <1>3, StepKeeps, StepRuns
  <2>2. ~Gone' => Arranged'
    BY <1>1, <1>3, <2>1, StepArranged
  <2>3. QED
    BY <2>1, <2>2 DEF IInv
<1>4. CASE SendFromOutside \/ ChildEnds
  <2>1. Places' /\ Kernel' /\ ~Gone
    BY <1>1, <1>4, FromOutsideKeeps
  <2>2. Arranged'
    BY <1>1, <1>4, <2>1, FromOutsideArranged
  <2>3. QED
    BY <2>1, <2>2 DEF IInv
<1>5. CASE UNCHANGED vars
  <2>1. UNCHANGED <<program, ip, mask, own, shared, handled, caught, child, early, outside>>
    BY <1>5 DEF vars
  <2>2. Places' /\ Kernel'
    BY <1>1, <2>1 DEF Places, Kernel, Queue
  <2>3. Gone' <=> Gone
    BY <2>1 DEF Gone
  <2>4. /\ SigchildWaitAt(ip["main"]) => SigchildWaitAt(ip["main"])'
        /\ SigpendingProcessAt(ip["main"]) => SigpendingProcessAt(ip["main"])'
    BY <2>1 DEF SigchildWaitAt, SigpendingProcessAt, Has, HasCaught
  <2>5. \A t, b, o : ThreadAt(t, ip[t], b, o) => ThreadAt(t, ip[t], b, o)'
    BY <2>1 DEF ThreadAt, Has, CaughtBy
  <2>6. RealtimeAt(ip["main"]) => RealtimeAt(ip["main"])'
    BY <2>1 DEF RealtimeAt, NonePending, OnePending, TwoPending, NoneCaught, OneCaught, TwoCaught,
                Has, HasCaught
  <2>7. Arranged => Arranged'
    BY <2>1, <2>4, <2>5, <2>6 DEF Arranged, SigpendingThreadAt
  <2>8. QED
    BY <1>1, <2>2, <2>3, <2>7 DEF IInv
<1>6. QED
  BY <1>2, <1>3, <1>4, <1>5 DEF Next

LEMMA Invariance == Spec => []IInv
BY InitIInv, NextIInv, PTL DEF Spec

-----------------------------------------------------------------------------
(* What it says of the programs *)

\* The kernel's state has its types, and a standard signal is pending once
\* for the process and once for each thread, however often it was sent.
THEOREM SignalTypes == Spec => []TypeOK
<1>1. IInv => TypeOK
  <2> SUFFICES ASSUME Places, Kernel PROVE TypeOK
    BY DEF IInv
  <2>1. \A t \in Task : ip[t] \in 0..(Len(Code(program, t)) + 1) \cup {99}
    <3>1. \A t \in Task : Len(Code(program, t)) \in Nat
      BY CodeLengths DEF Places
    <3>2. QED
      BY <3>1 DEF Places
  <2>2. \A i \in DOMAIN caught : caught[i] \in Task \X Signal \X {0, 42, 84}
    BY DEF Kernel, Catch
  <2>3. \A q \in {shared} \cup {own[t] : t \in Task} : Queue(q)
    BY DEF Kernel
  <2>4. \A q \in {shared} \cup {own[t] : t \in Task} :
          \A i, j \in DOMAIN q : q[i][1] = q[j][1] /\ i # j => q[i][1] = "RTMIN"
    BY <2>3 DEF Queue
  <2>5. shared \in Pending
    BY DEF Kernel, Queue
  <2>6. QED
    BY <2>1, <2>2, <2>4, <2>5 DEF TypeOK, Places, Kernel
<1>2. QED
  BY Invariance, <1>1, PTL

LEMMA NotInterrupted ==
  ASSUME Kernel, NEW t \in Task, ~Interrupted(t)
  PROVE  /\ \A s \in Signal \ {"RTMIN"} : s \notin mask[t] => ~Has(own[t], s) /\ ~Has(shared, s)
         /\ "RTMIN" \notin mask[t] => ~TwoPending(shared) /\ \A v : ~OnePending(shared, v)
<1>1. Takes(t, own[t]) = {} /\ Takes(t, shared) = {} /\ Queue(own[t]) /\ Queue(shared)
  BY DEF Interrupted, Kernel
<1>2. QED
  BY <1>1, TakesStandard, TakesRealtime

LEMMA ChecksProperty == IInv => ChecksAsExplained
<1> SUFFICES ASSUME IInv, NEW t \in Task, Running(t), ~Ended(t), ~Interrupted(t), Call(t)[1] = "check"
             PROVE  Call(t)[3] = \E q \in {own[t], shared} : \E i \in DOMAIN q : q[i][1] = Call(t)[2]
  BY DEF ChecksAsExplained
<1> DEFINE n == ip[t]
           isPending(s) == Has(own[t], s) \/ Has(shared, s)
<1>1. /\ Places /\ Kernel /\ Arranged /\ program \in Program
      /\ n \in 1..Len(Code(program, t)) /\ (program # "SigpendingThread" => t = "main")
  BY RunsAt DEF IInv, Running, Places
<1>2. SUFFICES Call(t)[3] = isPending(Call(t)[2])
  BY DEF Has
<1>3. CASE t = "main"
  <2>1. Call(t) = Main[program][n] /\ n \in 1..Len(Main[program])
    BY <1>1, <1>3, Codes DEF Call
  <2>2. program = "SigpendingProcess"
    <3>1. CASE program = "Waitpid"
      BY <2>1, <3>1, Programs, Lengths DEF Waitpid
    <3>2. CASE program = "SafeFork"
      BY <2>1, <3>2, Programs, Lengths DEF SafeFork
    <3>3. CASE program = "SigchildWait"
      BY <2>1, <3>3, Programs, Lengths DEF SigchildWait
    <3>4. CASE program = "SigpendingThread"
      BY <2>1, <3>4, Programs, Lengths DEF SigpendingThread
    <3>5. CASE program = "SignalMask"
      BY <2>1, <3>5, Programs, Lengths DEF SignalMask
    <3>6. CASE program = "Realtime"
      BY <2>1, <3>6, Programs, Lengths DEF Realtime
    <3>7. CASE program = "StandardSignal"
      BY <2>1, <3>7, Programs, Lengths DEF StandardSignal
    <3>8. QED
      BY <1>1, <3>1, <3>2, <3>3, <3>4, <3>5, <3>6, <3>7, Programs
  <2>3. Call(t) = SigpendingProcess[n] /\ n \in 1..6 /\ SigpendingProcessAt(n)
    BY <1>1, <1>3, <2>1, <2>2, Programs, Lengths DEF Arranged
  <2>4. n \in {4, 6} /\ Call(t)[2] = "USR1"
    BY <2>3 DEF SigpendingProcess
  <2>5. CASE n = 4
    <3>1. Call(t)[3] = TRUE
      BY <2>3, <2>5 DEF SigpendingProcess
    <3>2. Has(shared, "USR1")
      BY <2>3, <2>5 DEF SigpendingProcessAt
    <3>3. QED
      BY <2>4, <3>1, <3>2
  <2>6. CASE n = 6
    <3>1. Call(t)[3] = FALSE
      BY <2>3, <2>6 DEF SigpendingProcess
    <3>2. mask[t] = {}
      BY <1>3, <2>3, <2>6 DEF SigpendingProcessAt
    <3>3. ~Has(own[t], "USR1") /\ ~Has(shared, "USR1")
      BY <1>1, <3>2, NotInterrupted DEF Signal
    <3>4. QED
      BY <2>4, <3>1, <3>3
  <2>7. QED
    BY <2>4, <2>5, <2>6
<1>4. CASE t # "main"
  <2>1. PICK b \in {"USR1", "USR2"}, o \in {"USR1", "USR2"} :
          b # o /\ Code(program, t) = Thread(b, o) /\ ThreadAt(t, n, b, o)
    BY <1>1, <1>4, Codes DEF Arranged, Task
  <2>2. n \in 1..6 /\ Call(t) = Thread(b, o)[n]
    BY <1>1, <2>1, Lengths DEF Call
  <2>3. n \in 5..6
    BY <2>2 DEF Thread
  <2>4. CASE n = 5
    <3>1. Call(t)[2] = b /\ Call(t)[3] = TRUE
      BY <2>2, <2>4 DEF Thread
    <3>2. Has(own[t], b)
      BY <2>1, <2>4 DEF ThreadAt
    <3>3. QED
      BY <3>1, <3>2
  <2>5. CASE n = 6
    <3>1. Call(t)[2] = o /\ Call(t)[3] = FALSE
      BY <2>2, <2>5 DEF Thread
    <3>2. mask[t] = {b}
      BY <2>1, <2>5 DEF ThreadAt
    <3>3. ~Has(own[t], o) /\ ~Has(shared, o)
      BY <1>1, <2>1, <3>2, NotInterrupted DEF Signal
    <3>4. QED
      BY <3>1, <3>3
  <2>6. QED
    BY <2>3, <2>4, <2>5
<1>5. QED
  BY <1>3, <1>4

LEMMA CaughtProperty == IInv => CaughtAsExplained
<1> SUFFICES ASSUME IInv, Ended("main"), ~Interrupted("main")
             PROVE  /\ program = "SigchildWait" /\ child = "reaped" => HasCaught("CHLD")
                    /\ program = "SigpendingProcess" => HasCaught("USR1")
                    /\ program = "SigpendingThread" =>
                          /\ \E i \in DOMAIN caught : caught[i] = <<"thread1", "USR2", 0>>
                          /\ \E i \in DOMAIN caught : caught[i] = <<"thread2", "USR1", 0>>
                    /\ program = "Realtime" => TwoCaught
  BY DEF CaughtAsExplained, TwoCaught, OwnCatch
<1>1. ip["main"] = Len(Main[program]) + 1 /\ "main" \in Task /\ program \in Program
  BY Codes DEF Ended, IInv, Places, Task
<1>2. Places /\ Kernel /\ Arranged
  <2>1. Len(Main[program]) \in 2..6
    BY <1>1, CodeLengths, Codes
  <2>2. ip["main"] # 99
    <3>1. \A l \in 2..6 : l + 1 # 99
      OBVIOUS
    <3>2. QED
      BY <1>1, <2>1, <3>1
  <2>3. ~Gone
    BY <2>2 DEF Gone
  <2>4. QED
    BY <2>3 DEF IInv
<1>3. ASSUME program = "SigchildWait", child = "reaped"
      PROVE  HasCaught("CHLD")
  <2>1. ip["main"] = 6
    BY <1>1, <1>3, Programs, Lengths
  <2>2. "CHLD" \notin mask["main"] /\ (Has(shared, "CHLD") \/ HasCaught("CHLD"))
    BY <1>2, <1>3, <2>1 DEF Arranged, SigchildWaitAt
  <2>3. QED
    BY <1>1, <1>2, <2>2, NotInterrupted DEF Signal
<1>4. ASSUME program = "SigpendingProcess"
      PROVE  HasCaught("USR1")
  <2>1. ip["main"] = 7
    BY <1>1, <1>4, Programs, Lengths
  <2>2. "USR1" \notin mask["main"] /\ (Has(shared, "USR1") \/ HasCaught("USR1"))
    BY <1>2, <1>4, <2>1 DEF Arranged, SigpendingProcessAt
  <2>3. QED
    BY <1>1, <1>2, <2>2, NotInterrupted DEF Signal
<1>5. ASSUME program = "SigpendingThread"
      PROVE  CaughtBy("thread1", "USR2") /\ CaughtBy("thread2", "USR1")
  <2>1. ip["main"] = 5
    BY <1>1, <1>5, Programs, Lengths
  <2>2. ip["thread1"] = 7 /\ ip["thread2"] = 7
    BY <1>2, <1>5, <2>1 DEF Arranged, SigpendingThreadAt
  <2>3. QED
    BY <1>2, <1>5, <2>2 DEF Arranged, ThreadAt
<1>6. ASSUME program = "Realtime"
      PROVE  TwoCaught
  <2>1. ip["main"] = 6
    BY <1>1, <1>6, Programs, Lengths
  <2>2. RealtimeAt(6)
    BY <1>2, <1>6, <2>1 DEF Arranged
  <2>3. /\ "RTMIN" \notin mask["main"]
        /\ \/ TwoPending(shared)
           \/ OnePending(shared, 84)
           \/ TwoCaught
    BY <2>2 DEF RealtimeAt
  <2>4. QED
    BY <1>1, <1>2, <2>3, NotInterrupted
<1>7. QED
  BY <1>3, <1>4, <1>5, <1>6 DEF CaughtBy

\* Whatever signals others send, and however the threads interleave:
\* sigpending answers in each place what the readme explains, and when a
\* program has come to its end its handlers have run as its readme says.
THEOREM SignalsExplained == Spec => []SignalsAsExplained
<1>1. IInv => SignalsAsExplained
  BY ChecksProperty, CaughtProperty DEF SignalsAsExplained
<1>2. QED
  BY Invariance, <1>1, PTL
=============================================================================
