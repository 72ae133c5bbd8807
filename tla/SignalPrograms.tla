--------------------------- MODULE SignalPrograms ---------------------------
(***************************************************************************)
(* The exercises on processes and signals: LAB1/Ex3_Process and LAB2/Ex1,  *)
(* Ex4, Ex5, Ex6, Ex7.  Each is the list of the calls it makes; printing   *)
(* and sleeping are left out.  Under them is what the kernel keeps for a   *)
(* process: signals pending for it and for each of its threads, the masks  *)
(* of the threads, the handlers, and the child.  Anybody may send signals  *)
(* to the process and to its child at any time, SIGRTMIN as well.  That    *)
(* the kernel refuses a signal because too many are queued                 *)
(* (RLIMIT_SIGPENDING) is left out.                                        *)
(***************************************************************************)
EXTENDS Naturals, SequencesExt

CONSTANTS
    Outside,    \* the signals somebody else may send
    MaxOutside  \* bound: how many of them are sent

Task == {"main", "thread1", "thread2"}
Signal == {"INT", "USR1", "USR2", "CHLD", "RTMIN"}
Standard == Signal \ {"RTMIN"}

ASSUME OutsideAreSignals == Outside \subseteq Signal
ASSUME MaxOutsideIsNat == MaxOutside \in Nat

-----------------------------------------------------------------------------
(* The calls of each program's main, and of the threads of Ex5.  A check   *)
(* carries what the readme of its exercise expects it to print.            *)

Waitpid == <<<<"fork">>, <<"wait">>, <<"loop">>>>

SafeFork == <<<<"fork">>, <<"signal", {"CHLD"}>>, <<"loop">>>>

SigchildWait ==
    <<<<"signal", {"CHLD"}>>, <<"block", {"CHLD"}>>, <<"fork">>, <<"wait">>, <<"unblock", {"CHLD"}>>>>

SigpendingProcess ==
    <<<<"signal", {"USR1"}>>, <<"setmask", {"USR1"}>>, <<"kill", "USR1", 0>>,
      <<"check", "USR1", TRUE>>, <<"setmask", {}>>, <<"check", "USR1", FALSE>>>>

SigpendingThread ==
    <<<<"create", "thread1">>, <<"create", "thread2">>, <<"join", "thread1">>, <<"join", "thread2">>>>

SignalMask == <<<<"block", {"INT"}>>, <<"loop">>>>

Realtime ==
    <<<<"signal", {"RTMIN"}>>, <<"block", {"RTMIN"}>>, <<"kill", "RTMIN", 42>>,
      <<"kill", "RTMIN", 84>>, <<"unblock", {"RTMIN"}>>>>

StandardSignal == <<<<"signal", {"INT"}>>, <<"loop">>>>

Main == [Waitpid |-> Waitpid, SafeFork |-> SafeFork, SigchildWait |-> SigchildWait,
         SigpendingProcess |-> SigpendingProcess, SigpendingThread |-> SigpendingThread,
         SignalMask |-> SignalMask, Realtime |-> Realtime, StandardSignal |-> StandardSignal]
Program == DOMAIN Main

\* Wrong: the thread blocks the other thread's signal.
ThreadSwapped(blocked, other) ==
    <<<<"signal", {"USR1", "USR2"}>>, <<"setmask", {other}>>, <<"tkill", "USR1", 0>>,
      <<"tkill", "USR2", 0>>, <<"check", blocked, TRUE>>, <<"check", other, FALSE>>>>

Thread(blocked, other) ==
    <<<<"signal", {"USR1", "USR2"}>>, <<"setmask", {blocked}>>, <<"tkill", "USR1", 0>>,
      <<"tkill", "USR2", 0>>, <<"check", blocked, TRUE>>, <<"check", other, FALSE>>>>

Code(p, t) == CASE t = "main" -> Main[p]
                [] t = "thread1" -> Thread("USR1", "USR2")
                [] t = "thread2" -> Thread("USR2", "USR1")

VARIABLES
    program,    \* the program that runs
    ip,         \* per task: its next call, 0 before it is created
    mask,       \* per task: the signals it blocks
    own,        \* per task: what is pending for it alone, as <<signal, value>>
    shared,     \* what is pending for the process
    handled,    \* the signals that have a handler
    caught,     \* what the handlers were run for, as <<task, signal, value>>
    child,      \* "none", "running", "zombie", "reaped"
    early,      \* the child ended before SIGCHLD had a handler
    outside     \* how many signals came from somebody else, up to MaxOutside

\* The value of a signal is what the program gave to sigqueue, and 0 for
\* every other signal: it tells the program's own SIGRTMIN from the rest.
vars == <<program, ip, mask, own, shared, handled, caught, child, early, outside>>

Pending == Seq(Signal \X {0, 42, 84})
Ended(t) == ip[t] = Len(Code(program, t)) + 1
Gone == ip["main"] = 99

TypeOK ==
    /\ program \in Program
    /\ \A t \in Task : ip[t] \in 0..(Len(Code(program, t)) + 1) \cup {99}
    /\ mask \in [Task -> SUBSET Signal]
    /\ own \in [Task -> Pending] /\ shared \in Pending
    /\ handled \subseteq Signal
    /\ \A i \in DOMAIN caught : caught[i] \in Task \X Signal \X {0, 42, 84}
    /\ child \in {"none", "running", "zombie", "reaped"}
    /\ early \in BOOLEAN
    /\ outside \in 0..MaxOutside
    \* a standard signal is pending once, however often it was sent
    /\ \A q \in {shared} \cup {own[t] : t \in Task} :
          \A i, j \in DOMAIN q : q[i][1] = q[j][1] /\ i # j => q[i][1] = "RTMIN"

Init ==
    /\ program \in Program
    /\ ip = [t \in Task |-> IF t = "main" THEN 1 ELSE 0]
    /\ mask = [t \in Task |-> {}] /\ own = [t \in Task |-> <<>>]
    /\ shared = <<>> /\ handled = {} /\ caught = <<>>
    /\ child = "none" /\ early = FALSE /\ outside = 0

-----------------------------------------------------------------------------
(* The kernel *)

\* Wrong: a standard signal is queued as often as it is sent.
EnqueueAll(q, s) == Append(q, s)
Enqueue(q, s) ==
    IF s[1] \in Standard /\ \E i \in DOMAIN q : q[i][1] = s[1] THEN q ELSE Append(q, s)

\* SIGCHLD is discarded when it comes without a handler and unblocked.
ToProcess(s) ==
    IF s[1] = "CHLD" /\ "CHLD" \notin handled \cup mask["main"]
    THEN shared ELSE Enqueue(shared, s)

\* The positions in a queue of what a task may take next
Takes(t, q) == {i \in DOMAIN q : /\ q[i][1] \notin mask[t]
                                 /\ \A j \in 1..(i - 1) : q[j][1] # q[i][1]}
Interrupted(t) == Takes(t, own[t]) \cup Takes(t, shared) # {}
Running(t) == ip[t] > 0 /\ ~Gone

\* The handler of SafeFork waits for a child, and for as long as it takes;
\* the others only print.  A signal without a handler ends the process,
\* SIGCHLD excepted.
Wait == IF child = "zombie" THEN child' = "reaped" ELSE UNCHANGED child

\* Wrong: func does not wait.
FuncOnlyPrints(s) == UNCHANGED child
Func(s) ==
    IF program = "SafeFork" /\ s[1] = "CHLD" THEN child # "running" /\ Wait ELSE UNCHANGED child

Handle(t, s) ==
    \/ /\ s[1] \in handled /\ Func(s)
       /\ caught' = Append(caught, <<t, s[1], s[2]>>)
       /\ UNCHANGED ip
    \/ /\ s[1] \notin handled
       /\ ip' = IF s[1] = "CHLD" THEN ip ELSE [ip EXCEPT !["main"] = 99]
       /\ UNCHANGED <<caught, child>>

Deliver(t) ==
    /\ Running(t)
    /\ \/ \E i \in Takes(t, own[t]) :
             /\ Handle(t, own[t][i])
             /\ own' = [own EXCEPT ![t] = RemoveAt(@, i)]
             /\ UNCHANGED shared
       \/ \E i \in Takes(t, shared) :
             /\ Handle(t, shared[i])
             /\ shared' = RemoveAt(shared, i)
             /\ UNCHANGED own
    /\ UNCHANGED <<program, mask, handled, early, outside>>

SendFromOutside ==
    /\ ~Gone /\ outside < MaxOutside
    /\ \E s \in Outside : shared' = ToProcess(<<s, 0>>)
    /\ outside' = outside + 1
    /\ UNCHANGED <<program, ip, mask, own, handled, caught, child, early>>

\* The child of SigchildWait ends by itself, the others when they are killed.
ChildEnds ==
    /\ ~Gone /\ child = "running"
    /\ child' = "zombie" /\ early' = ("CHLD" \notin handled)
    /\ shared' = ToProcess(<<"CHLD", 0>>)
    /\ UNCHANGED <<program, ip, mask, own, handled, caught, outside>>

-----------------------------------------------------------------------------
(* The calls of the programs *)

Call(t) == Code(program, t)[ip[t]]
Next1(t) == [ip EXCEPT ![t] = @ + 1]

SetHandlerOrMask(t) ==
    /\ Call(t)[1] \in {"signal", "setmask", "block", "unblock"}
    /\ handled' = IF Call(t)[1] = "signal" THEN handled \cup Call(t)[2] ELSE handled
    /\ mask' = [mask EXCEPT ![t] = CASE Call(t)[1] = "signal" -> @
                                     [] Call(t)[1] = "setmask" -> Call(t)[2]
                                     [] Call(t)[1] = "block" -> @ \cup Call(t)[2]
                                     [] Call(t)[1] = "unblock" -> @ \ Call(t)[2]]
    /\ ip' = Next1(t)
    /\ UNCHANGED <<own, shared, child>>

\* The signal and value of a kill.
Sent(t) == <<Call(t)[2], Call(t)[3]>>

Send(t) ==
    /\ \/ /\ Call(t)[1] = "kill"
          /\ shared' = ToProcess(Sent(t)) /\ UNCHANGED own
       \/ /\ Call(t)[1] = "tkill"
          /\ own' = [own EXCEPT ![t] = Enqueue(@, Sent(t))] /\ UNCHANGED shared
    /\ ip' = Next1(t)
    /\ UNCHANGED <<mask, handled, child>>

Check(t) ==
    /\ Call(t)[1] = "check"
    /\ ip' = Next1(t)
    /\ UNCHANGED <<mask, own, shared, handled, child>>

\* Of a fork that fails SigchildWait takes no notice; its wait fails at once.
Fork(t) ==
    /\ Call(t)[1] = "fork"
    /\ \/ child' = "running" /\ ip' = Next1(t)
       \/ /\ UNCHANGED child
          /\ ip' = IF program = "SigchildWait" THEN Next1(t)
                   ELSE [ip EXCEPT ![t] = Len(Code(program, t)) + 1]
    /\ UNCHANGED <<mask, own, shared, handled>>

WaitForChild(t) ==
    /\ Call(t)[1] = "wait" /\ child # "running"
    /\ Wait /\ ip' = Next1(t)
    /\ UNCHANGED <<mask, own, shared, handled>>

\* A thread starts with the mask of its creator; when it cannot be created
\* main returns.
Create(t) ==
    /\ Call(t)[1] = "create"
    /\ \/ /\ ip' = [Next1(t) EXCEPT ![Call(t)[2]] = 1]
          /\ mask' = [mask EXCEPT ![Call(t)[2]] = mask[t]]
       \/ ip' = [ip EXCEPT !["main"] = 99] /\ UNCHANGED mask
    /\ UNCHANGED <<own, shared, handled, child>>

Join(t) ==
    /\ Call(t)[1] = "join" /\ Ended(Call(t)[2])
    /\ ip' = Next1(t)
    /\ UNCHANGED <<mask, own, shared, handled, child>>

\* On its way back from the kernel a task first takes its signals.
Step(t) ==
    /\ Running(t) /\ ~Ended(t) /\ ~Interrupted(t)
    /\ \/ SetHandlerOrMask(t) \/ Send(t) \/ Check(t) \/ Fork(t) \/ WaitForChild(t)
       \/ Create(t) \/ Join(t)
    /\ UNCHANGED <<program, caught, early, outside>>

Next == \/ \E t \in Task : Deliver(t) \/ Step(t)
        \/ SendFromOutside
        \/ ChildEnds

Fairness == /\ \A t \in Task : WF_vars(Deliver(t)) /\ WF_vars(Step(t))
            /\ WF_vars(program = "SigchildWait" /\ ChildEnds)

Spec == Init /\ [][Next]_vars /\ Fairness

-----------------------------------------------------------------------------
(* sigpending prints in each place what the readme explains, also when     *)
(* others send the same signals at the same time (Ex4, Ex5).               *)
ChecksAsExplained ==
    \A t \in Task : (Running(t) /\ ~Ended(t) /\ ~Interrupted(t) /\ Call(t)[1] = "check")
        => Call(t)[3] = \E q \in {own[t], shared} : \E i \in DOMAIN q : q[i][1] = Call(t)[2]

HasCaught(s) == \E i \in DOMAIN caught : caught[i][2] = s

(* When a program has come to its end its handlers have run as its readme  *)
(* says: SIGCHLD held back is caught after wait, a signal that a thread    *)
(* does not block is caught by that thread, and of the real-time signals   *)
(* the program sent itself each is caught once, in the order sent, however *)
(* many others come between them (Ex1, Ex4, Ex5, Ex7).                     *)
CaughtAsExplained ==
    Ended("main") /\ ~Interrupted("main") =>
        /\ program = "SigchildWait" /\ child = "reaped" => HasCaught("CHLD")
        /\ program = "SigpendingProcess" => HasCaught("USR1")
        /\ program = "SigpendingThread" =>
              /\ \E i \in DOMAIN caught : caught[i] = <<"thread1", "USR2", 0>>
              /\ \E i \in DOMAIN caught : caught[i] = <<"thread2", "USR1", 0>>
        /\ program = "Realtime" =>
              \E i, j \in DOMAIN caught :
                 /\ i < j /\ caught[i] = <<"main", "RTMIN", 42>> /\ caught[j] = <<"main", "RTMIN", 84>>
                 /\ \A k \in DOMAIN caught :
                       caught[k][2] = "RTMIN" /\ caught[k][3] # 0 => k \in {i, j}

(* Whatever others send at whatever time, and however the threads          *)
(* interleave, each program shows what its readme explains                 *)
(* (Ex1/main.c:30-32, Ex4/main.c:41,45, Ex5/main.c:46-51,67-72,            *)
(* Ex7/realtime.c:30-42).                                                  *)
SignalsAsExplained == ChecksAsExplained /\ CaughtAsExplained

(* A child that ends does not stay a zombie, except that of SafeFork when  *)
(* it ends before signal(SIGCHLD) is called (00_Waitpid/main.c:32,         *)
(* 01_Safe_fork/main.c:7-11,31, Ex1/main.c:30).                            *)
ChildIsReaped ==
    (child = "zombie" /\ (program = "SafeFork" => ~early)) ~> (child = "reaped" \/ Gone)
=============================================================================
