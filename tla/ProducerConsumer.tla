-------------------------- MODULE ProducerConsumer --------------------------
(***************************************************************************)
(* The restaurant of LAB_Producer_Consumer/main.c: two cooks put dishes on *)
(* two trays, two guests each eat from one tray, a third eats from either. *)
(* Each is a process; the trays and three semaphores per tray (mutex,      *)
(* empty, full) are shared memory.  The parent ends the others when a      *)
(* SIGINT has reached it.                                                  *)
(***************************************************************************)
EXTENDS Naturals, Sequences, FiniteSets

CONSTANTS
    BufferSize,  \* slots of a tray
    Menu,        \* the dishes of each tray
    NoDish,      \* the 0 of an empty slot
    Forked,      \* the children whose fork succeeded
    SigintComes  \* a SIGINT may be sent to the process group

Tray      == {"Vegan", "NON_Vegan"}
Producer  == {"producer_Vegan", "producer_NON_Vegan"}
Consumer  == {"consumer_Vegan", "consumer_NON_Vegan", "consumer_Both"}
Child     == Producer \cup Consumer

ASSUME ProducerConsumerAssumption ==
    /\ BufferSize \in Nat \ {0}
    /\ \A t \in Tray : NoDish \notin Menu[t]
    /\ Forked \subseteq Child
    /\ SigintComes \in BOOLEAN

VARIABLES
    buffer,       \* buffer_Vegan, buffer__NON_Vegan
    mutex, empty, full,
    pc,           \* the next step of each child
    tray,         \* the tray each child is at (it changes for consumer_Both)
    slot,         \* i, the slot a child has found in its scan
    sigint,       \* the SIGINT has been sent
    interrupted,  \* the processes whose handler has run
    term,         \* the children sent a SIGTERM
    dead,         \* the children that have ended
    parent,       \* where the parent is
    killed        \* how many of its kills it has done

semVars    == <<mutex, empty, full>>
signalVars == <<sigint, interrupted, term, dead, parent, killed>>
vars == <<buffer, mutex, empty, full, pc, tray, slot, signalVars>>

Slot == 1..BufferSize

Home(p) == IF p \in {"producer_NON_Vegan", "consumer_NON_Vegan"} THEN "NON_Vegan" ELSE "Vegan"

Occupied(t) == {i \in Slot : buffer[t][i] # NoDish}
Free(t)     == Slot \ Occupied(t)

\* What the for loops of write_to_buffer and read_from_buffer stop at: the
\* lowest of the slots looked for, 0 when there is none.
First(S) == IF S = {} THEN 0 ELSE CHOOSE i \in S : \A j \in S : i <= j

Init ==
    /\ buffer = [t \in Tray |-> [i \in Slot |-> NoDish]]
    /\ mutex = [t \in Tray |-> 1]
    /\ empty = [t \in Tray |-> BufferSize]
    /\ full = [t \in Tray |-> 0]
    /\ pc = [p \in Child |-> "top"]
    /\ tray = [p \in Child |-> Home(p)]
    /\ slot = [p \in Child |-> 0]
    /\ sigint = FALSE
    /\ interrupted = {}
    /\ term = {}
    /\ dead = Child \ Forked
    /\ parent = "loop"
    /\ killed = 0

-----------------------------------------------------------------------------
(* The children. *)

Goto(p, from, to) == pc[p] = from /\ pc' = [pc EXCEPT ![p] = to]

\* After its sleep a child looks at interrupted: it exits, or begins a round.
Exit(p) ==
    /\ pc[p] = "top"
    /\ p \in interrupted
    /\ dead' = dead \cup {p}
    /\ UNCHANGED <<buffer, semVars, pc, tray, slot, sigint, interrupted, term, parent, killed>>

Round(p) ==
    /\ p \notin interrupted
    /\ Goto(p, "top", IF p \in Producer THEN "empty" ELSE "full")
    /\ tray' = [tray EXCEPT ![p] = Home(p)]
    /\ UNCHANGED <<buffer, semVars, slot, signalVars>>

\* Wrong: the cook does not wait for an empty slot.
WaitEmptyNever(p) ==
    /\ p \in Producer
    /\ Goto(p, "empty", "mutex")
    /\ empty' = [empty EXCEPT ![tray[p]] = IF @ = 0 THEN 0 ELSE @ - 1]
    /\ UNCHANGED <<buffer, mutex, full, tray, slot, signalVars>>

WaitEmpty(p) ==
    /\ p \in Producer
    /\ Goto(p, "empty", "mutex")
    /\ empty[tray[p]] > 0
    /\ empty' = [empty EXCEPT ![tray[p]] = @ - 1]
    /\ UNCHANGED <<buffer, mutex, full, tray, slot, signalVars>>

\* Wrong: the guest does not wait for a dish.
WaitFullNever(p) ==
    /\ p \in Consumer
    /\ Goto(p, "full", "mutex")
    /\ full' = [full EXCEPT ![tray[p]] = @ - 1]
    /\ UNCHANGED <<buffer, mutex, empty, tray, slot, signalVars>>

WaitFull(p) ==
    /\ p \in Consumer
    /\ Goto(p, "full", "mutex")
    /\ full[tray[p]] > 0
    /\ full' = [full EXCEPT ![tray[p]] = @ - 1]
    /\ UNCHANGED <<buffer, mutex, empty, tray, slot, signalVars>>

\* sem_timedwait of consumer_Both gives up on the Vegan tray and turns to the
\* other, and gives up on that one and sleeps.
TimedOut(p) ==
    /\ p = "consumer_Both"
    /\ pc[p] = "full"
    /\ full[tray[p]] = 0
    /\ IF tray[p] = "Vegan"
       THEN tray' = [tray EXCEPT ![p] = "NON_Vegan"] /\ UNCHANGED pc
       ELSE pc' = [pc EXCEPT ![p] = "top"] /\ UNCHANGED tray
    /\ UNCHANGED <<buffer, semVars, slot, signalVars>>

\* Wrong: nobody waits for the mutex.
WaitMutexNever(p) ==
    /\ Goto(p, "mutex", "scan")
    /\ mutex' = [mutex EXCEPT ![tray[p]] = @ - 1]
    /\ UNCHANGED <<buffer, empty, full, tray, slot, signalVars>>

WaitMutex(p) ==
    /\ Goto(p, "mutex", "scan")
    /\ mutex[tray[p]] > 0
    /\ mutex' = [mutex EXCEPT ![tray[p]] = @ - 1]
    /\ UNCHANGED <<buffer, empty, full, tray, slot, signalVars>>

\* The loop over the slots ...
Scan(p) ==
    /\ Goto(p, "scan", "access")
    /\ slot' = [slot EXCEPT ![p] =
                  First(IF p \in Producer THEN Free(tray[p]) ELSE Occupied(tray[p]))]
    /\ UNCHANGED <<buffer, semVars, tray, signalVars>>

Put(p, dish) ==
    buffer' = IF slot[p] = 0 THEN buffer ELSE [buffer EXCEPT ![tray[p]][slot[p]] = dish]

\* ... and the access to the slot it stopped at; a dish for which there is no
\* slot is dropped, a guest for whom there is no dish gets 0.
Store(p) ==
    /\ p \in Producer
    /\ Goto(p, "access", "post_full")
    /\ \E dish \in Menu[tray[p]] : Put(p, dish)
    /\ slot' = [slot EXCEPT ![p] = 0]
    /\ UNCHANGED <<semVars, tray, signalVars>>

\* Wrong: the guest leaves the dish in its slot.
TakeNothing(p) ==
    /\ p \in Consumer
    /\ Goto(p, "access", "post_mutex")
    /\ slot' = [slot EXCEPT ![p] = 0]
    /\ UNCHANGED <<buffer, semVars, tray, signalVars>>

Take(p) ==
    /\ p \in Consumer
    /\ Goto(p, "access", "post_mutex")
    /\ Put(p, NoDish)
    /\ slot' = [slot EXCEPT ![p] = 0]
    /\ UNCHANGED <<semVars, tray, signalVars>>

PostFull(p) ==
    /\ p \in Producer
    /\ Goto(p, "post_full", "post_mutex")
    /\ full' = [full EXCEPT ![tray[p]] = @ + 1]
    /\ UNCHANGED <<buffer, mutex, empty, tray, slot, signalVars>>

PostMutex(p) ==
    /\ Goto(p, "post_mutex", IF p \in Producer THEN "top" ELSE "post_empty")
    /\ mutex' = [mutex EXCEPT ![tray[p]] = @ + 1]
    /\ UNCHANGED <<buffer, empty, full, tray, slot, signalVars>>

\* Wrong: the slot is given to the guest's home tray, also when it ate from the other.
PostEmptyHome(p) ==
    /\ p \in Consumer
    /\ Goto(p, "post_empty", "top")
    /\ empty' = [empty EXCEPT ![Home(p)] = @ + 1]
    /\ UNCHANGED <<buffer, mutex, full, tray, slot, signalVars>>

\* Wrong: the slot is given back to nobody.
PostEmptyForgotten(p) ==
    /\ p \in Consumer
    /\ Goto(p, "post_empty", "top")
    /\ UNCHANGED <<buffer, semVars, tray, slot, signalVars>>

PostEmpty(p) ==
    /\ p \in Consumer
    /\ Goto(p, "post_empty", "top")
    /\ empty' = [empty EXCEPT ![tray[p]] = @ + 1]
    /\ UNCHANGED <<buffer, mutex, full, tray, slot, signalVars>>

ChildStep(p) ==
    /\ p \notin dead
    /\ \/ Exit(p) \/ Round(p) \/ WaitEmpty(p) \/ WaitFull(p) \/ TimedOut(p)
       \/ WaitMutex(p) \/ Scan(p) \/ Store(p) \/ Take(p) \/ PostFull(p)
       \/ PostMutex(p) \/ PostEmpty(p)

\* SIGTERM has its default effect, wherever the child is.
Die(p) ==
    /\ p \in term \ dead
    /\ dead' = dead \cup {p}
    /\ UNCHANGED <<buffer, semVars, pc, tray, slot, sigint, interrupted, term, parent, killed>>

-----------------------------------------------------------------------------
(* Signals and the parent. *)

Sigint ==
    /\ SigintComes
    /\ ~sigint
    /\ sigint' = TRUE
    /\ UNCHANGED <<buffer, semVars, pc, tray, slot, interrupted, term, dead, parent, killed>>

\* handle_sigint runs in each process of the group at a time of its own.
HandleSigint(q) ==
    /\ sigint
    /\ q \notin interrupted \cup dead
    /\ interrupted' = interrupted \cup {q}
    /\ UNCHANGED <<buffer, semVars, pc, tray, slot, sigint, term, dead, parent, killed>>

\* The loop of the parent, which only sleeps and prints, ends.
EndLoop ==
    /\ parent = "loop"
    /\ "parent" \in interrupted
    /\ parent' = "kill"
    /\ UNCHANGED <<buffer, semVars, pc, tray, slot, sigint, interrupted, term, dead, killed>>

KillOrder == <<"producer_Vegan", "producer_NON_Vegan", "consumer_Vegan",
               "consumer_NON_Vegan", "consumer_Both">>

\* Wrong: only the cooks are sent the signal, the guests are left to themselves.
KillCooks ==
    /\ parent = "kill"
    /\ killed < Len(KillOrder)
    /\ term' = term \cup ({KillOrder[killed + 1]} \cap Producer \cap Forked)
    /\ killed' = killed + 1
    /\ UNCHANGED <<buffer, semVars, pc, tray, slot, sigint, interrupted, dead, parent>>

\* The pid of a fork that failed is -1, and kill(-1, ...) reaches every process.
Kill ==
    /\ parent = "kill"
    /\ killed < Len(KillOrder)
    /\ term' = term \cup (IF KillOrder[killed + 1] \in Forked
                          THEN {KillOrder[killed + 1]} ELSE Forked)
    /\ killed' = killed + 1
    /\ UNCHANGED <<buffer, semVars, pc, tray, slot, sigint, interrupted, dead, parent>>

\* wait_for_children(5), cleanup, return.
WaitForChildren ==
    /\ parent = "kill"
    /\ killed = Len(KillOrder)
    /\ dead = Child
    /\ parent' = "done"
    /\ UNCHANGED <<buffer, semVars, pc, tray, slot, sigint, interrupted, term, dead, killed>>

Parent == EndLoop \/ Kill \/ WaitForChildren

Next ==
    \/ \E p \in Child : ChildStep(p) \/ Die(p)
    \/ Sigint
    \/ \E q \in Child \cup {"parent"} : HandleSigint(q)
    \/ Parent

Spec == Init /\ [][Next]_vars

\* Every process keeps running.  A wait for a semaphore is fair in the strong
\* sense: between two waits of the same child lie seconds of sleep, between the
\* wait and the post of mutex a few instructions.
Fairness ==
    /\ WF_vars(Parent)
    /\ \A q \in Child \cup {"parent"} : WF_vars(HandleSigint(q))
    /\ \A p \in Child :
         /\ WF_vars(ChildStep(p))
         /\ WF_vars(Die(p))
         /\ SF_vars(p \notin dead /\ (WaitEmpty(p) \/ WaitFull(p) \/ WaitMutex(p)))

FairSpec == Spec /\ Fairness
-----------------------------------------------------------------------------
(* Properties. *)

Place == {"top", "empty", "full", "mutex", "scan", "access", "post_full",
          "post_mutex", "post_empty"}

\* Every variable has its type; only dishes of its own menu are on a tray.
TypeOK ==
    /\ buffer \in [Tray -> [Slot -> (UNION {Menu[t] : t \in Tray}) \cup {NoDish}]]
    /\ \A t \in Tray, i \in Slot : buffer[t][i] \in Menu[t] \cup {NoDish}
    /\ mutex \in [Tray -> Nat]
    /\ empty \in [Tray -> Nat]
    /\ full \in [Tray -> Nat]
    /\ pc \in [Child -> Place]
    /\ tray \in [Child -> Tray]
    /\ slot \in [Child -> 0..BufferSize]
    /\ sigint \in BOOLEAN
    /\ interrupted \subseteq Child \cup {"parent"}
    /\ term \subseteq Child
    /\ dead \subseteq Child
    /\ parent \in {"loop", "kill", "done"}
    /\ killed \in 0..Len(KillOrder)

\* The children of S that are at tray t with their next step in L.
At(S, t, L) == {p \in S : tray[p] = t /\ pc[p] \in L}

InSection(t) == At(Child, t, {"scan", "access", "post_full", "post_mutex"})

\* The mutex of a tray is a mutex: at most one child is inside the critical
\* section, and the children inside, those killed there included, and the value
\* of the mutex always add up to one.
MutualExclusion ==
    \A t \in Tray :
        /\ Cardinality(InSection(t)) <= 1
        /\ mutex[t] + Cardinality(InSection(t)) = 1

\* Every slot of a tray is accounted for: counted by empty, counted by full, or
\* in the hands of one child that is between its wait and its post.
SlotsAccounted ==
    \A t \in Tray :
        empty[t] + full[t]
          + Cardinality(At(Producer, t, {"mutex", "scan", "access", "post_full"}))
          + Cardinality(At(Consumer, t, {"mutex", "scan", "access", "post_mutex", "post_empty"}))
        = BufferSize

\* full never promises a dish that is not on the tray: each dish there is
\* counted by full, about to be, or promised to one guest.
DishesAccounted ==
    \A t \in Tray :
        Cardinality(Occupied(t))
        = full[t] + Cardinality(At(Producer, t, {"post_full"}))
                  + Cardinality(At(Consumer, t, {"mutex", "scan", "access"}))

\* A cook always finds an empty slot and a guest always finds a dish, and what
\* the scan found is still so when the slot is accessed: no dish is dropped or
\* overwritten, none is taken twice, nobody gets the 0 of an empty tray.
ScanStaysTrue ==
    \A p \in Child :
        pc[p] = "access" =>
            slot[p] \in IF p \in Producer THEN Free(tray[p]) ELSE Occupied(tray[p])

\* A SIGINT that has reached the parent ends all the processes, also those that
\* wait for a semaphore nobody will post.
InterruptEndsAll == "parent" \in interrupted ~> parent = "done"

\* Without a SIGINT a cook who waits for an empty slot or for the mutex gets to
\* put a dish on the tray: the semaphores cannot deadlock.
CooksGoOn ==
    \A p \in Producer : pc[p] = "empty" ~> (pc[p] = "access" \/ sigint)
=============================================================================
