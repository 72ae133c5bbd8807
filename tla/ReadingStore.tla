---------------------------- MODULE ReadingStore ----------------------------
(***************************************************************************)
(* What the gateway does with the readings it has received, whatever its   *)
(* threads do when: it keeps the readings of each sensor; while there are  *)
(* Window of them the oldest may become due; what is due goes to the data  *)
(* file, each reading once, and nothing else is ever given up, until the   *)
(* gateway ends and what it has kept goes with it.                         *)
(***************************************************************************)
EXTENDS Naturals, Sequences, FiniteSets, Functions

CONSTANT Window

VARIABLES
    kept,    \* the readings in memory, as <<id, time>>
    due,     \* those of them that are marked
    stored,  \* the data file
    up       \* the gateway runs

vars == <<kept, due, stored, up>>

Init == kept = {} /\ due = {} /\ stored = <<>> /\ up = TRUE

\* The readings that came in are new ones.
Keep ==
    /\ up
    /\ kept \subseteq kept'
    /\ \A r \in kept' \ kept : r \notin Range(stored)
    /\ UNCHANGED <<due, stored, up>>

OfSensor(id) == {r \in kept : r[1] = id}

\* The oldest of a full window becomes due.
MarkDue(r) ==
    /\ up
    /\ Cardinality(OfSensor(r[1])) >= Window
    /\ \A s \in OfSensor(r[1]) : r[2] <= s[2]
    /\ due' = due \cup {r}
    /\ UNCHANGED <<kept, stored, up>>

\* The readings in R go to the data file, in any order.
Put(R) ==
    /\ kept' = kept \ R
    /\ due' = due \ R
    /\ Len(stored') = Len(stored) + Cardinality(R)
    /\ SubSeq(stored', 1, Len(stored)) = stored
    /\ {stored'[i] : i \in (Len(stored) + 1)..Len(stored')} = R

\* All that is due goes to the data file.
StoreDue == up /\ Put(due) /\ UNCHANGED up

\* The gateway ends, perhaps in the midst of that.
End ==
    /\ up /\ ~up'
    /\ \E R \in SUBSET due : Put(R)

Next == Keep \/ StoreDue \/ End \/ \E r \in kept : MarkDue(r)

Spec == Init /\ [][Next]_vars
=============================================================================
