---------------------------- MODULE ReadingList ----------------------------
(***************************************************************************)
(* What the functions of processing_linked_list.c do for their callers:    *)
(* the list of readings as a sequence, and each call as one step on it.    *)
(* SensorGateway uses the same operators; NodeList is how the functions do *)
(* it, on linked nodes.                                                    *)
(***************************************************************************)
EXTENDS SensorList

CONSTANTS Id, Time

VARIABLES
    list,  \* the readings, from the head of the list
    out    \* what the last call has put out: to the log, to the data file

vars == <<list, out>>

Init ==
    /\ list = <<>>
    /\ out = <<>>

SaveReading(id, time) ==
    /\ list' = Save(list, id, time)
    /\ out' = <<>>

SortReadings ==
    /\ list' \in Sorted(list)
    /\ out' = <<>>

\* The average of the group that starts at p.
AverageGroup(p) ==
    /\ Ordered(list)
    /\ 1 < p => list[p - 1].id # list[p].id
    /\ HasWindow(list, p)
    /\ out' = WindowAt(list, p)
    /\ list' = Mark(list, p)

CopyMarked ==
    /\ out' = Marked(list)
    /\ UNCHANGED list

\* The data file could not be opened; the caller is not told.
CopyFails ==
    /\ out' = <<>>
    /\ UNCHANGED list

RemoveMarked ==
    /\ list' = Unmarked(list)
    /\ out' = <<>>

Free ==
    /\ list' = <<>>
    /\ out' = <<>>

Next ==
    \/ \E id \in Id, time \in Time : SaveReading(id, time)
    \/ SortReadings
    \/ \E p \in 1..Len(list) : AverageGroup(p)
    \/ CopyMarked
    \/ CopyFails
    \/ RemoveMarked
    \/ Free

Spec == Init /\ [][Next]_vars
=============================================================================
