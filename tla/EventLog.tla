------------------------------ MODULE EventLog ------------------------------
(***************************************************************************)
(* What the event log of the gateway does, whatever carries the lines from *)
(* the threads to log.txt: a line enters once or never, in the order in    *)
(* which its thread produces lines; lines arrive in the order in which     *)
(* they entered; log.txt only grows, at its end.  Lines on their way may   *)
(* be lost, the oldest of them or the newest.                              *)
(***************************************************************************)
EXTENDS Naturals, Sequences

CONSTANT Writer

VARIABLES
    begun,    \* how many lines each writer has begun
    pending,  \* the writers whose last line has not entered yet
    way,      \* the lines on their way, oldest first
    file      \* log.txt

vars == <<begun, pending, way, file>>

Init ==
    /\ begun = [w \in Writer |-> 0]
    /\ pending = {}
    /\ way = <<>>
    /\ file = <<>>

Begin(w) ==
    /\ w \notin pending
    /\ begun' = [begun EXCEPT ![w] = @ + 1]
    /\ pending' = pending \cup {w}
    /\ UNCHANGED <<way, file>>

Enter(w) ==
    /\ w \in pending
    /\ pending' = pending \ {w}
    /\ Len(way') = Len(way) + 1
    /\ LET line == way'[Len(way) + 1]
       IN  way' = Append(way, line) /\ line.src = w /\ line.k = begun[w]
    /\ UNCHANGED <<begun, file>>

\* The oldest lines on their way, n of them, come to its end.
Arrive(n) ==
    /\ file' = file \o SubSeq(way, 1, n)
    /\ way' = SubSeq(way, n + 1, Len(way))
    /\ UNCHANGED <<begun, pending>>

\* Writers give up, and of the lines on their way those from m to n are left.
Lose(m, n) ==
    /\ pending' \subseteq pending
    /\ way' = SubSeq(way, m, n)
    /\ UNCHANGED <<begun, file>>

Next ==
    \/ \E w \in Writer : Begin(w) \/ Enter(w)
    \/ \E n \in 0..Len(way) : Arrive(n)
    \/ \E m \in 1..(Len(way) + 1), n \in 0..Len(way) : Lose(m, n)

Spec == Init /\ [][Next]_vars
=============================================================================
