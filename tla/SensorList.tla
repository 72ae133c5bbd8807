----------------------------- MODULE SensorList -----------------------------
(***************************************************************************)
(* The linked list of readings shared by the gateway's three threads, as a *)
(* sequence from head to tail, and what the functions of                   *)
(* processing_linked_list.c do to it.  A reading keeps the fields the      *)
(* functions decide by: ID, TIME and DELETE; TEMP only travels along.      *)
(***************************************************************************)
EXTENDS Naturals, Sequences, FiniteSets, Functions

CONSTANT Window    \* how many readings an average is taken of (5)

ASSUME WindowAssumption == Window \in Nat \ {0}

Reading == [id : Nat, time : Nat, del : BOOLEAN]

\* A new node goes in front of all others.
Save(list, id, time) == <<[id |-> id, time |-> time, del |-> FALSE]>> \o list

\* Wrong: TIME is not compared.
InOrderOfId(r, s) == r.id <= s.id

\* By ID, and by TIME among the readings of one ID.
InOrder(r, s) == r.id < s.id \/ (r.id = s.id /\ r.time <= s.time)

Ordered(list) ==
    \A i, j \in DOMAIN list : i < j => InOrder(list[i], list[j])

\* What sorting a list may return: a reordering of its nodes that is in order.
\* Nodes that agree on ID and TIME may come in any order.
Sorted(list) ==
    {s \in {[i \in DOMAIN list |-> list[p[i]]] : p \in Bijection(DOMAIN list, DOMAIN list)} :
        Ordered(s)}

\* The positions of the readings with the ID of position p, from p on up to the
\* first reading with another ID.
Group(list, p) ==
    {j \in p..Len(list) : \A k \in p..j : list[k].id = list[p].id}

\* The position behind that group.
NextGroup(list, p) == p + Cardinality(Group(list, p))

\* The group has enough readings to be averaged, over its first Window ones.
HasWindow(list, p) == Cardinality(Group(list, p)) >= Window

WindowAt(list, p) == SubSeq(list, p, p + Window - 1)

\* Wrong: the mark is on the last reading of the window.
MarkNewest(list, p) == [list EXCEPT ![p + Window - 1].del = TRUE]

\* The first reading of a group that was averaged is done with.
Mark(list, p) == [list EXCEPT ![p].del = TRUE]

\* The nodes of a list at the positions in I, in their order.  (SelectSeq is
\* this too, but out of the provers' reach.)
Pick(list, I) ==
    [n \in 1..Cardinality(I) |->
        list[CHOOSE i \in I : Cardinality({j \in I : j <= i}) = n]]

Marked(list)   == Pick(list, {i \in DOMAIN list : list[i].del})
Unmarked(list) == Pick(list, {i \in DOMAIN list : ~list[i].del})
=============================================================================
