--------------------------- MODULE NodeListProofs ---------------------------
(***************************************************************************)
(* For a heap of any size, any readings and any order of the calls: the    *)
(* functions on the linked nodes never use a pointer to a node that was    *)
(* freed, nor NULL; they leak no node; and what their loops do is what     *)
(* ReadingList says in one step per call, in finitely many turns.          *)
(*                                                                         *)
(* IInv is the shape of the heap, enough for the pointers to be safe.      *)
(* ListInv adds the list that the pointers make up - a path through all    *)
(* allocated nodes - and how far each loop is on it.                       *)
(***************************************************************************)
EXTENDS NodeList, FiniteSetTheorems, WellFoundedInduction, SequenceTheorems, TLAPS

\* No node is reached by two pointers ...
Unshared ==
    /\ \A m, n \in alloc : next[m] = next[n] /\ next[m] # NULL => m = n
    /\ pc \notin {"free", "ended"} /\ head # NULL => \A n \in alloc : next[n] # head
    /\ pc = "free" /\ temp # NULL => \A n \in alloc : next[n] # temp

\* ... and the pointers never lead back: nodes can be given ages that fall along them.
Falls(age) == \A n \in alloc : next[n] # NULL => age[next[n]] < age[n]
Acyclic == \E age \in [Node -> Nat] : Falls(age)

\* prev is one node behind temp, and a pointer that is not in use is NULL.
PrevFollows ==
    pc = "remove" => IF prev = NULL THEN temp = head ELSE next[prev] = temp
Unused ==
    /\ pc \in {"idle", "copy", "remove", "free", "ended"} =>
         current = NULL /\ min = NULL /\ inner = NULL
    /\ pc # "remove" => prev = NULL
    /\ pc \in {"idle", "ended"} => temp = NULL

IInv ==
    /\ HeapTypes /\ pc \in Loop
    /\ MemorySafe /\ Unshared /\ Acyclic /\ PrevFollows /\ Unused

\* The step leaves the shape of the list alone.
SameShape == UNCHANGED <<next, alloc, head>>

LEMMA AcyclicStays == Acyclic /\ next' = next /\ alloc' \subseteq alloc => Acyclic'
<1> SUFFICES ASSUME Acyclic, next' = next, alloc' \subseteq alloc PROVE Acyclic'
  OBVIOUS
<1>1. PICK age \in [Node -> Nat] : Falls(age)
  BY DEF Acyclic
<1>2. Falls(age)'
  BY <1>1 DEF Falls
<1>3. QED
  BY <1>2 DEF Acyclic

LEMMA SaveKeeps ==
  ASSUME IInv, NEW id \in Id, NEW time \in Time, Save(id, time)
  PROVE  IInv'
<1> USE NodeListAssumption
<1>1. PICK n \in Node :
        /\ n \notin alloc
        /\ cell' = [cell EXCEPT ![n] = [id |-> id, time |-> time, del |-> FALSE]]
        /\ next' = [next EXCEPT ![n] = head]
        /\ alloc' = alloc \cup {n}
        /\ head' = n
  <2>1. \A n \in Malloc : n \in Node /\ n \notin alloc
    BY DEF Malloc, IInv, HeapTypes
  <2>2. QED
    BY <2>1 DEF Save
<1>2. /\ pc = "idle" /\ pc' = pc /\ saves' = saves + 1
      /\ UNCHANGED <<temp, current, min, inner, prev>>
  BY DEF Save, locals
<1>3. HeapTypes' /\ pc' \in Loop
  BY <1>1, <1>2 DEF IInv, HeapTypes, Content
<1>4. MemorySafe'
  BY <1>1, <1>2 DEF IInv, HeapTypes, MemorySafe, Followed
<1>5. Unshared'
  BY <1>1, <1>2 DEF IInv, HeapTypes, MemorySafe, Unshared
<1>6. Acyclic'
  <2>1. PICK age \in [Node -> Nat] : Falls(age)
    BY DEF IInv, Acyclic
  <2>2. head \in alloc \cup {NULL} /\ alloc \subseteq Node /\ next \in [Node -> Node \cup {NULL}]
    BY <1>2 DEF IInv, HeapTypes, MemorySafe
  <2>3. PICK older \in [Node -> Nat] :
          older = [age EXCEPT ![n] = IF head = NULL THEN 0 ELSE age[head] + 1]
    <3>1. head \in Node \cup {NULL}
      BY <2>2
    <3>2. (IF head = NULL THEN 0 ELSE age[head] + 1) \in Nat
      BY <2>1, <3>1
    <3>3. [age EXCEPT ![n] = IF head = NULL THEN 0 ELSE age[head] + 1] \in [Node -> Nat]
      BY <2>1, <3>2
    <3>4. QED
      BY <3>3
  <2>4. \A m \in alloc : next[m] \in alloc \cup {NULL}
    BY DEF IInv, MemorySafe
  <2>5. Falls(older)'
    <3>1. \A m \in alloc : next[m] # NULL => age[next[m]] < age[m]
      BY <2>1 DEF Falls
    <3>2. older[n] = IF head = NULL THEN 0 ELSE age[head] + 1
      BY <2>3
    <3>3. \A m \in alloc : older[m] = age[m] /\ m # n
      BY <1>1, <2>2, <2>3
    <3>4. ASSUME NEW m \in alloc', next'[m] # NULL PROVE older[next'[m]] < older[m]
      <4>1. CASE m = n
        BY <1>1, <2>2, <3>2, <3>3, <3>4, <4>1
      <4>2. CASE m # n
        BY <1>1, <2>2, <2>4, <3>1, <3>3, <3>4, <4>2
      <4>3. QED
        BY <4>1, <4>2
    <3>5. QED
      BY <3>4 DEF Falls
  <2>6. QED
    BY <2>3, <2>5 DEF Acyclic
<1>7. PrevFollows' /\ Unused'
  BY <1>2 DEF IInv, PrevFollows, Unused
<1>8. QED
  BY <1>3, <1>4, <1>5, <1>6, <1>7 DEF IInv

\* Sorting and averaging move between allocated nodes and swap what is in them.
LEMMA SortKeeps ==
  ASSUME IInv,
         \/ Sort \/ ById \/ MinId \/ SwapId \/ ByTime \/ InGroup \/ MinTime \/ SwapTime
         \/ Average \/ CountReading \/ EndGroup
  PROVE  IInv'
<1> USE NodeListAssumption
<1>1. SameShape /\ saves' = saves /\ prev' = prev
      /\ pc \notin {"remove", "free", "ended"} /\ pc' \notin {"remove", "free", "ended"}
  BY DEF Sort, ById, MinId, SwapId, ByTime, InGroup, MinTime, SwapTime, Average,
         CountReading, EndGroup, Goto, heap, SameShape
<1>2. pc' \in Loop
  BY DEF Sort, ById, MinId, SwapId, ByTime, InGroup, MinTime, SwapTime, Average,
         CountReading, EndGroup, Goto, Loop, IInv
<1>3. cell' \in [Node -> Content]
  <2>1. CASE SwapId
    <3>1. temp \in Node /\ min \in Node /\ cell \in [Node -> Content]
      BY <2>1 DEF SwapId, Goto, IInv, HeapTypes, MemorySafe, Followed
    <3>2. QED
      BY <2>1, <3>1 DEF SwapId, Swap
  <2>2. CASE SwapTime
    <3>1. current \in Node /\ min \in Node /\ cell \in [Node -> Content]
      BY <2>2 DEF SwapTime, Goto, IInv, HeapTypes, MemorySafe, Followed
    <3>2. QED
      BY <2>2, <3>1 DEF SwapTime, Swap
  <2>3. CASE EndGroup
    <3>1. temp \in Node /\ cell \in [Node -> Content]
      BY <2>3 DEF EndGroup, Goto, IInv, HeapTypes, MemorySafe, Followed
    <3>2. [cell[temp] EXCEPT !.del = TRUE] \in Content
      BY <3>1 DEF Content
    <3>3. [cell EXCEPT ![temp].del = TRUE] \in [Node -> Content]
      BY <3>1, <3>2
    <3>4. QED
      BY <2>3, <3>1, <3>3 DEF EndGroup
  <2>4. CASE ~SwapId /\ ~SwapTime /\ ~EndGroup
    BY <2>4 DEF Sort, ById, MinId, ByTime, InGroup, MinTime, Average,
                CountReading, heap, IInv, HeapTypes
  <2>5. QED
    BY <2>1, <2>2, <2>3, <2>4
<1>4. HeapTypes'
  BY <1>1, <1>3 DEF IInv, HeapTypes, SameShape
<1>5. MemorySafe'
  <2> USE DEF IInv, HeapTypes, MemorySafe, Followed, SameShape, heap, Goto, SameId
  <2>0. \A n \in alloc : next[n] \in alloc \cup {NULL}
    OBVIOUS
  <2>1. CASE Sort
    BY <1>1, <2>1 DEF Sort
  <2>2. CASE ById
    BY <1>1, <2>0, <2>2 DEF ById
  <2>3. CASE MinId
    BY <1>1, <2>0, <2>3 DEF MinId
  <2>4. CASE SwapId
    BY <1>1, <2>0, <2>4 DEF SwapId
  <2>5. CASE ByTime
    BY <1>1, <2>5 DEF ByTime
  <2>6. CASE InGroup
    BY <1>1, <2>0, <2>6 DEF InGroup
  <2>7. CASE MinTime
    BY <1>1, <2>0, <2>7 DEF MinTime
  <2>8. CASE SwapTime
    BY <1>1, <2>0, <2>8 DEF SwapTime
  <2>9. CASE Average
    BY <1>1, <2>9 DEF Average
  <2>10. CASE CountReading
    BY <1>1, <2>0, <2>10 DEF CountReading
  <2>11. CASE EndGroup
    BY <1>1, <2>11 DEF EndGroup
  <2>12. QED
    BY <2>1, <2>2, <2>3, <2>4, <2>5, <2>6, <2>7, <2>8, <2>9, <2>10, <2>11
<1>6. Unshared' /\ Acyclic' /\ PrevFollows'
  BY <1>1, AcyclicStays DEF IInv, Unshared, PrevFollows, SameShape
<1>7. Unused'
  BY <1>1 DEF IInv, Unused, Loop, Sort, ById, MinId, SwapId, ByTime, InGroup, MinTime, SwapTime, Average,
         CountReading, EndGroup, Goto
<1>8. QED
  BY <1>2, <1>4, <1>5, <1>6, <1>7 DEF IInv

LEMMA CopyKeeps == ASSUME IInv, Copy \/ CopyFails \/ CopyNode \/ EndCopy PROVE IInv'
<1> USE NodeListAssumption
<1>1. /\ UNCHANGED <<cell, next, alloc, head, saves, current, min, inner, prev>>
      /\ pc \in {"idle", "copy"} /\ pc' \in {"copy", "remove"}
      /\ temp' \in alloc \cup {NULL} /\ (pc' = "remove" => temp' = head)
  BY DEF Copy, CopyFails, CopyNode, EndCopy, Goto, heap, IInv, MemorySafe
<1>2. HeapTypes' /\ pc' \in Loop
  BY <1>1 DEF IInv, HeapTypes, Loop
<1>3. MemorySafe'
  BY <1>1 DEF IInv, MemorySafe, Followed
<1>4. Unshared' /\ Acyclic' /\ PrevFollows' /\ Unused'
  BY <1>1, AcyclicStays DEF IInv, Unshared, PrevFollows, Unused
<1>5. QED
  BY <1>2, <1>3, <1>4 DEF IInv

LEMMA RemoveKeeps == ASSUME IInv, RemoveNode PROVE IInv'
<1> USE NodeListAssumption
<1>1. /\ pc = "remove" /\ pc' = pc /\ UNCHANGED <<cell, saves, current, min, inner, prev>>
      /\ temp \in alloc /\ alloc' = alloc \ {temp} /\ temp' = next[temp]
      /\ alloc \subseteq Node /\ next \in [Node -> Node \cup {NULL}]
      /\ \A n \in alloc : next[n] \in alloc \cup {NULL}
  BY DEF RemoveNode, IInv, HeapTypes, MemorySafe
\* Nothing that is left points to the node that is freed.
<1>2. next[temp] # temp
  <2>1. PICK age \in [Node -> Nat] : Falls(age)
    BY DEF IInv, Acyclic
  <2>2. QED
    BY <1>1, <2>1 DEF Falls
<1>3. CASE prev = NULL
  <2>1. temp = head /\ head' = next[temp] /\ next' = next
    BY <1>1, <1>3 DEF RemoveNode, IInv, PrevFollows
  <2>2. \A n \in alloc : next[n] # temp
    BY <1>1, <2>1 DEF IInv, Unshared
  <2>3. HeapTypes' /\ pc' \in Loop
    BY <1>1, <2>1 DEF IInv, HeapTypes
  <2>4. MemorySafe'
    <3>1. current = NULL /\ min = NULL /\ inner = NULL
      BY <1>1 DEF IInv, Unused
    <3>2. QED
      BY <1>1, <1>2, <1>3, <2>1, <2>2, <3>1 DEF MemorySafe, Followed
  <2>5. Unshared'
    BY <1>1, <2>1 DEF IInv, Unshared
  <2>6. Acyclic'
    BY <1>1, <2>1, AcyclicStays DEF IInv
  <2>7. PrevFollows' /\ Unused'
    BY <1>1, <1>3, <2>1 DEF IInv, PrevFollows, Unused
  <2>8. QED
    BY <2>3, <2>4, <2>5, <2>6, <2>7 DEF IInv
<1>4. CASE prev # NULL
  <2>1. /\ prev \in alloc /\ next[prev] = temp /\ prev # temp
        /\ next' = [next EXCEPT ![prev] = next[temp]] /\ head' = head
    BY <1>1, <1>2, <1>4 DEF RemoveNode, IInv, PrevFollows, MemorySafe
  <2>2. \A n \in alloc : n # prev => next[n] # temp
    BY <1>1, <2>1 DEF IInv, Unshared
  <2>3. next[temp] \in alloc' \cup {NULL}
    BY <1>1, <1>2
  <2>4. HeapTypes' /\ pc' \in Loop
    BY <1>1, <2>1 DEF IInv, HeapTypes
  <2>5. head # temp
    BY <1>1, <2>1 DEF IInv, Unshared
  <2>6. MemorySafe'
    <3>1. current = NULL /\ min = NULL /\ inner = NULL
      BY <1>1 DEF IInv, Unused
    <3>2. head \in alloc \cup {NULL}
      BY <1>1 DEF IInv, MemorySafe
    <3>3. \A n \in alloc' : next'[n] \in alloc' \cup {NULL}
      BY <1>1, <2>1, <2>2, <2>3
    <3>4. QED
      BY <1>1, <2>1, <2>3, <2>5, <3>1, <3>2, <3>3 DEF MemorySafe, Followed
  <2>7. Unshared'
    BY <1>1, <2>1, <2>2 DEF IInv, Unshared
  <2>8. Acyclic'
    <3>1. PICK age \in [Node -> Nat] : Falls(age)
      BY DEF IInv, Acyclic
    <3>2. \A n \in Node : age[n] \in Nat
      BY <3>1
    <3>3. next[temp] # NULL => age[next[temp]] < age[temp] /\ age[temp] < age[prev]
      BY <1>1, <2>1, <3>1 DEF Falls
    <3>4. next[temp] # NULL => age[next[temp]] < age[prev]
      BY <1>1, <2>1, <3>2, <3>3
    <3>5. Falls(age)'
      BY <1>1, <2>1, <3>1, <3>4 DEF Falls
    <3>6. QED
      BY <3>1, <3>5 DEF Acyclic
  <2>9. PrevFollows' /\ Unused'
    BY <1>1, <1>4, <2>1 DEF IInv, PrevFollows, Unused
  <2>10. QED
    BY <2>4, <2>6, <2>7, <2>8, <2>9 DEF IInv
<1>5. QED
  BY <1>3, <1>4

LEMMA WalkKeeps == ASSUME IInv, KeepNode \/ EndRemove \/ FreeList PROVE IInv'
<1> USE NodeListAssumption
<1>1. /\ UNCHANGED <<cell, next, alloc, head, saves, current, min, inner>>
      /\ pc \in {"remove", "idle"} /\ pc' \in {"remove", "idle", "free"}
  BY DEF KeepNode, EndRemove, FreeList, Goto, heap
<1>2. HeapTypes' /\ pc' \in Loop
  BY <1>1 DEF IInv, HeapTypes, Loop
<1>3. MemorySafe'
  BY <1>1 DEF IInv, MemorySafe, Followed, KeepNode, EndRemove, FreeList, Goto
<1>4. Unshared' /\ Acyclic'
  BY <1>1, AcyclicStays DEF IInv, Unshared, FreeList, Goto, KeepNode, EndRemove
<1>5. PrevFollows' /\ Unused'
  BY <1>1 DEF IInv, PrevFollows, Unused, MemorySafe, KeepNode, EndRemove, FreeList, Goto
<1>6. QED
  BY <1>2, <1>3, <1>4, <1>5 DEF IInv

LEMMA FreeKeeps == ASSUME IInv, FreeNode \/ EndFree PROVE IInv'
<1> USE NodeListAssumption
<1>1. CASE FreeNode
  <2>1. /\ pc = "free" /\ pc' = pc /\ UNCHANGED <<cell, next, head, saves, current, min, inner, prev>>
        /\ temp \in alloc /\ alloc' = alloc \ {temp} /\ temp' = next[temp]
        /\ alloc \subseteq Node /\ next \in [Node -> Node \cup {NULL}]
        /\ \A n \in alloc : next[n] \in alloc \cup {NULL}
        /\ \A n \in alloc : next[n] # temp
        /\ current = NULL /\ min = NULL /\ inner = NULL /\ prev = NULL
    BY <1>1 DEF FreeNode, IInv, HeapTypes, MemorySafe, Unshared, Unused
  <2>2. HeapTypes' /\ pc' \in Loop
    BY <2>1 DEF IInv, HeapTypes
  <2>3. MemorySafe'
    BY <2>1 DEF MemorySafe, Followed
  <2>4. Unshared'
    BY <2>1 DEF IInv, Unshared
  <2>5. Acyclic'
    BY <2>1, AcyclicStays DEF IInv
  <2>6. PrevFollows' /\ Unused'
    BY <2>1 DEF PrevFollows, Unused
  <2>7. QED
    BY <2>2, <2>3, <2>4, <2>5, <2>6 DEF IInv
<1>2. CASE EndFree
  <2>1. /\ pc = "free" /\ pc' = "ended" /\ temp = NULL
        /\ UNCHANGED <<cell, next, alloc, head, saves, temp, current, min, inner, prev>>
    BY <1>2 DEF EndFree, Goto, heap, locals
  <2>2. Acyclic'
    BY <2>1, AcyclicStays DEF IInv
  <2>3. QED
    BY <2>1, <2>2 DEF IInv, HeapTypes, Loop, MemorySafe, Followed, Unshared, PrevFollows, Unused
<1>3. QED
  BY <1>1, <1>2

LEMMA IInvInit == Init => IInv
<1> USE NodeListAssumption
<1> SUFFICES ASSUME Init PROVE IInv
  OBVIOUS
<1>1. Acyclic
  <2>1. [n \in Node |-> 0] \in [Node -> Nat] /\ Falls([n \in Node |-> 0])
    BY DEF Init, Falls
  <2>2. QED
    BY <2>1 DEF Acyclic
<1>2. Garbage \in Content
  <2>1. PICK i \in Id, t \in Time : TRUE
    OBVIOUS
  <2>2. [id |-> i, time |-> t, del |-> FALSE] \in Content
    BY DEF Content
  <2>3. QED
    BY <2>2 DEF Garbage
<1>3. QED
  BY <1>1, <1>2 DEF Init, IInv, HeapTypes, Loop, MemorySafe, Followed, Unshared,
              PrevFollows, Unused

LEMMA IInvStep == IInv /\ [Next]_vars => IInv'
<1> SUFFICES ASSUME IInv, [Next]_vars PROVE IInv'
  OBVIOUS
<1>1. CASE UNCHANGED vars
  <2>1. UNCHANGED <<cell, next, alloc, head, saves, pc, temp, current, min, inner, prev>>
    BY <1>1 DEF vars, heap, locals
  <2>2. Acyclic'
    BY <2>1, AcyclicStays DEF IInv
  <2>3. QED
    BY <2>1, <2>2 DEF IInv, HeapTypes, MemorySafe, Followed, Unshared, PrevFollows, Unused
<1>2. QED
  BY <1>1, SaveKeeps, SortKeeps, CopyKeeps, RemoveKeeps, WalkKeeps, FreeKeeps
     DEF Next, Call, Turn

\* For a heap of any size, any readings and any order of the calls: no function
\* uses a pointer to a freed node or follows NULL, and none frees a node twice.
THEOREM HeapIsSafe == Spec => [](HeapTypes /\ MemorySafe)
<1>1. IInv => HeapTypes /\ MemorySafe
  BY DEF IInv
<1>2. QED
  BY <1>1, IInvInit, IInvStep, PTL DEF Spec
-----------------------------------------------------------------------------
\* What is left to do in a call, by ages that fall along the pointers: the loops
\* still to come, then how far its outer pointer is from the end, then its inner
\* ones.

Left(age, x) == IF x = NULL THEN 0 ELSE age[x] + 1

Inner == {"min_id", "in_group", "min_time", "count"}
LoopsLeft ==
    CASE pc \in {"by_id", "min_id"}                        -> 3
      [] pc \in {"by_time", "in_group", "min_time", "copy"} -> 2
      [] pc \in {"average", "count", "remove", "free"}      -> 1
      [] OTHER                                              -> 0

\* The turn brings the call nearer to its end.
Nearer(age) ==
    \/ LoopsLeft' < LoopsLeft
    \/ LoopsLeft' = LoopsLeft /\ Left(age, temp') < Left(age, temp)
    \/ /\ LoopsLeft' = LoopsLeft /\ temp' = temp /\ pc' \in Inner
       /\ \/ pc \notin Inner
          \/ Left(age, current') < Left(age, current)
          \/ /\ current' = current /\ pc' = "min_time"
             /\ pc # "min_time" \/ Left(age, inner') < Left(age, inner)

\* Inside a group current has never fallen behind temp.
CurrentAhead ==
    pc \in {"in_group", "min_time", "count"} =>
        \A age \in [Node -> Nat] :
            Falls(age) => current = temp \/ Left(age, current) < Left(age, temp)

LEMMA NextIsNearer ==
  ASSUME NEW age \in [Node -> Nat], IInv, Falls(age), NEW x \in alloc
  PROVE  /\ Left(age, x) \in Nat /\ Left(age, next[x]) \in Nat
         /\ Left(age, next[x]) < Left(age, x)
<1>1. /\ x \in Node /\ next[x] \in alloc \cup {NULL} /\ alloc \subseteq Node
      /\ NULL \notin Node
  BY NodeListAssumption DEF IInv, HeapTypes, MemorySafe
<1>2. age[x] \in Nat
  BY <1>1
<1>3. CASE next[x] = NULL
  BY <1>1, <1>2, <1>3 DEF Left
<1>4. CASE next[x] # NULL
  <2>1. age[next[x]] \in Nat /\ age[next[x]] < age[x]
    BY <1>1, <1>4 DEF Falls
  <2>2. QED
    BY <2>1, <1>1, <1>2, <1>4 DEF Left
<1>5. QED
  BY <1>3, <1>4

\* The ages of a call stay good for all of its turns.
LEMMA TurnKeepsAges ==
  ASSUME NEW age \in [Node -> Nat], IInv, Falls(age), Turn
  PROVE  Falls(age)'
<1>1. CASE RemoveNode
  <2>1. /\ temp \in alloc /\ alloc' = alloc \ {temp} /\ alloc \subseteq Node
        /\ next \in [Node -> Node \cup {NULL}] /\ next[temp] \in alloc \cup {NULL}
        /\ prev \in alloc \cup {NULL} /\ NULL \notin Node
        /\ prev # NULL => next[prev] = temp
        /\ IF prev = NULL THEN next' = next ELSE next' = [next EXCEPT ![prev] = next[temp]]
    BY <1>1, NodeListAssumption
       DEF RemoveNode, IInv, HeapTypes, MemorySafe, PrevFollows
  <2>2. ASSUME NEW n \in alloc', next'[n] # NULL
        PROVE  age[next'[n]] < age[n]
    <3>1. CASE prev = NULL \/ n # prev
      <4>1. next'[n] = next[n] /\ n \in alloc
        BY <2>1, <2>2, <3>1
      <4>2. QED
        BY <4>1, <2>2 DEF Falls
    <3>2. CASE prev # NULL /\ n = prev
      <4>1. next'[n] = next[temp] /\ next[temp] \in alloc /\ n \in alloc /\ next[n] = temp
        BY <2>1, <2>2, <3>2
      <4>2. age[next[temp]] < age[temp] /\ age[temp] < age[n]
        BY <4>1, <2>1, <2>2 DEF Falls
      <4>3. age[next[temp]] \in Nat /\ age[temp] \in Nat /\ age[n] \in Nat
        BY <4>1, <2>1
      <4>4. QED
        BY <4>1, <4>2, <4>3
    <3>3. QED
      BY <3>1, <3>2
  <2>3. QED
    BY <2>2 DEF Falls
<1>2. CASE ~RemoveNode
  <2>1. next' = next /\ alloc' \subseteq alloc
    BY <1>2 DEF Turn, ById, MinId, SwapId, ByTime, InGroup, MinTime, SwapTime, Average,
                CountReading, EndGroup, CopyNode, EndCopy, KeepNode, EndRemove, FreeNode,
                EndFree, heap
  <2>2. QED
    BY <2>1 DEF Falls
<1>3. QED
  BY <1>1, <1>2

LEMMA SortTurnsNearer ==
  ASSUME NEW age \in [Node -> Nat], IInv, CurrentAhead, Falls(age),
         ById \/ MinId \/ SwapId \/ ByTime \/ InGroup \/ MinTime \/ SwapTime
  PROVE  Nearer(age)
<1> USE DEF Nearer, LoopsLeft, Inner
<1>1. {temp, current, inner} \subseteq alloc \cup {NULL} /\ NULL \notin Followed
  BY DEF IInv, MemorySafe
<1>2. CASE ById
  BY <1>2 DEF ById
<1>3. CASE MinId
  BY <1>1, <1>3, NextIsNearer DEF MinId
<1>4. CASE SwapId
  BY <1>1, <1>4, NextIsNearer DEF SwapId, Goto, Followed
<1>5. CASE ByTime
  BY <1>5 DEF ByTime
<1>6. CASE InGroup
  <2>1. pc = "in_group" /\ temp # NULL
    BY <1>1, <1>6 DEF InGroup, Followed
  <2>2. CASE SameId(current)
    BY <1>6, <2>1, <2>2 DEF InGroup
  <2>3. CASE ~SameId(current)
    <3>1. Left(age, current) < Left(age, temp)
      BY <2>1, <2>3 DEF CurrentAhead, SameId
    <3>2. pc' = "by_time" /\ temp' = current
      BY <1>6, <2>3 DEF InGroup
    <3>3. QED
      BY <2>1, <3>1, <3>2
  <2>4. QED
    BY <2>2, <2>3
<1>7. CASE MinTime
  BY <1>1, <1>7, NextIsNearer DEF MinTime, SameId
<1>8. CASE SwapTime
  BY <1>1, <1>8, NextIsNearer DEF SwapTime, Goto, Followed
<1>9. QED
  BY <1>2, <1>3, <1>4, <1>5, <1>6, <1>7, <1>8

LEMMA OtherTurnsNearer ==
  ASSUME NEW age \in [Node -> Nat], IInv, CurrentAhead, Falls(age), Turn,
         ~(ById \/ MinId \/ SwapId \/ ByTime \/ InGroup \/ MinTime \/ SwapTime)
  PROVE  Nearer(age)
<1> USE DEF Nearer, LoopsLeft, Inner
<1>1. {temp, current, inner} \subseteq alloc \cup {NULL} /\ NULL \notin Followed
  BY DEF IInv, MemorySafe
<1>2. CASE Average
  BY <1>2 DEF Average
<1>3. CASE CountReading
  BY <1>1, <1>3, NextIsNearer DEF CountReading, SameId
<1>4. CASE EndGroup
  <2>1. pc = "count" /\ temp # NULL /\ ~SameId(current) /\ pc' = "average" /\ temp' = current
    BY <1>1, <1>4 DEF EndGroup, Followed, Goto
  <2>2. Left(age, current) < Left(age, temp)
    BY <2>1 DEF CurrentAhead, SameId
  <2>3. QED
    BY <2>1, <2>2
<1>5. CASE CopyNode \/ KeepNode \/ RemoveNode \/ FreeNode
  <2>1. temp \in alloc /\ temp' = next[temp] /\ pc' = pc
    BY <1>1, <1>5 DEF CopyNode, KeepNode, RemoveNode, FreeNode
  <2>2. QED
    BY <2>1, NextIsNearer
<1>6. CASE EndCopy \/ EndRemove \/ EndFree
  BY <1>6 DEF EndCopy, EndRemove, EndFree, Goto
<1>7. QED
  BY <1>2, <1>3, <1>4, <1>5, <1>6 DEF Turn

LEMMA AheadStays == IInv /\ CurrentAhead /\ [Next]_vars => CurrentAhead'
<1> SUFFICES ASSUME IInv, CurrentAhead, [Next]_vars,
                    pc' \in {"in_group", "min_time", "count"},
                    NEW age \in [Node -> Nat], Falls(age)'
             PROVE  current' = temp' \/ Left(age, current') < Left(age, temp')
  BY DEF CurrentAhead, Left
<1>1. CASE ByTime \/ Average
  BY <1>1 DEF ByTime, Average
<1>2. CASE SwapTime \/ CountReading
  <2>1. /\ pc \in {"in_group", "min_time", "count"} /\ temp' = temp /\ current' = next[current]
        /\ next' = next /\ alloc' = alloc /\ current # NULL /\ temp # NULL
    BY <1>2 DEF SwapTime, CountReading, Goto, SameId, heap, IInv, MemorySafe, Followed
  <2>2. current \in alloc /\ temp \in alloc
    BY <2>1 DEF IInv, MemorySafe
  <2>3. Falls(age)
    BY <2>1 DEF Falls
  <2>4. current = temp \/ Left(age, current) < Left(age, temp)
    BY <2>1, <2>3 DEF CurrentAhead
  <2>5. /\ Left(age, next[current]) < Left(age, current)
        /\ Left(age, next[current]) \in Nat /\ Left(age, current) \in Nat
        /\ Left(age, temp) \in Nat
    BY <2>2, <2>3, NextIsNearer
  <2>6. QED
    BY <2>1, <2>4, <2>5
<1>3. CASE InGroup \/ MinTime \/ UNCHANGED vars
  <2>1. /\ pc \in {"in_group", "min_time", "count"} /\ temp' = temp /\ current' = current
        /\ next' = next /\ alloc' = alloc
    BY <1>3 DEF InGroup, MinTime, heap, vars, locals
  <2>2. Falls(age)
    BY <2>1 DEF Falls
  <2>3. QED
    BY <2>1, <2>2 DEF CurrentAhead
<1>4. QED
  BY <1>1, <1>2, <1>3
     DEF Next, Call, Turn, Sort, Copy, CopyFails, FreeList, Save, ById, MinId, SwapId, EndGroup,
         CopyNode, EndCopy, KeepNode, RemoveNode, EndRemove, FreeNode, EndFree, Goto, IInv, MemorySafe

\* No call turns for ever, on a heap of any size: there are ages of the nodes, and
\* whichever they are, they stay good for the whole call and every turn of a loop
\* brings it nearer to its end, in an order without infinite descent.
THEOREM TurnsRunOut ==
    Spec => [][Turn => /\ Acyclic
                       /\ \A age \in [Node -> Nat] :
                             Falls(age) => Falls(age)' /\ Nearer(age)]_vars
<1>1. Init => CurrentAhead
  BY DEF Init, CurrentAhead
<1>2. ASSUME IInv, CurrentAhead, Turn
      PROVE  Acyclic /\ \A age \in [Node -> Nat] : Falls(age) => Falls(age)' /\ Nearer(age)
  BY <1>2, TurnKeepsAges, SortTurnsNearer, OtherTurnsNearer DEF IInv
<1>3. IInv /\ CurrentAhead /\ [Next]_vars =>
        [Turn => /\ Acyclic
                 /\ \A age \in [Node -> Nat] : Falls(age) => Falls(age)' /\ Nearer(age)]_vars
  BY <1>2
<1>4. QED
  BY <1>1, <1>3, AheadStays, IInvInit, IInvStep, PTL DEF Spec
-----------------------------------------------------------------------------
\* The functions on the list of readings that the invariant speaks of
SL == INSTANCE SensorList

-----------------------------------------------------------------------------
(* The list that the nodes make up. *)

\* The i-th node of a path of n nodes, and the NULL behind the last.
At(n, p, i) == IF i <= n THEN p[i] ELSE NULL

\* The allocated nodes, each once, as the pointers link them.
IsPath(n, p) ==
    /\ n \in Nat
    /\ p \in [1..n -> alloc]
    /\ \A i, j \in 1..n : p[i] = p[j] => i = j
    /\ \A m \in alloc : \E i \in 1..n : p[i] = m
    /\ head = At(n, p, 1)
    /\ \A i \in 1..n : next[p[i]] = At(n, p, i + 1)

Contents(n, p) == [i \in 1..n |-> cell[p[i]]]

-----------------------------------------------------------------------------
(* What each loop has done of its work.  L is the list as it is.           *)

\* The list has the readings that were given, in some order.
Reordered(l, L) ==
    \E b \in [DOMAIN l -> DOMAIN l] :
        /\ \A i, j \in DOMAIN l : b[i] = b[j] => i = j
        /\ \A j \in DOMAIN l : \E i \in DOMAIN l : b[i] = j
        /\ L = [i \in DOMAIN l |-> l[b[i]]]

\* The readings before position t are in order, also with those behind them:
\* by ID alone, and by ID and TIME.
IdsTo(L, t)   == \A i, j \in DOMAIN L : i < t /\ i < j => L[i].id <= L[j].id
OrderTo(L, t) == \A i, j \in DOMAIN L : i < t /\ i < j => SL!InOrder(L[i], L[j])

\* The readings from t up to c have the ID of that at t, where a group begins.
InOneGroup(L, t, c) == \A j \in t..(c - 1) : L[j].id = L[t].id
GroupStart(L, t) == 1 < t /\ t <= Len(L) => L[t - 1].id # L[t].id

\* What is left of the first k readings, and what the data file gets of them.
Kept(l, k)   == SL!Pick(l, {i \in 1..k : ~l[i].del})
Copied(l, k) == SL!Pick(l, {i \in 1..k : l[i].del})

ByIdInv(n, p, L) == \E t \in 1..(n + 1) : temp = At(n, p, t) /\ IdsTo(L, t)

MinIdInv(n, p, L) ==
    \E t \in 1..n : \E c \in (t + 1)..(n + 1) : \E m \in t..(c - 1) :
        /\ temp = p[t] /\ current = At(n, p, c) /\ min = p[m]
        /\ IdsTo(L, t)
        /\ \A j \in t..(c - 1) : L[m].id <= L[j].id

ByTimeInv(n, p, L) ==
    \E t \in 1..(n + 1) : temp = At(n, p, t) /\ IdsTo(L, n) /\ OrderTo(L, t)

InGroupInv(n, p, L) ==
    \E t \in 1..n : \E c \in t..(n + 1) :
        /\ temp = p[t] /\ current = At(n, p, c)
        /\ IdsTo(L, n) /\ OrderTo(L, c)

MinTimeInv(n, p, L) ==
    \E t \in 1..n : \E c \in t..n : \E k \in (c + 1)..(n + 1) : \E m \in c..(k - 1) :
        /\ temp = p[t] /\ current = p[c] /\ inner = At(n, p, k) /\ min = p[m]
        /\ IdsTo(L, n) /\ OrderTo(L, c)
        /\ \A j \in c..(k - 1) : L[j].id = L[t].id /\ L[m].time <= L[j].time

AverageInv(n, p, L) ==
    \E t \in 1..(n + 1) : temp = At(n, p, t) /\ OrderTo(L, n) /\ GroupStart(L, t)

CountInv(n, p, L) ==
    \E t \in 1..n : \E c \in t..(n + 1) :
        /\ temp = p[t] /\ current = At(n, p, c)
        /\ OrderTo(L, n) /\ GroupStart(L, t) /\ InOneGroup(L, t, c)
        /\ count = IF c - t < Window THEN c - t ELSE Window

CopyInv(n, p, L) ==
    \E t \in 1..(n + 1) : temp = At(n, p, t) /\ fileBuf = Copied(L, t - 1)

RemoveInv(n, p, L) ==
    \E k \in 0..Len(given) : \E u \in 0..k :
        /\ u = Len(Kept(given, k))
        /\ n = u + (Len(given) - k)
        /\ temp = At(n, p, u + 1)
        /\ prev = IF u = 0 THEN NULL ELSE p[u]
        /\ \A i \in 1..u : L[i] = Kept(given, k)[i]
        /\ \A i \in (u + 1)..n : L[i] = given[i - u + k]

LoopInv(n, p, L) ==
    /\ pc \in {"by_id", "min_id", "by_time", "in_group", "min_time"} => Reordered(given, L)
    /\ pc = "by_id"    => ByIdInv(n, p, L)
    /\ pc = "min_id"   => MinIdInv(n, p, L)
    /\ pc = "by_time"  => ByTimeInv(n, p, L)
    /\ pc = "in_group" => InGroupInv(n, p, L)
    /\ pc = "min_time" => MinTimeInv(n, p, L)
    /\ pc = "average"  => AverageInv(n, p, L)
    /\ pc = "count"    => CountInv(n, p, L)
    /\ pc = "copy"     => CopyInv(n, p, L)
    /\ pc = "remove"   => RemoveInv(n, p, L)

OnPath == \E n \in Nat : \E p \in [1..n -> alloc] : IsPath(n, p) /\ LoopInv(n, p, Contents(n, p))

ListInv ==
    /\ count \in 0..Window
    /\ {fileBuf, given, out} \subseteq Seq(Content)
    /\ pc # "copy" => fileBuf = <<>>
    /\ pc \notin {"free", "ended"} => OnPath

\* A set of naturals that is not empty has a least element.
LEMMA LeastExists ==
    ASSUME NEW S \in SUBSET Nat, S # {}
    PROVE  \E k \in S : \A j \in S : k <= j
<1>1. PICK i \in S : \A j \in S : ~ (<<j, i>> \in OpToRel(<, Nat))
  BY NatLessThanWellFounded, WFMin
<1>2. \A i1, j1 \in Nat : j1 < i1 => <<j1, i1>> \in OpToRel(<, Nat)
  BY Zenon DEF OpToRel
<1>3. \A j \in S : ~ (j < i)
  BY <1>1, <1>2
<1>4. QED
  BY <1>3

-----------------------------------------------------------------------------
(* What a path says of the list. *)

\* The path has as many nodes as are allocated.
LEMMA PathLength ==
    ASSUME HeapTypes, NEW n, NEW p, IsPath(n, p)
    PROVE  n = Cardinality(alloc) /\ n <= Cardinality(Node) /\ Cardinality(Node) \in Nat
<1>1. IsFiniteSet(Node) /\ alloc \in SUBSET Node
  BY NodeListAssumption DEF HeapTypes
<1>2. IsFiniteSet(alloc) /\ Cardinality(alloc) <= Cardinality(Node) /\ Cardinality(Node) \in Nat
  BY <1>1, FS_Subset, FS_CardinalityType
<1>3. p \in Bijection(1..n, alloc)
  BY DEF IsPath, Bijection, Injection, Surjection, IsInjective
<1>4. n \in Nat /\ ExistsBijection(1..n, alloc)
  BY <1>3 DEF ExistsBijection, IsPath
<1>5. n = Cardinality(alloc)
  BY <1>4, FS_CountingElements
<1>6. QED
  BY <1>2, <1>5

\* The nodes that the pointers lead to, one after the other, are those of the path.
LEMMA NthIs ==
    ASSUME HeapTypes, NEW n, NEW p, IsPath(n, p), NEW k \in 0..Cardinality(Node)
    PROVE  Nth(k) = At(n, p, k + 1)
<1> DEFINE N == Cardinality(Node)
           f == [i \in 0..N |-> At(n, p, i + 1)]
           Follow(g) == [i \in 0..N |-> IF i = 0 THEN head
                                        ELSE IF g[i - 1] = NULL THEN NULL ELSE next[g[i - 1]]]
<1>1. N \in Nat /\ n \in Nat /\ n <= N
  <2>1. n \in Nat
    BY DEF IsPath
  <2>2. QED
    BY <2>1, PathLength
<1>2. ASSUME NEW i \in 0..N
      PROVE  f[i] = IF i = 0 THEN head ELSE IF f[i - 1] = NULL THEN NULL ELSE next[f[i - 1]]
  <2> i \in Nat /\ i <= N
    BY <1>1
  <2>1. CASE i = 0
    BY <1>1, <2>1 DEF IsPath
  <2>2. CASE i # 0 /\ i <= n
    <3>1. i - 1 \in 0..N /\ i \in 1..n /\ f[i - 1] = p[i]
      BY <1>1, <2>2 DEF At
    <3>2. p[i] # NULL /\ next[p[i]] = At(n, p, i + 1)
      BY <3>1, NodeListAssumption DEF IsPath, HeapTypes
    <3>3. QED
      BY <2>2, <3>1, <3>2
  <2>3. CASE i # 0 /\ ~ (i <= n)
    <3>1. i - 1 \in 0..N /\ f[i - 1] = NULL /\ f[i] = NULL
      BY <1>1, <2>3 DEF At
    <3>2. QED
      BY <2>3, <3>1
  <2>4. QED
    BY <2>1, <2>2, <2>3
<1>3. f = Follow(f)
  <2> HIDE DEF f, N
  <2>1. f = [i \in 0..N |-> f[i]]
    BY DEF f
  <2>2. QED
    BY <1>2, <2>1
<1>4. PICK g : g = Follow(g) /\ Nth(k) = g[k]
  <2> HIDE DEF f
  <2>1. QED
    BY <1>3, Zenon DEF Nth
<1>5. \A i \in 0..N : g[i] = f[i]
  <2> DEFINE Other == {i \in 0..N : g[i] # f[i]}
  <2>1. SUFFICES ASSUME Other # {} PROVE FALSE
    OBVIOUS
  <2>2. PICK i \in Other : \A j \in Other : i <= j
    <3>1. Other \in SUBSET Nat
      OBVIOUS
    <3>2. QED
      BY <2>1, <3>1, LeastExists
  <2> HIDE DEF f
  <2>3. g[i] = IF i = 0 THEN head ELSE IF g[i - 1] = NULL THEN NULL ELSE next[g[i - 1]]
    BY <1>4
  <2>4. i # 0 => i - 1 \in 0..N /\ i - 1 \notin Other
    BY <1>1, <2>2
  <2>5. i # 0 => g[i - 1] = f[i - 1]
    BY <2>4
  <2>6. QED
    BY <1>2, <2>3, <2>5
<1>6. QED
  BY <1>4, <1>5

\* So the list has the length of the path and its contents.
LEMMA PathIsList ==
    ASSUME HeapTypes, NEW n, NEW p, IsPath(n, p)
    PROVE  Length = n /\ Linked = Contents(n, p)
<1>1. /\ n \in Nat /\ Cardinality(Node) \in Nat /\ n <= Cardinality(Node)
      /\ \A i \in 1..n : p[i] # NULL
  <2>1. n \in Nat /\ \A i \in 1..n : p[i] # NULL
    BY NodeListAssumption DEF IsPath, HeapTypes
  <2>2. QED
    BY <2>1, PathLength
<1>2. \A k \in 0..Cardinality(Node) : Nth(k) = At(n, p, k + 1)
  BY NthIs
<1>3. Length = n
  <2>1. ASSUME NEW k \in 0..Cardinality(Node) PROVE Nth(k) # NULL <=> k < n
    BY <1>1, <1>2 DEF At
  <2>2. {k \in 0..Cardinality(Node) : Nth(k) # NULL} = 0..(n - 1)
    BY <1>1, <2>1
  <2>3. Cardinality(0..(n - 1)) = n
    BY <1>1, FS_Interval
  <2>4. QED
    BY <2>2, <2>3 DEF Length
<1>4. ASSUME NEW k \in 1..n PROVE Nth(k - 1) = p[k]
  <2>1. k - 1 \in 0..Cardinality(Node) /\ k - 1 + 1 = k
    BY <1>1
  <2>2. Nth(k - 1) = At(n, p, k - 1 + 1)
    BY <1>2, <2>1
  <2>3. QED
    BY <2>1, <2>2 DEF At
<1>5. QED
  BY <1>3, <1>4 DEF Linked, Contents

-----------------------------------------------------------------------------
(* What the loops do to the list. *)

Swapped(L, i, j) == [L EXCEPT ![i] = L[j], ![j] = L[i]]

LEMMA ContentFields ==
    ASSUME NEW r \in Content
    PROVE  r.id \in Nat /\ r.time \in Nat /\ r.del \in BOOLEAN
BY NodeListAssumption DEF Content

LEMMA ReorderedSelf ==
    ASSUME NEW l \in Seq(Content)
    PROVE  Reordered(l, l)
<1> DEFINE b == [i \in DOMAIN l |-> i]
<1>1. b \in [DOMAIN l -> DOMAIN l] /\ \A i \in DOMAIN l : b[i] = i
  OBVIOUS
<1>2. l = [i \in DOMAIN l |-> l[b[i]]]
  BY <1>1
<1> HIDE DEF b
<1>3. QED
  BY <1>1, <1>2 DEF Reordered

LEMMA ReorderedTypes ==
    ASSUME NEW l \in Seq(Content), NEW L, Reordered(l, L)
    PROVE  L \in [1..Len(l) -> Content] /\ Len(l) \in Nat /\ DOMAIN L = 1..Len(l)
<1>1. DOMAIN l = 1..Len(l) /\ Len(l) \in Nat /\ \A i \in DOMAIN l : l[i] \in Content
  OBVIOUS
<1>2. QED
  BY <1>1 DEF Reordered

\* Two readings change places.
LEMMA ReorderedSwap ==
    ASSUME NEW l \in Seq(Content), NEW L, Reordered(l, L),
           NEW i \in DOMAIN L, NEW j \in DOMAIN L
    PROVE  Reordered(l, Swapped(L, i, j))
<1> DEFINE D == DOMAIN l
<1>1. PICK b \in [D -> D] :
        /\ \A x, y \in D : b[x] = b[y] => x = y
        /\ \A y \in D : \E x \in D : b[x] = y
        /\ L = [x \in D |-> l[b[x]]]
  BY Zenon DEF Reordered
<1>2. DOMAIN L = D
  BY <1>1
<1> HIDE DEF D
<1> DEFINE c == [x \in D |-> IF x = j THEN b[i] ELSE IF x = i THEN b[j] ELSE b[x]]
<1>3. /\ c \in [D -> D] /\ i \in D /\ j \in D
      /\ c[j] = b[i] /\ (i # j => c[i] = b[j])
      /\ \A x \in D : x # i /\ x # j => c[x] = b[x]
  BY <1>1, <1>2
<1> HIDE DEF c
<1>4. ASSUME NEW x \in D, NEW y \in D, c[x] = c[y] PROVE x = y
  BY <1>1, <1>3, <1>4
<1>5. ASSUME NEW y \in D PROVE \E x \in D : c[x] = y
  <2>1. PICK x \in D : b[x] = y
    BY <1>1
  <2>2. CASE x = i
    BY <1>3, <2>1, <2>2
  <2>3. CASE x = j
    BY <1>3, <2>1, <2>3
  <2>4. CASE x # i /\ x # j
    BY <1>3, <2>1, <2>4
  <2>5. QED
    BY <2>2, <2>3, <2>4
<1>6. Swapped(L, i, j) = [x \in D |-> l[c[x]]]
  <2>1. Swapped(L, i, j) = [x \in D |-> IF x = j THEN L[i] ELSE IF x = i THEN L[j] ELSE L[x]]
    BY <1>2 DEF Swapped
  <2>2. ASSUME NEW x \in D
        PROVE  (IF x = j THEN L[i] ELSE IF x = i THEN L[j] ELSE L[x]) = l[c[x]]
    <3>1. L[x] = l[b[x]] /\ L[i] = l[b[i]] /\ L[j] = l[b[j]]
      BY <1>1, <1>3
    <3>2. QED
      BY <1>3, <3>1
  <2>3. QED
    BY <2>1, <2>2
<1>7. QED
  BY <1>3, <1>4, <1>5, <1>6, Zenon DEF Reordered, D

\* The least ID of what is behind t comes to t.
LEMMA SwapIds ==
    ASSUME NEW n \in Nat, NEW L \in [1..n -> Content], NEW t \in 1..n, NEW m \in t..n,
           IdsTo(L, t), \A j \in t..n : L[m].id <= L[j].id
    PROVE  IdsTo(Swapped(L, t, m), t + 1)
<1> DEFINE S == Swapped(L, t, m)
<1>1. \A j \in 1..n : L[j].id \in Nat
  BY ContentFields
<1>2. /\ DOMAIN S = 1..n /\ DOMAIN L = 1..n /\ S[t] = L[m] /\ (m # t => S[m] = L[t])
      /\ \A j \in 1..n : j # t /\ j # m => S[j] = L[j]
  BY DEF Swapped
<1> HIDE DEF S
<1>3. ASSUME NEW i \in 1..n, NEW j \in 1..n, i < t + 1, i < j PROVE S[i].id <= S[j].id
  <2>1. CASE i = t
    <3>1. j \in t..n /\ j # t
      BY <1>3, <2>1
    <3>2. S[i].id = L[m].id /\ (S[j] = L[j] \/ S[j] = L[t])
      BY <1>2, <2>1, <3>1
    <3>3. QED
      BY <3>1, <3>2
  <2>2. CASE i < t
    <3>1. S[i] = L[i]
      BY <1>2, <2>2
    <3>2. PICK k \in 1..n : S[j] = L[k] /\ i < k
      <4>1. CASE j = t
        BY <1>2, <2>2, <4>1
      <4>2. CASE j = m /\ m # t
        BY <1>2, <2>2, <4>2
      <4>3. CASE j # m /\ j # t
        BY <1>2, <1>3, <4>3
      <4>4. QED
        BY <4>1, <4>2, <4>3
    <3>3. QED
      BY <1>2, <2>2, <3>1, <3>2 DEF IdsTo
  <2>3. QED
    BY <1>3, <2>1, <2>2
<1>4. QED
  BY <1>2, <1>3 DEF IdsTo, S

\* The first in order of what is behind c comes to c; they have one ID.
LEMMA SwapOrder ==
    ASSUME NEW n \in Nat, NEW L \in [1..n -> Content], NEW c \in 1..n, NEW m \in c..n,
           IdsTo(L, n), OrderTo(L, c), L[m].id = L[c].id,
           \A j \in c..n : SL!InOrder(L[m], L[j])
    PROVE  IdsTo(Swapped(L, c, m), n) /\ OrderTo(Swapped(L, c, m), c + 1)
<1> DEFINE S == Swapped(L, c, m)
<1>1. \A j \in 1..n : L[j].id \in Nat /\ L[j].time \in Nat
  BY ContentFields
<1>2. /\ DOMAIN S = 1..n /\ DOMAIN L = 1..n /\ S[c] = L[m] /\ (m # c => S[m] = L[c])
      /\ \A j \in 1..n : j # c /\ j # m => S[j] = L[j]
  BY DEF Swapped
<1> HIDE DEF S
<1>3. \A j \in 1..n : S[j].id = L[j].id
  BY <1>2
<1>4. ASSUME NEW i \in 1..n, NEW j \in 1..n, i < c + 1, i < j PROVE SL!InOrder(S[i], S[j])
  <2>1. CASE i = c
    <3>1. j \in c..n /\ j # c
      BY <1>4, <2>1
    <3>2. S[i] = L[m] /\ (S[j] = L[j] \/ S[j] = L[c])
      BY <1>2, <2>1, <3>1
    <3>3. c \in c..n
      OBVIOUS
    <3>4. QED
      BY <3>1, <3>2, <3>3
  <2>2. CASE i < c
    <3>1. S[i] = L[i]
      BY <1>2, <2>2
    <3>2. PICK k \in 1..n : S[j] = L[k] /\ i < k
      <4>1. CASE j = c
        BY <1>2, <2>2, <4>1
      <4>2. CASE j = m /\ m # c
        BY <1>2, <2>2, <4>2
      <4>3. CASE j # m /\ j # c
        BY <1>2, <1>4, <4>3
      <4>4. QED
        BY <4>1, <4>2, <4>3
    <3>3. QED
      BY <1>2, <2>2, <3>1, <3>2 DEF OrderTo
  <2>3. QED
    BY <1>4, <2>1, <2>2
<1>5. IdsTo(S, n)
  BY <1>2, <1>3 DEF IdsTo
<1>6. QED
  BY <1>2, <1>4, <1>5 DEF OrderTo, S

LEMMA PickIs ==
    ASSUME NEW l, NEW I
    PROVE  SL!Pick(l, I) = [n \in 1..Cardinality(I) |->
                              l[CHOOSE i \in I : Cardinality({j \in I : j <= i}) = n]]
BY DEF SL!Pick, SL!Cardinality, Cardinality

\* A position behind all others adds its reading at the end.
LEMMA PickAppend ==
    ASSUME NEW S, NEW l \in Seq(S), NEW k \in Nat, k < Len(l), NEW I \in SUBSET (1..k),
           SL!Pick(l, I) \in Seq(S)
    PROVE  SL!Pick(l, I \cup {k + 1}) = Append(SL!Pick(l, I), l[k + 1])
<1> DEFINE J == I \cup {k + 1}
           C == Cardinality(I)
           at(n) == CHOOSE i \in I : Cardinality({j \in I : j <= i}) = n
           later(n) == CHOOSE i \in J : Cardinality({j \in J : j <= i}) = n
<1>1. /\ IsFiniteSet(I) /\ C \in Nat /\ l[k + 1] \in S
      /\ \A i \in I : i \in Nat /\ i <= k /\ ~(k + 1 <= i)
  <2>1. \A i \in I : i \in Nat /\ i <= k /\ ~(k + 1 <= i)
    OBVIOUS
  <2>2. IsFiniteSet(1..k)
    BY FS_Interval
  <2>3. IsFiniteSet(I) /\ C \in Nat
    BY <2>2, FS_Subset, FS_CardinalityType
  <2>4. l[k + 1] \in S
    OBVIOUS
  <2>5. QED
    BY <2>1, <2>3, <2>4
<1>2. Cardinality(J) = C + 1
  <2>1. k + 1 \notin I
    BY <1>1
  <2>2. QED
    BY <1>1, <2>1, FS_AddElement
\* Which position is how many-th does not change for those in I ...
<1>3. ASSUME NEW i \in I PROVE {j \in J : j <= i} = {j \in I : j <= i}
  BY <1>1
\* ... and the new one is behind all of them.
<1>4. {j \in J : j <= k + 1} = J
  <2>1. \A j \in J : j <= k + 1
    BY <1>1
  <2>2. QED
    BY <2>1
<1>5. ASSUME NEW i \in I PROVE Cardinality({j \in I : j <= i}) \in 0..C
  <2>1. {j \in I : j <= i} \subseteq I
    OBVIOUS
  <2>2. QED
    BY <1>1, <2>1, FS_Subset, FS_CardinalityType
<1>6. ASSUME NEW n \in 1..C PROVE later(n) = at(n)
  <2>1. \A i : /\ i \in J /\ Cardinality({j \in J : j <= i}) = n
               <=> i \in I /\ Cardinality({j \in I : j <= i}) = n
    <3>1. n # C + 1
      BY <1>1
    <3>2. Cardinality({j \in J : j <= k + 1}) = C + 1
      BY <1>2, <1>4
    <3>3. QED
      BY <1>3, <3>1, <3>2
  <2>2. QED
    BY <2>1
<1>7. later(C + 1) = k + 1
  <2>1. \A i \in I : Cardinality({j \in J : j <= i}) # C + 1
    BY <1>1, <1>3, <1>5
  <2>2. Cardinality({j \in J : j <= k + 1}) = C + 1
    BY <1>2, <1>4
  <2>3. QED
    BY <2>1, <2>2
<1>8. /\ SL!Pick(l, J) = [n \in 1..(C + 1) |-> l[later(n)]]
      /\ SL!Pick(l, I) = [n \in 1..C |-> l[at(n)]]
  BY <1>2, PickIs
<1> HIDE DEF J, C, at, later
<1>9. SL!Pick(l, J) = Append(SL!Pick(l, I), l[k + 1])
  <2>1. Len(SL!Pick(l, I)) = C
    BY <1>1, <1>8
  <2>2. Append(SL!Pick(l, I), l[k + 1]) =
          [n \in 1..(C + 1) |-> IF n <= C THEN SL!Pick(l, I)[n] ELSE l[k + 1]]
    BY <1>1, <2>1
  <2>3. \A n \in 1..(C + 1) : l[later(n)] = IF n <= C THEN SL!Pick(l, I)[n] ELSE l[k + 1]
    BY <1>1, <1>6, <1>7, <1>8
  <2>4. QED
    BY <1>8, <2>2, <2>3
<1>10. QED
  BY <1>9 DEF J

\* One reading more has been copied, or has been seen and not removed.
LEMMA PickedOneMore ==
    ASSUME NEW l \in Seq(Content), NEW k \in Nat, k < Len(l),
           Kept(l, k) \in Seq(Content), Copied(l, k) \in Seq(Content)
    PROVE  /\ l[k + 1].del =>
                Copied(l, k + 1) = Append(Copied(l, k), l[k + 1]) /\ Kept(l, k + 1) = Kept(l, k)
           /\ ~l[k + 1].del =>
                Kept(l, k + 1) = Append(Kept(l, k), l[k + 1]) /\ Copied(l, k + 1) = Copied(l, k)
<1> DEFINE C == {i \in 1..k : l[i].del}
           K == {i \in 1..k : ~l[i].del}
<1>1. C \in SUBSET (1..k) /\ K \in SUBSET (1..k) /\ 1..(k + 1) = (1..k) \cup {k + 1}
  OBVIOUS
<1>2. /\ SL!Pick(l, C \cup {k + 1}) = Append(SL!Pick(l, C), l[k + 1])
      /\ SL!Pick(l, K \cup {k + 1}) = Append(SL!Pick(l, K), l[k + 1])
  BY <1>1, PickAppend DEF Kept, Copied
<1>3. CASE l[k + 1].del
  <2>1. {i \in 1..(k + 1) : l[i].del} = C \cup {k + 1} /\ {i \in 1..(k + 1) : ~l[i].del} = K
    BY <1>1, <1>3
  <2>2. QED
    BY <1>2, <1>3, <2>1 DEF Copied, Kept
<1>4. CASE ~l[k + 1].del
  <2>1. {i \in 1..(k + 1) : ~l[i].del} = K \cup {k + 1} /\ {i \in 1..(k + 1) : l[i].del} = C
    BY <1>1, <1>4
  <2>2. QED
    BY <1>2, <1>4, <2>1 DEF Copied, Kept
<1>5. QED
  BY <1>3, <1>4

LEMMA PickedNothing == \A l : Kept(l, 0) = <<>> /\ Copied(l, 0) = <<>>
<1>1. \A l : {i \in 1..0 : l[i].del} = {} /\ {i \in 1..0 : ~l[i].del} = {}
  OBVIOUS
<1>2. \A l : SL!Pick(l, {}) = <<>>
  BY PickIs, FS_EmptySet
<1>3. QED
  BY <1>1, <1>2 DEF Kept, Copied

\* If not, the least k for which they are no lists would have a k - 1 before it.
LEMMA PickedTypes ==
    ASSUME NEW l \in Seq(Content), NEW k \in 0..Len(l)
    PROVE  /\ Kept(l, k) \in Seq(Content) /\ Copied(l, k) \in Seq(Content)
           /\ Len(Kept(l, k)) \in Nat
<1> DEFINE Lists(i) == Kept(l, i) \in Seq(Content) /\ Copied(l, i) \in Seq(Content)
           Other == {i \in 0..Len(l) : ~Lists(i)}
<1>1. Other = {}
  <2>1. SUFFICES ASSUME Other # {} PROVE FALSE
    OBVIOUS
  <2>2. PICK i \in Other : \A j \in Other : i <= j
    <3>1. Other \in SUBSET Nat
      OBVIOUS
    <3>2. QED
      BY <2>1, <3>1, LeastExists
  <2>3. i \in 0..Len(l) /\ ~Lists(i)
    OBVIOUS
  <2>4. i # 0
    BY <2>3, PickedNothing, EmptySeq
  <2>5. i - 1 \in Nat /\ i - 1 < Len(l) /\ i - 1 \in 0..Len(l) /\ ~(i <= i - 1)
    BY <2>3, <2>4
  <2>6. PICK h : h = i - 1
    OBVIOUS
  <2>7. h \in Nat /\ h < Len(l) /\ h + 1 = i /\ Lists(h)
    BY <2>2, <2>3, <2>5, <2>6
  <2>8. l[h + 1] \in Content
    BY <2>7
  <2>9. Lists(h + 1)
    BY <2>7, <2>8, PickedOneMore, AppendProperties
  <2>10. QED
    BY <2>3, <2>7, <2>9
<1>2. QED
  BY <1>1

LEMMA PickedNext ==
    ASSUME NEW l \in Seq(Content), NEW k \in Nat, k < Len(l)
    PROVE  /\ l[k + 1].del =>
                Copied(l, k + 1) = Append(Copied(l, k), l[k + 1]) /\ Kept(l, k + 1) = Kept(l, k)
           /\ ~l[k + 1].del =>
                Kept(l, k + 1) = Append(Kept(l, k), l[k + 1]) /\ Copied(l, k + 1) = Copied(l, k)
BY PickedTypes, PickedOneMore

-----------------------------------------------------------------------------
(* The steps on linked nodes and the steps of ReadingList. *)

\* The list as ReadingList is to see it.
Done == {"by_id", "min_id", "by_time", "in_group", "min_time", "remove", "free", "ended"}
ListNow == IF pc \in Done THEN given ELSE Linked

LEMMA ListStays ==
    ASSUME out' = out, ListNow' = ListNow
    PROVE  [List!Next]_(List!vars)
BY DEF List!vars, ListNow, Done

LEMMA PathsAreLists == \A n, p : HeapTypes /\ IsPath(n, p) => Length = n /\ Linked = Contents(n, p)
BY PathIsList

LEMMA PathsAreListsNext ==
    (\A n, p : HeapTypes /\ IsPath(n, p) => Length = n /\ Linked = Contents(n, p))'
BY PathsAreLists, PTL

\* The types of what the calls hand on.
LocalTypes ==
    /\ count \in 0..Window
    /\ {fileBuf, given, out} \subseteq Seq(Content)
    /\ pc # "copy" => fileBuf = <<>>

LEMMA OnPathNext ==
    ASSUME LocalTypes', NEW n, NEW p, IsPath(n, p)', NEW M, M = Contents(n, p)', LoopInv(n, p, M)'
    PROVE  ListInv'
<1>1. LoopInv(n, p, Contents(n, p))'
  OBVIOUS
<1>2. n \in Nat /\ p \in [1..n -> alloc']
  BY DEF IsPath
<1>3. QED
  BY <1>1, <1>2 DEF ListInv, LocalTypes, OnPath

LEMMA OnPathNow ==
    ASSUME IInv, ListInv, pc \notin {"free", "ended"}
    PROVE  \E n, p, L : /\ IsPath(n, p) /\ L = Contents(n, p) /\ L = Linked /\ LoopInv(n, p, L)
                        /\ n \in Nat /\ L \in [1..n -> Content] /\ L \in Seq(Content)
                        /\ DOMAIN L = 1..n /\ Len(L) = n
<1>1. PICK n, p : IsPath(n, p) /\ LoopInv(n, p, Contents(n, p))
  BY DEF ListInv, OnPath
<1>2. PICK L : L = Contents(n, p)
  OBVIOUS
<1>3. LoopInv(n, p, L)
  BY <1>1, <1>2
<1>4. HeapTypes
  BY DEF IInv
<1>5. L = Linked
  BY <1>1, <1>2, <1>4, PathIsList
<1>6. n \in Nat /\ L \in [1..n -> Content]
  BY <1>1, <1>2, <1>4 DEF HeapTypes, IsPath, Contents
<1>7. L \in Seq(Content) /\ DOMAIN L = 1..n /\ Len(L) = n
  BY <1>6
<1>8. QED
  BY <1>1, <1>2, <1>3, <1>5, <1>6, <1>7

LEMMA PathStays ==
    ASSUME NEW n, NEW p, IsPath(n, p), SameShape
    PROVE  IsPath(n, p)' /\ (cell' = cell => Contents(n, p)' = Contents(n, p))
BY DEF IsPath, SameShape, Contents

\* Where the pointers lead.
LEMMA AtNode ==
    ASSUME HeapTypes, NEW n, NEW p, IsPath(n, p), NEW i \in 1..(n + 1)
    PROVE  /\ At(n, p, i) = NULL <=> i = n + 1
           /\ i # n + 1 => /\ i \in 1..n /\ At(n, p, i) = p[i] /\ p[i] \in alloc /\ p[i] \in Node
                           /\ p[i] # NULL
                           /\ next[p[i]] = At(n, p, i + 1) /\ cell[p[i]] = Contents(n, p)[i]
           /\ head = At(n, p, 1)
BY NodeListAssumption DEF IsPath, HeapTypes, At, Contents

\* What is in two nodes changes places.
LEMMA HeapSwap ==
    ASSUME HeapTypes, NEW n, NEW p, IsPath(n, p), NEW i \in 1..n, NEW j \in 1..n,
           Swap(p[i], p[j])
    PROVE  Contents(n, p)' = Swapped(Contents(n, p), i, j)
<1>1. /\ n \in Nat /\ p \in [1..n -> Node] /\ cell \in [Node -> Content]
      /\ \A x, y \in 1..n : p[x] = p[y] => x = y
  BY DEF IsPath, HeapTypes
<1>2. cell' = [cell EXCEPT ![p[i]] = cell[p[j]], ![p[j]] = cell[p[i]]]
  BY DEF Swap
<1>3. ASSUME NEW x \in 1..n PROVE cell'[p[x]] = Swapped(Contents(n, p), i, j)[x]
  BY <1>1, <1>2 DEF Swapped, Contents
<1>4. DOMAIN Swapped(Contents(n, p), i, j) = 1..n
  BY DEF Swapped, Contents
<1>5. Swapped(Contents(n, p), i, j) = [x \in 1..n |-> Swapped(Contents(n, p), i, j)[x]]
  BY <1>4 DEF Swapped, Contents
<1>6. QED
  BY <1>3, <1>5 DEF Contents

\* A step that neither moves a node nor writes to one.
LEMMA Unmoved ==
    ASSUME IInv, IInv', ListInv, SameShape, cell' = cell, pc \notin {"free", "ended"}, LocalTypes',
           \A n \in Nat : \A p : \A L \in [1..n -> Content] :
              /\ IsPath(n, p) /\ LoopInv(n, p, L)
              /\ L = Contents(n, p) /\ L = Linked /\ L \in Seq(Content)
              => LoopInv(n, p, L)'
    PROVE  ListInv' /\ Linked' = Linked
<1>1. PICK n, p, L : /\ IsPath(n, p) /\ L = Contents(n, p) /\ L = Linked /\ LoopInv(n, p, L)
                     /\ n \in Nat /\ L \in [1..n -> Content] /\ L \in Seq(Content)
                     /\ DOMAIN L = 1..n /\ Len(L) = n
  BY OnPathNow
<1>2. IsPath(n, p)' /\ L = Contents(n, p)'
  BY <1>1, PathStays
<1>3. Linked' = L
  BY <1>2, PathsAreListsNext DEF IInv
<1>4. LoopInv(n, p, L)'
  BY <1>1
<1>5. ListInv'
  BY <1>2, <1>4, OnPathNext
<1>6. QED
  BY <1>1, <1>3, <1>5

LEMMA ListTypes ==
    ASSUME ListInv
    PROVE  /\ LocalTypes /\ Window \in Nat \ {0}
BY NodeListAssumption DEF ListInv, LocalTypes

LEMMA SortRefines ==
    ASSUME IInv, IInv', ListInv, Sort
    PROVE  ListInv' /\ [List!Next]_(List!vars)
<1>1. /\ pc = "idle" /\ pc' = "by_id" /\ temp' = head /\ given' = Linked
      /\ SameShape /\ cell' = cell /\ UNCHANGED <<count, fileBuf, out>>
  BY DEF Sort, Goto, heap, SameShape
<1>2. LocalTypes'
  <2>1. Linked \in Seq(Content)
    BY <1>1, OnPathNow
  <2>2. QED
    BY <1>1, <2>1, ListTypes DEF LocalTypes
<1>3. ASSUME NEW n \in Nat, NEW p, NEW L \in [1..n -> Content], IsPath(n, p), L = Linked,
             L \in Seq(Content)
      PROVE  LoopInv(n, p, L)'
  <2>1. Reordered(given, L)'
    BY <1>1, <1>3, ReorderedSelf
  <2>2. 1 \in 1..(n + 1) /\ temp' = At(n, p, 1) /\ IdsTo(L, 1)
    BY <1>1, <1>3 DEF IsPath, IdsTo
  <2>3. ByIdInv(n, p, L)'
    BY <2>2 DEF ByIdInv
  <2>4. QED
    BY <1>1, <2>1, <2>3 DEF LoopInv
<1>4. ListInv' /\ Linked' = Linked
  BY <1>1, <1>2, <1>3, Unmoved
<1>5. QED
  BY <1>1, <1>4, ListStays DEF ListNow, Done

LEMMA ByIdRefines ==
    ASSUME IInv, IInv', ListInv, ById
    PROVE  ListInv' /\ [List!Next]_(List!vars)
<1>1. /\ pc = "by_id" /\ SameShape /\ cell' = cell /\ UNCHANGED <<count, fileBuf, given, out>>
      /\ pc' \in {"by_time", "min_id"}
  BY DEF ById, heap, SameShape
<1>2. LocalTypes'
  BY <1>1, ListTypes DEF LocalTypes
<1>3. ASSUME NEW n \in Nat, NEW p, NEW L \in [1..n -> Content], IsPath(n, p), LoopInv(n, p, L)
      PROVE  LoopInv(n, p, L)'
  <2>1. HeapTypes
    BY DEF IInv
  <2>2. Reordered(given, L) /\ ByIdInv(n, p, L)
    BY <1>1, <1>3 DEF LoopInv
  <2>3. PICK t \in 1..(n + 1) : temp = At(n, p, t) /\ IdsTo(L, t)
    BY <2>2 DEF ByIdInv
  <2>4. CASE temp = NULL
    <3>1. t = n + 1
      BY <1>3, <2>1, <2>3, <2>4, AtNode
    <3>2. IdsTo(L, n) /\ OrderTo(L, 1)
      BY <2>3, <3>1 DEF IdsTo, OrderTo
    <3>3. 1 \in 1..(n + 1) /\ temp' = At(n, p, 1)
      BY <1>3, <2>4 DEF ById, IsPath
    <3>4. ByTimeInv(n, p, L)'
      BY <3>2, <3>3 DEF ByTimeInv
    <3>5. pc' = "by_time"
      BY <2>4 DEF ById
    <3>6. QED
      BY <1>1, <2>2, <3>4, <3>5 DEF LoopInv
  <2>5. CASE temp # NULL
    <3>1. t \in 1..n /\ temp = p[t] /\ next[temp] = At(n, p, t + 1)
      BY <1>3, <2>1, <2>3, <2>5, AtNode
    <3>2. pc' = "min_id" /\ min' = p[t] /\ current' = At(n, p, t + 1) /\ temp' = p[t]
      BY <2>5, <3>1 DEF ById
    <3>3. t + 1 \in (t + 1)..(n + 1) /\ t \in t..(t + 1 - 1)
          /\ \A j \in t..(t + 1 - 1) : L[t].id <= L[j].id
      <4>1. L[t].id \in Nat
        BY <3>1, ContentFields
      <4>2. QED
        BY <3>1, <4>1
    <3>4. MinIdInv(n, p, L)'
      BY <2>3, <3>1, <3>2, <3>3 DEF MinIdInv
    <3>5. QED
      BY <1>1, <2>2, <3>2, <3>4 DEF LoopInv
  <2>6. QED
    BY <2>4, <2>5
<1>4. ListInv' /\ Linked' = Linked
  BY <1>1, <1>2, <1>3, Unmoved
<1>5. QED
  BY <1>1, <1>4, ListStays DEF ListNow, Done

LEMMA MinIdRefines ==
    ASSUME IInv, IInv', ListInv, MinId
    PROVE  ListInv' /\ [List!Next]_(List!vars)
<1>1. /\ pc = "min_id" /\ pc' = pc /\ SameShape /\ cell' = cell
      /\ UNCHANGED <<temp, count, fileBuf, given, out>> /\ current # NULL
      /\ min' = (IF cell[current].id < cell[min].id THEN current ELSE min)
      /\ current' = next[current]
  BY DEF MinId, heap, SameShape
<1>2. LocalTypes'
  BY <1>1, ListTypes DEF LocalTypes
<1>3. ASSUME NEW n \in Nat, NEW p, NEW L \in [1..n -> Content], IsPath(n, p), LoopInv(n, p, L),
             L = Contents(n, p)
      PROVE  LoopInv(n, p, L)'
  <2>1. HeapTypes
    BY DEF IInv
  <2>2. Reordered(given, L) /\ MinIdInv(n, p, L)
    BY <1>1, <1>3 DEF LoopInv
  <2>3. PICK t \in 1..n : \E c \in (t + 1)..(n + 1) : \E m \in t..(c - 1) :
        /\ temp = p[t] /\ current = At(n, p, c) /\ min = p[m]
        /\ IdsTo(L, t)
        /\ \A j \in t..(c - 1) : L[m].id <= L[j].id
    BY <2>2 DEF MinIdInv
  <2>4. PICK c \in (t + 1)..(n + 1) : \E m \in t..(c - 1) :
        /\ temp = p[t] /\ current = At(n, p, c) /\ min = p[m]
        /\ IdsTo(L, t)
        /\ \A j \in t..(c - 1) : L[m].id <= L[j].id
    BY <2>3
  <2>5. PICK m \in t..(c - 1) :
        /\ temp = p[t] /\ current = At(n, p, c) /\ min = p[m]
        /\ IdsTo(L, t)
        /\ \A j \in t..(c - 1) : L[m].id <= L[j].id
    BY <2>4
  <2>6. c \in 1..(n + 1) /\ m \in 1..(n + 1) /\ m # n + 1
    OBVIOUS
  <2>7. /\ c \in 1..n /\ current = p[c] /\ next[current] = At(n, p, c + 1)
        /\ cell[current] = L[c] /\ cell[min] = L[m]
    BY <1>1, <1>3, <2>1, <2>5, <2>6, AtNode
  <2>8. \A j \in 1..n : L[j].id \in Nat
    BY ContentFields
  <2>9. PICK k \in t..c : /\ min' = p[k]
                          /\ \A j \in t..c : L[k].id <= L[j].id
    <3>1. CASE L[c].id < L[m].id
      <4>1. min' = p[c]
        BY <1>1, <2>7, <3>1
      <4>2. \A j \in t..(c - 1) : L[m].id <= L[j].id
        BY <2>5
      <4>3. m \in 1..n /\ c \in 1..n /\ \A j \in t..(c - 1) : j \in 1..n
        BY <2>7
      <4>4. \A j \in t..(c - 1) : L[c].id <= L[j].id
        BY <2>8, <3>1, <4>2, <4>3
      <4>5. \A j \in t..c : j \in t..(c - 1) \/ j = c
        BY <2>7
      <4>6. L[c].id <= L[c].id /\ c \in t..c
        BY <2>8, <4>3
      <4>7. QED
        BY <4>1, <4>4, <4>5, <4>6
    <3>2. CASE ~ (L[c].id < L[m].id)
      <4>1. min' = p[m]
        BY <1>1, <2>5, <2>7, <3>2
      <4>2. \A j \in t..(c - 1) : L[m].id <= L[j].id
        BY <2>5
      <4>3. m \in 1..n /\ c \in 1..n /\ m \in t..c
        BY <2>7
      <4>4. L[m].id <= L[c].id
        BY <2>8, <3>2, <4>3
      <4>5. \A j \in t..c : j \in t..(c - 1) \/ j = c
        BY <2>7
      <4>6. QED
        BY <4>1, <4>2, <4>3, <4>4, <4>5
    <3>3. QED
      BY <3>1, <3>2
  <2>10. c + 1 \in (t + 1)..(n + 1) /\ c + 1 - 1 = c
    BY <2>7
  <2>11. MinIdInv(n, p, L)'
    BY <1>1, <2>5, <2>7, <2>9, <2>10 DEF MinIdInv
  <2>12. QED
    BY <1>1, <2>2, <2>11 DEF LoopInv
<1>4. ListInv' /\ Linked' = Linked
  BY <1>1, <1>2, <1>3, Unmoved
<1>5. QED
  BY <1>1, <1>4, ListStays DEF ListNow, Done

\* A step that writes to nodes and moves none.
LEMMA Rewritten ==
    ASSUME IInv, IInv', ListInv, SameShape, pc \notin {"free", "ended"}, LocalTypes',
           \A n \in Nat : \A p : \A L \in [1..n -> Content] :
              /\ IsPath(n, p) /\ LoopInv(n, p, L)
              /\ L = Contents(n, p) /\ L = Linked /\ L \in Seq(Content)
              => \E M : M = Contents(n, p)' /\ LoopInv(n, p, M)'
    PROVE  ListInv'
<1>1. PICK n, p, L : /\ IsPath(n, p) /\ L = Contents(n, p) /\ L = Linked /\ LoopInv(n, p, L)
                     /\ n \in Nat /\ L \in [1..n -> Content] /\ L \in Seq(Content)
                     /\ DOMAIN L = 1..n /\ Len(L) = n
  BY OnPathNow
<1>2. IsPath(n, p)'
  BY <1>1, PathStays
<1>3. PICK M : M = Contents(n, p)' /\ LoopInv(n, p, M)'
  BY <1>1
<1>4. QED
  BY <1>2, <1>3, OnPathNext

LEMMA SwapIdRefines ==
    ASSUME IInv, IInv', ListInv, SwapId
    PROVE  ListInv' /\ [List!Next]_(List!vars)
<1>1. /\ pc = "min_id" /\ pc' = "by_id" /\ SameShape /\ current = NULL
      /\ UNCHANGED <<count, fileBuf, given, out>>
      /\ Swap(temp, min) /\ temp' = next[temp]
  BY DEF SwapId, Goto, SameShape
<1>2. LocalTypes'
  BY <1>1, ListTypes DEF LocalTypes
<1>3. ASSUME NEW n \in Nat, NEW p, NEW L \in [1..n -> Content], IsPath(n, p), LoopInv(n, p, L),
             L = Contents(n, p)
      PROVE  \E M : M = Contents(n, p)' /\ LoopInv(n, p, M)'
  <2>1. HeapTypes
    BY DEF IInv
  <2>2. Reordered(given, L) /\ MinIdInv(n, p, L)
    BY <1>1, <1>3 DEF LoopInv
  <2>3. PICK t \in 1..n : \E c \in (t + 1)..(n + 1) : \E m \in t..(c - 1) :
        /\ temp = p[t] /\ current = At(n, p, c) /\ min = p[m]
        /\ IdsTo(L, t)
        /\ \A j \in t..(c - 1) : L[m].id <= L[j].id
    BY <2>2 DEF MinIdInv
  <2>4. PICK c \in (t + 1)..(n + 1) : \E m \in t..(c - 1) :
        /\ temp = p[t] /\ current = At(n, p, c) /\ min = p[m]
        /\ IdsTo(L, t)
        /\ \A j \in t..(c - 1) : L[m].id <= L[j].id
    BY <2>3
  <2>5. PICK m \in t..(c - 1) :
        /\ temp = p[t] /\ current = At(n, p, c) /\ min = p[m]
        /\ IdsTo(L, t)
        /\ \A j \in t..(c - 1) : L[m].id <= L[j].id
    BY <2>4
  <2>6. c \in 1..(n + 1) /\ t \in 1..(n + 1) /\ t # n + 1
    OBVIOUS
  <2>7. c = n + 1
    BY <1>1, <1>3, <2>1, <2>5, <2>6, AtNode
  <2>8. m \in t..n /\ m \in 1..n /\ \A j \in t..n : L[m].id <= L[j].id
    BY <2>5, <2>7
  <2>9. Contents(n, p)' = Swapped(L, t, m)
    BY <1>1, <1>3, <2>1, <2>5, <2>8, HeapSwap
  <2>10. IdsTo(Swapped(L, t, m), t + 1)
    BY <2>5, <2>8, SwapIds
  <2>11. Reordered(given, Swapped(L, t, m))
    <3>1. given \in Seq(Content) /\ DOMAIN L = 1..n
      BY ListTypes DEF LocalTypes
    <3>2. QED
      BY <2>2, <2>8, <3>1, ReorderedSwap
  <2>12. temp' = At(n, p, t + 1) /\ t + 1 \in 1..(n + 1)
    BY <1>1, <1>3, <2>1, <2>5, <2>6, AtNode
  <2>13. PICK M : M = Swapped(L, t, m)
    OBVIOUS
  <2>14. Reordered(given, M)' /\ ByIdInv(n, p, M)'
    BY <1>1, <2>10, <2>11, <2>12, <2>13 DEF ByIdInv
  <2>15. QED
    BY <1>1, <2>9, <2>13, <2>14 DEF LoopInv
<1>4. ListInv'
  BY <1>1, <1>2, <1>3, Rewritten
<1>5. QED
  BY <1>1, <1>4, ListStays DEF ListNow, Done

\* When no reading is left to be placed, the list is one that sorting may return.
LEMMA SortedIs ==
    ASSUME NEW l \in Seq(Content), NEW L, Reordered(l, L), OrderTo(L, Len(l) + 1)
    PROVE  L \in List!Sorted(l)
<1>1. PICK b \in [DOMAIN l -> DOMAIN l] :
        /\ \A i, j \in DOMAIN l : b[i] = b[j] => i = j
        /\ \A j \in DOMAIN l : \E i \in DOMAIN l : b[i] = j
        /\ L = [i \in DOMAIN l |-> l[b[i]]]
  BY Zenon DEF Reordered
<1>2. b \in List!Bijection(DOMAIN l, DOMAIN l)
  BY <1>1, Zenon DEF List!Bijection, List!Injection, List!Surjection, List!IsInjective
<1>3. List!Ordered(L)
  <2>1. DOMAIN L = 1..Len(l) /\ Len(l) \in Nat
    BY <1>1
  <2>2. ASSUME NEW i \in DOMAIN L, NEW j \in DOMAIN L, i < j PROVE List!InOrder(L[i], L[j])
    <3>1. i < Len(l) + 1
      BY <2>1
    <3>2. SL!InOrder(L[i], L[j])
      BY <2>2, <3>1 DEF OrderTo
    <3>3. QED
      BY <3>2 DEF SL!InOrder, List!InOrder
  <2>3. QED
    BY <2>2 DEF List!Ordered
<1>4. L \in {[i \in DOMAIN l |-> l[q[i]]] : q \in List!Bijection(DOMAIN l, DOMAIN l)}
  <2>1. \E q \in List!Bijection(DOMAIN l, DOMAIN l) : L = [i \in DOMAIN l |-> l[q[i]]]
    BY <1>1, <1>2, Zenon
  <2>2. QED
    BY <2>1
<1>5. QED
  BY <1>3, <1>4, Zenon DEF List!Sorted

LEMMA ByTimeRefines ==
    ASSUME IInv, IInv', ListInv, ByTime
    PROVE  ListInv' /\ [List!Next]_(List!vars)
<1>1. /\ pc = "by_time" /\ SameShape /\ cell' = cell /\ UNCHANGED <<count, fileBuf, given>>
      /\ pc' \in {"average", "in_group"}
      /\ temp = NULL => pc' = "average" /\ temp' = head /\ out' = <<>>
      /\ temp # NULL => pc' = "in_group" /\ temp' = temp /\ current' = temp /\ out' = out
  BY DEF ByTime, heap, SameShape
<1>2. LocalTypes'
  BY <1>1, ListTypes DEF LocalTypes
<1>3. ASSUME NEW n \in Nat, NEW p, NEW L \in [1..n -> Content], IsPath(n, p), LoopInv(n, p, L)
      PROVE  LoopInv(n, p, L)' /\ (temp = NULL => L \in List!Sorted(given))
  <2>1. HeapTypes /\ given \in Seq(Content)
    BY ListTypes DEF IInv, LocalTypes
  <2>2. Reordered(given, L) /\ ByTimeInv(n, p, L)
    BY <1>1, <1>3 DEF LoopInv
  <2>3. PICK t \in 1..(n + 1) : temp = At(n, p, t) /\ IdsTo(L, n) /\ OrderTo(L, t)
    BY <2>2 DEF ByTimeInv
  <2>4. CASE temp = NULL
    <3>1. t = n + 1
      BY <1>3, <2>1, <2>3, <2>4, AtNode
    <3>2. Len(given) = n
      <4>1. DOMAIN L = 1..n /\ DOMAIN L = 1..Len(given) /\ Len(given) \in Nat
        BY <2>1, <2>2, ReorderedTypes
      <4>2. QED
        BY <4>1
    <3>3. L \in List!Sorted(given)
      BY <2>1, <2>2, <2>3, <3>1, <3>2, SortedIs
    <3>4. OrderTo(L, n)
      BY <2>3, <3>1 DEF OrderTo
    <3>5. 1 \in 1..(n + 1) /\ temp' = At(n, p, 1) /\ GroupStart(L, 1)
      BY <1>1, <1>3, <2>4 DEF IsPath, GroupStart
    <3>6. AverageInv(n, p, L)'
      BY <3>4, <3>5 DEF AverageInv
    <3>7. QED
      BY <1>1, <2>4, <3>3, <3>6 DEF LoopInv
  <2>5. CASE temp # NULL
    <3>1. t \in 1..n /\ t \in t..(n + 1) /\ temp' = p[t] /\ current' = At(n, p, t)
      BY <1>1, <1>3, <2>1, <2>3, <2>5, AtNode
    <3>2. InGroupInv(n, p, L)'
      BY <2>3, <3>1 DEF InGroupInv
    <3>3. QED
      BY <1>1, <2>2, <2>5, <3>2 DEF LoopInv
  <2>6. QED
    BY <2>4, <2>5
<1>4. ListInv' /\ Linked' = Linked
  BY <1>1, <1>2, <1>3, Unmoved
<1>5. CASE temp # NULL
  BY <1>1, <1>4, <1>5, ListStays DEF ListNow, Done
<1>6. CASE temp = NULL
  <2>1. Linked \in List!Sorted(given)
    <3>1. PICK n, p, L : /\ IsPath(n, p) /\ L = Linked /\ LoopInv(n, p, L)
                         /\ n \in Nat /\ L \in [1..n -> Content]
      BY <1>1, OnPathNow
    <3>2. QED
      BY <1>3, <1>6, <3>1
  <2>2. List!SortReadings
    BY <1>1, <1>4, <1>6, <2>1 DEF List!SortReadings
  <2>3. QED
    BY <1>4, <2>2 DEF List!Next
<1>7. QED
  BY <1>5, <1>6

LEMMA InGroupRefines ==
    ASSUME IInv, IInv', ListInv, InGroup
    PROVE  ListInv' /\ [List!Next]_(List!vars)
<1>1. /\ pc = "in_group" /\ SameShape /\ cell' = cell /\ UNCHANGED <<count, fileBuf, given, out>>
      /\ pc' \in {"by_time", "min_time"}
      /\ SameId(current) => /\ pc' = "min_time" /\ min' = current /\ inner' = next[current]
                            /\ temp' = temp /\ current' = current
      /\ ~SameId(current) => pc' = "by_time" /\ temp' = current
  BY DEF InGroup, heap, SameShape
<1>2. LocalTypes'
  BY <1>1, ListTypes DEF LocalTypes
<1>3. ASSUME NEW n \in Nat, NEW p, NEW L \in [1..n -> Content], IsPath(n, p), LoopInv(n, p, L),
             L = Contents(n, p)
      PROVE  LoopInv(n, p, L)'
  <2>1. HeapTypes
    BY DEF IInv
  <2>2. Reordered(given, L) /\ InGroupInv(n, p, L)
    BY <1>1, <1>3 DEF LoopInv
  <2>3. PICK t \in 1..n : \E c \in t..(n + 1) :
        temp = p[t] /\ current = At(n, p, c) /\ IdsTo(L, n) /\ OrderTo(L, c)
    BY <2>2 DEF InGroupInv
  <2>4. PICK c \in t..(n + 1) :
        temp = p[t] /\ current = At(n, p, c) /\ IdsTo(L, n) /\ OrderTo(L, c)
    BY <2>3
  <2>5. c \in 1..(n + 1) /\ t \in 1..(n + 1) /\ t # n + 1
    OBVIOUS
  <2>6. CASE SameId(current)
    <3>1. c # n + 1 /\ cell[temp] = L[t]
      BY <1>3, <2>1, <2>4, <2>5, <2>6, AtNode DEF SameId
    <3>2. /\ c \in 1..n /\ current = p[c] /\ next[current] = At(n, p, c + 1)
          /\ cell[current] = L[c]
      BY <1>3, <2>1, <2>4, <2>5, <3>1, AtNode
    <3>3. L[c].id = L[t].id
      BY <2>6, <3>1, <3>2 DEF SameId
    <3>4. L[c].time \in Nat
      BY <3>2, ContentFields
    <3>5. /\ c \in t..n /\ c + 1 \in (c + 1)..(n + 1) /\ c \in c..(c + 1 - 1)
          /\ \A j \in c..(c + 1 - 1) : L[j].id = L[t].id /\ L[c].time <= L[j].time
      BY <3>2, <3>3, <3>4
    <3>6. temp' = p[t] /\ current' = p[c] /\ inner' = At(n, p, c + 1) /\ min' = p[c]
      BY <1>1, <2>4, <2>6, <3>2
    <3>7. MinTimeInv(n, p, L)'
      BY <2>4, <3>5, <3>6 DEF MinTimeInv
    <3>8. QED
      BY <1>1, <2>2, <2>6, <3>7 DEF LoopInv
  <2>7. CASE ~SameId(current)
    <3>1. ByTimeInv(n, p, L)'
      BY <1>1, <2>4, <2>5, <2>7 DEF ByTimeInv
    <3>2. QED
      BY <1>1, <2>2, <2>7, <3>1 DEF LoopInv
  <2>8. QED
    BY <2>6, <2>7
<1>4. ListInv' /\ Linked' = Linked
  BY <1>1, <1>2, <1>3, Unmoved
<1>5. QED
  BY <1>1, <1>4, ListStays DEF ListNow, Done

\* What is known while the least time of a group is looked for.
MinTimeAt(n, p, L, t, c, k, m) ==
    /\ t \in 1..n /\ c \in t..n /\ k \in (c + 1)..(n + 1) /\ m \in c..(k - 1)
    /\ temp = p[t] /\ current = p[c] /\ inner = At(n, p, k) /\ min = p[m]
    /\ IdsTo(L, n) /\ OrderTo(L, c)
    /\ \A j \in c..(k - 1) : L[j].id = L[t].id /\ L[m].time <= L[j].time

LEMMA MinTimePlaces ==
    ASSUME NEW n, NEW p, NEW L
    PROVE  MinTimeInv(n, p, L) <=> \E t, c, k, m : MinTimeAt(n, p, L, t, c, k, m)
BY DEF MinTimeInv, MinTimeAt

LEMMA MinTimeRefines ==
    ASSUME IInv, IInv', ListInv, MinTime
    PROVE  ListInv' /\ [List!Next]_(List!vars)
<1>1. /\ pc = "min_time" /\ pc' = pc /\ SameShape /\ cell' = cell
      /\ UNCHANGED <<temp, current, count, fileBuf, given, out>> /\ SameId(inner)
      /\ min' = (IF cell[inner].time < cell[min].time THEN inner ELSE min)
      /\ inner' = next[inner]
  BY DEF MinTime, heap, SameShape
<1>2. LocalTypes'
  BY <1>1, ListTypes DEF LocalTypes
<1>3. ASSUME NEW n \in Nat, NEW p, NEW L \in [1..n -> Content], IsPath(n, p), LoopInv(n, p, L),
             L = Contents(n, p)
      PROVE  LoopInv(n, p, L)'
  <2>1. HeapTypes
    BY DEF IInv
  <2>2. Reordered(given, L) /\ MinTimeInv(n, p, L)
    BY <1>1, <1>3 DEF LoopInv
  <2>3. PICK t, c, k, m : MinTimeAt(n, p, L, t, c, k, m)
    BY <2>2, MinTimePlaces
  <2>4. /\ t \in 1..n /\ c \in t..n /\ k \in (c + 1)..(n + 1) /\ m \in c..(k - 1)
        /\ temp = p[t] /\ current = p[c] /\ inner = At(n, p, k) /\ min = p[m]
        /\ IdsTo(L, n) /\ OrderTo(L, c)
        /\ \A j \in c..(k - 1) : L[j].id = L[t].id /\ L[m].time <= L[j].time
    BY <2>3 DEF MinTimeAt
  <2>5. /\ k \in 1..(n + 1) /\ m \in 1..(n + 1) /\ m # n + 1 /\ t \in 1..(n + 1) /\ t # n + 1
    BY <2>4
  <2>6. /\ k # n + 1 /\ cell[temp] = L[t] /\ cell[min] = L[m]
    BY <1>1, <1>3, <2>1, <2>4, <2>5, AtNode DEF SameId
  <2>7. /\ k \in 1..n /\ inner = p[k] /\ next[inner] = At(n, p, k + 1) /\ cell[inner] = L[k]
    BY <1>3, <2>1, <2>4, <2>5, <2>6, AtNode
  <2>8. L[k].id = L[t].id
    BY <1>1, <2>6, <2>7 DEF SameId
  <2>9. \A j \in 1..n : L[j].time \in Nat
    BY ContentFields
  <2>10. \A j \in c..k : j \in c..(k - 1) \/ j = k
    BY <2>4
  <2>11. PICK i \in c..k : min' = p[i] /\ \A j \in c..k : L[i].time <= L[j].time
    <3>1. CASE L[k].time < L[m].time
      <4>1. min' = p[k]
        BY <1>1, <2>6, <2>7, <3>1
      <4>2. ASSUME NEW j \in c..k PROVE L[k].time <= L[j].time
        BY <2>4, <2>5, <2>7, <2>9, <2>10, <3>1
      <4>3. QED
        BY <2>4, <4>1, <4>2
    <3>2. CASE ~ (L[k].time < L[m].time)
      <4>1. min' = p[m]
        BY <1>1, <2>4, <2>6, <2>7, <3>2
      <4>2. ASSUME NEW j \in c..k PROVE L[m].time <= L[j].time
        BY <2>4, <2>5, <2>7, <2>9, <2>10, <3>2
      <4>3. QED
        BY <2>4, <4>1, <4>2
    <3>3. QED
      BY <3>1, <3>2
  <2>12. k + 1 \in (c + 1)..(n + 1) /\ k + 1 - 1 = k
    BY <2>4, <2>7
  <2>13. \A j \in c..k : L[j].id = L[t].id /\ L[i].time <= L[j].time
    BY <2>4, <2>8, <2>10, <2>11
  <2>14. MinTimeAt(n, p, L, t, c, k + 1, i)'
    BY <1>1, <2>4, <2>7, <2>11, <2>12, <2>13 DEF MinTimeAt
  <2>15. MinTimeInv(n, p, L)'
    BY <2>14 DEF MinTimeInv, MinTimeAt
  <2>16. QED
    BY <1>1, <2>2, <2>15 DEF LoopInv
<1>4. ListInv' /\ Linked' = Linked
  BY <1>1, <1>2, <1>3, Unmoved
<1>5. QED
  BY <1>1, <1>4, ListStays DEF ListNow, Done

LEMMA SwapTimeRefines ==
    ASSUME IInv, IInv', ListInv, SwapTime
    PROVE  ListInv' /\ [List!Next]_(List!vars)
<1>1. /\ pc = "min_time" /\ pc' = "in_group" /\ SameShape /\ ~SameId(inner)
      /\ UNCHANGED <<temp, count, fileBuf, given, out>>
      /\ Swap(current, min) /\ current' = next[current]
  BY DEF SwapTime, Goto, SameShape
<1>2. LocalTypes'
  BY <1>1, ListTypes DEF LocalTypes
<1>3. ASSUME NEW n \in Nat, NEW p, NEW L \in [1..n -> Content], IsPath(n, p), LoopInv(n, p, L),
             L = Contents(n, p)
      PROVE  \E M : M = Contents(n, p)' /\ LoopInv(n, p, M)'
  <2>1. HeapTypes
    BY DEF IInv
  <2>2. Reordered(given, L) /\ MinTimeInv(n, p, L)
    BY <1>1, <1>3 DEF LoopInv
  <2>3. PICK t, c, k, m : MinTimeAt(n, p, L, t, c, k, m)
    BY <2>2, MinTimePlaces
  <2>4. /\ t \in 1..n /\ c \in t..n /\ k \in (c + 1)..(n + 1) /\ m \in c..(k - 1)
        /\ temp = p[t] /\ current = p[c] /\ inner = At(n, p, k) /\ min = p[m]
        /\ IdsTo(L, n) /\ OrderTo(L, c)
        /\ \A j \in c..(k - 1) : L[j].id = L[t].id /\ L[m].time <= L[j].time
    BY <2>3 DEF MinTimeAt
  <2>5. /\ k \in 1..(n + 1) /\ c \in 1..n /\ m \in 1..n /\ m \in c..n /\ c \in c..(k - 1)
        /\ c \in 1..(n + 1) /\ c # n + 1 /\ t \in 1..(n + 1) /\ t # n + 1
    BY <2>4
  <2>6. \A j \in 1..n : L[j].id \in Nat /\ L[j].time \in Nat
    BY ContentFields
  <2>7. ASSUME k # n + 1 PROVE k \in 1..n /\ L[k].id # L[t].id
    <3>1. k \in 1..n /\ inner = p[k] /\ inner # NULL /\ cell[inner] = L[k]
      BY <1>3, <2>1, <2>4, <2>5, <2>7, AtNode
    <3>2. cell[temp] = L[t]
      BY <1>3, <2>1, <2>4, <2>5, AtNode
    <3>3. QED
      BY <1>1, <3>1, <3>2 DEF SameId
  \* What is behind the group has a greater ID.
  <2>8. ASSUME NEW j \in c..n PROVE SL!InOrder(L[m], L[j])
    <3>1. L[m].id = L[t].id
      BY <2>4
    <3>2. CASE j < k
      <4>1. j \in c..(k - 1)
        BY <2>4, <3>2
      <4>2. QED
        BY <2>4, <3>1, <4>1 DEF SL!InOrder
    <3>3. CASE ~ (j < k)
      <4>1. k \in 1..n /\ L[k].id # L[t].id
        BY <2>4, <2>5, <2>7, <3>3
      <4>2. m < k /\ m < n
        BY <2>4, <4>1
      <4>3. L[m].id <= L[k].id
        BY <2>4, <2>5, <4>1, <4>2 DEF IdsTo
      <4>4. L[k].id <= L[j].id
        <5>1. CASE j = k
          BY <2>6, <4>1, <5>1
        <5>2. CASE j # k
          <6>1. k < j /\ k < n /\ j \in 1..n
            BY <2>4, <3>3, <4>1, <5>2
          <6>2. QED
            BY <2>4, <4>1, <6>1 DEF IdsTo
        <5>3. QED
          BY <5>1, <5>2
      <4>5. j \in 1..n
        BY <2>4
      <4>6. L[m].id < L[j].id
        BY <2>5, <2>6, <3>1, <4>1, <4>3, <4>4, <4>5
      <4>7. QED
        BY <4>6 DEF SL!InOrder
    <3>4. QED
      BY <3>2, <3>3
  <2>9. L[m].id = L[c].id
    BY <2>4, <2>5
  <2>10. IdsTo(Swapped(L, c, m), n) /\ OrderTo(Swapped(L, c, m), c + 1)
    BY <2>4, <2>5, <2>8, <2>9, SwapOrder
  <2>11. Contents(n, p)' = Swapped(L, c, m)
    BY <1>1, <1>3, <2>1, <2>4, <2>5, HeapSwap
  <2>12. Reordered(given, Swapped(L, c, m))
    <3>1. given \in Seq(Content) /\ DOMAIN L = 1..n
      BY ListTypes DEF LocalTypes
    <3>2. QED
      BY <2>2, <2>5, <3>1, ReorderedSwap
  <2>13. current' = At(n, p, c + 1) /\ c + 1 \in t..(n + 1) /\ temp' = p[t]
    BY <1>1, <1>3, <2>1, <2>4, <2>5, AtNode
  <2>14. PICK M : M = Swapped(L, c, m)
    OBVIOUS
  <2>15. Reordered(given, M)' /\ InGroupInv(n, p, M)'
    BY <1>1, <2>4, <2>10, <2>12, <2>13, <2>14 DEF InGroupInv
  <2>16. QED
    BY <1>1, <2>11, <2>14, <2>15 DEF LoopInv
<1>4. ListInv'
  BY <1>1, <1>2, <1>3, Rewritten
<1>5. QED
  BY <1>1, <1>4, ListStays DEF ListNow, Done

-----------------------------------------------------------------------------
(* Averaging. *)

\* The readings summed up are those from the first of the group on.
LEMMA FirstWindowIs ==
    ASSUME HeapTypes, NEW n, NEW p, IsPath(n, p), NEW L, L = Contents(n, p), L \in Seq(Content),
           Len(L) = n, NEW t \in 1..n, t + Window - 1 <= n
    PROVE  FirstWindow(p[t]) = SubSeq(L, t, t + Window - 1)
<1> DEFINE f == [i \in 1..Window |-> p[t + i - 1]]
           Follow(g) == [i \in 1..Window |-> IF i = 1 THEN p[t] ELSE next[g[i - 1]]]
<1>1. Window \in Nat \ {0} /\ n \in Nat
  BY NodeListAssumption DEF IsPath
<1>2. ASSUME NEW i \in 1..Window
      PROVE  f[i] = IF i = 1 THEN p[t] ELSE next[f[i - 1]]
  <2>1. CASE i = 1
    BY <1>1, <2>1
  <2>2. CASE i # 1
    <3>1. i - 1 \in 1..Window /\ t + i - 2 \in 1..n /\ t + i - 2 + 1 <= n /\ t + i - 2 + 1 = t + i - 1
      BY <1>1, <2>2
    <3>2. f[i - 1] = p[t + i - 2]
      BY <3>1
    <3>3. next[p[t + i - 2]] = At(n, p, t + i - 2 + 1)
      BY <3>1 DEF IsPath
    <3>4. next[p[t + i - 2]] = p[t + i - 1]
      BY <3>1, <3>3 DEF At
    <3>5. QED
      BY <2>2, <3>2, <3>4
  <2>3. QED
    BY <2>1, <2>2
<1>3. f = Follow(f)
  <2> HIDE DEF f
  <2>1. f = [i \in 1..Window |-> f[i]]
    BY DEF f
  <2>2. QED
    BY <1>2, <2>1
<1>4. PICK g : g = Follow(g) /\ FirstWindow(p[t]) = [i \in 1..Window |-> cell[g[i]]]
  <2> HIDE DEF f
  <2>1. QED
    BY <1>3, Zenon DEF FirstWindow
<1>5. \A i \in 1..Window : g[i] = f[i]
  <2> DEFINE Other == {i \in 1..Window : g[i] # f[i]}
  <2>1. SUFFICES ASSUME Other # {} PROVE FALSE
    OBVIOUS
  <2>2. PICK i \in Other : \A j \in Other : i <= j
    <3>1. Other \in SUBSET Nat
      OBVIOUS
    <3>2. QED
      BY <2>1, <3>1, LeastExists
  <2> HIDE DEF f
  <2>3. g[i] = IF i = 1 THEN p[t] ELSE next[g[i - 1]]
    BY <1>4
  <2>4. i # 1 => i - 1 \in 1..Window /\ i - 1 \notin Other
    BY <1>1, <2>2
  <2>5. i # 1 => g[i - 1] = f[i - 1]
    BY <2>4
  <2>6. QED
    BY <1>2, <2>3, <2>5
<1>6. ASSUME NEW i \in 1..Window PROVE cell[g[i]] = L[t + i - 1]
  <2>1. t + i - 1 \in 1..n /\ f[i] = p[t + i - 1]
    BY <1>1
  <2>2. QED
    BY <1>5, <2>1 DEF Contents
<1>7. SubSeq(L, t, t + Window - 1) = [i \in 1..Window |-> L[t + i - 1]]
  <2>1. t \in 1..Len(L) /\ t + Window - 1 \in t..Len(L) /\ t + Window - 1 - t + 1 = Window
    BY <1>1
  <2>2. PICK s, z : z = t + Window - 1 /\ s = SubSeq(L, t, z)
    OBVIOUS
  <2>3. /\ t \in Int /\ z \in Int /\ t <= z /\ z - t + 1 = Window
        /\ \A i \in t..z : L[i] \in Content
    BY <1>1, <2>1, <2>2
  <2>4. /\ s \in Seq(Content) /\ Len(s) = Window
        /\ \A i \in 1..Window : s[i] = L[t + i - 1]
    BY <2>2, <2>3, SubSeqProperties
  <2>5. s = [i \in 1..Window |-> s[i]] /\ \A i \in 1..Window : s[i] = L[t + i - 1]
    BY <2>4
  <2>6. QED
    BY <2>2, <2>5
<1>8. QED
  BY <1>4, <1>6, <1>7

LEMMA SizesAgree == \A S : List!Cardinality(S) = Cardinality(S)
BY DEF List!Cardinality, Cardinality

\* A group counted up to the window has a window.
LEMMA WindowCounted ==
    ASSUME NEW L \in Seq(Content), NEW t \in 1..Len(L), NEW c \in t..(Len(L) + 1),
           InOneGroup(L, t, c), c - t >= Window
    PROVE  List!HasWindow(L, t)
<1>1. /\ Len(L) \in Nat /\ t \in Nat /\ c \in Nat /\ c - 1 \in Int /\ t \in Int
      /\ Window \in Nat \ {0}
  BY NodeListAssumption
<1>2. List!Group(L, t) \in SUBSET (t..Len(L))
  BY DEF List!Group
<1>3. IsFiniteSet(List!Group(L, t))
  <2>1. IsFiniteSet(t..Len(L))
    BY <1>1, FS_Interval
  <2>2. QED
    BY <1>2, <2>1, FS_Subset
<1>4. t..(c - 1) \in SUBSET List!Group(L, t)
  BY <1>1 DEF List!Group, InOneGroup
<1>5. Cardinality(t..(c - 1)) = c - t
  <2>1. Cardinality(t..(c - 1)) = IF t > c - 1 THEN 0 ELSE (c - 1) - t + 1
    BY <1>1, FS_Interval
  <2>2. QED
    BY <1>1, <2>1
<1>6. Cardinality(t..(c - 1)) <= Cardinality(List!Group(L, t)) /\ Cardinality(List!Group(L, t)) \in Nat
  BY <1>3, <1>4, FS_Subset, FS_CardinalityType
<1>7. Cardinality(List!Group(L, t)) >= Window
  BY <1>1, <1>5, <1>6
<1>8. QED
  BY <1>7, SizesAgree DEF List!HasWindow

LEMMA AverageRefines ==
    ASSUME IInv, IInv', ListInv, Average
    PROVE  ListInv' /\ [List!Next]_(List!vars)
<1>1. /\ pc = "average" /\ SameShape /\ cell' = cell /\ UNCHANGED <<temp, fileBuf, given, out>>
      /\ count' = 0 /\ pc' \in {"idle", "count"}
      /\ temp = NULL => pc' = "idle"
      /\ temp # NULL => pc' = "count" /\ current' = temp
  BY DEF Average, heap, SameShape
<1>2. LocalTypes'
  BY <1>1, ListTypes DEF LocalTypes
<1>3. ASSUME NEW n \in Nat, NEW p, NEW L \in [1..n -> Content], IsPath(n, p), LoopInv(n, p, L)
      PROVE  LoopInv(n, p, L)'
  <2>1. HeapTypes /\ Window \in Nat \ {0}
    BY ListTypes DEF IInv
  <2>2. PICK t \in 1..(n + 1) : temp = At(n, p, t) /\ OrderTo(L, n) /\ GroupStart(L, t)
    BY <1>1, <1>3 DEF LoopInv, AverageInv
  <2>3. CASE temp = NULL
    BY <1>1, <2>3 DEF LoopInv
  <2>4. CASE temp # NULL
    <3>1. t \in 1..n /\ temp = p[t] /\ t \in t..(n + 1)
      BY <1>3, <2>1, <2>2, <2>4, AtNode
    <3>2. InOneGroup(L, t, t) /\ count' = IF t - t < Window THEN t - t ELSE Window
      BY <1>1, <2>1, <3>1 DEF InOneGroup
    <3>3. temp' = p[t] /\ current' = At(n, p, t)
      BY <1>1, <2>2, <2>4, <3>1
    <3>4. CountInv(n, p, L)'
      BY <2>2, <3>1, <3>2, <3>3 DEF CountInv
    <3>5. QED
      BY <1>1, <2>4, <3>4 DEF LoopInv
  <2>5. QED
    BY <2>3, <2>4
<1>4. ListInv' /\ Linked' = Linked
  BY <1>1, <1>2, <1>3, Unmoved
<1>5. QED
  BY <1>1, <1>4, ListStays DEF ListNow, Done

\* What is known while a group is counted.
CountAt(n, p, L, t, c) ==
    /\ t \in 1..n /\ c \in t..(n + 1)
    /\ temp = p[t] /\ current = At(n, p, c)
    /\ OrderTo(L, n) /\ GroupStart(L, t) /\ InOneGroup(L, t, c)
    /\ count = IF c - t < Window THEN c - t ELSE Window

LEMMA CountReadingRefines ==
    ASSUME IInv, IInv', ListInv, CountReading
    PROVE  ListInv' /\ [List!Next]_(List!vars)
<1>1. /\ pc = "count" /\ pc' = pc /\ SameShape /\ cell' = cell /\ UNCHANGED <<temp, fileBuf, given, out>>
      /\ SameId(current) /\ count' = (IF count < Window THEN count + 1 ELSE count)
      /\ current' = next[current]
  BY DEF CountReading, heap, SameShape
<1>2. LocalTypes'
  <2>1. count' \in 0..Window
    BY <1>1, ListTypes DEF LocalTypes
  <2>2. QED
    BY <1>1, <2>1, ListTypes DEF LocalTypes
<1>3. ASSUME NEW n \in Nat, NEW p, NEW L \in [1..n -> Content], IsPath(n, p), LoopInv(n, p, L),
             L = Contents(n, p)
      PROVE  LoopInv(n, p, L)'
  <2>1. HeapTypes /\ Window \in Nat \ {0}
    BY ListTypes DEF IInv
  <2>2. PICK t, c : CountAt(n, p, L, t, c)
    BY <1>1, <1>3 DEF LoopInv, CountInv, CountAt
  <2>3. /\ t \in 1..n /\ c \in t..(n + 1)
        /\ temp = p[t] /\ current = At(n, p, c)
        /\ OrderTo(L, n) /\ GroupStart(L, t) /\ InOneGroup(L, t, c)
        /\ count = IF c - t < Window THEN c - t ELSE Window
    BY <2>2 DEF CountAt
  <2>4. c \in 1..(n + 1) /\ t \in 1..(n + 1) /\ t # n + 1
    BY <2>3
  <2>5. c # n + 1 /\ cell[temp] = L[t]
    BY <1>1, <1>3, <2>1, <2>3, <2>4, AtNode DEF SameId
  <2>6. c \in 1..n /\ next[current] = At(n, p, c + 1) /\ cell[current] = L[c]
    BY <1>3, <2>1, <2>3, <2>4, <2>5, AtNode
  <2>7. L[c].id = L[t].id
    BY <1>1, <2>5, <2>6 DEF SameId
  <2>8. InOneGroup(L, t, c + 1)
    <3>1. ASSUME NEW j \in t..((c + 1) - 1) PROVE L[j].id = L[t].id
      <4>1. j \in t..(c - 1) \/ j = c
        BY <2>3
      <4>2. QED
        BY <2>3, <2>7, <4>1 DEF InOneGroup
    <3>2. QED
      BY <3>1 DEF InOneGroup
  <2>9. count' = IF c + 1 - t < Window THEN c + 1 - t ELSE Window
    BY <1>1, <2>1, <2>3
  <2>10. c + 1 \in t..(n + 1)
    BY <2>3, <2>6
  <2>11. CountInv(n, p, L)'
    BY <1>1, <2>3, <2>6, <2>8, <2>9, <2>10 DEF CountInv
  <2>12. QED
    BY <1>1, <2>11 DEF LoopInv
<1>4. ListInv' /\ Linked' = Linked
  BY <1>1, <1>2, <1>3, Unmoved
<1>5. QED
  BY <1>1, <1>4, ListStays DEF ListNow, Done

LEMMA EndGroupRefines ==
    ASSUME IInv, IInv', ListInv, EndGroup
    PROVE  ListInv' /\ [List!Next]_(List!vars)
<1>1. /\ pc = "count" /\ pc' = "average" /\ SameShape /\ ~SameId(current)
      /\ temp' = current /\ UNCHANGED <<count, fileBuf, given>>
      /\ count = Window => out' = FirstWindow(temp) /\ cell' = [cell EXCEPT ![temp].del = TRUE]
      /\ count # Window => out' = out /\ cell' = cell
  BY DEF EndGroup, Goto, SameShape
<1>2. PICK n, p, L : /\ IsPath(n, p) /\ L = Contents(n, p) /\ L = Linked /\ LoopInv(n, p, L)
                     /\ n \in Nat /\ L \in [1..n -> Content] /\ L \in Seq(Content)
                     /\ DOMAIN L = 1..n /\ Len(L) = n
  BY <1>1, OnPathNow
<1>3. HeapTypes /\ Window \in Nat \ {0} /\ IsPath(n, p)'
  BY <1>2, ListTypes, PathStays, <1>1 DEF IInv
<1>4. PICK t, c : CountAt(n, p, L, t, c)
  BY <1>1, <1>2 DEF LoopInv, CountInv, CountAt
<1>5. /\ t \in 1..n /\ c \in t..(n + 1)
      /\ temp = p[t] /\ current = At(n, p, c)
      /\ OrderTo(L, n) /\ GroupStart(L, t) /\ InOneGroup(L, t, c)
      /\ count = IF c - t < Window THEN c - t ELSE Window
  BY <1>4 DEF CountAt
<1>6. /\ c \in 1..(n + 1) /\ t \in 1..(n + 1) /\ t # n + 1
  BY <1>2, <1>5
<1>7. temp \in Node /\ cell[temp] = L[t] /\ (c # n + 1 => current # NULL /\ cell[current] = L[c])
  <2>1. IsPath(n, p) /\ L = Contents(n, p)
    BY <1>2
  <2>2. p[t] \in Node /\ cell[p[t]] = L[t]
    BY <1>3, <1>6, <2>1, AtNode
  <2>3. c # n + 1 => At(n, p, c) # NULL /\ cell[At(n, p, c)] = L[c]
    BY <1>3, <1>6, <2>1, AtNode
  <2>4. QED
    BY <1>5, <2>2, <2>3
\* The next group begins at c.
<1>8. GroupStart(L, c)
  <2>1. CASE c = n + 1
    BY <1>2, <2>1 DEF GroupStart
  <2>2. CASE c # n + 1
    <3>1. L[c].id # L[t].id
      BY <1>1, <1>7, <2>2 DEF SameId
    <3>2. c - 1 \in t..(c - 1)
      BY <1>5, <3>1
    <3>3. QED
      BY <1>5, <3>1, <3>2 DEF GroupStart, InOneGroup
  <2>3. QED
    BY <2>1, <2>2
<1>9. CASE count # Window
  <2>1. LocalTypes' /\ L = Contents(n, p)'
    BY <1>1, <1>2, <1>9, ListTypes, PathStays DEF LocalTypes
  <2>2. AverageInv(n, p, L)'
    BY <1>1, <1>5, <1>6, <1>8 DEF AverageInv
  <2>3. LoopInv(n, p, L)'
    BY <1>1, <2>2 DEF LoopInv
  <2>4. ListInv'
    BY <1>3, <2>1, <2>3, OnPathNext
  <2>5. Linked' = Linked
    BY <1>2, <1>3, <2>1, PathsAreListsNext DEF IInv
  <2>6. QED
    BY <1>1, <1>9, <2>4, <2>5, ListStays DEF ListNow, Done
<1>10. CASE count = Window
  <2>1. PICK M : M = [L EXCEPT ![t].del = TRUE]
    OBVIOUS
  <2>2. /\ c - t >= Window /\ t + Window - 1 \in t..n /\ t + Window - 1 <= n
    <3>1. n \in Nat /\ Window \in Nat \ {0} /\ t \in Nat /\ c \in Nat
      BY <1>2, <1>3, <1>5
    <3>2. c - t >= Window /\ t >= 1 /\ c <= n + 1
      BY <1>2, <1>5, <1>10, <3>1
    <3>3. QED
      BY <3>1, <3>2
  <2>3. out' = SubSeq(L, t, t + Window - 1)
    <3>1. /\ HeapTypes /\ IsPath(n, p) /\ L = Contents(n, p) /\ L \in Seq(Content)
          /\ Len(L) = n /\ t \in 1..n /\ t + Window - 1 <= n
      BY <1>2, <1>3, <1>5, <2>2
    <3>2. FirstWindow(p[t]) = SubSeq(L, t, t + Window - 1)
      BY <3>1, FirstWindowIs
    <3>3. QED
      BY <1>1, <1>5, <1>10, <3>2
  <2>4. out' \in Seq(Content)
    BY <1>2, <1>5, <2>2, <2>3
  <2>5. LocalTypes'
    BY <1>1, <2>4, ListTypes DEF LocalTypes
  <2>6. /\ DOMAIN M = 1..n
        /\ \A j \in 1..n : M[j].id = L[j].id /\ M[j].time = L[j].time
    BY <1>2, <1>5, <2>1 DEF Content
  <2>7. M = Contents(n, p)'
    <3>1. cell' = [cell EXCEPT ![p[t]] = [cell[p[t]] EXCEPT !.del = TRUE]]
      BY <1>1, <1>5, <1>10
    <3>2. cell \in [Node -> Content] /\ p \in [1..n -> Node] /\ cell[p[t]] = L[t]
      BY <1>2, <1>3, <1>5, <1>7 DEF HeapTypes, IsPath
    <3>3. \A j \in 1..n : j # t => p[j] # p[t]
      BY <1>2, <1>5 DEF IsPath
    <3>4. ASSUME NEW j \in 1..n PROVE cell'[p[j]] = M[j]
      <4>1. CASE j = t
        BY <1>2, <1>5, <2>1, <3>1, <3>2, <4>1
      <4>2. CASE j # t
        <5>1. cell'[p[j]] = cell[p[j]]
          BY <3>1, <3>2, <3>3, <4>2
        <5>2. M[j] = L[j]
          BY <1>2, <2>1, <4>2
        <5>3. QED
          BY <1>2, <5>1, <5>2 DEF Contents
      <4>3. QED
        BY <4>1, <4>2
    <3>5. M = [j \in 1..n |-> M[j]]
      BY <1>2, <2>1
    <3>6. QED
      BY <3>4, <3>5 DEF Contents
  <2>8. OrderTo(M, n)
    BY <1>2, <1>5, <2>6 DEF OrderTo, SL!InOrder
  <2>9. GroupStart(M, c)
    <3>1. M \in Seq(Content) /\ Len(M) = n
      <4>1. [L[t] EXCEPT !.del = TRUE] \in Content
        BY <1>2, <1>5 DEF Content
      <4>2. M \in [1..n -> Content]
        BY <1>2, <1>5, <2>1, <4>1
      <4>3. QED
        BY <1>2, <4>2
    <3>2. QED
      BY <1>2, <1>6, <1>8, <2>6, <3>1 DEF GroupStart
  <2>10. AverageInv(n, p, M)'
    BY <1>1, <1>5, <1>6, <2>8, <2>9 DEF AverageInv
  <2>11. LoopInv(n, p, M)'
    BY <1>1, <2>10 DEF LoopInv
  <2>12. ListInv'
    BY <1>3, <2>5, <2>7, <2>11, OnPathNext
  <2>13. Linked' = M
    BY <1>3, <2>7, PathsAreListsNext DEF IInv
  <2>14. List!Ordered(L)
    <3>1. ASSUME NEW i \in DOMAIN L, NEW j \in DOMAIN L, i < j PROVE List!InOrder(L[i], L[j])
      <4>1. i < n
        BY <1>2, <3>1
      <4>2. SL!InOrder(L[i], L[j])
        BY <1>5, <3>1, <4>1 DEF OrderTo
      <4>3. QED
        BY <4>2 DEF SL!InOrder, List!InOrder
    <3>2. QED
      BY <3>1 DEF List!Ordered
  <2>15. List!HasWindow(L, t)
    BY <1>2, <1>5, <2>2, WindowCounted
  <2>16. List!AverageGroup(t)
    <3>1. pc \notin Done /\ pc' \notin Done
      BY <1>1 DEF Done
    <3>2. 1 < t => L[t - 1].id # L[t].id
      BY <1>2, <1>5 DEF GroupStart
    <3>3. out' = List!WindowAt(L, t)
      BY <2>3 DEF List!WindowAt
    <3>4. M = List!Mark(L, t)
      BY <2>1 DEF List!Mark
    <3>5. QED
      BY <1>2, <2>13, <2>14, <2>15, <3>1, <3>2, <3>3, <3>4 DEF List!AverageGroup, Done
  <2>17. \E q \in 1..Len(IF pc \in {"by_id", "min_id", "by_time", "in_group", "min_time", "remove", "free", "ended"}
            THEN given ELSE Linked) : List!AverageGroup(q)
    BY <1>1, <1>2, <1>5, <2>16
  <2>18. QED
    BY <2>12, <2>17 DEF List!Next
<1>11. QED
  BY <1>9, <1>10

-----------------------------------------------------------------------------
(* Saving. *)

LEMMA SaveRefines ==
    ASSUME IInv, IInv', ListInv, NEW id \in Id, NEW time \in Time, Save(id, time)
    PROVE  ListInv' /\ [List!Next]_(List!vars)
<1>1. /\ pc = "idle" /\ pc' = pc /\ out' = <<>> /\ UNCHANGED <<count, fileBuf, given>>
  BY DEF Save, locals
<1>2. PICK n, p, L : /\ IsPath(n, p) /\ L = Contents(n, p) /\ L = Linked /\ LoopInv(n, p, L)
                     /\ n \in Nat /\ L \in [1..n -> Content] /\ L \in Seq(Content)
                     /\ DOMAIN L = 1..n /\ Len(L) = n
  BY <1>1, OnPathNow
<1>3. PICK r : r = [id |-> id, time |-> time, del |-> FALSE]
  OBVIOUS
<1>4. r \in Content
  BY <1>3 DEF Content
<1>5. HeapTypes
  BY DEF IInv
<1>6. PICK x \in Node :
        /\ x \notin alloc
        /\ cell' = [cell EXCEPT ![x] = r]
        /\ next' = [next EXCEPT ![x] = head]
        /\ alloc' = alloc \cup {x}
        /\ head' = x
  <2>1. \A y \in Malloc : y \in Node /\ y \notin alloc
    BY <1>5 DEF Malloc, HeapTypes
  <2>2. QED
    BY <1>3, <2>1 DEF Save
<1>7. PICK q : q = [i \in 1..(n + 1) |-> IF i = 1 THEN x ELSE p[i - 1]]
  OBVIOUS
<1>8. /\ q[1] = x
      /\ \A i \in 1..n : i + 1 \in 1..(n + 1) /\ q[i + 1] = p[i]
      /\ \A i \in 1..(n + 1) : i # 1 => i - 1 \in 1..n /\ q[i] = p[i - 1]
      /\ 1 \in 1..(n + 1) /\ \A i \in 1..n : p[i] \in alloc /\ p[i] # x /\ p[i] \in Node
  BY <1>2, <1>5, <1>6, <1>7 DEF IsPath, HeapTypes
<1>9. IsPath(n + 1, q)'
  <2>1. n + 1 \in Nat /\ q \in [1..(n + 1) -> alloc']
    BY <1>2, <1>6, <1>7, <1>8
  <2>2. ASSUME NEW i \in 1..(n + 1), NEW j \in 1..(n + 1), q[i] = q[j] PROVE i = j
    <3>1. CASE i = 1 \/ j = 1
      BY <1>8, <2>2, <3>1
    <3>2. CASE i # 1 /\ j # 1
      <4>1. i - 1 \in 1..n /\ j - 1 \in 1..n /\ p[i - 1] = p[j - 1]
        BY <1>8, <2>2, <3>2
      <4>2. i - 1 = j - 1
        BY <1>2, <4>1 DEF IsPath
      <4>3. QED
        BY <1>2, <4>2
    <3>3. QED
      BY <3>1, <3>2
  <2>3. ASSUME NEW m \in alloc' PROVE \E i \in 1..(n + 1) : q[i] = m
    <3>1. CASE m = x
      BY <1>8, <3>1
    <3>2. CASE m # x
      <4>1. PICK i \in 1..n : p[i] = m
        BY <1>2, <1>6, <3>2 DEF IsPath
      <4>2. QED
        BY <1>8, <4>1
    <3>3. QED
      BY <3>1, <3>2
  <2>4. head' = At(n + 1, q, 1)
    BY <1>2, <1>6, <1>8 DEF At
  <2>5. ASSUME NEW i \in 1..(n + 1) PROVE next'[q[i]] = At(n + 1, q, i + 1)
    <3>1. next \in [Node -> Node \cup {NULL}]
      BY <1>5 DEF HeapTypes
    <3>2. CASE i = 1
      <4>1. next'[q[i]] = head
        BY <1>6, <1>8, <3>1, <3>2
      <4>2. head = At(n, p, 1)
        BY <1>2 DEF IsPath
      <4>3. QED
        BY <1>2, <1>8, <3>2, <4>1, <4>2 DEF At
    <3>3. CASE i # 1
      <4>1. i - 1 \in 1..n /\ q[i] = p[i - 1] /\ p[i - 1] \in Node /\ p[i - 1] # x
        BY <1>8, <3>3
      <4>2. next'[q[i]] = next[p[i - 1]]
        BY <1>6, <3>1, <4>1
      <4>3. next[p[i - 1]] = At(n, p, (i - 1) + 1)
        BY <1>2, <4>1 DEF IsPath
      <4>4. (i - 1) + 1 = i /\ (i + 1 <= n + 1 <=> i <= n)
        BY <1>2
      <4>5. i + 1 <= n + 1 => q[i + 1] = p[i]
        BY <1>2, <1>8, <4>4
      <4>6. QED
        BY <4>2, <4>3, <4>4, <4>5 DEF At
    <3>4. QED
      BY <3>2, <3>3
  <2>6. QED
    BY <2>1, <2>2, <2>3, <2>4, <2>5 DEF IsPath
<1>10. PICK M : M = Contents(n + 1, q)'
  OBVIOUS
<1>11. Linked' = M
  BY <1>9, <1>10, PathsAreListsNext DEF IInv
<1>12. M = <<r>> \o L
  <2>1. M = [i \in 1..(n + 1) |-> cell'[q[i]]]
    BY <1>10 DEF Contents
  <2>2. cell \in [Node -> Content]
    BY <1>5 DEF HeapTypes
  <2>3. cell'[q[1]] = r /\ \A i \in 1..n : cell'[p[i]] = L[i]
    BY <1>2, <1>6, <1>8, <2>2 DEF Contents
  <2>4. M[1] = r /\ \A i \in 1..(n + 1) : i # 1 => M[i] = L[i - 1]
    BY <1>8, <2>1, <2>3
  <2>5. M \in [1..(n + 1) -> Content]
    <3>1. \A i \in 1..(n + 1) : M[i] \in Content
      BY <1>2, <1>4, <1>8, <2>4
    <3>2. QED
      BY <2>1, <3>1
  <2>6. M \in Seq(Content) /\ Len(M) = n + 1
    BY <1>2, <2>5
  <2>7. /\ <<r>> \o L \in Seq(Content) /\ Len(<<r>> \o L) = n + 1
        /\ (<<r>> \o L)[1] = r /\ \A i \in 1..(n + 1) : i # 1 => (<<r>> \o L)[i] = L[i - 1]
    BY <1>2, <1>4
  <2>8. QED
    BY <2>4, <2>6, <2>7
<1>13. LocalTypes'
  BY <1>1, ListTypes DEF LocalTypes
<1>14. LoopInv(n + 1, q, M)'
  BY <1>1 DEF LoopInv
<1>15. ListInv'
  BY <1>9, <1>10, <1>13, <1>14, OnPathNext
<1>16. List!SaveReading(id, time)
  BY <1>1, <1>2, <1>3, <1>11, <1>12 DEF List!SaveReading, List!Save
<1>17. QED
  BY <1>15, <1>16 DEF List!Next

-----------------------------------------------------------------------------
(* Copying and removing. *)

\* Removing begins at the head, with nothing seen.
LEMMA RemoveBegins ==
    ASSUME NEW n \in Nat, NEW p, NEW L \in Seq(Content), Len(L) = n, head = At(n, p, 1),
           given' = L, temp' = head, prev' = NULL
    PROVE  RemoveInv(n, p, L)'
<1>1. Kept(given', 0) = <<>> /\ Len(Kept(given', 0)) = 0
  BY PickedNothing, EmptySeq
<1>2. 0 \in 0..Len(given') /\ 0 \in 0..0 /\ 0 + 1 = 1 /\ n = 0 + (Len(given') - 0)
  OBVIOUS
<1>3. \A i \in 1..n : i - 0 + 0 = i
  OBVIOUS
<1>4. \A i \in (0 + 1)..n : L[i] = given'[i - 0 + 0]
  BY <1>3
<1>5. QED
  BY <1>1, <1>2, <1>4 DEF RemoveInv

LEMMA CopyRefines ==
    ASSUME IInv, IInv', ListInv, Copy
    PROVE  ListInv' /\ [List!Next]_(List!vars)
<1>1. /\ pc = "idle" /\ pc' = "copy" /\ temp' = head /\ fileBuf = <<>>
      /\ SameShape /\ cell' = cell /\ UNCHANGED <<count, fileBuf, given, out>>
  BY ListTypes DEF Copy, Goto, heap, SameShape, LocalTypes
<1>2. LocalTypes'
  BY <1>1, ListTypes DEF LocalTypes
<1>3. ASSUME NEW n \in Nat, NEW p, NEW L \in [1..n -> Content], IsPath(n, p)
      PROVE  LoopInv(n, p, L)'
  <2>1. 1 \in 1..(n + 1) /\ temp' = At(n, p, 1) /\ 1 - 1 = 0
    BY <1>1, <1>3 DEF IsPath
  <2>2. fileBuf' = Copied(L, 1 - 1)
    BY <1>1, PickedNothing
  <2>3. CopyInv(n, p, L)'
    BY <2>1, <2>2 DEF CopyInv
  <2>4. QED
    BY <1>1, <2>3 DEF LoopInv
<1>4. ListInv' /\ Linked' = Linked
  BY <1>1, <1>2, <1>3, Unmoved
<1>5. QED
  BY <1>1, <1>4, ListStays DEF ListNow, Done

LEMMA CopyFailsRefines ==
    ASSUME IInv, IInv', ListInv, CopyFails
    PROVE  ListInv' /\ [List!Next]_(List!vars)
<1>1. /\ pc = "idle" /\ pc' = "remove" /\ temp' = head /\ given' = Linked /\ out' = <<>>
      /\ SameShape /\ cell' = cell /\ UNCHANGED <<count, fileBuf>>
      /\ fileBuf = <<>> /\ prev' = NULL
  BY ListTypes DEF CopyFails, Goto, heap, SameShape, LocalTypes, IInv, Unused
<1>2. LocalTypes'
  <2>1. Linked \in Seq(Content)
    BY <1>1, OnPathNow
  <2>2. <<>> \in Seq(Content)
    OBVIOUS
  <2>3. QED
    BY <1>1, <2>1, <2>2, ListTypes DEF LocalTypes
<1>3. ASSUME NEW n \in Nat, NEW p, NEW L \in [1..n -> Content], IsPath(n, p), L = Linked,
             L \in Seq(Content)
      PROVE  LoopInv(n, p, L)'
  <2>1. Len(L) = n /\ head = At(n, p, 1)
    BY <1>3 DEF IsPath
  <2>2. RemoveInv(n, p, L)'
    BY <1>1, <1>3, <2>1, RemoveBegins
  <2>3. QED
    BY <1>1, <2>2 DEF LoopInv
<1>4. ListInv' /\ Linked' = Linked
  BY <1>1, <1>2, <1>3, Unmoved
<1>5. List!CopyFails
  BY <1>1 DEF List!CopyFails
<1>6. QED
  BY <1>4, <1>5 DEF List!Next

LEMMA CopyNodeRefines ==
    ASSUME IInv, IInv', ListInv, CopyNode
    PROVE  ListInv' /\ [List!Next]_(List!vars)
<1>1. /\ pc = "copy" /\ pc' = pc /\ temp # NULL /\ temp' = next[temp]
      /\ fileBuf' = (IF cell[temp].del THEN Append(fileBuf, cell[temp]) ELSE fileBuf)
      /\ SameShape /\ cell' = cell /\ UNCHANGED <<count, given, out>>
  BY DEF CopyNode, heap, SameShape
<1>2. ASSUME NEW n \in Nat, NEW p, NEW L \in [1..n -> Content], IsPath(n, p), LoopInv(n, p, L),
             L = Contents(n, p), L \in Seq(Content)
      PROVE  LoopInv(n, p, L)' /\ fileBuf' \in Seq(Content)
  <2>1. HeapTypes
    BY DEF IInv
  <2>2. PICK t \in 1..(n + 1) : temp = At(n, p, t) /\ fileBuf = Copied(L, t - 1)
    BY <1>1, <1>2 DEF LoopInv, CopyInv
  <2>3. t \in 1..n /\ temp' = At(n, p, t + 1) /\ cell[temp] = L[t]
    BY <1>1, <1>2, <2>1, <2>2, AtNode
  <2>4. fileBuf' = Copied(L, t)
    <3>1. t - 1 \in Nat /\ t - 1 < Len(L) /\ (t - 1) + 1 = t
      BY <1>2, <2>3
    <3>2. /\ L[t].del => Copied(L, t) = Append(Copied(L, t - 1), L[t])
          /\ ~L[t].del => Copied(L, t) = Copied(L, t - 1)
      BY <1>2, <3>1, PickedNext
    <3>3. QED
      BY <1>1, <2>2, <2>3, <3>2
  <2>5. t + 1 \in 1..(n + 1) /\ (t + 1) - 1 = t /\ t \in 0..Len(L)
    BY <1>2, <2>3
  <2>6. CopyInv(n, p, L)'
    BY <2>3, <2>4, <2>5 DEF CopyInv
  <2>7. fileBuf' \in Seq(Content)
    BY <1>2, <2>4, <2>5, PickedTypes
  <2>8. QED
    BY <1>1, <2>6, <2>7 DEF LoopInv
<1>3. LocalTypes'
  <2>1. fileBuf' \in Seq(Content)
    BY <1>1, <1>2, OnPathNow
  <2>2. QED
    BY <1>1, <2>1, ListTypes DEF LocalTypes
<1>4. ListInv' /\ Linked' = Linked
  BY <1>1, <1>2, <1>3, Unmoved
<1>5. QED
  BY <1>1, <1>4, ListStays DEF ListNow, Done

\* What ReadingList picks is what Kept and Copied pick of the whole list.
LEMMA PickedAll ==
    ASSUME NEW l \in Seq(Content)
    PROVE  List!Marked(l) = Copied(l, Len(l)) /\ List!Unmarked(l) = Kept(l, Len(l))
<1>1. \A I : List!Pick(l, I) = SL!Pick(l, I)
  BY DEF List!Pick, SL!Pick, List!Cardinality, SL!Cardinality
<1>2. DOMAIN l = 1..Len(l)
  OBVIOUS
<1>3. QED
  BY <1>1, <1>2, Zenon DEF List!Marked, List!Unmarked, Copied, Kept

LEMMA EndCopyRefines ==
    ASSUME IInv, IInv', ListInv, EndCopy
    PROVE  ListInv' /\ [List!Next]_(List!vars)
<1>1. /\ pc = "copy" /\ pc' = "remove" /\ temp = NULL /\ temp' = head /\ given' = Linked
      /\ out' = fileBuf /\ fileBuf' = <<>>
      /\ SameShape /\ cell' = cell /\ UNCHANGED <<count>> /\ prev' = NULL
  BY DEF EndCopy, Goto, heap, SameShape, IInv, Unused
<1>2. LocalTypes'
  <2>1. Linked \in Seq(Content)
    BY <1>1, OnPathNow
  <2>2. <<>> \in Seq(Content)
    OBVIOUS
  <2>3. QED
    BY <1>1, <2>1, <2>2, ListTypes DEF LocalTypes
<1>3. ASSUME NEW n \in Nat, NEW p, NEW L \in [1..n -> Content], IsPath(n, p), LoopInv(n, p, L),
             L = Linked, L \in Seq(Content)
      PROVE  LoopInv(n, p, L)' /\ fileBuf = List!Marked(L)
  <2>1. Len(L) = n /\ head = At(n, p, 1) /\ HeapTypes
    BY <1>3 DEF IsPath, IInv
  <2>2. RemoveInv(n, p, L)'
    BY <1>1, <1>3, <2>1, RemoveBegins
  <2>3. PICK t \in 1..(n + 1) : temp = At(n, p, t) /\ fileBuf = Copied(L, t - 1)
    BY <1>1, <1>3 DEF LoopInv, CopyInv
  <2>4. t - 1 = n
    BY <1>1, <1>3, <2>1, <2>3, AtNode
  <2>5. fileBuf = List!Marked(L)
    BY <1>3, <2>1, <2>3, <2>4, PickedAll
  <2>6. QED
    BY <1>1, <2>2, <2>5 DEF LoopInv
<1>4. ListInv' /\ Linked' = Linked
  BY <1>1, <1>2, <1>3, Unmoved
<1>5. fileBuf = List!Marked(Linked)
  <2>1. PICK n, p, L : /\ IsPath(n, p) /\ L = Linked /\ LoopInv(n, p, L)
                       /\ n \in Nat /\ L \in [1..n -> Content] /\ L \in Seq(Content)
    BY <1>1, OnPathNow
  <2>2. QED
    BY <1>3, <2>1
<1>6. List!CopyMarked
  BY <1>1, <1>5 DEF List!CopyMarked
<1>7. QED
  BY <1>4, <1>6 DEF List!Next

\* What is known while the marked nodes are taken out: k of the given readings
\* have been seen, u of them stay.
RemoveAt(n, p, L, k, u) ==
    /\ k \in 0..Len(given) /\ u \in 0..k
    /\ u = Len(Kept(given, k))
    /\ n = u + (Len(given) - k)
    /\ temp = At(n, p, u + 1)
    /\ prev = IF u = 0 THEN NULL ELSE p[u]
    /\ \A i \in 1..u : L[i] = Kept(given, k)[i]
    /\ \A i \in (u + 1)..n : L[i] = given[i - u + k]

LEMMA RemovePlaces ==
    ASSUME NEW n, NEW p, NEW L
    PROVE  RemoveInv(n, p, L) <=> \E k, u : RemoveAt(n, p, L, k, u)
BY DEF RemoveInv, RemoveAt

\* The node that temp points to has the next of the given readings.
LEMMA RemoveSees ==
    ASSUME HeapTypes, NEW n \in Nat, NEW p, NEW L, IsPath(n, p), L = Contents(n, p),
           NEW k, NEW u, RemoveAt(n, p, L, k, u), temp # NULL, given \in Seq(Content)
    PROVE  /\ Len(given) \in Nat /\ k \in Nat /\ u \in Nat /\ k < Len(given)
           /\ u + 1 \in 1..n /\ temp = p[u + 1] /\ next[temp] = At(n, p, u + 2)
           /\ cell[temp] = given[k + 1] /\ L[u + 1] = given[k + 1]
<1>1. /\ k \in 0..Len(given) /\ u \in 0..k /\ Len(given) \in Nat
      /\ n = u + (Len(given) - k)
      /\ temp = At(n, p, u + 1)
      /\ \A i \in (u + 1)..n : L[i] = given[i - u + k]
  BY DEF RemoveAt
<1>2. u + 1 \in 1..(n + 1) /\ (u + 1) + 1 = u + 2 /\ k \in Nat /\ u \in Nat
  BY <1>1
<1>3. u + 1 # n + 1
  BY <1>1, <1>2, AtNode
<1>4. /\ u + 1 \in 1..n /\ temp = p[u + 1] /\ next[temp] = At(n, p, (u + 1) + 1)
      /\ cell[temp] = L[u + 1]
  BY <1>1, <1>2, <1>3, AtNode
<1>5. u + 1 \in (u + 1)..n /\ (u + 1) - u + k = k + 1 /\ k < Len(given)
  BY <1>1, <1>2, <1>4
<1>6. L[u + 1] = given[k + 1]
  BY <1>1, <1>5
<1>7. QED
  BY <1>1, <1>2, <1>4, <1>5, <1>6

LEMMA KeepNodeRefines ==
    ASSUME IInv, IInv', ListInv, KeepNode
    PROVE  ListInv' /\ [List!Next]_(List!vars)
<1>1. /\ pc = "remove" /\ pc' = pc /\ temp # NULL /\ ~cell[temp].del
      /\ prev' = temp /\ temp' = next[temp]
      /\ SameShape /\ cell' = cell /\ UNCHANGED <<count, fileBuf, given, out>>
  BY DEF KeepNode, heap, SameShape
<1>2. LocalTypes'
  BY <1>1, ListTypes DEF LocalTypes
<1>3. ASSUME NEW n \in Nat, NEW p, NEW L \in [1..n -> Content], IsPath(n, p), LoopInv(n, p, L),
             L = Contents(n, p)
      PROVE  LoopInv(n, p, L)'
  <2>1. HeapTypes /\ given \in Seq(Content)
    BY ListTypes DEF IInv, LocalTypes
  <2>2. PICK k, u : RemoveAt(n, p, L, k, u)
    BY <1>1, <1>3, RemovePlaces DEF LoopInv
  <2>3. /\ Len(given) \in Nat /\ k \in Nat /\ u \in Nat /\ k < Len(given)
        /\ u + 1 \in 1..n /\ temp = p[u + 1] /\ next[temp] = At(n, p, u + 2)
        /\ cell[temp] = given[k + 1] /\ L[u + 1] = given[k + 1]
    BY <1>1, <1>3, <2>1, <2>2, RemoveSees
  <2>4. /\ u = Len(Kept(given, k)) /\ u <= k
        /\ n = u + (Len(given) - k)
        /\ \A i \in 1..u : L[i] = Kept(given, k)[i]
        /\ \A i \in (u + 1)..n : L[i] = given[i - u + k]
    <3>1. /\ u \in 0..k /\ u = Len(Kept(given, k))
          /\ n = u + (Len(given) - k)
          /\ \A i \in 1..u : L[i] = Kept(given, k)[i]
          /\ \A i \in (u + 1)..n : L[i] = given[i - u + k]
      BY <2>2, Zenon DEF RemoveAt
    <3>2. u <= k
      BY <3>1
    <3>3. QED
      BY <3>1, <3>2, Zenon
  <2>5. Kept(given, k + 1) = Append(Kept(given, k), given[k + 1])
    BY <1>1, <2>1, <2>3, PickedNext
  <2>6. Kept(given, k) \in Seq(Content) /\ given[k + 1] \in Content
    <3>1. k \in 0..Len(given) /\ k + 1 \in 1..Len(given)
      BY <2>3
    <3>2. QED
      BY <2>1, <3>1, PickedTypes
  <2>7. /\ Len(Kept(given, k + 1)) = u + 1
        /\ Kept(given, k + 1)[u + 1] = given[k + 1]
        /\ \A i \in 1..u : Kept(given, k + 1)[i] = Kept(given, k)[i]
    BY <2>4, <2>5, <2>6
  <2>8. \A i \in 1..(u + 1) : L[i] = Kept(given, k + 1)[i]
    <3>1. \A i \in 1..(u + 1) : i \in 1..u \/ i = u + 1
      BY <2>3
    <3>2. QED
      BY <2>3, <2>4, <2>7, <3>1
  <2>9. \A i \in ((u + 1) + 1)..n : L[i] = given[i - (u + 1) + (k + 1)]
    <3>1. \A i \in ((u + 1) + 1)..n : i \in (u + 1)..n /\ i - (u + 1) + (k + 1) = i - u + k
      BY <2>3
    <3>2. QED
      BY <2>4, <3>1
  <2>10. /\ k + 1 \in 0..Len(given) /\ u + 1 \in 0..(k + 1) /\ (u + 1) + 1 = u + 2 /\ u + 1 # 0
         /\ n = (u + 1) + (Len(given) - (k + 1))
    BY <2>3, <2>4
  <2>11. RemoveAt(n, p, L, k + 1, u + 1)'
    BY <1>1, <2>3, <2>7, <2>8, <2>9, <2>10 DEF RemoveAt
  <2>12. RemoveInv(n, p, L)'
    BY <2>11 DEF RemoveInv, RemoveAt
  <2>13. QED
    BY <1>1, <2>12 DEF LoopInv
<1>4. ListInv' /\ Linked' = Linked
  BY <1>1, <1>2, <1>3, Unmoved
<1>5. QED
  BY <1>1, <1>4, ListStays DEF ListNow, Done

LEMMA RemoveNodeRefines ==
    ASSUME IInv, IInv', ListInv, RemoveNode
    PROVE  ListInv' /\ [List!Next]_(List!vars)
<1>1. /\ pc = "remove" /\ pc' = pc /\ temp # NULL /\ cell[temp].del
      /\ alloc' = alloc \ {temp} /\ temp' = next[temp] /\ prev' = prev
      /\ cell' = cell /\ UNCHANGED <<count, fileBuf, given, out>>
      /\ prev = NULL => head' = next[temp] /\ next' = next
      /\ prev # NULL => next' = [next EXCEPT ![prev] = next[temp]] /\ head' = head
  BY DEF RemoveNode
<1>2. LocalTypes'
  BY <1>1, ListTypes DEF LocalTypes
<1>3. PICK n, p, L : /\ IsPath(n, p) /\ L = Contents(n, p) /\ L = Linked /\ LoopInv(n, p, L)
                     /\ n \in Nat /\ L \in [1..n -> Content] /\ L \in Seq(Content)
                     /\ DOMAIN L = 1..n /\ Len(L) = n
  BY <1>1, OnPathNow
<1>4. HeapTypes /\ given \in Seq(Content)
  BY ListTypes DEF IInv, LocalTypes
<1>5. PICK k, u : RemoveAt(n, p, L, k, u)
  BY <1>1, <1>3, RemovePlaces DEF LoopInv
<1>6. /\ Len(given) \in Nat /\ k \in Nat /\ u \in Nat /\ n \in Nat /\ k < Len(given)
      /\ u + 1 \in 1..n /\ temp = p[u + 1] /\ next[temp] = At(n, p, u + 2)
      /\ cell[temp] = given[k + 1] /\ L[u + 1] = given[k + 1]
  <2>1. n \in Nat /\ IsPath(n, p) /\ L = Contents(n, p) /\ temp # NULL
    BY <1>1, <1>3
  <2>2. QED
    BY <1>4, <1>5, <2>1, RemoveSees
<1>7. /\ u = Len(Kept(given, k)) /\ u <= k
      /\ n = u + (Len(given) - k)
      /\ prev = IF u = 0 THEN NULL ELSE p[u]
      /\ \A i \in 1..u : L[i] = Kept(given, k)[i]
      /\ \A i \in (u + 1)..n : L[i] = given[i - u + k]
  <2>1. /\ u \in 0..k /\ u = Len(Kept(given, k))
        /\ n = u + (Len(given) - k)
        /\ prev = IF u = 0 THEN NULL ELSE p[u]
        /\ \A i \in 1..u : L[i] = Kept(given, k)[i]
        /\ \A i \in (u + 1)..n : L[i] = given[i - u + k]
    BY <1>5, Zenon DEF RemoveAt
  <2>2. u <= k
    BY <2>1
  <2>3. QED
    BY <2>1, <2>2, Zenon
\* The path without its node u + 1.
<1>8. PICK q : q = [i \in 1..(n - 1) |-> IF i <= u THEN p[i] ELSE p[i + 1]]
  OBVIOUS
<1>9. /\ n - 1 \in Nat
      /\ \A i \in 1..(n - 1) : /\ i \in 1..n /\ i + 1 \in 1..n
                               /\ i <= u => q[i] = p[i]
                               /\ ~ (i <= u) => q[i] = p[i + 1]
  BY <1>3, <1>6, <1>8
<1>10. /\ p \in [1..n -> alloc] /\ alloc \subseteq Node /\ next \in [Node -> Node \cup {NULL}]
       /\ \A i, j \in 1..n : p[i] = p[j] => i = j
       /\ \A m \in alloc : \E i \in 1..n : p[i] = m
       /\ head = At(n, p, 1)
       /\ \A i \in 1..n : next[p[i]] = At(n, p, i + 1)
       /\ \A i \in 1..n : p[i] # NULL
  BY <1>3, <1>4, NodeListAssumption DEF IsPath, HeapTypes
<1>11. \A i \in 1..(n - 1) : q[i] = At(n - 1, q, i) /\ q[i] # temp
  <2>1. ASSUME NEW i \in 1..(n - 1) PROVE i <= n - 1
    BY <1>6
  <2>2. ASSUME NEW i \in 1..(n - 1) PROVE q[i] # p[u + 1]
    <3>1. CASE i <= u
      <4>1. i # u + 1 /\ i \in 1..n /\ q[i] = p[i]
        BY <1>6, <1>9, <3>1
      <4>2. QED
        BY <1>6, <1>10, <4>1
    <3>2. CASE ~ (i <= u)
      <4>1. i + 1 # u + 1 /\ i + 1 \in 1..n /\ q[i] = p[i + 1]
        BY <1>6, <1>9, <3>2
      <4>2. QED
        BY <1>6, <1>10, <4>1
    <3>3. QED
      BY <3>1, <3>2
  <2>3. QED
    BY <1>6, <2>1, <2>2 DEF At
\* Behind node u is now what was behind temp.
<1>12. At(n - 1, q, u + 1) = next[temp]
  <2>1. CASE u + 1 <= n - 1
    <3>1. u + 1 \in 1..(n - 1) /\ (u + 1) + 1 = u + 2 /\ u + 2 <= n /\ ~ (u + 1 <= u)
      BY <1>6, <1>9, <2>1
    <3>2. q[u + 1] = p[u + 2]
      BY <1>9, <3>1
    <3>3. QED
      BY <1>6, <3>1, <3>2 DEF At
  <2>2. CASE ~ (u + 1 <= n - 1)
    BY <1>6, <1>9, <2>2 DEF At
  <2>3. QED
    BY <2>1, <2>2
<1>13. IsPath(n - 1, q)'
  <2>1. q \in [1..(n - 1) -> alloc']
    BY <1>1, <1>8, <1>9, <1>10, <1>11
  <2>2. ASSUME NEW i \in 1..(n - 1), NEW j \in 1..(n - 1), q[i] = q[j] PROVE i = j
    <3>1. PICK x \in 1..n : q[i] = p[x] /\ x = IF i <= u THEN i ELSE i + 1
      BY <1>9
    <3>2. PICK y \in 1..n : q[j] = p[y] /\ y = IF j <= u THEN j ELSE j + 1
      BY <1>9
    <3>3. x = y
      BY <1>10, <2>2, <3>1, <3>2
    <3>4. QED
      BY <1>6, <3>1, <3>2, <3>3
  <2>3. ASSUME NEW m \in alloc' PROVE \E i \in 1..(n - 1) : q[i] = m
    <3>1. PICK i \in 1..n : p[i] = m /\ i # u + 1
      BY <1>1, <1>6, <1>10
    <3>2. CASE i <= u
      <4>1. i \in 1..(n - 1)
        BY <1>6, <3>2
      <4>2. QED
        BY <1>9, <3>1, <3>2, <4>1
    <3>3. CASE ~ (i <= u)
      <4>1. i - 1 \in 1..(n - 1) /\ (i - 1) + 1 = i /\ ~ (i - 1 <= u)
        BY <1>6, <3>1, <3>3
      <4>2. q[i - 1] = p[i]
        BY <1>9, <4>1
      <4>3. QED
        BY <3>1, <4>1, <4>2
    <3>4. QED
      BY <3>2, <3>3
  <2>4. head' = At(n - 1, q, 1)
    <3>1. CASE u = 0
      BY <1>1, <1>7, <1>12, <3>1
    <3>2. CASE u # 0
      <4>1. u \in 1..n /\ prev # NULL /\ 1 \in 1..n /\ 1 \in 1..(n - 1) /\ 1 <= u
        BY <1>6, <1>7, <1>10, <3>2
      <4>2. head' = p[1]
        BY <1>1, <1>10, <4>1 DEF At
      <4>3. q[1] = p[1] /\ At(n - 1, q, 1) = q[1]
        BY <1>9, <1>11, <4>1
      <4>4. QED
        BY <4>2, <4>3
    <3>3. QED
      BY <3>1, <3>2
  <2>5. ASSUME NEW i \in 1..(n - 1) PROVE next'[q[i]] = At(n - 1, q, i + 1)
    <3>1. CASE i < u
      <4>1. /\ i \in 1..n /\ u \in 1..n /\ i # u /\ i + 1 \in 1..(n - 1) /\ i + 1 <= u /\ i + 1 <= n
            /\ i <= u /\ u # 0
        BY <1>6, <3>1
      <4>2. q[i] = p[i] /\ q[i + 1] = p[i + 1] /\ prev = p[u]
        BY <1>7, <1>9, <4>1
      <4>3. next'[p[i]] = next[p[i]]
        BY <1>1, <1>7, <1>10, <4>1
      <4>4. next[p[i]] = p[i + 1]
        BY <1>10, <4>1 DEF At
      <4>5. At(n - 1, q, i + 1) = q[i + 1]
        BY <1>11, <4>1
      <4>6. QED
        BY <4>2, <4>3, <4>4, <4>5
    <3>2. CASE i = u
      <4>1. u \in 1..n /\ u # 0 /\ prev = p[u] /\ q[i] = p[u] /\ p[u] \in Node /\ p[u] # NULL
        BY <1>6, <1>7, <1>9, <1>10, <3>2
      <4>2. next'[p[u]] = next[temp]
        BY <1>1, <1>10, <4>1
      <4>3. QED
        BY <1>12, <3>2, <4>1, <4>2
    <3>3. CASE i > u
      <4>1. i + 1 \in 1..n /\ q[i] = p[i + 1] /\ i + 1 # u /\ ~ (i <= u) /\ p[i + 1] \in Node
        <5>1. ~ (i <= u) /\ i + 1 # u
          BY <1>6, <3>3
        <5>2. i + 1 \in 1..n /\ q[i] = p[i + 1]
          BY <1>9, <5>1
        <5>3. QED
          BY <1>10, <5>1, <5>2
      <4>2. next'[p[i + 1]] = next[p[i + 1]]
        <5>1. u # 0 => u \in 1..n
          BY <1>6
        <5>2. u # 0 => p[u] # p[i + 1] /\ p[u] \in Node
          BY <1>10, <4>1, <5>1
        <5>3. u # 0 => prev = p[u]
          BY <1>7
        <5>4. u = 0 => prev = NULL
          BY <1>7
        <5>5. QED
          BY <1>1, <1>10, <4>1, <5>2, <5>3, <5>4
      <4>3. next[p[i + 1]] = At(n, p, (i + 1) + 1)
        BY <1>10, <4>1
      <4>4. At(n - 1, q, i + 1) = At(n, p, (i + 1) + 1)
        <5>1. CASE i + 1 <= n - 1
          <6>1. i + 1 \in 1..(n - 1) /\ (i + 1) + 1 <= n /\ ~ (i + 1 <= u)
            BY <1>6, <3>3, <5>1
          <6>2. QED
            BY <1>9, <6>1 DEF At
        <5>2. CASE ~ (i + 1 <= n - 1)
          <6>1. ~ ((i + 1) + 1 <= n)
            BY <1>6, <5>2
          <6>2. QED
            BY <5>2, <6>1 DEF At
        <5>3. QED
          BY <5>1, <5>2
      <4>5. QED
        BY <4>1, <4>2, <4>3, <4>4
    <3>4. QED
      BY <1>6, <3>1, <3>2, <3>3
  <2>6. QED
    BY <1>9, <2>1, <2>2, <2>3, <2>4, <2>5 DEF IsPath
<1>14. PICK M : M = Contents(n - 1, q)'
  OBVIOUS
<1>15. \A i \in 1..(n - 1) : M[i] = IF i <= u THEN L[i] ELSE L[i + 1]
  <2>1. \A i \in 1..(n - 1) : M[i] = cell[q[i]]
    BY <1>1, <1>14 DEF Contents
  <2>2. \A i \in 1..n : L[i] = cell[p[i]]
    BY <1>3 DEF Contents
  <2>3. QED
    BY <1>9, <2>1, <2>2
<1>16. RemoveInv(n - 1, q, M)'
  <2>1. Kept(given, k + 1) = Kept(given, k)
    BY <1>1, <1>4, <1>6, PickedNext
  <2>2. \A i \in 1..u : M[i] = Kept(given, k + 1)[i]
    <3>1. \A i \in 1..u : i \in 1..(n - 1) /\ i <= u
      BY <1>6
    <3>2. QED
      BY <1>7, <1>15, <2>1, <3>1
  <2>3. ASSUME NEW i \in (u + 1)..(n - 1) PROVE M[i] = given[i - u + (k + 1)]
    <3>1. /\ i \in 1..(n - 1) /\ ~ (i <= u) /\ i + 1 \in (u + 1)..n
          /\ (i + 1) - u + k = i - u + (k + 1)
      BY <1>6
    <3>2. QED
      BY <1>7, <1>15, <3>1
  <2>4. temp' = At(n - 1, q, u + 1)
    BY <1>1, <1>12
  <2>5. prev' = IF u = 0 THEN NULL ELSE q[u]
    <3>1. CASE u # 0
      <4>1. u \in 1..(n - 1) /\ u <= u
        BY <1>6, <3>1
      <4>2. QED
        BY <1>1, <1>7, <1>9, <3>1, <4>1
    <3>2. QED
      BY <1>1, <1>7, <3>1
  <2>6. k + 1 \in 0..Len(given) /\ u \in 0..(k + 1) /\ n - 1 = u + (Len(given) - (k + 1))
    BY <1>6, <1>7
  <2>7. RemoveAt(n - 1, q, M, k + 1, u)'
    BY <1>1, <1>7, <2>1, <2>2, <2>3, <2>4, <2>5, <2>6 DEF RemoveAt
  <2>8. QED
    BY <2>7 DEF RemoveInv, RemoveAt
<1>17. LoopInv(n - 1, q, M)'
  BY <1>1, <1>16 DEF LoopInv
<1>18. ListInv'
  BY <1>2, <1>13, <1>14, <1>17, OnPathNext
<1>19. QED
  BY <1>1, <1>18, ListStays DEF ListNow, Done

\* At the end u readings are left, those that were not marked.
LEMMA EndRemoveRefines ==
    ASSUME IInv, IInv', ListInv, EndRemove
    PROVE  ListInv' /\ [List!Next]_(List!vars)
<1>1. /\ pc = "remove" /\ pc' = "idle" /\ temp = NULL /\ out' = <<>>
      /\ SameShape /\ cell' = cell /\ UNCHANGED <<count, fileBuf, given>>
  BY DEF EndRemove, Goto, heap, SameShape
<1>2. LocalTypes'
  <2>1. <<>> \in Seq(Content)
    OBVIOUS
  <2>2. QED
    BY <1>1, <2>1, ListTypes DEF LocalTypes
<1>3. ASSUME NEW n \in Nat, NEW p, NEW L \in [1..n -> Content], IsPath(n, p), LoopInv(n, p, L)
      PROVE  LoopInv(n, p, L)'
  BY <1>1 DEF LoopInv
<1>4. ListInv' /\ Linked' = Linked
  BY <1>1, <1>2, <1>3, Unmoved
<1>5. Linked = List!Unmarked(given)
  <2>1. PICK n, p, L : /\ IsPath(n, p) /\ L = Linked /\ LoopInv(n, p, L)
                       /\ n \in Nat /\ L \in Seq(Content) /\ Len(L) = n
    BY <1>1, OnPathNow
  <2>2. HeapTypes /\ given \in Seq(Content)
    BY ListTypes DEF IInv, LocalTypes
  <2>3. PICK k, u : RemoveAt(n, p, L, k, u)
    BY <1>1, <2>1, RemovePlaces DEF LoopInv
  <2>4. /\ k \in 0..Len(given) /\ u \in 0..k /\ Len(given) \in Nat
        /\ n = u + (Len(given) - k)
        /\ temp = At(n, p, u + 1)
    BY <2>2, <2>3 DEF RemoveAt
  <2>5. u = Len(Kept(given, k)) /\ \A i \in 1..u : L[i] = Kept(given, k)[i]
    BY <2>3, Zenon DEF RemoveAt
  <2>6. u = n
    <3>1. u + 1 \in 1..(n + 1)
      BY <2>1, <2>4
    <3>2. u + 1 = n + 1
      BY <1>1, <2>1, <2>2, <2>4, <3>1, AtNode
    <3>3. QED
      BY <2>1, <2>4, <3>2
  <2>7. k = Len(given)
    BY <2>1, <2>4, <2>6
  <2>8. Kept(given, k) \in Seq(Content)
    BY <2>2, <2>4, PickedTypes
  <2>9. L = Kept(given, k)
    <3>1. ASSUME NEW K \in Seq(Content), Len(K) = n, \A i \in 1..n : L[i] = K[i]
          PROVE  L = K
      BY <2>1, <3>1
    <3>2. QED
      BY <2>5, <2>6, <2>8, <3>1
  <2>10. QED
    BY <2>1, <2>2, <2>7, <2>9, PickedAll
<1>6. List!RemoveMarked
  BY <1>1, <1>4, <1>5 DEF List!RemoveMarked
<1>7. QED
  BY <1>4, <1>6 DEF List!Next

LEMMA FreeRefines ==
    ASSUME ListInv, FreeList \/ FreeNode \/ EndFree
    PROVE  ListInv' /\ [List!Next]_(List!vars)
<1>1. LocalTypes /\ <<>> \in Seq(Content)
  BY ListTypes
<1>2. pc' \in {"free", "ended"} /\ UNCHANGED <<count, fileBuf>>
  BY DEF FreeList, FreeNode, EndFree, Goto, locals
<1>3. given' \in {given, <<>>} /\ out' \in {out, <<>>}
  BY DEF FreeList, FreeNode, EndFree
<1>4. ListInv'
  <2>1. pc # "copy"
    BY DEF FreeList, FreeNode, EndFree, Goto
  <2>2. QED
    BY <1>1, <1>2, <1>3, <2>1 DEF LocalTypes, ListInv
<1>5. CASE FreeList
  <2>1. List!Free
    BY <1>2, <1>5 DEF FreeList, List!Free
  <2>2. QED
    BY <1>4, <2>1 DEF List!Next
<1>6. CASE FreeNode \/ EndFree
  <2>1. pc \in Done /\ pc' \in Done /\ given' = given /\ out' = out
    BY <1>2, <1>6 DEF FreeNode, EndFree, Goto, Done
  <2>2. QED
    BY <1>4, <2>1, ListStays DEF ListNow
<1>7. QED
  BY <1>5, <1>6

LEMMA ListInvInit == Init => ListInv /\ List!Init
<1> SUFFICES ASSUME Init PROVE ListInv /\ List!Init
  OBVIOUS
<1>1. IInv /\ HeapTypes
  BY IInvInit DEF IInv
<1>2. PICK p : p = [i \in 1..0 |-> NULL]
  OBVIOUS
<1>3. IsPath(0, p) /\ p \in [1..0 -> alloc]
  BY <1>2 DEF Init, IsPath, At
<1>4. LoopInv(0, p, Contents(0, p))
  BY DEF Init, LoopInv
<1>5. OnPath
  BY <1>3, <1>4 DEF OnPath
<1>6. Linked = <<>>
  BY <1>1, <1>2, <1>3, PathIsList DEF Contents
<1>7. <<>> \in Seq(Content) /\ 0 \in 0..Window
  BY NodeListAssumption
<1>8. ListInv
  BY <1>5, <1>7 DEF Init, ListInv
<1>9. QED
  BY <1>6, <1>8 DEF Init, List!Init

LEMMA NextRefines ==
    ASSUME IInv, IInv', ListInv, [Next]_vars
    PROVE  ListInv' /\ [List!Next]_(List!vars)
<1>1. CASE UNCHANGED vars
  <2>1. /\ SameShape /\ cell' = cell /\ pc' = pc
        /\ UNCHANGED <<temp, current, min, inner, prev, count, fileBuf, given, out>>
    BY <1>1 DEF vars, heap, locals, SameShape
  <2>2. LocalTypes'
    BY <2>1, ListTypes DEF LocalTypes
  <2>3. CASE pc \in {"free", "ended"}
    <3>1. ListInv'
      BY <2>1, <2>2, <2>3 DEF LocalTypes, ListInv
    <3>2. QED
      BY <2>1, <2>3, <3>1, ListStays DEF ListNow, Done
  <2>4. CASE pc \notin {"free", "ended"}
    <3>1. ASSUME NEW n \in Nat, NEW p, NEW L \in [1..n -> Content], LoopInv(n, p, L)
          PROVE  LoopInv(n, p, L)'
      BY <2>1, <3>1 DEF LoopInv, ByIdInv, MinIdInv, ByTimeInv, InGroupInv, MinTimeInv,
         AverageInv, CountInv, CopyInv, RemoveInv
    <3>2. ListInv' /\ Linked' = Linked
      BY <2>1, <2>2, <2>4, <3>1, Unmoved
    <3>3. QED
      BY <2>1, <3>2, ListStays DEF ListNow
  <2>5. QED
    BY <2>3, <2>4
<1>2. CASE Call
  BY <1>2, SortRefines, CopyRefines, CopyFailsRefines, FreeRefines, SaveRefines DEF Call
<1>3. CASE Turn
  BY <1>3, ByIdRefines, MinIdRefines, SwapIdRefines, ByTimeRefines, InGroupRefines,
     MinTimeRefines, SwapTimeRefines, AverageRefines, CountReadingRefines, EndGroupRefines,
     CopyNodeRefines, EndCopyRefines, KeepNodeRefines, RemoveNodeRefines, EndRemoveRefines,
     FreeRefines DEF Turn
<1>4. QED
  BY <1>1, <1>2, <1>3 DEF Next

LEMMA ListInvHolds == Spec => [](IInv /\ ListInv)
<1>1. Init => IInv /\ ListInv
  BY IInvInit, ListInvInit
<1>2. IInv /\ ListInv /\ [Next]_vars => (IInv /\ ListInv)'
  BY IInvStep, NextRefines
<1>3. QED
  BY <1>1, <1>2, PTL DEF Spec

\* Whatever is called on a heap of any size: each loop's pointers and contents
\* have their types, and processed_count never passes the window.
THEOREM NodeListTypesHold == Spec => []TypeOK
<1>1. IInv /\ ListInv => TypeOK
  BY DEF IInv, ListInv, TypeOK, HeapTypes, MemorySafe
<1>2. QED
  BY <1>1, ListInvHolds, PTL

\* For a heap of any size and any order of the calls: until the list is freed
\* at the end, every node that malloc returned and free did not take back can
\* be reached from the head, also in the middle of a loop.
THEOREM NothingLeakedHolds == Spec => []NothingLeaked
<1>1. IInv /\ ListInv => NothingLeaked
  <2> SUFFICES ASSUME IInv, ListInv, pc \notin {"free", "ended"}
               PROVE  Cardinality(alloc) = Length
    BY DEF NothingLeaked
  <2>1. PICK n, p : IsPath(n, p)
    BY OnPathNow
  <2>2. HeapTypes
    BY DEF IInv
  <2>3. QED
    BY <2>1, <2>2, PathLength, PathIsList
<1>2. QED
  BY <1>1, ListInvHolds, PTL

\* For a heap of any size, any readings and any window: the functions on the
\* linked nodes do what ReadingList says, each in one step of the list, however
\* many turns its loops take.
THEOREM ReadingListIsImplemented == Spec => ImplementsReadingList
<1>1. Init => List!Init
  BY ListInvInit
<1>2. IInv /\ IInv' /\ ListInv /\ [Next]_vars => [List!Next]_(List!vars)
  BY NextRefines
<1>3. QED
  BY <1>1, <1>2, ListInvHolds, PTL DEF Spec, ImplementsReadingList, List!Spec
=============================================================================
