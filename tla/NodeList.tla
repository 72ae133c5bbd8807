------------------------------ MODULE NodeList ------------------------------
(***************************************************************************)
(* processing_linked_list.c as it runs: the list of readings as nodes on   *)
(* the heap, each with its content and a next pointer, and each function   *)
(* as the loops that walk, swap, relink and free them.  The callers        *)
(* (server.c, socket_server.c) make the calls under data_mutex, so one     *)
(* runs at a time, and in pairs: sort and average, copy and remove.        *)
(*                                                                         *)
(* A step is one turn of a loop.  TEMP travels with the other fields and   *)
(* is left out.                                                            *)
(***************************************************************************)
EXTENDS Naturals, Sequences, FiniteSets

CONSTANTS
    Node,     \* the places malloc can return
    NULL,
    Id, Time, \* the readings sensor nodes send
    Window,   \* the 5 of averaged_temp_linked_list
    MaxSaves  \* bound: readings saved

ASSUME NodeListAssumption ==
    /\ IsFiniteSet(Node) /\ NULL \notin Node
    /\ Id \subseteq Nat /\ Id # {}
    /\ Time \subseteq Nat /\ Time # {}
    /\ Window \in Nat \ {0}
    /\ MaxSaves \in Nat

VARIABLES
    cell,     \* the ID, TIME and DELETE of each node
    next,     \* the next pointer of each node
    alloc,    \* the nodes malloc has returned and free has not taken back
    head,
    saves,    \* how many readings were saved
    pc,       \* the loop that runs
    temp, current, min, inner, prev,  \* the pointers of the functions
    count,    \* processed_count
    fileBuf,  \* what fprintf has put into the FILE's buffer
    given,    \* history: the list when the call began
    out       \* history: what the last call has put out

heap   == <<cell, next, alloc, head, saves>>
locals == <<temp, current, min, inner, prev, count, fileBuf>>
vars   == <<heap, pc, locals, given, out>>

Content == [id : Id, time : Time, del : BOOLEAN]

\* What memory holds before malloc returns it; nothing reads it.
Garbage == CHOOSE c \in Content : TRUE

\* The node k steps behind the head, and the list as a sequence.
Nth(k) ==
    LET step[i \in 0..Cardinality(Node)] ==
            IF i = 0 THEN head ELSE IF step[i - 1] = NULL THEN NULL ELSE next[step[i - 1]]
    IN  step[k]
Length == Cardinality({k \in 0..Cardinality(Node) : Nth(k) # NULL})
Linked == [k \in 1..Length |-> cell[Nth(k - 1)]]

Init ==
    /\ cell = [n \in Node |-> Garbage]
    /\ next = [n \in Node |-> NULL]
    /\ alloc = {}
    /\ head = NULL
    /\ saves = 0
    /\ pc = "idle"
    /\ temp = NULL /\ current = NULL /\ min = NULL /\ inner = NULL /\ prev = NULL
    /\ count = 0
    /\ fileBuf = <<>>
    /\ given = <<>>
    /\ out = <<>>

\* A free place; which one decides nothing.
Malloc == IF alloc = Node THEN {} ELSE {CHOOSE n \in Node : n \notin alloc}

Goto(from, to) == pc = from /\ pc' = to

\* Wrong: DELETE stays with its node.
SwapButDelete(m, n) ==
    cell' = [cell EXCEPT ![m] = [cell[n] EXCEPT !.del = cell[m].del],
                         ![n] = [cell[m] EXCEPT !.del = cell[n].del]]

\* The swap of two nodes' contents, field by field; the nodes stay linked.
Swap(m, n) == cell' = [cell EXCEPT ![m] = cell[n], ![n] = cell[m]]

-----------------------------------------------------------------------------
\* save_data_to_linked_list: a node from malloc becomes the head.
Save(id, time) ==
    /\ pc = "idle"
    /\ saves < MaxSaves
    /\ \E n \in Malloc :
         /\ cell' = [cell EXCEPT ![n] = [id |-> id, time |-> time, del |-> FALSE]]
         /\ next' = [next EXCEPT ![n] = head]
         /\ alloc' = alloc \cup {n}
         /\ head' = n
    /\ saves' = saves + 1
    /\ out' = <<>>
    /\ UNCHANGED <<pc, locals, given>>

-----------------------------------------------------------------------------
(* sort_linked_list_by_ID_and_TIME. *)

Sort ==
    /\ Goto("idle", "by_id")
    /\ temp' = head
    /\ given' = Linked
    /\ UNCHANGED <<heap, current, min, inner, prev, count, fileBuf, out>>

\* The loop over temp: the least ID from temp on comes to temp ...
ById ==
    /\ pc = "by_id"
    /\ IF temp = NULL
       THEN pc' = "by_time" /\ temp' = head /\ UNCHANGED <<current, min>>
       ELSE pc' = "min_id" /\ min' = temp /\ current' = next[temp] /\ UNCHANGED temp
    /\ UNCHANGED <<heap, inner, prev, count, fileBuf, given, out>>

MinId ==
    /\ pc = "min_id"
    /\ current # NULL
    /\ min' = IF cell[current].id < cell[min].id THEN current ELSE min
    /\ current' = next[current]
    /\ UNCHANGED <<heap, pc, temp, inner, prev, count, fileBuf, given, out>>

SwapId ==
    /\ Goto("min_id", "by_id")
    /\ current = NULL
    /\ Swap(temp, min)
    /\ temp' = next[temp]
    /\ UNCHANGED <<next, alloc, head, saves, current, min, inner, prev, count, fileBuf, given, out>>

\* ... and then, group by group, the least TIME from current on to current.
ByTime ==
    /\ pc = "by_time"
    /\ IF temp = NULL
       THEN pc' = "average" /\ temp' = head /\ out' = <<>> /\ UNCHANGED current
       ELSE pc' = "in_group" /\ current' = temp /\ UNCHANGED <<temp, out>>
    /\ UNCHANGED <<heap, min, inner, prev, count, fileBuf, given>>

SameId(n) == n # NULL /\ cell[n].id = cell[temp].id

InGroup ==
    /\ pc = "in_group"
    /\ IF SameId(current)
       THEN pc' = "min_time" /\ min' = current /\ inner' = next[current] /\ UNCHANGED temp
       ELSE pc' = "by_time" /\ temp' = current /\ UNCHANGED <<min, inner>>
    /\ UNCHANGED <<heap, current, prev, count, fileBuf, given, out>>

MinTime ==
    /\ pc = "min_time"
    /\ SameId(inner)
    /\ min' = IF cell[inner].time < cell[min].time THEN inner ELSE min
    /\ inner' = next[inner]
    /\ UNCHANGED <<heap, pc, temp, current, prev, count, fileBuf, given, out>>

SwapTime ==
    /\ Goto("min_time", "in_group")
    /\ ~SameId(inner)
    /\ Swap(current, min)
    /\ current' = next[current]
    /\ UNCHANGED <<next, alloc, head, saves, temp, min, inner, prev, count, fileBuf, given, out>>

-----------------------------------------------------------------------------
(* averaged_temp_linked_list, which data_mgr calls next. *)

Average ==
    /\ pc = "average"
    /\ IF temp = NULL
       THEN pc' = "idle" /\ current' = NULL /\ min' = NULL /\ inner' = NULL
       ELSE pc' = "count" /\ current' = temp /\ UNCHANGED <<min, inner>>
    /\ count' = 0
    /\ UNCHANGED <<heap, temp, prev, fileBuf, given, out>>

\* Wrong: what is behind the window is counted as well.
CountAll ==
    /\ pc = "count"
    /\ SameId(current)
    /\ count' = count + 1
    /\ current' = next[current]
    /\ UNCHANGED <<heap, pc, temp, min, inner, prev, fileBuf, given, out>>

CountReading ==
    /\ pc = "count"
    /\ SameId(current)
    /\ count' = IF count < Window THEN count + 1 ELSE count
    /\ current' = next[current]
    /\ UNCHANGED <<heap, pc, temp, min, inner, prev, fileBuf, given, out>>

\* The first Window readings from n on, those that were summed up.
FirstWindow(n) ==
    LET step[i \in 1..Window] == IF i = 1 THEN n ELSE next[step[i - 1]]
    IN  [i \in 1..Window |-> cell[step[i]]]

\* The average is logged and the first reading of the group marked.
EndGroup ==
    /\ Goto("count", "average")
    /\ ~SameId(current)
    /\ IF count = Window
       THEN /\ out' = FirstWindow(temp)
            /\ cell' = [cell EXCEPT ![temp].del = TRUE]
       ELSE UNCHANGED <<out, cell>>
    /\ temp' = current
    /\ UNCHANGED <<next, alloc, head, saves, current, min, inner, prev, count, fileBuf, given>>

-----------------------------------------------------------------------------
(* copy_data_from_linked_list_to_data_file. *)

Copy ==
    /\ Goto("idle", "copy")
    /\ temp' = head
    /\ UNCHANGED <<heap, current, min, inner, prev, count, fileBuf, given, out>>

\* fopen fails: the function returns, and the caller goes on.
CopyFails ==
    /\ Goto("idle", "remove")
    /\ temp' = head
    /\ given' = Linked
    /\ out' = <<>>
    /\ UNCHANGED <<heap, current, min, inner, prev, count, fileBuf>>

CopyNode ==
    /\ pc = "copy"
    /\ temp # NULL
    /\ fileBuf' = IF cell[temp].del THEN Append(fileBuf, cell[temp]) ELSE fileBuf
    /\ temp' = next[temp]
    /\ UNCHANGED <<heap, pc, current, min, inner, prev, count, given, out>>

\* fclose, and stor_mgr calls remove_data_from_linked_list next.
EndCopy ==
    /\ Goto("copy", "remove")
    /\ temp = NULL
    /\ out' = fileBuf
    /\ fileBuf' = <<>>
    /\ temp' = head
    /\ given' = Linked
    /\ UNCHANGED <<heap, current, min, inner, prev, count>>

-----------------------------------------------------------------------------
(* remove_data_from_linked_list. *)

KeepNode ==
    /\ pc = "remove"
    /\ temp # NULL
    /\ ~cell[temp].del
    /\ prev' = temp
    /\ temp' = next[temp]
    /\ UNCHANGED <<heap, pc, current, min, inner, count, fileBuf, given, out>>

\* Wrong: prev follows also when the node is removed.
RemoveNodeBehind ==
    /\ pc = "remove"
    /\ temp # NULL
    /\ cell[temp].del
    /\ IF prev = NULL
       THEN head' = next[temp] /\ UNCHANGED next
       ELSE next' = [next EXCEPT ![prev] = next[temp]] /\ UNCHANGED head
    /\ alloc' = alloc \ {temp}
    /\ prev' = temp
    /\ temp' = next[temp]
    /\ UNCHANGED <<cell, saves, pc, current, min, inner, count, fileBuf, given, out>>

\* The node is unlinked, freed, and temp goes on behind it.
RemoveNode ==
    /\ pc = "remove"
    /\ temp # NULL
    /\ cell[temp].del
    /\ IF prev = NULL
       THEN head' = next[temp] /\ UNCHANGED next
       ELSE next' = [next EXCEPT ![prev] = next[temp]] /\ UNCHANGED head
    /\ alloc' = alloc \ {temp}
    /\ temp' = next[temp]
    /\ UNCHANGED <<cell, saves, pc, current, min, inner, prev, count, fileBuf, given, out>>

EndRemove ==
    /\ Goto("remove", "idle")
    /\ temp = NULL
    /\ prev' = NULL
    /\ out' = <<>>
    /\ UNCHANGED <<heap, temp, current, min, inner, count, fileBuf, given>>

-----------------------------------------------------------------------------
(* free_linked_list(head), by value, at the end of the process. *)

FreeList ==
    /\ Goto("idle", "free")
    /\ temp' = head
    /\ given' = <<>>
    /\ out' = <<>>
    /\ UNCHANGED <<heap, current, min, inner, prev, count, fileBuf>>

FreeNode ==
    /\ pc = "free"
    /\ temp # NULL
    /\ alloc' = alloc \ {temp}
    /\ temp' = next[temp]
    /\ UNCHANGED <<cell, next, head, saves, pc, current, min, inner, prev, count, fileBuf, given, out>>

EndFree ==
    /\ Goto("free", "ended")
    /\ temp = NULL
    /\ UNCHANGED <<heap, locals, given, out>>

-----------------------------------------------------------------------------
Call == Sort \/ Copy \/ CopyFails \/ FreeList \/ \E id \in Id, time \in Time : Save(id, time)

\* A turn of a loop.
Turn ==
    \/ ById \/ MinId \/ SwapId \/ ByTime \/ InGroup \/ MinTime \/ SwapTime
    \/ Average \/ CountReading \/ EndGroup
    \/ CopyNode \/ EndCopy \/ KeepNode \/ RemoveNode \/ EndRemove
    \/ FreeNode \/ EndFree

Next == Call \/ Turn

Spec == Init /\ [][Next]_vars

\* A thread that is in a function goes on.
FairSpec == Spec /\ WF_vars(Turn)
-----------------------------------------------------------------------------
(* Properties. *)

Loop == {"idle", "by_id", "min_id", "by_time", "in_group", "min_time", "average",
         "count", "copy", "remove", "free", "ended"}

HeapTypes ==
    /\ cell \in [Node -> Content]
    /\ next \in [Node -> Node \cup {NULL}]
    /\ alloc \subseteq Node
    /\ head \in Node \cup {NULL}
    /\ saves \in Nat

\* Every variable has its type.
TypeOK ==
    /\ HeapTypes
    /\ pc \in Loop
    /\ {temp, current, min, inner, prev} \subseteq Node \cup {NULL}
    /\ count \in 0..Window
    /\ {fileBuf, given, out} \subseteq Seq(Content)

\* The pointers each loop follows without looking.
Followed ==
    CASE pc = "min_id"                -> {temp, min}
      [] pc = "min_time"              -> {temp, current, min}
      [] pc \in {"in_group", "count"} -> {temp}
      [] OTHER                        -> {}

\* The pointers a function holds, and those the list is made of, point to nodes
\* that are allocated, and none that a loop follows without looking is NULL:
\* nothing is read, swapped, relinked or freed after its free or twice.
MemorySafe ==
    /\ {temp, current, min, inner, prev} \subseteq alloc \cup {NULL}
    /\ NULL \notin Followed
    /\ \A n \in alloc : next[n] \in alloc \cup {NULL}
    /\ pc \notin {"free", "ended"} => head \in alloc \cup {NULL}

\* Every node malloc returned is in the list, or freed.
NothingLeaked == pc \notin {"free", "ended"} => Cardinality(alloc) = Length

\* A call on linked nodes does to the list what ReadingList says in one step:
\* sorting reorders the readings and loses no mark, removing takes exactly the
\* marked ones, and nobody outside a function sees a list half done.
List == INSTANCE ReadingList WITH
    list <- IF pc \in {"by_id", "min_id", "by_time", "in_group", "min_time", "remove", "free", "ended"}
            THEN given ELSE Linked
ImplementsReadingList == List!Spec

\* Every call returns.
CallsReturn == pc # "idle" ~> pc \in {"idle", "ended"}
=============================================================================
