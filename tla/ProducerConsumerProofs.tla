----------------------- MODULE ProducerConsumerProofs -----------------------
(***************************************************************************)
(* The counting of the semaphores, for trays of any size and for any set   *)
(* of children whose fork succeeded.                                       *)
(***************************************************************************)
EXTENDS ProducerConsumer, FiniteSetTheorems, WellFoundedInduction, TLAPS

-----------------------------------------------------------------------------
(* Finite sets. *)

LEMMA ChildFinite == IsFiniteSet(Child)
<1>1. /\ IsFiniteSet({"producer_Vegan"})
      /\ IsFiniteSet({"consumer_Vegan"})
  BY FS_Singleton
<1>2. IsFiniteSet({"producer_Vegan"} \cup {"producer_NON_Vegan"})
  BY <1>1, FS_AddElement
<1>3. IsFiniteSet({"consumer_Vegan"} \cup {"consumer_NON_Vegan"})
  BY <1>1, FS_AddElement
<1>4. IsFiniteSet(({"consumer_Vegan"} \cup {"consumer_NON_Vegan"}) \cup {"consumer_Both"})
  BY <1>3, FS_AddElement
<1>5. /\ Producer = {"producer_Vegan"} \cup {"producer_NON_Vegan"}
      /\ Consumer = ({"consumer_Vegan"} \cup {"consumer_NON_Vegan"}) \cup {"consumer_Both"}
  BY DEF Producer, Consumer
<1>6. QED
  BY <1>2, <1>4, <1>5, FS_Union DEF Child

LEMMA AtFinite ==
    ASSUME NEW S \in SUBSET Child, NEW t, NEW L
    PROVE  IsFiniteSet(At(S, t, L)) /\ Cardinality(At(S, t, L)) \in Nat
<1>1. At(S, t, L) \in SUBSET Child
  BY DEF At
<1>2. QED
  BY <1>1, ChildFinite, FS_Subset, FS_CardinalityType

LEMMA SlotsFinite ==
    /\ IsFiniteSet(Slot) /\ Cardinality(Slot) = BufferSize
    /\ \A t : IsFiniteSet(Occupied(t)) /\ Cardinality(Occupied(t)) \in Nat
<1>1. IsFiniteSet(Slot) /\ Cardinality(Slot) = BufferSize
  BY ProducerConsumerAssumption, FS_Interval DEF Slot
<1>2. \A t : Occupied(t) \in SUBSET Slot
  BY DEF Occupied
<1>3. QED
  BY <1>1, <1>2, FS_Subset, FS_CardinalityType

\* One element comes, one goes, or nothing changes.
In(b) == IF b THEN 1 ELSE 0

LEMMA InType == \A b \in BOOLEAN : In(b) \in {0, 1}
BY DEF In

LEMMA CountChange ==
    ASSUME NEW A, NEW B, NEW x, IsFiniteSet(A), A \ {x} = B \ {x}
    PROVE  Cardinality(B) = Cardinality(A) + In(x \in B) - In(x \in A)
<1>1. IsFiniteSet(A \ {x})
  BY FS_RemoveElement
<1>2. Cardinality(A \ {x}) \in Nat /\ Cardinality(A) \in Nat
  BY <1>1, FS_CardinalityType
<1>3. Cardinality(A) = Cardinality(A \ {x}) + In(x \in A)
  BY <1>2, FS_RemoveElement DEF In
<1>4. Cardinality(B) = Cardinality(B \ {x}) + In(x \in B)
  <2>1. CASE x \in B
    <3>1. B = (B \ {x}) \cup {x} /\ x \notin B \ {x}
      BY <2>1
    <3>2. Cardinality((B \ {x}) \cup {x}) = Cardinality(B \ {x}) + 1
      BY <1>1, <3>1, FS_AddElement
    <3>3. QED
      BY <2>1, <3>1, <3>2 DEF In
  <2>2. CASE x \notin B
    <3>1. B = B \ {x}
      BY <2>2
    <3>2. QED
      BY <1>1, <1>2, <2>2, <3>1 DEF In
  <2>3. QED
    BY <2>1, <2>2
<1>5. In(x \in A) \in Int /\ In(x \in B) \in Int
  BY DEF In
<1>6. Cardinality(B \ {x}) = Cardinality(A \ {x})
  BY Zenon
<1>7. ASSUME NEW a \in Nat, NEW c \in Nat, NEW b, NEW i \in Int, NEW j \in Int,
             a = c + i, b = c + j
      PROVE  b = a + j - i
  BY <1>7
<1>8. QED
  BY <1>2, <1>3, <1>4, <1>5, <1>6, <1>7

\* A set of slots that is not empty has a lowest slot, and that is First.
LEMMA FirstInSet ==
    ASSUME NEW S \in SUBSET Slot, S # {}
    PROVE  First(S) \in S
<1>1. S \subseteq Nat
  BY ProducerConsumerAssumption DEF Slot
<1>2. \E i \in S : \A j \in S : ~ (<<j, i>> \in OpToRel(<, Nat))
  BY <1>1, NatLessThanWellFounded, WFMin
<1>3. \A i, j \in Nat : j < i => <<j, i>> \in OpToRel(<, Nat)
  BY Zenon DEF OpToRel
<1>4. PICK i \in S : \A j \in S : ~ (<<j, i>> \in OpToRel(<, Nat))
  BY <1>2
<1>5. \A j \in S : ~ (j < i)
  BY <1>1, <1>3, <1>4
<1>6. \E k \in S : \A j \in S : k <= j
  BY <1>1, <1>5
<1>7. QED
  BY <1>6 DEF First

-----------------------------------------------------------------------------
(* How a step of one child changes the counts of the places. *)

Section == {"scan", "access", "post_full", "post_mutex"}
HasSlot == {"mutex", "scan", "access", "post_full"}
HasDish == {"mutex", "scan", "access", "post_mutex", "post_empty"}
Owed    == {"mutex", "scan", "access"}

LEMMA AtChange ==
    ASSUME NEW S \in SUBSET Child, NEW t, NEW L, NEW p \in Child,
           pc \in [Child -> Place], NEW from, NEW to, Goto(p, from, to), UNCHANGED tray
    PROVE  Cardinality(At(S, t, L)') =
             Cardinality(At(S, t, L)) + In(p \in S /\ tray[p] = t /\ to \in L)
                                      - In(p \in S /\ tray[p] = t /\ from \in L)
<1>1. At(S, t, L) \ {p} = At(S, t, L)' \ {p}
  BY DEF At, Goto
<1>2. (p \in At(S, t, L)) <=> (p \in S /\ tray[p] = t /\ from \in L)
  BY DEF At, Goto
<1>3. (p \in At(S, t, L)') <=> (p \in S /\ tray[p] = t /\ to \in L)
  BY DEF At, Goto
<1>4. Cardinality(At(S, t, L)') =
        Cardinality(At(S, t, L)) + In(p \in At(S, t, L)') - In(p \in At(S, t, L))
  BY <1>1, AtFinite, CountChange
<1>5. QED
  BY <1>2, <1>3, <1>4 DEF In
-----------------------------------------------------------------------------
(* Types. *)

\* Every variable keeps its type, and a tray only ever holds dishes of its menu.
THEOREM Typing == Spec => []TypeOK
<1> USE ProducerConsumerAssumption DEF Place
<1>1. Init => TypeOK
  <2> SUFFICES ASSUME Init PROVE TypeOK
    OBVIOUS
  <2>1. \A p \in Child : Home(p) \in Tray
    BY DEF Home, Tray
  <2>2. Len(KillOrder) = 5 /\ killed \in 0..Len(KillOrder)
    BY DEF Init, KillOrder
  <2>3. dead \subseteq Child
    BY DEF Init
  <2>4. slot \in [Child -> 0..BufferSize]
    BY DEF Init
  <2>5. buffer \in [Tray -> [Slot -> (UNION {Menu[t] : t \in Tray}) \cup {NoDish}]]
    BY DEF Init
  <2>6. \A t \in Tray, i \in Slot : buffer[t][i] \in Menu[t] \cup {NoDish}
    BY DEF Init
  <2>7. tray \in [Child -> Tray]
    BY <2>1 DEF Init
  <2>8. /\ mutex \in [Tray -> Nat]
        /\ empty \in [Tray -> Nat]
        /\ full \in [Tray -> Nat]
        /\ pc \in [Child -> Place]
    BY DEF Init
  <2>9. /\ sigint \in BOOLEAN
        /\ interrupted \subseteq Child \cup {"parent"}
        /\ term \subseteq Child
        /\ parent \in {"loop", "kill", "done"}
    BY DEF Init
  <2>10. QED
    BY <2>2, <2>3, <2>4, <2>5, <2>6, <2>7, <2>8, <2>9 DEF TypeOK
<1>2. TypeOK /\ [Next]_vars => TypeOK'
  <2> SUFFICES ASSUME TypeOK, [Next]_vars PROVE TypeOK'
    OBVIOUS
  <2> USE DEF TypeOK
  <2>1. ASSUME NEW p \in Child, p \notin dead, Exit(p) PROVE TypeOK'
    BY <2>1 DEF Exit, semVars
  <2>2. ASSUME NEW p \in Child, Round(p) PROVE TypeOK'
    <3>1. Home(p) \in Tray
      BY DEF Home, Tray
    <3>2. QED
      BY <2>2, <3>1 DEF Round, Goto, semVars, signalVars
  <2>3. ASSUME NEW p \in Child, WaitEmpty(p) PROVE TypeOK'
    BY <2>3 DEF WaitEmpty, Goto, signalVars
  <2>4. ASSUME NEW p \in Child, WaitFull(p) PROVE TypeOK'
    BY <2>4 DEF WaitFull, Goto, signalVars
  <2>5. ASSUME NEW p \in Child, TimedOut(p) PROVE TypeOK'
    BY <2>5 DEF TimedOut, Tray, semVars, signalVars
  <2>6. ASSUME NEW p \in Child, WaitMutex(p) PROVE TypeOK'
    BY <2>6 DEF WaitMutex, Goto, signalVars
  <2>7. ASSUME NEW p \in Child, Scan(p) PROVE TypeOK'
    <3>1. ASSUME NEW S \in SUBSET Slot PROVE First(S) \in 0..BufferSize
      <4>1. CASE S = {}
        BY <4>1 DEF First
      <4>2. CASE S # {}
        <5>1. First(S) \in Slot
          BY <4>2, FirstInSet
        <5>2. QED
          BY <5>1 DEF Slot
      <4>3. QED
        BY <4>1, <4>2
    <3>2. Free(tray[p]) \in SUBSET Slot /\ Occupied(tray[p]) \in SUBSET Slot
      BY DEF Free, Occupied
    <3>3. slot'[p] \in 0..BufferSize
      BY <2>7, <3>1, <3>2 DEF Scan
    <3>4. QED
      BY <2>7, <3>3 DEF Scan, Goto, semVars, signalVars
  <2>8. ASSUME NEW p \in Child, NEW dish \in Menu[tray[p]] \cup {NoDish}, Put(p, dish)
        PROVE  /\ buffer' \in [Tray -> [Slot -> (UNION {Menu[t] : t \in Tray}) \cup {NoDish}]]
               /\ \A t \in Tray, i \in Slot : buffer'[t][i] \in Menu[t] \cup {NoDish}
    <3>1. tray[p] \in Tray /\ slot[p] \in 0..BufferSize
      OBVIOUS
    <3>2. CASE slot[p] = 0
      BY <2>8, <3>2 DEF Put
    <3>3. CASE slot[p] # 0
      <4>1. slot[p] \in Slot
        BY <3>1, <3>3 DEF Slot
      <4>2. buffer' = [buffer EXCEPT ![tray[p]][slot[p]] = dish]
        BY <2>8, <3>3 DEF Put
      <4>3. dish \in (UNION {Menu[t] : t \in Tray}) \cup {NoDish}
        BY <2>8, <3>1
      <4>4. \A t \in Tray, i \in Slot :
               buffer'[t][i] = IF t = tray[p] /\ i = slot[p] THEN dish ELSE buffer[t][i]
        BY <3>1, <4>1, <4>2
      <4>5. buffer' \in [Tray -> [Slot -> (UNION {Menu[t] : t \in Tray}) \cup {NoDish}]]
        BY <3>1, <4>1, <4>2, <4>3
      <4>6. ASSUME NEW t \in Tray, NEW i \in Slot
            PROVE  buffer'[t][i] \in Menu[t] \cup {NoDish}
        BY <2>8, <4>4
      <4>7. QED
        BY <4>5, <4>6
    <3>4. QED
      BY <3>2, <3>3
  <2>9. ASSUME NEW p \in Child, Store(p) PROVE TypeOK'
    BY <2>8, <2>9 DEF Store, Goto, semVars, signalVars
  <2>10. ASSUME NEW p \in Child, Take(p) PROVE TypeOK'
    BY <2>8, <2>10 DEF Take, Goto, semVars, signalVars
  <2>11. ASSUME NEW p \in Child, PostFull(p) PROVE TypeOK'
    BY <2>11 DEF PostFull, Goto, signalVars
  <2>12. ASSUME NEW p \in Child, PostMutex(p) PROVE TypeOK'
    BY <2>12 DEF PostMutex, Goto, signalVars
  <2>13. ASSUME NEW p \in Child, PostEmpty(p) PROVE TypeOK'
    BY <2>13 DEF PostEmpty, Goto, signalVars
  <2>14. ASSUME NEW p \in Child, Die(p) PROVE TypeOK'
    BY <2>14 DEF Die, semVars
  <2>15. CASE Sigint
    BY <2>15 DEF Sigint, semVars
  <2>16. ASSUME NEW q \in Child \cup {"parent"}, HandleSigint(q) PROVE TypeOK'
    BY <2>16 DEF HandleSigint, semVars
  <2>17. CASE EndLoop
    BY <2>17 DEF EndLoop, semVars
  <2>18. CASE Kill
    <3>1. Len(KillOrder) = 5 /\ \A i \in 1..5 : KillOrder[i] \in Child
      BY DEF KillOrder, Child, Producer, Consumer
    <3>2. QED
      BY <2>18, <3>1 DEF Kill, semVars
  <2>19. CASE WaitForChildren
    BY <2>19 DEF WaitForChildren, semVars
  <2>20. CASE UNCHANGED vars
    BY <2>20 DEF vars, signalVars
  <2>21. QED
    BY <2>1, <2>2, <2>3, <2>4, <2>5, <2>6, <2>7, <2>9, <2>10, <2>11, <2>12, <2>13,
       <2>14, <2>15, <2>16, <2>17, <2>18, <2>19, <2>20
       DEF Next, ChildStep, Parent
<1>3. QED
  BY <1>1, <1>2, PTL DEF Spec
-----------------------------------------------------------------------------
(* Mutual exclusion and the counts of empty and full. *)

\* The places in which a child owes or owns something of its tray.
Inside == {"mutex", "scan", "access", "post_full", "post_mutex", "post_empty"}

\* A step from outside to outside, which may change the child's tray, changes no
\* count.
LEMMA AtKept ==
    ASSUME NEW S \in SUBSET Child, NEW t, NEW L \in SUBSET Inside, NEW p \in Child,
           TypeOK, Round(p) \/ TimedOut(p)
    PROVE  At(S, t, L)' = At(S, t, L)
<1>1. pc[p] \notin L
  BY DEF Inside, Round, TimedOut, Goto
<1>2. pc'[p] \notin L
  BY DEF TypeOK, Inside, Round, TimedOut, Goto
<1>3. \A x \in Child : x # p => pc'[x] = pc[x] /\ tray'[x] = tray[x]
  BY DEF TypeOK, Round, TimedOut, Goto
<1>4. QED
  BY <1>1, <1>2, <1>3 DEF At

\* The counts of the invariants, for one tray.
SectionCount(t) == Cardinality(At(Child, t, Section))
CookCount(t)    == Cardinality(At(Producer, t, HasSlot))
GuestCount(t)   == Cardinality(At(Consumer, t, HasDish))
StoredCount(t)  == Cardinality(At(Producer, t, {"post_full"}))
OwedCount(t)    == Cardinality(At(Consumer, t, Owed))

LEMMA CountTypes ==
    ASSUME NEW t
    PROVE  /\ SectionCount(t) \in Nat /\ CookCount(t) \in Nat /\ GuestCount(t) \in Nat
           /\ StoredCount(t) \in Nat /\ OwedCount(t) \in Nat
<1>1. Child \in SUBSET Child /\ Producer \in SUBSET Child /\ Consumer \in SUBSET Child
  BY DEF Child
<1>2. \A S \in SUBSET Child : \A L : Cardinality(At(S, t, L)) \in Nat
  BY AtFinite
<1>3. QED
  BY <1>1, <1>2 DEF SectionCount, CookCount, GuestCount, StoredCount, OwedCount

LEMMA CountsKept ==
    ASSUME NEW t, NEW p \in Child, TypeOK, Round(p) \/ TimedOut(p)
    PROVE  /\ SectionCount(t)' = SectionCount(t)
           /\ CookCount(t)' = CookCount(t) /\ GuestCount(t)' = GuestCount(t)
           /\ StoredCount(t)' = StoredCount(t) /\ OwedCount(t)' = OwedCount(t)
<1>1. /\ Section \in SUBSET Inside /\ HasSlot \in SUBSET Inside /\ HasDish \in SUBSET Inside
      /\ {"post_full"} \in SUBSET Inside /\ Owed \in SUBSET Inside
  BY DEF Section, HasSlot, HasDish, Owed, Inside
<1>2. Child \in SUBSET Child /\ Producer \in SUBSET Child /\ Consumer \in SUBSET Child
  BY DEF Child
<1>3. /\ At(Child, t, Section)' = At(Child, t, Section)
      /\ At(Producer, t, HasSlot)' = At(Producer, t, HasSlot)
      /\ At(Consumer, t, HasDish)' = At(Consumer, t, HasDish)
      /\ At(Producer, t, {"post_full"})' = At(Producer, t, {"post_full"})
      /\ At(Consumer, t, Owed)' = At(Consumer, t, Owed)
  BY <1>1, <1>2, AtKept
<1>4. QED
  BY <1>3 DEF SectionCount, CookCount, GuestCount, StoredCount, OwedCount

LEMMA CountsChange ==
    ASSUME NEW t, NEW p \in Child, TypeOK, NEW from, NEW to, Goto(p, from, to), UNCHANGED tray
    PROVE  /\ tray[p] # t =>
                /\ SectionCount(t)' = SectionCount(t)
                /\ CookCount(t)' = CookCount(t) /\ GuestCount(t)' = GuestCount(t)
                /\ StoredCount(t)' = StoredCount(t) /\ OwedCount(t)' = OwedCount(t)
           /\ tray[p] = t =>
                /\ SectionCount(t)' = SectionCount(t) + In(to \in Section) - In(from \in Section)
                /\ p \in Producer =>
                     /\ CookCount(t)' = CookCount(t) + In(to \in HasSlot) - In(from \in HasSlot)
                     /\ StoredCount(t)' = StoredCount(t) + In(to = "post_full") - In(from = "post_full")
                     /\ GuestCount(t)' = GuestCount(t) /\ OwedCount(t)' = OwedCount(t)
                /\ p \in Consumer =>
                     /\ GuestCount(t)' = GuestCount(t) + In(to \in HasDish) - In(from \in HasDish)
                     /\ OwedCount(t)' = OwedCount(t) + In(to \in Owed) - In(from \in Owed)
                     /\ CookCount(t)' = CookCount(t) /\ StoredCount(t)' = StoredCount(t)
<1>1. Child \in SUBSET Child /\ Producer \in SUBSET Child /\ Consumer \in SUBSET Child
  BY DEF Child
<1>2. \A x : ~ (x \in Producer /\ x \in Consumer)
  BY DEF Producer, Consumer
<1>3. pc \in [Child -> Place]
  BY DEF TypeOK
<1>4. In(FALSE) = 0
  BY DEF In
<1>5. SectionCount(t)' = SectionCount(t) + In(p \in Child /\ tray[p] = t /\ to \in Section)
                                         - In(p \in Child /\ tray[p] = t /\ from \in Section)
  BY <1>1, <1>3, AtChange DEF SectionCount
<1>6. CookCount(t)' = CookCount(t) + In(p \in Producer /\ tray[p] = t /\ to \in HasSlot)
                                   - In(p \in Producer /\ tray[p] = t /\ from \in HasSlot)
  BY <1>1, <1>3, AtChange DEF CookCount
<1>7. GuestCount(t)' = GuestCount(t) + In(p \in Consumer /\ tray[p] = t /\ to \in HasDish)
                                     - In(p \in Consumer /\ tray[p] = t /\ from \in HasDish)
  BY <1>1, <1>3, AtChange DEF GuestCount
<1>8. StoredCount(t)' = StoredCount(t) + In(p \in Producer /\ tray[p] = t /\ to \in {"post_full"})
                                       - In(p \in Producer /\ tray[p] = t /\ from \in {"post_full"})
  BY <1>1, <1>3, AtChange DEF StoredCount
<1>9. OwedCount(t)' = OwedCount(t) + In(p \in Consumer /\ tray[p] = t /\ to \in Owed)
                                   - In(p \in Consumer /\ tray[p] = t /\ from \in Owed)
  BY <1>1, <1>3, AtChange DEF OwedCount
<1>10. QED
  BY <1>2, <1>4, <1>5, <1>6, <1>7, <1>8, <1>9, CountTypes DEF In

\* The three invariants in terms of the counts.
MutexInv == \A t \in Tray : mutex[t] + SectionCount(t) = 1
SlotsInv == \A t \in Tray : empty[t] + full[t] + CookCount(t) + GuestCount(t) = BufferSize
DishesInv ==
    \A t \in Tray : Cardinality(Occupied(t)) = full[t] + StoredCount(t) + OwedCount(t)

LEMMA InvsAsCounts ==
    /\ TypeOK /\ MutexInv => MutualExclusion
    /\ SlotsAccounted <=> SlotsInv
    /\ DishesAccounted <=> DishesInv
<1>1. ASSUME TypeOK, MutexInv PROVE MutualExclusion
  <2>1. \A t \in Tray : SectionCount(t) = Cardinality(InSection(t))
    BY DEF SectionCount, InSection, Section
  <2>2. \A t \in Tray : mutex[t] \in Nat /\ SectionCount(t) \in Nat
    BY <1>1, CountTypes DEF TypeOK
  <2>3. QED
    BY <1>1, <2>1, <2>2 DEF MutexInv, MutualExclusion
<1>2. SlotsAccounted <=> SlotsInv
  BY DEF SlotsAccounted, SlotsInv, CookCount, GuestCount, HasSlot, HasDish
<1>3. DishesAccounted <=> DishesInv
  BY DEF DishesAccounted, DishesInv, StoredCount, OwedCount, Owed
<1>4. QED
  BY <1>1, <1>2, <1>3

LEMMA CountsAtInit ==
    ASSUME Init, NEW t
    PROVE  /\ SectionCount(t) = 0 /\ CookCount(t) = 0 /\ GuestCount(t) = 0
           /\ StoredCount(t) = 0 /\ OwedCount(t) = 0
<1>1. \A x \in Child : pc[x] = "top"
  BY DEF Init
<1>2. /\ At(Child, t, Section) = {}
      /\ At(Producer, t, HasSlot) = {}
      /\ At(Consumer, t, HasDish) = {}
      /\ At(Producer, t, {"post_full"}) = {}
      /\ At(Consumer, t, Owed) = {}
  BY <1>1 DEF At, Child, Section, HasSlot, HasDish, Owed
<1>3. QED
  BY <1>2, FS_EmptySet DEF SectionCount, CookCount, GuestCount, StoredCount, OwedCount

\* A step that leaves places and trays alone changes no count.
LEMMA CountsUnchanged ==
    ASSUME UNCHANGED <<pc, tray>>, NEW t
    PROVE  /\ SectionCount(t)' = SectionCount(t)
           /\ CookCount(t)' = CookCount(t) /\ GuestCount(t)' = GuestCount(t)
           /\ StoredCount(t)' = StoredCount(t) /\ OwedCount(t)' = OwedCount(t)
BY DEF SectionCount, CookCount, GuestCount, StoredCount, OwedCount, At

\* The steps that are no child's step towards or in its critical section.
Quiet ==
    \/ \E p \in Child : Exit(p) \/ Die(p)
    \/ Sigint \/ Parent
    \/ \E q \in Child \cup {"parent"} : HandleSigint(q)
    \/ UNCHANGED vars

LEMMA QuietKeeps ==
    ASSUME Quiet
    PROVE  UNCHANGED <<buffer, mutex, empty, full, pc, tray, slot>>
BY DEF Quiet, Exit, Die, Sigint, Parent, EndLoop, Kill, WaitForChildren, HandleSigint,
       semVars, vars, signalVars

LEMMA NextCases ==
    ASSUME [Next]_vars
    PROVE  \/ Quiet
           \/ \E p \in Child :
                \/ Round(p) \/ TimedOut(p) \/ WaitEmpty(p) \/ WaitFull(p) \/ WaitMutex(p)
                \/ Scan(p) \/ Store(p) \/ Take(p) \/ PostFull(p) \/ PostMutex(p) \/ PostEmpty(p)
BY DEF Next, ChildStep, Quiet

\* At most one process is in the critical section of a tray: mutex and the
\* number of children inside add up to one, for any children and trays.
THEOREM MutualExclusionHolds == Spec => []MutualExclusion
<1>1. Init => MutexInv
  <2> SUFFICES ASSUME Init, NEW t \in Tray PROVE mutex[t] + SectionCount(t) = 1
    BY DEF MutexInv
  <2>1. SectionCount(t) = 0
    BY CountsAtInit
  <2>2. mutex[t] = 1
    BY DEF Init
  <2>3. QED
    BY <2>1, <2>2
<1>2. TypeOK /\ MutexInv /\ [Next]_vars => MutexInv'
  <2> SUFFICES ASSUME TypeOK, MutexInv, [Next]_vars, NEW t \in Tray
               PROVE  mutex'[t] + SectionCount(t)' = 1
    BY DEF MutexInv
  <2>0. /\ mutex[t] + SectionCount(t) = 1
        /\ mutex \in [Tray -> Nat] /\ SectionCount(t) \in Nat
        /\ tray \in [Child -> Tray]
    BY CountTypes DEF MutexInv, TypeOK
  <2>1. CASE Quiet
    BY <2>0, <2>1, QuietKeeps, CountsUnchanged
  <2>2. ASSUME NEW p \in Child, Round(p) \/ TimedOut(p) PROVE mutex'[t] + SectionCount(t)' = 1
    BY <2>0, <2>2, CountsKept DEF Round, TimedOut, semVars
  <2>3. ASSUME NEW p \in Child, WaitEmpty(p) \/ WaitFull(p) PROVE mutex'[t] + SectionCount(t)' = 1
    BY <2>0, <2>3, CountsChange DEF WaitEmpty, WaitFull, Section, In
  <2>4. ASSUME NEW p \in Child, WaitMutex(p) PROVE mutex'[t] + SectionCount(t)' = 1
    BY <2>0, <2>4, CountsChange DEF WaitMutex, Section, In
  <2>5. ASSUME NEW p \in Child, Scan(p) \/ Store(p) \/ Take(p) \/ PostFull(p)
        PROVE  mutex'[t] + SectionCount(t)' = 1
    BY <2>0, <2>5, CountsChange DEF Scan, Store, Take, PostFull, Section, In, semVars
  <2>6. ASSUME NEW p \in Child, PostMutex(p) PROVE mutex'[t] + SectionCount(t)' = 1
    <3>1. ~ (IF p \in Producer THEN "top" ELSE "post_empty") \in Section
      BY DEF Section
    <3>2. QED
      BY <2>0, <2>6, <3>1, CountsChange DEF PostMutex, Section, In
  <2>7. ASSUME NEW p \in Child, PostEmpty(p) PROVE mutex'[t] + SectionCount(t)' = 1
    BY <2>0, <2>7, CountsChange DEF PostEmpty, Section, In
  <2>8. QED
    BY <2>1, <2>2, <2>3, <2>4, <2>5, <2>6, <2>7, NextCases
<1>3. QED
  BY <1>1, <1>2, Typing, InvsAsCounts, PTL DEF Spec

\* Every slot of a tray is counted by empty, counted by full or in one child's
\* hands: the semaphores never promise more than BufferSize.
THEOREM SlotsAccountedHolds == Spec => []SlotsAccounted
<1>1. Init => SlotsInv
  <2> SUFFICES ASSUME Init, NEW t \in Tray
               PROVE  empty[t] + full[t] + CookCount(t) + GuestCount(t) = BufferSize
    BY DEF SlotsInv
  <2>1. CookCount(t) = 0 /\ GuestCount(t) = 0
    BY CountsAtInit
  <2>2. empty[t] = BufferSize /\ full[t] = 0
    BY DEF Init
  <2>3. QED
    BY <2>1, <2>2, ProducerConsumerAssumption
<1>2. TypeOK /\ SlotsInv /\ [Next]_vars => SlotsInv'
  <2> SUFFICES ASSUME TypeOK, SlotsInv, [Next]_vars, NEW t \in Tray
               PROVE  empty'[t] + full'[t] + CookCount(t)' + GuestCount(t)' = BufferSize
    BY DEF SlotsInv
  <2> DEFINE Goal == empty'[t] + full'[t] + CookCount(t)' + GuestCount(t)' = BufferSize
  <2>0. /\ empty[t] + full[t] + CookCount(t) + GuestCount(t) = BufferSize
        /\ empty \in [Tray -> Nat] /\ full \in [Tray -> Nat]
        /\ CookCount(t) \in Nat /\ GuestCount(t) \in Nat
        /\ tray \in [Child -> Tray]
    BY CountTypes DEF SlotsInv, TypeOK
  <2>a. \A p \in Child : p \in Producer \/ p \in Consumer
    BY DEF Child
  <2>1. CASE Quiet
    BY <2>0, <2>1, QuietKeeps, CountsUnchanged
  <2>2. ASSUME NEW p \in Child, Round(p) \/ TimedOut(p) PROVE Goal
    BY <2>0, <2>2, CountsKept DEF Round, TimedOut, semVars
  <2>3. ASSUME NEW p \in Child, p \in Producer, WaitEmpty(p) PROVE Goal
    <3>1. Goto(p, "empty", "mutex") /\ UNCHANGED tray
      BY <2>3 DEF WaitEmpty
    <3>2. /\ GuestCount(t)' = GuestCount(t)
          /\ tray[p] # t => CookCount(t)' = CookCount(t)
          /\ tray[p] = t =>
               CookCount(t)' = CookCount(t) + In("mutex" \in HasSlot) - In("empty" \in HasSlot)
      BY <2>3, <3>1, CountsChange
    <3>3. In("mutex" \in HasSlot) = 1 /\ In("empty" \in HasSlot) = 0
      BY DEF In, HasSlot
    <3>4. empty'[t] = (IF tray[p] = t THEN empty[t] - 1 ELSE empty[t]) /\ full' = full
      BY <2>0, <2>3 DEF WaitEmpty
    <3>5. QED
      BY <2>0, <3>2, <3>3, <3>4
  <2>4. ASSUME NEW p \in Child, p \in Consumer, WaitFull(p) PROVE Goal
    <3>1. Goto(p, "full", "mutex") /\ UNCHANGED tray
      BY <2>4 DEF WaitFull
    <3>2. /\ CookCount(t)' = CookCount(t)
          /\ tray[p] # t => GuestCount(t)' = GuestCount(t)
          /\ tray[p] = t =>
               GuestCount(t)' = GuestCount(t) + In("mutex" \in HasDish) - In("full" \in HasDish)
      BY <2>4, <3>1, CountsChange
    <3>3. In("mutex" \in HasDish) = 1 /\ In("full" \in HasDish) = 0
      BY DEF In, HasDish
    <3>4. full'[t] = (IF tray[p] = t THEN full[t] - 1 ELSE full[t]) /\ empty' = empty
      BY <2>0, <2>4 DEF WaitFull
    <3>5. QED
      BY <2>0, <3>2, <3>3, <3>4
  <2>5. ASSUME NEW p \in Child, p \in Producer, WaitMutex(p) PROVE Goal
    <3>1. Goto(p, "mutex", "scan") /\ UNCHANGED tray
      BY <2>5 DEF WaitMutex
    <3>2. /\ GuestCount(t)' = GuestCount(t)
          /\ tray[p] # t => CookCount(t)' = CookCount(t)
          /\ tray[p] = t =>
               CookCount(t)' = CookCount(t) + In("scan" \in HasSlot) - In("mutex" \in HasSlot)
      BY <2>5, <3>1, CountsChange
    <3>3. In("scan" \in HasSlot) = 1 /\ In("mutex" \in HasSlot) = 1
      BY DEF In, HasSlot
    <3>4. empty' = empty /\ full' = full
      BY <2>0, <2>5 DEF WaitMutex
    <3>5. QED
      BY <2>0, <3>2, <3>3, <3>4
  <2>6. ASSUME NEW p \in Child, p \in Consumer, WaitMutex(p) PROVE Goal
    <3>1. Goto(p, "mutex", "scan") /\ UNCHANGED tray
      BY <2>6 DEF WaitMutex
    <3>2. /\ CookCount(t)' = CookCount(t)
          /\ tray[p] # t => GuestCount(t)' = GuestCount(t)
          /\ tray[p] = t =>
               GuestCount(t)' = GuestCount(t) + In("scan" \in HasDish) - In("mutex" \in HasDish)
      BY <2>6, <3>1, CountsChange
    <3>3. In("scan" \in HasDish) = 1 /\ In("mutex" \in HasDish) = 1
      BY DEF In, HasDish
    <3>4. empty' = empty /\ full' = full
      BY <2>0, <2>6 DEF WaitMutex
    <3>5. QED
      BY <2>0, <3>2, <3>3, <3>4
  <2>7. ASSUME NEW p \in Child, p \in Producer, Scan(p) PROVE Goal
    <3>1. Goto(p, "scan", "access") /\ UNCHANGED tray
      BY <2>7 DEF Scan
    <3>2. /\ GuestCount(t)' = GuestCount(t)
          /\ tray[p] # t => CookCount(t)' = CookCount(t)
          /\ tray[p] = t =>
               CookCount(t)' = CookCount(t) + In("access" \in HasSlot) - In("scan" \in HasSlot)
      BY <2>7, <3>1, CountsChange
    <3>3. In("access" \in HasSlot) = 1 /\ In("scan" \in HasSlot) = 1
      BY DEF In, HasSlot
    <3>4. empty' = empty /\ full' = full
      BY <2>0, <2>7 DEF Scan, semVars
    <3>5. QED
      BY <2>0, <3>2, <3>3, <3>4
  <2>8. ASSUME NEW p \in Child, p \in Consumer, Scan(p) PROVE Goal
    <3>1. Goto(p, "scan", "access") /\ UNCHANGED tray
      BY <2>8 DEF Scan
    <3>2. /\ CookCount(t)' = CookCount(t)
          /\ tray[p] # t => GuestCount(t)' = GuestCount(t)
          /\ tray[p] = t =>
               GuestCount(t)' = GuestCount(t) + In("access" \in HasDish) - In("scan" \in HasDish)
      BY <2>8, <3>1, CountsChange
    <3>3. In("access" \in HasDish) = 1 /\ In("scan" \in HasDish) = 1
      BY DEF In, HasDish
    <3>4. empty' = empty /\ full' = full
      BY <2>0, <2>8 DEF Scan, semVars
    <3>5. QED
      BY <2>0, <3>2, <3>3, <3>4
  <2>9. ASSUME NEW p \in Child, p \in Producer, Store(p) PROVE Goal
    <3>1. Goto(p, "access", "post_full") /\ UNCHANGED tray
      BY <2>9 DEF Store
    <3>2. /\ GuestCount(t)' = GuestCount(t)
          /\ tray[p] # t => CookCount(t)' = CookCount(t)
          /\ tray[p] = t =>
               CookCount(t)' = CookCount(t) + In("post_full" \in HasSlot) - In("access" \in HasSlot)
      BY <2>9, <3>1, CountsChange
    <3>3. In("post_full" \in HasSlot) = 1 /\ In("access" \in HasSlot) = 1
      BY DEF In, HasSlot
    <3>4. empty' = empty /\ full' = full
      BY <2>0, <2>9 DEF Store, semVars
    <3>5. QED
      BY <2>0, <3>2, <3>3, <3>4
  <2>10. ASSUME NEW p \in Child, p \in Consumer, Take(p) PROVE Goal
    <3>1. Goto(p, "access", "post_mutex") /\ UNCHANGED tray
      BY <2>10 DEF Take
    <3>2. /\ CookCount(t)' = CookCount(t)
          /\ tray[p] # t => GuestCount(t)' = GuestCount(t)
          /\ tray[p] = t =>
               GuestCount(t)' = GuestCount(t) + In("post_mutex" \in HasDish) - In("access" \in HasDish)
      BY <2>10, <3>1, CountsChange
    <3>3. In("post_mutex" \in HasDish) = 1 /\ In("access" \in HasDish) = 1
      BY DEF In, HasDish
    <3>4. empty' = empty /\ full' = full
      BY <2>0, <2>10 DEF Take, semVars
    <3>5. QED
      BY <2>0, <3>2, <3>3, <3>4
  <2>11. ASSUME NEW p \in Child, p \in Producer, PostFull(p) PROVE Goal
    <3>1. Goto(p, "post_full", "post_mutex") /\ UNCHANGED tray
      BY <2>11 DEF PostFull
    <3>2. /\ GuestCount(t)' = GuestCount(t)
          /\ tray[p] # t => CookCount(t)' = CookCount(t)
          /\ tray[p] = t =>
               CookCount(t)' = CookCount(t) + In("post_mutex" \in HasSlot) - In("post_full" \in HasSlot)
      BY <2>11, <3>1, CountsChange
    <3>3. In("post_mutex" \in HasSlot) = 0 /\ In("post_full" \in HasSlot) = 1
      BY DEF In, HasSlot
    <3>4. full'[t] = (IF tray[p] = t THEN full[t] + 1 ELSE full[t]) /\ empty' = empty
      BY <2>0, <2>11 DEF PostFull
    <3>5. QED
      BY <2>0, <3>2, <3>3, <3>4
  <2>12. ASSUME NEW p \in Child, p \in Producer, PostMutex(p) PROVE Goal
    <3>1. Goto(p, "post_mutex", "top") /\ UNCHANGED tray
      BY <2>12 DEF PostMutex, Producer, Consumer
    <3>2. /\ GuestCount(t)' = GuestCount(t)
          /\ tray[p] # t => CookCount(t)' = CookCount(t)
          /\ tray[p] = t =>
               CookCount(t)' = CookCount(t) + In("top" \in HasSlot) - In("post_mutex" \in HasSlot)
      BY <2>12, <3>1, CountsChange
    <3>3. In("top" \in HasSlot) = 0 /\ In("post_mutex" \in HasSlot) = 0
      BY DEF In, HasSlot
    <3>4. empty' = empty /\ full' = full
      BY <2>0, <2>12 DEF PostMutex
    <3>5. QED
      BY <2>0, <3>2, <3>3, <3>4
  <2>13. ASSUME NEW p \in Child, p \in Consumer, PostMutex(p) PROVE Goal
    <3>1. Goto(p, "post_mutex", "post_empty") /\ UNCHANGED tray
      BY <2>13 DEF PostMutex, Producer, Consumer
    <3>2. /\ CookCount(t)' = CookCount(t)
          /\ tray[p] # t => GuestCount(t)' = GuestCount(t)
          /\ tray[p] = t =>
               GuestCount(t)' = GuestCount(t) + In("post_empty" \in HasDish) - In("post_mutex" \in HasDish)
      BY <2>13, <3>1, CountsChange
    <3>3. In("post_empty" \in HasDish) = 1 /\ In("post_mutex" \in HasDish) = 1
      BY DEF In, HasDish
    <3>4. empty' = empty /\ full' = full
      BY <2>0, <2>13 DEF PostMutex
    <3>5. QED
      BY <2>0, <3>2, <3>3, <3>4
  <2>14. ASSUME NEW p \in Child, p \in Consumer, PostEmpty(p) PROVE Goal
    <3>1. Goto(p, "post_empty", "top") /\ UNCHANGED tray
      BY <2>14 DEF PostEmpty
    <3>2. /\ CookCount(t)' = CookCount(t)
          /\ tray[p] # t => GuestCount(t)' = GuestCount(t)
          /\ tray[p] = t =>
               GuestCount(t)' = GuestCount(t) + In("top" \in HasDish) - In("post_empty" \in HasDish)
      BY <2>14, <3>1, CountsChange
    <3>3. In("top" \in HasDish) = 0 /\ In("post_empty" \in HasDish) = 1
      BY DEF In, HasDish
    <3>4. empty'[t] = (IF tray[p] = t THEN empty[t] + 1 ELSE empty[t]) /\ full' = full
      BY <2>0, <2>14 DEF PostEmpty
    <3>5. QED
      BY <2>0, <3>2, <3>3, <3>4
  <2>15. QED
    BY <2>a, <2>1, <2>2, <2>3, <2>4, <2>5, <2>6, <2>7, <2>8, <2>9, <2>10, <2>11, <2>12, <2>13, <2>14,
       NextCases DEF WaitEmpty, WaitFull, Store, Take, PostFull, PostEmpty
<1>3. QED
  BY <1>1, <1>2, Typing, InvsAsCounts, PTL DEF Spec
-----------------------------------------------------------------------------
(* The dishes. *)

\* Two children in the critical section of one tray are one child.
LEMMA AloneInSection ==
    ASSUME TypeOK, MutexInv, NEW p \in Child, NEW q \in Child,
           tray[p] = tray[q], pc[p] \in Section, pc[q] \in Section
    PROVE  p = q
<1> DEFINE A == At(Child, tray[p], Section)
<1>1. p \in A /\ q \in A
  BY DEF At
<1>2. Child \in SUBSET Child
  OBVIOUS
<1>3. IsFiniteSet(A) /\ Cardinality(A) \in Nat
  BY <1>2, AtFinite
<1>4. Cardinality(A) <= 1
  <2>1. mutex[tray[p]] + Cardinality(A) = 1 /\ mutex[tray[p]] \in Nat
    BY DEF MutexInv, SectionCount, TypeOK
  <2>2. QED
    BY <1>3, <2>1
<1>5. IsFiniteSet(A \ {p}) /\ Cardinality(A \ {p}) = Cardinality(A) - 1
  BY <1>1, <1>3, FS_RemoveElement
<1>6. Cardinality(A \ {p}) \in Nat
  BY <1>5, FS_CardinalityType
<1>7. Cardinality(A \ {p}) = 0
  BY <1>3, <1>4, <1>5, <1>6
<1>8. A \ {p} = {}
  BY <1>5, <1>7, FS_EmptySet
<1>9. QED
  BY <1>1, <1>8

\* A child counted among those with a slot or a dish makes the count positive.
LEMMA CountPositive ==
    ASSUME NEW S \in SUBSET Child, NEW t, NEW L, NEW p \in At(S, t, L)
    PROVE  Cardinality(At(S, t, L)) >= 1
<1>1. IsFiniteSet(At(S, t, L)) /\ Cardinality(At(S, t, L)) \in Nat
  BY AtFinite
<1>2. Cardinality(At(S, t, L)) # 0
  BY <1>1, FS_EmptySet
<1>3. QED
  BY <1>1, <1>2

\* Of the children with a slot, one that is not about to post full is not among
\* those that are.
LEMMA StoredBelowCooks ==
    ASSUME NEW p \in Producer, pc[p] = "scan"
    PROVE  StoredCount(tray[p]) <= CookCount(tray[p]) - 1
<1> DEFINE t == tray[p]
           A == At(Producer, t, HasSlot)
           B == At(Producer, t, {"post_full"})
<1>1. Producer \in SUBSET Child
  BY DEF Child
<1>2. IsFiniteSet(A) /\ Cardinality(A) \in Nat /\ Cardinality(B) \in Nat
  BY <1>1, AtFinite
<1>3. p \in A /\ B \subseteq A \ {p}
  BY DEF At, HasSlot
<1>4. IsFiniteSet(A \ {p}) /\ Cardinality(A \ {p}) = Cardinality(A) - 1
  BY <1>2, <1>3, FS_RemoveElement
<1>5. Cardinality(B) <= Cardinality(A \ {p})
  BY <1>3, <1>4, FS_Subset
<1>6. QED
  BY <1>2, <1>4, <1>5 DEF StoredCount, CookCount

LEMMA OwedBelowGuests == \A t : OwedCount(t) <= GuestCount(t)
<1> TAKE t
<1>1. Consumer \in SUBSET Child
  BY DEF Child
<1>2. IsFiniteSet(At(Consumer, t, HasDish))
  BY <1>1, AtFinite
<1>3. At(Consumer, t, Owed) \subseteq At(Consumer, t, HasDish)
  BY DEF At, Owed, HasDish
<1>4. QED
  BY <1>2, <1>3, FS_Subset DEF OwedCount, GuestCount

\* What a child looks for in its scan is there.
LEMMA ScanFinds ==
    ASSUME TypeOK, SlotsInv, DishesInv, NEW p \in Child, pc[p] = "scan"
    PROVE  IF p \in Producer THEN Free(tray[p]) # {} ELSE Occupied(tray[p]) # {}
<1> DEFINE t == tray[p]
<1>1. /\ t \in Tray
      /\ empty[t] \in Nat /\ full[t] \in Nat
  BY DEF TypeOK
<1>2. /\ CookCount(t) \in Nat /\ GuestCount(t) \in Nat
      /\ StoredCount(t) \in Nat /\ OwedCount(t) \in Nat
  BY CountTypes
<1>3. /\ empty[t] + full[t] + CookCount(t) + GuestCount(t) = BufferSize
      /\ Cardinality(Occupied(t)) = full[t] + StoredCount(t) + OwedCount(t)
  BY <1>1 DEF SlotsInv, DishesInv
<1>4. CASE p \in Producer
  <2>1. StoredCount(t) <= CookCount(t) - 1 /\ OwedCount(t) <= GuestCount(t)
    BY <1>4, StoredBelowCooks, OwedBelowGuests
  <2>2. Cardinality(Occupied(t)) < BufferSize
    BY <1>1, <1>2, <1>3, <2>1, ProducerConsumerAssumption
  <2>3. Cardinality(Slot) = BufferSize /\ BufferSize \in Nat
    BY ProducerConsumerAssumption, FS_Interval DEF Slot
  <2>4. Occupied(t) # Slot
    BY <2>2, <2>3
  <2>5. QED
    BY <1>4, <2>4 DEF Free, Occupied
<1>5. CASE p \notin Producer
  <2>1. p \in At(Consumer, t, Owed) /\ Consumer \in SUBSET Child
    BY <1>5 DEF At, Owed, Child
  <2>2. OwedCount(t) >= 1
    BY <2>1, CountPositive DEF OwedCount
  <2>3. Cardinality(Occupied(t)) # 0
    BY <1>1, <1>2, <1>3, <2>2
  <2>4. QED
    BY <1>5, <2>3, FS_EmptySet
<1>6. QED
  BY <1>4, <1>5

\* An access to a slot fills or empties that slot of that tray and no other.
LEMMA PutChange ==
    ASSUME TypeOK, NEW p \in Child, slot[p] \in Slot, NEW dish, Put(p, dish), NEW t \in Tray
    PROVE  /\ t # tray[p] => Occupied(t)' = Occupied(t)
           /\ Occupied(t) \ {slot[p]} = Occupied(t)' \ {slot[p]}
           /\ t = tray[p] => (slot[p] \in Occupied(t)' <=> dish # NoDish)
<1>1. tray[p] \in Tray /\ slot[p] # 0
  BY ProducerConsumerAssumption DEF TypeOK, Slot
<1>2. buffer' = [buffer EXCEPT ![tray[p]][slot[p]] = dish]
  BY <1>1 DEF Put
<1>3. \A i \in Slot :
        buffer'[t][i] = IF t = tray[p] /\ i = slot[p] THEN dish ELSE buffer[t][i]
  BY <1>1, <1>2 DEF TypeOK
<1>4. QED
  BY <1>3 DEF Occupied

\* The step of one child keeps what full promises, given that the slot it
\* accesses is the one it is meant to find.
LEMMA DishesKept ==
    ASSUME TypeOK, DishesInv, ScanStaysTrue, [Next]_vars
    PROVE  DishesInv'
<1> SUFFICES ASSUME NEW t \in Tray
             PROVE  Cardinality(Occupied(t))' = full'[t] + StoredCount(t)' + OwedCount(t)'
  BY DEF DishesInv
<1> DEFINE Goal == Cardinality(Occupied(t))' = full'[t] + StoredCount(t)' + OwedCount(t)'
<1>0. /\ Cardinality(Occupied(t)) = full[t] + StoredCount(t) + OwedCount(t)
      /\ full \in [Tray -> Nat]
      /\ StoredCount(t) \in Nat /\ OwedCount(t) \in Nat
      /\ tray \in [Child -> Tray]
  BY CountTypes DEF DishesInv, TypeOK
<1>a. \A p \in Child : p \in Producer \/ p \in Consumer
  BY DEF Child
<1>b. ASSUME UNCHANGED buffer PROVE Cardinality(Occupied(t))' = Cardinality(Occupied(t))
  BY <1>b DEF Occupied
<1>c. /\ IsFiniteSet(Occupied(t)) /\ Cardinality(Occupied(t)) \in Nat
  BY SlotsFinite
<1>1. CASE Quiet
  BY <1>0, <1>1, <1>b, QuietKeeps, CountsUnchanged
<1>2. ASSUME NEW p \in Child, Round(p) \/ TimedOut(p) PROVE Goal
  BY <1>0, <1>2, <1>b, CountsKept DEF Round, TimedOut, semVars
<1>3. ASSUME NEW p \in Child, WaitFull(p) PROVE Goal
  <2>1. p \in Consumer /\ Goto(p, "full", "mutex") /\ UNCHANGED <<tray, buffer>>
    BY <1>3 DEF WaitFull
  <2>2. /\ StoredCount(t)' = StoredCount(t)
        /\ tray[p] # t => OwedCount(t)' = OwedCount(t)
        /\ tray[p] = t => OwedCount(t)' = OwedCount(t) + In("mutex" \in Owed) - In("full" \in Owed)
    <3>1. CASE tray[p] # t
      BY <2>1, <3>1, CountsChange
    <3>2. CASE tray[p] = t
      <4>1. StoredCount(t)' = StoredCount(t)
        BY <2>1, <3>2, CountsChange
      <4>2. OwedCount(t)' = OwedCount(t) + In("mutex" \in Owed) - In("full" \in Owed)
        BY <2>1, <3>2, CountsChange
      <4>3. QED
        BY <3>2, <4>1, <4>2
    <3>3. QED
      BY <3>1, <3>2
  <2>3. In("mutex" \in Owed) = 1 /\ In("full" \in Owed) = 0
    BY DEF In, Owed
  <2>4. full'[t] = IF tray[p] = t THEN full[t] - 1 ELSE full[t]
    BY <1>0, <1>3 DEF WaitFull
  <2>5. QED
    BY <1>0, <1>b, <2>1, <2>2, <2>3, <2>4
<1>4. ASSUME NEW p \in Child, PostFull(p) PROVE Goal
  <2>1. p \in Producer /\ Goto(p, "post_full", "post_mutex") /\ UNCHANGED <<tray, buffer>>
    BY <1>4 DEF PostFull
  <2>2. /\ OwedCount(t)' = OwedCount(t)
        /\ tray[p] # t => StoredCount(t)' = StoredCount(t)
        /\ tray[p] = t =>
             StoredCount(t)' = StoredCount(t) + In("post_mutex" = "post_full") - In("post_full" = "post_full")
    BY <2>1, CountsChange
  <2>3. In("post_mutex" = "post_full") = 0 /\ In("post_full" = "post_full") = 1
    BY DEF In
  <2>4. full'[t] = IF tray[p] = t THEN full[t] + 1 ELSE full[t]
    BY <1>0, <1>4 DEF PostFull
  <2>5. QED
    BY <1>0, <1>b, <2>1, <2>2, <2>3, <2>4
<1>5. ASSUME NEW p \in Child, NEW from, NEW to, Goto(p, from, to), UNCHANGED <<tray, buffer, full>>,
             from # "post_full", to # "post_full", from \in Owed <=> to \in Owed
      PROVE  Goal
  <2>1. /\ In(from \in Owed) = In(to \in Owed) /\ In(from \in Owed) \in Int
        /\ In(from = "post_full") = 0 /\ In(to = "post_full") = 0
    BY <1>5 DEF In
  <2>2. StoredCount(t)' = StoredCount(t) /\ OwedCount(t)' = OwedCount(t)
    <3>1. CASE tray[p] # t
      BY <1>5, <3>1, CountsChange
    <3>2. CASE tray[p] = t /\ p \in Producer
      <4>1. StoredCount(t)' = StoredCount(t) + In(to = "post_full") - In(from = "post_full")
        BY <1>5, <3>2, CountsChange
      <4>2. OwedCount(t)' = OwedCount(t)
        BY <1>5, <3>2, CountsChange
      <4>3. QED
        BY <1>0, <2>1, <4>1, <4>2
    <3>3. CASE tray[p] = t /\ p \in Consumer
      <4>1. /\ OwedCount(t)' = OwedCount(t) + In(to \in Owed) - In(from \in Owed)
            /\ StoredCount(t)' = StoredCount(t)
        BY <1>5, <3>3, CountsChange
      <4>2. QED
        BY <1>0, <2>1, <4>1
    <3>4. QED
      BY <1>a, <3>1, <3>2, <3>3
  <2>3. QED
    BY <1>0, <1>5, <1>b, <2>2
<1>6. ASSUME NEW p \in Child, WaitEmpty(p) PROVE Goal
  <2>1. p \in Producer /\ Goto(p, "empty", "mutex") /\ UNCHANGED <<tray, buffer, full>>
    BY <1>6 DEF WaitEmpty
  <2>2. /\ OwedCount(t)' = OwedCount(t)
        /\ tray[p] # t => StoredCount(t)' = StoredCount(t)
        /\ tray[p] = t =>
             StoredCount(t)' = StoredCount(t) + In("mutex" = "post_full") - In("empty" = "post_full")
    BY <2>1, CountsChange
  <2>3. In("mutex" = "post_full") = 0 /\ In("empty" = "post_full") = 0
    BY DEF In
  <2>4. QED
    BY <1>0, <1>b, <2>1, <2>2, <2>3
<1>7. ASSUME NEW p \in Child, WaitMutex(p) PROVE Goal
  <2>1. Goto(p, "mutex", "scan") /\ UNCHANGED <<tray, buffer, full>>
    BY <1>7 DEF WaitMutex
  <2>2. "mutex" \in Owed /\ "scan" \in Owed
    BY DEF Owed
  <2>3. QED
    BY <1>5, <2>1, <2>2
<1>8. ASSUME NEW p \in Child, Scan(p) PROVE Goal
  <2>1. Goto(p, "scan", "access") /\ UNCHANGED <<tray, buffer, full>>
    BY <1>8 DEF Scan, semVars
  <2>2. "scan" \in Owed /\ "access" \in Owed
    BY DEF Owed
  <2>3. QED
    BY <1>5, <2>1, <2>2
<1>9. ASSUME NEW p \in Child, PostMutex(p) PROVE Goal
  <2>1. /\ UNCHANGED <<tray, buffer, full>>
        /\ Goto(p, "post_mutex", IF p \in Producer THEN "top" ELSE "post_empty")
    BY <1>9 DEF PostMutex
  <2>2. "post_mutex" \notin Owed /\ "top" \notin Owed /\ "post_empty" \notin Owed
    BY DEF Owed
  <2>3. (IF p \in Producer THEN "top" ELSE "post_empty") # "post_full"
    OBVIOUS
  <2>4. QED
    BY <1>5, <2>1, <2>2, <2>3
<1>10. ASSUME NEW p \in Child, PostEmpty(p) PROVE Goal
  <2>1. Goto(p, "post_empty", "top") /\ UNCHANGED <<tray, buffer, full>>
    BY <1>10 DEF PostEmpty
  <2>2. "post_empty" \notin Owed /\ "top" \notin Owed
    BY DEF Owed
  <2>3. QED
    BY <1>5, <2>1, <2>2
<1>11. ASSUME NEW p \in Child, Store(p) PROVE Goal
  <2>1. p \in Producer /\ Goto(p, "access", "post_full") /\ UNCHANGED <<tray, full>>
    BY <1>11 DEF Store, semVars
  <2>2. /\ OwedCount(t)' = OwedCount(t)
        /\ tray[p] # t => StoredCount(t)' = StoredCount(t)
        /\ tray[p] = t =>
             StoredCount(t)' = StoredCount(t) + In("post_full" = "post_full") - In("access" = "post_full")
    BY <2>1, CountsChange
  <2>3. In("post_full" = "post_full") = 1 /\ In("access" = "post_full") = 0
    BY DEF In
  <2>4. PICK dish \in Menu[tray[p]] : Put(p, dish)
    BY <1>11 DEF Store
  <2>5. dish # NoDish
    BY <1>0, ProducerConsumerAssumption
  <2>6. slot[p] \in Free(tray[p])
    BY <2>1 DEF ScanStaysTrue, Goto
  <2>7. slot[p] \in Slot /\ slot[p] \notin Occupied(tray[p])
    BY <2>6 DEF Free
  <2>8. /\ t # tray[p] => Occupied(t)' = Occupied(t)
        /\ Occupied(t) \ {slot[p]} = Occupied(t)' \ {slot[p]}
        /\ t = tray[p] => slot[p] \in Occupied(t)'
    BY <2>4, <2>5, <2>7, PutChange
  <2>9. Cardinality(Occupied(t)') = Cardinality(Occupied(t)) + In(slot[p] \in Occupied(t)')
                                    - In(slot[p] \in Occupied(t))
    BY <1>c, <2>8, CountChange
  <2>10. CASE tray[p] = t
    <3>1. In(slot[p] \in Occupied(t)') = 1 /\ In(slot[p] \in Occupied(t)) = 0
      BY <2>7, <2>8, <2>10 DEF In
    <3>2. Cardinality(Occupied(t)') = Cardinality(Occupied(t)) + 1
      BY <1>c, <2>9, <3>1
    <3>3. QED
      BY <1>0, <1>c, <2>1, <2>2, <2>3, <2>10, <3>2
  <2>11. CASE tray[p] # t
    BY <1>0, <2>1, <2>2, <2>8, <2>11
  <2>12. QED
    BY <2>10, <2>11
<1>12. ASSUME NEW p \in Child, Take(p) PROVE Goal
  <2>1. p \in Consumer /\ Goto(p, "access", "post_mutex") /\ UNCHANGED <<tray, full>> /\ Put(p, NoDish)
    BY <1>12 DEF Take, semVars
  <2>2. /\ StoredCount(t)' = StoredCount(t)
        /\ tray[p] # t => OwedCount(t)' = OwedCount(t)
        /\ tray[p] = t => OwedCount(t)' = OwedCount(t) + In("post_mutex" \in Owed) - In("access" \in Owed)
    BY <2>1, CountsChange
  <2>3. In("post_mutex" \in Owed) = 0 /\ In("access" \in Owed) = 1
    BY DEF In, Owed
  <2>4. p \notin Producer
    BY <2>1 DEF Producer, Consumer
  <2>5. slot[p] \in Occupied(tray[p])
    BY <2>1, <2>4 DEF ScanStaysTrue, Goto
  <2>6. slot[p] \in Slot
    BY <2>5 DEF Occupied
  <2>7. /\ t # tray[p] => Occupied(t)' = Occupied(t)
        /\ Occupied(t) \ {slot[p]} = Occupied(t)' \ {slot[p]}
        /\ t = tray[p] => slot[p] \notin Occupied(t)'
    BY <2>1, <2>6, PutChange
  <2>8. Cardinality(Occupied(t)') = Cardinality(Occupied(t)) + In(slot[p] \in Occupied(t)')
                                    - In(slot[p] \in Occupied(t))
    BY <1>c, <2>7, CountChange
  <2>9. CASE tray[p] = t
    <3>1. In(slot[p] \in Occupied(t)') = 0 /\ In(slot[p] \in Occupied(t)) = 1
      BY <2>5, <2>7, <2>9 DEF In
    <3>2. Cardinality(Occupied(t)') = Cardinality(Occupied(t)) - 1
      BY <1>c, <2>8, <3>1
    <3>3. QED
      BY <1>0, <1>c, <2>1, <2>2, <2>3, <2>9, <3>2
  <2>10. CASE tray[p] # t
    BY <1>0, <2>1, <2>2, <2>7, <2>10
  <2>11. QED
    BY <2>9, <2>10
<1>13. QED
  BY <1>1, <1>2, <1>3, <1>4, <1>6, <1>7, <1>8, <1>9, <1>10, <1>11, <1>12, NextCases

\* What a child's scan found stays true: it found a slot (ScanFinds), and only
\* the child itself changes the tray until it leaves (AloneInSection).
LEMMA ScanKept ==
    ASSUME TypeOK, MutexInv, SlotsInv, DishesInv, ScanStaysTrue, [Next]_vars
    PROVE  ScanStaysTrue'
<1> DEFINE Found(q) == slot[q] \in IF q \in Producer THEN Free(tray[q]) ELSE Occupied(tray[q])
<1> SUFFICES ASSUME NEW q \in Child, pc'[q] = "access" PROVE Found(q)'
  BY DEF ScanStaysTrue
<1>0. pc \in [Child -> Place] /\ tray \in [Child -> Tray] /\ slot \in [Child -> 0..BufferSize]
  BY DEF TypeOK
<1>1. ASSUME pc[q] = "access", UNCHANGED buffer, tray'[q] = tray[q], slot'[q] = slot[q]
      PROVE  Found(q)'
  BY <1>1 DEF ScanStaysTrue, Free, Occupied
<1>2. CASE Quiet
  BY <1>1, <1>2, QuietKeeps
<1>3. ASSUME NEW p \in Child, Round(p) \/ TimedOut(p) PROVE Found(q)'
  <2>1. p # q /\ UNCHANGED <<buffer, slot>>
    BY <1>0, <1>3 DEF Round, TimedOut, Goto
  <2>2. pc'[q] = pc[q] /\ tray'[q] = tray[q]
    BY <1>0, <1>3, <2>1 DEF Round, TimedOut, Goto
  <2>3. QED
    BY <1>1, <2>1, <2>2
<1>4. ASSUME NEW p \in Child,
             WaitEmpty(p) \/ WaitFull(p) \/ WaitMutex(p) \/ PostFull(p) \/ PostMutex(p) \/ PostEmpty(p)
      PROVE  Found(q)'
  <2>1. p # q /\ UNCHANGED <<buffer, slot, tray>>
    BY <1>0, <1>4 DEF WaitEmpty, WaitFull, WaitMutex, PostFull, PostMutex, PostEmpty, Goto
  <2>2. pc'[q] = pc[q]
    BY <1>0, <1>4, <2>1 DEF WaitEmpty, WaitFull, WaitMutex, PostFull, PostMutex, PostEmpty, Goto
  <2>3. QED
    BY <1>1, <2>1, <2>2
<1>5. ASSUME NEW p \in Child, Scan(p) PROVE Found(q)'
  <2>1. UNCHANGED <<buffer, tray>>
    BY <1>5 DEF Scan
  <2>2. CASE p # q
    <3>1. pc'[q] = pc[q] /\ slot'[q] = slot[q]
      BY <1>0, <1>5, <2>2 DEF Scan, Goto
    <3>2. QED
      BY <1>1, <2>1, <3>1
  <2>3. CASE p = q
    <3> DEFINE S == IF q \in Producer THEN Free(tray[q]) ELSE Occupied(tray[q])
    <3>1. pc[q] = "scan" /\ slot'[q] = First(S)
      BY <1>0, <1>5, <2>3 DEF Scan, Goto
    <3>2. S # {}
      BY <3>1, ScanFinds
    <3>3. S \in SUBSET Slot
      BY DEF Free, Occupied
    <3>4. First(S) \in S
      BY <3>2, <3>3, FirstInSet
    <3>5. QED
      BY <2>1, <3>1, <3>4 DEF Free, Occupied
  <2>4. QED
    BY <2>2, <2>3
<1>6. ASSUME NEW p \in Child, NEW to, to # "access", Goto(p, "access", to), UNCHANGED tray,
             slot' = [slot EXCEPT ![p] = 0], NEW dish, Put(p, dish)
      PROVE  Found(q)'
  <2>1. p # q
    BY <1>0, <1>6 DEF Goto
  <2>2. pc[p] = "access" /\ pc[q] = "access" /\ slot'[q] = slot[q]
    BY <1>0, <1>6, <2>1 DEF Goto
  <2>3. tray[p] # tray[q]
    BY <2>1, <2>2, AloneInSection DEF Section
  <2>4. slot[p] \in Slot
    BY <2>2 DEF ScanStaysTrue, Free, Occupied
  <2>5. \A t \in Tray : t # tray[p] => Occupied(t)' = Occupied(t)
    BY <1>6, <2>4, PutChange
  <2>6. PICK t \in Tray : t = tray[q] /\ t = tray'[q]
    BY <1>0, <1>6
  <2>7. Occupied(t)' = Occupied(t) /\ Free(t)' = Free(t)
    BY <2>3, <2>5, <2>6 DEF Free
  <2>8. slot[q] \in IF q \in Producer THEN Free(t) ELSE Occupied(t)
    BY <2>2, <2>6 DEF ScanStaysTrue
  <2>9. slot'[q] \in IF q \in Producer THEN Free(t)' ELSE Occupied(t)'
    BY <2>2, <2>7, <2>8
  <2>10. QED
    BY <2>6, <2>9 DEF Free, Occupied
<1>7. ASSUME NEW p \in Child, Store(p) \/ Take(p) PROVE Found(q)'
  BY <1>6, <1>7 DEF Store, Take
<1>8. QED
  BY <1>2, <1>3, <1>4, <1>5, <1>7, NextCases

\* full never promises a dish that is not there, a cook always finds an empty
\* slot and a guest a dish, and the slot found is still so at the access: for
\* trays of any size and any menu.  Each of the two needs the other.
THEOREM DishesHold == Spec => [](DishesAccounted /\ ScanStaysTrue)
<1>1. Init => DishesInv /\ ScanStaysTrue
  <2>1. ASSUME Init, NEW t \in Tray
        PROVE  Cardinality(Occupied(t)) = full[t] + StoredCount(t) + OwedCount(t)
    <3>1. StoredCount(t) = 0 /\ OwedCount(t) = 0 /\ full[t] = 0
      BY <2>1, CountsAtInit DEF Init
    <3>2. Occupied(t) = {}
      BY <2>1 DEF Init, Occupied
    <3>3. QED
      BY <3>1, <3>2, FS_EmptySet
  <2>2. Init => ScanStaysTrue
    BY DEF Init, ScanStaysTrue
  <2>3. QED
    BY <2>1, <2>2 DEF DishesInv
<1>2. /\ TypeOK /\ MutexInv /\ SlotsInv /\ DishesInv /\ ScanStaysTrue /\ [Next]_vars
      => DishesInv' /\ ScanStaysTrue'
  BY DishesKept, ScanKept
<1>3. MutualExclusion => MutexInv
  BY DEF MutualExclusion, MutexInv, InSection, SectionCount, Section
<1>4. /\ SlotsAccounted => SlotsInv
      /\ DishesInv => DishesAccounted
  BY InvsAsCounts
<1>5. QED
  BY <1>1, <1>2, <1>3, <1>4, Typing, MutualExclusionHolds, SlotsAccountedHolds, PTL DEF Spec

\* No dish is dropped, overwritten or taken twice.
THEOREM ScanStays == Spec => []ScanStaysTrue
BY DishesHold, PTL
=============================================================================
