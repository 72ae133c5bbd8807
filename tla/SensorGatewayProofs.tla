------------------------- MODULE SensorGatewayProofs -------------------------
(***************************************************************************)
(* What holds of the gateway for any number of sensor nodes, slots and     *)
(* readings, and any size of the window.                                   *)
(***************************************************************************)
EXTENDS SensorGateway, FiniteSetTheorems, WellFoundedInduction, SequenceTheorems, TLAPS

\* A set of naturals that is not empty has a least element.
LEMMA LeastExists ==
    ASSUME NEW S \in SUBSET Nat, S # {}
    PROVE  \E k \in S : \A j \in S : k <= j
<1>1. PICK i \in S : \A j \in S : ~ (<<j, i>> \in OpToRel(<, Nat))
  BY NatLessThanWellFounded, WFMin
<1>2. \A i1, j1 \in Nat : j1 < i1 => <<j1, i1>> \in OpToRel(<, Nat)
  BY Zenon DEF OpToRel
<1>3. \A j \in S : ~ (j < i)
  BY <1>1, <1>2
<1>4. QED
  BY <1>3

-----------------------------------------------------------------------------
(* What the functions on the list return, for lists of any length: the     *)
(* nodes that are picked. *)

\* The rank of i among the numbers of I.
Rank(I, i) == Cardinality({j \in I : j <= i})

LEMMA RankType ==
    ASSUME NEW I \in SUBSET Nat, IsFiniteSet(I), NEW i
    PROVE  /\ IsFiniteSet({j \in I : j <= i})
           /\ Rank(I, i) \in Nat /\ Rank(I, i) <= Cardinality(I)
<1>1. {j \in I : j <= i} \subseteq I
  OBVIOUS
<1>2. QED
  BY <1>1, FS_Subset, FS_CardinalityType DEF Rank

LEMMA RankGrows ==
    ASSUME NEW I \in SUBSET Nat, IsFiniteSet(I), NEW i \in I, NEW k \in I, i < k
    PROVE  Rank(I, i) < Rank(I, k)
<1> DEFINE A == {j \in I : j <= i}
           B == {j \in I : j <= k}
<1>0. i \in Nat /\ k \in Nat /\ \A j \in I : j \in Nat
  OBVIOUS
<1>a. k <= k /\ ~ (k <= i) /\ \A j \in I : j <= i => j <= k
  BY <1>0
<1>1. A \subseteq B /\ k \in B /\ k \notin A
  BY <1>a
<1>2. IsFiniteSet(B) /\ IsFiniteSet(A)
  BY RankType
<1>3. A # B
  BY <1>1
<1>4. Cardinality(A) < Cardinality(B)
  <2> HIDE DEF A, B
  <2>1. Cardinality(A) <= Cardinality(B) /\ (Cardinality(A) = Cardinality(B) => A = B)
    BY <1>1, <1>2, FS_Subset
  <2>2. Cardinality(A) \in Nat /\ Cardinality(B) \in Nat
    BY <1>2, FS_CardinalityType
  <2>3. QED
    BY <1>3, <2>1, <2>2
<1>5. QED
  BY <1>4 DEF Rank

LEMMA RankUnique ==
    ASSUME NEW I \in SUBSET Nat, IsFiniteSet(I), NEW i \in I, NEW k \in I,
           Rank(I, i) = Rank(I, k)
    PROVE  i = k
<1>1. Rank(I, i) \in Nat /\ Rank(I, k) \in Nat
  BY RankType
<1>2. ~ (i < k)
  BY <1>1, RankGrows
<1>3. ~ (k < i)
  BY <1>1, RankGrows
<1>4. QED
  BY <1>2, <1>3

\* Each number from 1 to the size of I is the rank of an element: the least one
\* that were not would come right behind one that is.
LEMMA RankExists ==
    ASSUME NEW I \in SUBSET Nat, IsFiniteSet(I), NEW n \in 1..Cardinality(I)
    PROVE  \E i \in I : Rank(I, i) = n
<1>0. Cardinality(I) \in Nat /\ \A i \in I : i \in Nat /\ Rank(I, i) \in Nat
  BY FS_CardinalityType, RankType
<1>a. \A i, k \in I : i < k => Rank(I, i) < Rank(I, k)
  BY RankGrows
<1> DEFINE Missing == {m \in 1..Cardinality(I) : \A i \in I : Rank(I, i) # m}
<1>1. SUFFICES ASSUME Missing # {} PROVE FALSE
  OBVIOUS
<1>2. PICK m \in Missing : \A j \in Missing : m <= j
  <2>1. Missing \in SUBSET Nat
    BY <1>0
  <2>2. QED
    BY <1>1, <2>1, LeastExists
<1>3. m \in 1..Cardinality(I) /\ \A i \in I : Rank(I, i) # m
  OBVIOUS
\* The elements of I with a rank below m, and the least of the others.
<1> DEFINE Below == {i \in I : Rank(I, i) < m}
<1>4. IsFiniteSet(Below) /\ Cardinality(Below) = m - 1
  <2>1. CASE m = 1
    <3>1. ASSUME NEW i \in I PROVE Rank(I, i) # 0
      <4>1. i \in {j \in I : j <= i}
        OBVIOUS
      <4>2. QED
        BY <4>1, RankType, FS_EmptySet DEF Rank
    <3>a. \A i \in I : ~ (Rank(I, i) < m)
      BY <1>0, <2>1, <3>1
    <3>2. Below = {}
      BY <3>a
    <3>3. QED
      BY <2>1, <3>2, FS_EmptySet
  <2>2. CASE m # 1
    <3>1. m - 1 \in 1..Cardinality(I) /\ m - 1 \notin Missing
      BY <1>0, <1>2, <1>3, <2>2
    <3>2. PICK i \in I : Rank(I, i) = m - 1
      BY <3>1
    <3>3. Below = {j \in I : j <= i}
      <4>1. ASSUME NEW j \in I, j <= i PROVE Rank(I, j) < m
        <5>1. j = i \/ j < i
          BY <1>0, <4>1
        <5>2. QED
          BY <1>0, <1>a, <1>3, <3>2, <5>1
      <4>2. ASSUME NEW j \in I, ~ (j <= i) PROVE ~ (Rank(I, j) < m)
        <5>1. Rank(I, i) < Rank(I, j)
          BY <1>0, <1>a, <4>2
        <5>2. QED
          BY <1>0, <1>3, <3>2, <5>1
      <4>3. QED
        BY <4>1, <4>2
    <3>4. QED
      BY <3>2, <3>3, RankType DEF Rank
  <2>3. QED
    BY <2>1, <2>2
<1>5. I \ Below # {}
  <2>1. Cardinality(Below) # Cardinality(I)
    BY <1>0, <1>3, <1>4
  <2>2. Below # I
    BY <2>1, Zenon
  <2>3. QED
    BY <2>2
<1>6. PICK k \in I \ Below : \A j \in I \ Below : k <= j
  <2>1. I \ Below \in SUBSET Nat
    OBVIOUS
  <2>2. QED
    BY <1>5, <2>1, LeastExists
<1>7. {j \in I : j <= k} = Below \cup {k}
  <2>1. ASSUME NEW j \in I, j <= k, j # k PROVE j \in Below
    BY <1>6, <2>1
  <2>2. ASSUME NEW j \in Below PROVE j <= k
    <3>1. Rank(I, j) < m /\ ~ (Rank(I, k) < m)
      BY <1>6
    <3>2. ~ (k < j)
      BY <1>0, <1>a, <1>3, <3>1
    <3>3. QED
      BY <1>0, <3>2
  <2>3. k \in I /\ k <= k
    BY <1>0
  <2>4. Below \subseteq I
    OBVIOUS
  <2>5. QED
    BY <2>1, <2>2, <2>3, <2>4
<1>8. Rank(I, k) = m
  <2>1. Cardinality(Below \cup {k}) = Cardinality(Below) + 1
    BY <1>4, <1>6, FS_AddElement
  <2>2. Rank(I, k) = Cardinality(Below \cup {k})
    BY <1>7, Zenon DEF Rank
  <2> HIDE DEF Below
  <2>3. QED
    BY <1>0, <1>3, <1>4, <2>1, <2>2
<1>9. QED
  BY <1>3, <1>8

\* Pick returns a list of the same kind, with one node for each position.
LEMMA PickType ==
    ASSUME NEW S, NEW list \in Seq(S), NEW I \in SUBSET DOMAIN list
    PROVE  Pick(list, I) \in Seq(S) /\ Len(Pick(list, I)) = Cardinality(I)
<1>1. DOMAIN list = 1..Len(list) /\ Len(list) \in Nat
  OBVIOUS
<1>2. IsFiniteSet(DOMAIN list)
  BY <1>1, FS_Interval
<1>3. I \in SUBSET Nat /\ IsFiniteSet(I) /\ Cardinality(I) \in Nat
  BY <1>1, <1>2, FS_Subset, FS_CardinalityType
<1>4. ASSUME NEW n \in 1..Cardinality(I)
      PROVE  (CHOOSE i \in I : Cardinality({j \in I : j <= i}) = n) \in I
  BY <1>3, RankExists DEF Rank
<1> DEFINE at(n) == CHOOSE i \in I : Cardinality({j \in I : j <= i}) = n
<1>5. Pick(list, I) = [n \in 1..Cardinality(I) |-> list[at(n)]]
  BY DEF Pick
<1>6. \A n \in 1..Cardinality(I) : at(n) \in DOMAIN list
  BY <1>4
<1> HIDE DEF at
<1>7. QED
  BY <1>1, <1>3, <1>5, <1>6

\* Node n of what Pick returns is the node at the position in I of rank n.
LEMMA PickMember ==
    ASSUME NEW list, NEW I \in SUBSET Nat, IsFiniteSet(I), NEW n \in 1..Cardinality(I)
    PROVE  \E i \in I : Rank(I, i) = n /\ Pick(list, I)[n] = list[i]
<1> DEFINE at == CHOOSE i \in I : Cardinality({j \in I : j <= i}) = n
<1>1. at \in I /\ Rank(I, at) = n
  BY RankExists DEF Rank
<1>2. Pick(list, I)[n] = list[at]
  BY DEF Pick
<1>3. QED
  BY <1>1, <1>2

\* What Pick returns of a list in order is in order.
LEMMA PickOrdered ==
    ASSUME NEW S, NEW list \in Seq(S), NEW I \in SUBSET DOMAIN list, Ordered(list)
    PROVE  Ordered(Pick(list, I))
<1>1. DOMAIN list = 1..Len(list) /\ Len(list) \in Nat /\ IsFiniteSet(DOMAIN list)
  BY FS_Interval
<1>2. I \in SUBSET Nat /\ IsFiniteSet(I) /\ Cardinality(I) \in Nat
  BY <1>1, FS_Subset, FS_CardinalityType
<1> DEFINE P == Pick(list, I)
<1>3. DOMAIN P = 1..Cardinality(I)
  BY DEF Pick
<1>4. ASSUME NEW m \in DOMAIN P, NEW n \in DOMAIN P, m < n
      PROVE  InOrder(P[m], P[n])
  <2>1. m \in 1..Cardinality(I) /\ n \in 1..Cardinality(I)
    BY <1>3
  <2>2. PICK i \in I : Rank(I, i) = m /\ P[m] = list[i]
    BY <1>2, <2>1, PickMember
  <2>3. PICK k \in I : Rank(I, k) = n /\ P[n] = list[k]
    BY <1>2, <2>1, PickMember
  <2>4. i \in Nat /\ k \in Nat /\ m \in Nat /\ n \in Nat
    BY <1>2, <2>1
  <2>5. i # k
    BY <1>4, <2>2, <2>3, <2>4
  <2>6. ~ (k < i)
    <3>1. k < i => n < m
      BY <1>2, <2>2, <2>3, RankGrows
    <3>2. QED
      BY <1>4, <2>4, <3>1
  <2>7. i < k
    BY <2>4, <2>5, <2>6
  <2>8. InOrder(list[i], list[k])
    BY <2>7 DEF Ordered
  <2>9. QED
    BY <2>2, <2>3, <2>8
<1>5. QED
  BY <1>4 DEF Ordered

\* What is taken out of the list was marked, what stays was not.
LEMMA MarkedMember ==
    ASSUME NEW S, NEW list \in Seq(S)
    PROVE  /\ \A n \in DOMAIN Marked(list) :
                \E i \in DOMAIN list : list[i].del /\ Marked(list)[n] = list[i]
           /\ \A n \in DOMAIN Unmarked(list) :
                \E i \in DOMAIN list : ~ list[i].del /\ Unmarked(list)[n] = list[i]
<1>1. DOMAIN list = 1..Len(list) /\ Len(list) \in Nat /\ IsFiniteSet(DOMAIN list)
  BY FS_Interval
<1>2. ASSUME NEW I \in SUBSET DOMAIN list, NEW n \in DOMAIN Pick(list, I)
      PROVE  \E i \in I : Pick(list, I)[n] = list[i]
  <2>1. I \in SUBSET Nat /\ IsFiniteSet(I)
    BY <1>1, FS_Subset
  <2>2. n \in 1..Cardinality(I)
    BY DEF Pick
  <2>3. QED
    BY <2>1, <2>2, PickMember
<1>3. QED
  BY <1>2 DEF Marked, Unmarked

\* f numbers the positions in I from the lowest to the highest, as Pick does.
PickedBy(list, I, f) ==
    /\ f \in [1..Cardinality(I) -> I]
    /\ \A n \in 1..Cardinality(I) : Pick(list, I)[n] = list[f[n]]
    /\ \A m, n \in 1..Cardinality(I) : m < n => f[m] < f[n]
    /\ \A i \in I : \E n \in 1..Cardinality(I) : f[n] = i

\* The positions Pick takes, in increasing order, are those in I and no other.
LEMMA PickPositions ==
    ASSUME NEW list, NEW I \in SUBSET Nat, IsFiniteSet(I)
    PROVE  \E f : PickedBy(list, I, f)
<1> DEFINE at(n) == CHOOSE i \in I : Cardinality({j \in I : j <= i}) = n
           f == [n \in 1..Cardinality(I) |-> at(n)]
<1>0. Cardinality(I) \in Nat /\ \A i \in I : i \in Nat /\ Rank(I, i) \in Nat
  BY FS_CardinalityType, RankType
<1>1. \A n \in 1..Cardinality(I) : at(n) \in I /\ Rank(I, at(n)) = n
  BY RankExists DEF Rank
<1>2. Pick(list, I) = [n \in 1..Cardinality(I) |-> list[at(n)]]
  BY DEF Pick
<1> HIDE DEF at
<1>3. f \in [1..Cardinality(I) -> I] /\ \A n \in 1..Cardinality(I) : Pick(list, I)[n] = list[f[n]]
  BY <1>1, <1>2
<1>4. ASSUME NEW m \in 1..Cardinality(I), NEW n \in 1..Cardinality(I), m < n
      PROVE  f[m] < f[n]
  <2>1. at(m) # at(n)
    BY <1>1, <1>4
  <2>2. at(n) < at(m) => n < m
    BY <1>1, RankGrows
  <2>3. at(m) \in Nat /\ at(n) \in Nat /\ m \in Nat /\ n \in Nat
    BY <1>0, <1>1
  <2>4. ~ (at(n) < at(m))
    BY <1>4, <2>2, <2>3
  <2>5. at(m) < at(n)
    BY <2>1, <2>3, <2>4
  <2>6. QED
    BY <2>5
<1>5. ASSUME NEW i \in I PROVE \E n \in 1..Cardinality(I) : f[n] = i
  <2>1. Rank(I, i) \in 1..Cardinality(I)
    <3>1. Rank(I, i) <= Cardinality(I)
      BY RankType
    <3>2. Rank(I, i) # 0
      <4>1. i \in {j \in I : j <= i} /\ IsFiniteSet({j \in I : j <= i})
        BY <1>0, RankType
      <4>2. QED
        BY <4>1, FS_EmptySet DEF Rank
    <3>3. QED
      BY <1>0, <3>1, <3>2
  <2>2. at(Rank(I, i)) = i
    BY <1>1, <2>1, RankUnique
  <2>3. QED
    BY <2>1, <2>2
<1>6. PickedBy(list, I, f)
  BY <1>3, <1>4, <1>5 DEF PickedBy
<1>7. QED
  BY <1>6

-----------------------------------------------------------------------------
(* The sorting. *)

\* Sorting returns a list of the same length whose nodes are nodes of the list.
LEMMA SortedType ==
    ASSUME NEW S, NEW list \in Seq(S), NEW s \in Sorted(list)
    PROVE  s \in Seq(S) /\ Len(s) = Len(list) /\ Ordered(s)
<1>1. PICK p \in Bijection(DOMAIN list, DOMAIN list) :
          s = [i \in DOMAIN list |-> list[p[i]]]
  BY DEF Sorted
<1>2. p \in [DOMAIN list -> DOMAIN list]
  BY DEF Bijection, Injection
<1>3. DOMAIN list = 1..Len(list) /\ Len(list) \in Nat
  OBVIOUS
<1>4. Ordered(s)
  BY DEF Sorted
<1>5. QED
  BY <1>1, <1>2, <1>3, <1>4

\* Every node of the sorted list is a node of the list.
LEMMA SortedMember ==
    ASSUME NEW S, NEW list \in Seq(S), NEW s \in Sorted(list), NEW n \in DOMAIN s
    PROVE  \E i \in DOMAIN list : s[n] = list[i]
<1>1. PICK p \in Bijection(DOMAIN list, DOMAIN list) :
          s = [i \in DOMAIN list |-> list[p[i]]]
  BY DEF Sorted
<1>2. p \in [DOMAIN list -> DOMAIN list]
  BY DEF Bijection, Injection
<1>3. QED
  BY <1>1, <1>2
-----------------------------------------------------------------------------
(* The groups. *)

\* A group is an interval that starts at its first position; what follows it,
\* if anything does, has another ID.
LEMMA GroupEnd ==
    ASSUME NEW list \in Seq(Reading), NEW p \in DOMAIN list
    PROVE  /\ Cardinality(Group(list, p)) \in Nat \ {0}
           /\ NextGroup(list, p) \in (p + 1)..(Len(list) + 1)
           /\ Group(list, p) = p..(NextGroup(list, p) - 1)
           /\ \A j \in p..(NextGroup(list, p) - 1) : list[j].id = list[p].id
           /\ NextGroup(list, p) <= Len(list) => list[NextGroup(list, p)].id # list[p].id
<1>1. p \in 1..Len(list) /\ Len(list) \in Nat /\ p \in Nat
  OBVIOUS
\* The first position behind p that is not in the group.
<1> DEFINE Other == {j \in (p + 1)..Len(list) : list[j].id # list[p].id} \cup {Len(list) + 1}
<1>2. PICK e \in Other : \A j \in Other : e <= j
  <2>1. Other \in SUBSET Nat /\ Other # {}
    BY <1>1
  <2>2. QED
    BY <2>1, LeastExists
<1>3. e \in (p + 1)..(Len(list) + 1) /\ (e <= Len(list) => list[e].id # list[p].id)
  BY <1>1, <1>2
<1>4. \A j \in p..(e - 1) : list[j].id = list[p].id
  <2>1. ASSUME NEW j \in p..(e - 1), j # p, list[j].id # list[p].id PROVE FALSE
    <3>1. j \in Other
      BY <1>1, <1>3, <2>1
    <3>2. QED
      BY <1>1, <1>2, <1>3, <3>1
  <2>2. QED
    BY <1>1, <1>3, <2>1
<1>5. Group(list, p) = p..(e - 1)
  <2>1. ASSUME NEW j \in p..(e - 1) PROVE j \in Group(list, p)
    BY <1>1, <1>3, <1>4 DEF Group
  <2>2. ASSUME NEW j \in Group(list, p) PROVE j \in p..(e - 1)
    <3>1. j \in p..Len(list) /\ \A k \in p..j : list[k].id = list[p].id
      BY DEF Group
    <3>2. CASE e <= j
      <4>1. e \in p..j /\ e <= Len(list)
        BY <1>1, <1>3, <3>1, <3>2
      <4>2. QED
        BY <1>3, <3>1, <4>1
    <3>3. CASE ~ (e <= j)
      BY <1>1, <1>3, <3>1, <3>3
    <3>4. QED
      BY <3>2, <3>3
  <2>3. QED
    BY <2>1, <2>2
<1>6. Cardinality(Group(list, p)) = e - p
  <2>1. Cardinality(p..(e - 1)) = IF p > e - 1 THEN 0 ELSE (e - 1) - p + 1
    <3>1. p \in Int /\ e - 1 \in Int
      BY <1>1, <1>3
    <3>2. QED
      BY <3>1, FS_Interval
  <2>2. QED
    BY <1>1, <1>3, <1>5, <2>1
<1>7. NextGroup(list, p) = e
  BY <1>1, <1>3, <1>6 DEF NextGroup
<1>8. QED
  BY <1>1, <1>3, <1>4, <1>5, <1>6, <1>7

\* A window lies within the list.
LEMMA WindowInList ==
    ASSUME NEW list \in Seq(Reading), NEW p \in DOMAIN list, HasWindow(list, p)
    PROVE  /\ p + Window - 1 \in p..Len(list)
           /\ WindowAt(list, p) \in Seq(Reading)
           /\ Len(WindowAt(list, p)) = Window
           /\ \A k \in 1..Window : WindowAt(list, p)[k] = list[p + k - 1]
<1>1. Window \in Nat \ {0} /\ p \in 1..Len(list) /\ Len(list) \in Nat
  BY WindowAssumption
<1>2. p + Window <= NextGroup(list, p) /\ NextGroup(list, p) <= Len(list) + 1
  BY <1>1, GroupEnd DEF HasWindow, NextGroup
<1>3. p + Window - 1 \in p..Len(list)
  BY <1>1, <1>2, GroupEnd
<1>4. QED
  BY <1>1, <1>3, SubSeqProperties DEF WindowAt

-----------------------------------------------------------------------------
(* The mark. *)

\* Marking a node changes neither the length, nor an ID or time, nor the order.
LEMMA MarkKeeps ==
    ASSUME NEW list \in Seq(Reading), NEW p \in DOMAIN list
    PROVE  /\ Mark(list, p) \in Seq(Reading) /\ Len(Mark(list, p)) = Len(list)
           /\ \A i \in DOMAIN list :
                /\ Mark(list, p)[i].id = list[i].id
                /\ Mark(list, p)[i].time = list[i].time
           /\ Ordered(list) => Ordered(Mark(list, p))
<1>1. list[p] \in Reading /\ [list[p] EXCEPT !.del = TRUE] \in Reading
  <2>1. list[p] \in Reading
    OBVIOUS
  <2>2. QED
    BY <2>1 DEF Reading
<1>2. DOMAIN list = 1..Len(list) /\ Len(list) \in Nat
  OBVIOUS
<1>3. Mark(list, p) \in Seq(Reading) /\ Len(Mark(list, p)) = Len(list)
  BY <1>1, <1>2 DEF Mark
<1>4. \A i \in DOMAIN list :
         Mark(list, p)[i].id = list[i].id /\ Mark(list, p)[i].time = list[i].time
  BY <1>2 DEF Mark, Reading
<1>5. ASSUME Ordered(list) PROVE Ordered(Mark(list, p))
  BY <1>2, <1>3, <1>4, <1>5 DEF Ordered, InOrder
<1>6. QED
  BY <1>3, <1>4, <1>5

-----------------------------------------------------------------------------
(* The types, and who holds the mutex. *)

\* What conn_mgr's place says of its local variables: the slots it still has to
\* serve are none outside its scan, and are occupied.
ConnInv ==
    /\ connPc \in {"setup", "select", "opened", "closing", "done"} => readfds = {}
    /\ connPc \in {"lock", "post", "closed"} => readfds # {}
    /\ connPc = "lock" => Len(msg) = 1
    /\ \A i \in readfds : client_socket[i] # NoClient

\* The mutex is held by the thread that walks the list or moves it to the file.
MutexInv ==
    /\ dataPc \in {"average", "log"} => mutex = "data_mgr"
    /\ storPc \in {"copy", "remove"} => mutex = "stor_mgr"

IInv == TypeOK /\ ConnInv /\ MutexInv /\ WalkIsStable

LEMMA InitIInv == Init => IInv
<1> SUFFICES ASSUME Init PROVE IInv
  OBVIOUS
<1>1. /\ <<>> \in Seq(Reading) /\ <<>> \in Seq(MsgReading) /\ <<>> \in Seq(Seq(Reading))
      /\ <<>> \in Seq(Client) /\ <<>> \in Seq(Nat)
  BY EmptySeq
<1>2. /\ head \in Seq(Reading) /\ msg \in Seq(MsgReading) /\ averages \in Seq(Seq(Reading))
      /\ dataFile \in Seq(Reading) /\ backlog \in Seq(Client)
  BY <1>1 DEF Init
<1>3. /\ client_socket \in [Slot -> Client \cup {NoClient}]
      /\ client_fd \in Client \cup {NoClient}
      /\ readfds \subseteq Slot
  BY DEF Init
<1>4. /\ node \in [Client -> {"off", "connected", "closed"}]
      /\ sent \in [Client -> Nat]
      /\ stream \in [Client -> Seq(Nat)]
  BY <1>1 DEF Init
<1>5. SharedTypes /\ ThreadTypes /\ ConnTypes /\ OutTypes /\ NetTypes
  BY <1>2, <1>3, <1>4 DEF Init, SharedTypes, ThreadTypes, ConnTypes, OutTypes, NetTypes
<1>6. TypeOK
  BY <1>5 DEF TypeOK
<1>7. ConnInv /\ MutexInv /\ WalkIsStable
  BY DEF Init, ConnInv, MutexInv, WalkIsStable
<1>8. QED
  BY <1>6, <1>7 DEF IInv

-----------------------------------------------------------------------------
(* The sensor nodes. *)

LEMMA SensorNodeKeeps ==
    ASSUME IInv, NEW c \in Client, SensorNode(c)
    PROVE  IInv'
<1>1. UNCHANGED <<sharedVars, mainPc, dataPc, storPc, cancel, temp, connVars, outVars>>
  BY DEF SensorNode
<1>2. NetTypes'
  <2>1. CASE Connect(c)
    BY <2>1 DEF Connect, IInv, TypeOK, NetTypes
  <2>2. CASE Send(c)
    <3>1. Append(stream[c], sent[c] + 1) \in Seq(Nat)
      BY DEF IInv, TypeOK, NetTypes
    <3>2. QED
      BY <2>2, <3>1 DEF Send, IInv, TypeOK, NetTypes
  <2>3. CASE Close(c)
    BY <2>3 DEF Close, IInv, TypeOK, NetTypes
  <2>4. QED
    BY <2>1, <2>2, <2>3 DEF SensorNode
<1>3. SharedTypes' /\ ThreadTypes' /\ ConnTypes' /\ OutTypes'
  BY <1>1 DEF IInv, TypeOK, SharedTypes, ThreadTypes, ConnTypes, OutTypes,
              sharedVars, connVars, outVars
<1>4. ConnInv' /\ MutexInv' /\ WalkIsStable'
  BY <1>1 DEF IInv, ConnInv, MutexInv, WalkIsStable, sharedVars, connVars
<1>5. QED
  BY <1>2, <1>3, <1>4 DEF IInv, TypeOK

-----------------------------------------------------------------------------
(* conn_mgr. *)

LEMMA ServingReady ==
    ASSUME ConnTypes, readfds # {}
    PROVE  Serving \in readfds /\ Serving \in Slot
<1>1. readfds \in SUBSET Nat
  BY GatewayAssumption DEF ConnTypes, Slot
<1>2. \E i \in readfds : \A j \in readfds : i <= j
  BY <1>1, LeastExists
<1>3. Serving \in readfds
  BY <1>2 DEF Serving
<1>4. QED
  BY <1>3 DEF ConnTypes

\* conn_mgr changes its own variables and the network's consistently.
LEMMA ConnMgrLocal ==
    ASSUME IInv, ConnMgr
    PROVE  ConnTypes' /\ ConnInv' /\ NetTypes'
<1>1. ConnTypes /\ ConnInv /\ NetTypes
  BY DEF IInv, TypeOK
<1>2. CASE Setup \/ ScanEnds \/ SelectTimeout \/ CloseAll
  <2>1. ConnTypes'
    BY <1>1, <1>2 DEF Setup, ScanEnds, SelectTimeout, CloseAll, connVars, ConnTypes
  <2>2. ConnInv'
    BY <1>1, <1>2 DEF Setup, ScanEnds, SelectTimeout, CloseAll, connVars, ConnInv
  <2>3. NetTypes'
    BY <1>1, <1>2 DEF Setup, ScanEnds, SelectTimeout, CloseAll, netVars, NetTypes
  <2>4. QED
    BY <2>1, <2>2, <2>3
<1>3. CASE SelectAccept
  <2>1. Head(backlog) \in Client /\ Tail(backlog) \in Seq(Client)
    BY <1>1, <1>3, HeadTailProperties DEF SelectAccept, NetTypes
  <2>2. QED
    BY <1>1, <1>3, <2>1 DEF SelectAccept, ConnTypes, ConnInv, NetTypes
<1>4. CASE LogOpened
  <2>1. client_socket' \in [Slot -> Client \cup {NoClient}]
    BY <1>1, <1>4 DEF LogOpened, ConnTypes
  <2>2. ConnTypes' /\ ConnInv'
    BY <1>1, <1>4, <2>1 DEF LogOpened, ConnTypes, ConnInv
  <2>3. NetTypes'
    BY <1>1, <1>4 DEF LogOpened, netVars, NetTypes
  <2>4. QED
    BY <2>2, <2>3
<1>5. CASE SelectData
  <2>1. ConnTypes' /\ ConnInv'
    BY <1>1, <1>5 DEF SelectData, Readable, ConnTypes, ConnInv
  <2>2. NetTypes'
    BY <1>1, <1>5 DEF SelectData, netVars, NetTypes
  <2>3. QED
    BY <2>1, <2>2
<1>6. CASE Receive
  <2>1. readfds # {} /\ Serving \in readfds
    BY <1>1, <1>6, ServingReady DEF Receive
  <2> DEFINE c == client_socket[Serving]
  <2>2. c \in Client
    BY <1>1, <2>1 DEF ConnTypes, ConnInv
  <2> HIDE DEF c
  <2>3. /\ UNCHANGED <<client_socket, client_fd, readfds, node, sent, backlog>>
        /\ \/ /\ stream[c] # <<>>
              /\ msg' = <<Parse(c)>> /\ stream' = [stream EXCEPT ![c] = <<>>] /\ connPc' = "lock"
           \/ connPc' = "closed" /\ UNCHANGED <<msg, stream>>
    BY <1>6 DEF Receive, c
  <2>4. stream[c] # <<>> => Parse(c) \in MsgReading
    <3>1. Device[c] \in Nat /\ stream[c] \in Seq(Nat)
      <4>1. Device[c] \in 1..9
        BY <2>2, GatewayAssumption
      <4>2. stream[c] \in Seq(Nat)
        BY <1>1, <2>2 DEF NetTypes
      <4>3. QED
        BY <4>1, <4>2
    <3>2. stream[c] # <<>> => stream[c][1] \in Nat
      BY <3>1
    <3>3. QED
      BY <3>1, <3>2 DEF Parse, MsgReading
  <2>5. <<>> \in Seq(Nat)
    BY EmptySeq
  <2>6. ConnTypes' /\ ConnInv'
    <3>1. CASE stream[c] # <<>> /\ msg' = <<Parse(c)>> /\ connPc' = "lock"
      <4>1. msg' \in Seq(MsgReading) /\ Len(msg') = 1
        BY <2>4, <3>1
      <4>2. QED
        BY <1>1, <2>1, <2>3, <3>1, <4>1 DEF ConnTypes, ConnInv
    <3>2. CASE connPc' = "closed" /\ UNCHANGED msg
      BY <1>1, <2>1, <2>3, <3>2 DEF ConnTypes, ConnInv
    <3>3. QED
      BY <2>3, <3>1, <3>2
  <2>7. NetTypes'
    BY <1>1, <2>2, <2>3, <2>5 DEF NetTypes
  <2>8. QED
    BY <2>6, <2>7
<1>7. CASE LogClosed
  <2>1. client_socket' \in [Slot -> Client \cup {NoClient}]
    BY <1>1, <1>7 DEF LogClosed, ConnTypes
  <2>2. \A i \in readfds' : client_socket'[i] = client_socket[i]
    BY <1>1, <1>7 DEF LogClosed, ConnTypes
  <2>3. ConnTypes' /\ ConnInv'
    BY <1>1, <1>7, <2>1, <2>2 DEF LogClosed, ConnTypes, ConnInv
  <2>4. NetTypes'
    BY <1>1, <1>7 DEF LogClosed, netVars, NetTypes
  <2>5. QED
    BY <2>3, <2>4
<1>8. CASE SaveReading
  <2>1. <<>> \in Seq(MsgReading)
    BY EmptySeq
  <2>2. readfds # {}
    BY <1>1, <1>8 DEF SaveReading, ConnInv
  <2>3. ConnTypes' /\ ConnInv'
    BY <1>1, <1>8, <2>1, <2>2 DEF SaveReading, ConnTypes, ConnInv
  <2>4. NetTypes'
    BY <1>1, <1>8 DEF SaveReading, netVars, NetTypes
  <2>5. QED
    BY <2>3, <2>4
<1>9. CASE PostReading
  <2>1. ConnTypes' /\ ConnInv'
    BY <1>1, <1>9 DEF PostReading, ConnTypes, ConnInv
  <2>2. NetTypes'
    BY <1>1, <1>9 DEF PostReading, netVars, NetTypes
  <2>3. QED
    BY <2>1, <2>2
<1>10. QED
  BY <1>2, <1>3, <1>4, <1>5, <1>6, <1>7, <1>8, <1>9 DEF ConnMgr

\* Of the shared data conn_mgr changes the list only while nobody has the mutex.
LEMMA ConnMgrShared ==
    ASSUME IInv, ConnMgr
    PROVE  /\ SharedTypes' /\ ThreadTypes' /\ OutTypes'
           /\ MutexInv' /\ WalkIsStable'
<1>1. UNCHANGED <<mutex, storSem, mainPc, dataPc, storPc, cancel, temp, averages, dataFile,
                 logProcess>>
  BY DEF ConnMgr, outVars, sharedVars, Setup, SelectAccept, LogOpened,
         SelectData, SelectTimeout, Receive, LogClosed, SaveReading, PostReading,
         ScanEnds, CloseAll
<1>2. SharedTypes /\ ThreadTypes /\ OutTypes /\ ConnTypes /\ ConnInv /\ MutexInv /\ WalkIsStable
  BY DEF IInv, TypeOK
<1>4. ThreadTypes' /\ OutTypes' /\ MutexInv'
  BY <1>1, <1>2 DEF ThreadTypes, OutTypes, MutexInv
<1>5. CASE SaveReading
  <2>1. msg[1] \in MsgReading
    <3>1. msg \in Seq(MsgReading) /\ Len(msg) = 1
      BY <1>2, <1>5 DEF SaveReading, ConnTypes, ConnInv
    <3>2. QED
      BY <3>1
  <2>2. Save(head, msg[1].id, msg[1].time) \in Seq(Reading)
    BY <1>2, <2>1 DEF Save, SharedTypes, Reading, MsgReading
  <2>3. SharedTypes'
    BY <1>2, <1>5, <2>2 DEF SaveReading, SharedTypes
  <2>4. dataPc' \notin {"average", "log"}
    BY <1>1, <1>2, <1>5 DEF SaveReading, MutexInv
  <2>5. QED
    BY <1>4, <2>3, <2>4 DEF WalkIsStable
<1>6. CASE ~ SaveReading
  <2>1. UNCHANGED head /\ serSem' \in {serSem, serSem + 1} /\ running' \in {running, FALSE}
    BY <1>6 DEF ConnMgr, sharedVars, Setup, SelectAccept, LogOpened,
         SelectData, SelectTimeout, Receive, LogClosed, PostReading, ScanEnds, CloseAll
  <2>2. SharedTypes'
    <3>1. serSem' \in Nat
      BY <1>2, <2>1 DEF SharedTypes
    <3>2. running' \in BOOLEAN
      BY <1>2, <2>1, Zenon DEF SharedTypes
    <3>3. QED
      BY <1>1, <1>2, <2>1, <3>1, <3>2 DEF SharedTypes
  <2>a. WalkIsStable'
    BY <1>1, <1>2, <2>1 DEF WalkIsStable
  <2>3. QED
    BY <1>4, <2>2, <2>a
<1>7. QED
  BY <1>5, <1>6

-----------------------------------------------------------------------------
(* data_mgr. *)

\* A walk that goes on at the next group is still at the start of a group.
LEMMA NextGroupStarts ==
    ASSUME NEW list \in Seq(Reading), NEW p \in DOMAIN list, NEW new \in Seq(Reading),
           Len(new) = Len(list), \A i \in DOMAIN list : new[i].id = list[i].id
    PROVE  LET n == NextGroup(list, p)
           IN  /\ n \in Nat \ {0} /\ n <= Len(new) + 1
               /\ 1 < n /\ n <= Len(new) => new[n - 1].id # new[n].id
<1> DEFINE n == NextGroup(list, p)
<1>1. p \in 1..Len(list) /\ Len(list) \in Nat
  OBVIOUS
<1>2. /\ n \in (p + 1)..(Len(list) + 1)
      /\ \A j \in p..(n - 1) : list[j].id = list[p].id
      /\ n <= Len(list) => list[n].id # list[p].id
  BY GroupEnd
<1> HIDE DEF n
<1>3. n - 1 \in p..(n - 1) /\ n - 1 \in DOMAIN list
  BY <1>1, <1>2
<1>4. n <= Len(list) => list[n - 1].id # list[n].id
  BY <1>2, <1>3
<1>5. n <= Len(list) => n \in DOMAIN list
  BY <1>1, <1>2
<1>6. n <= Len(new) => new[n - 1].id # new[n].id
  BY <1>3, <1>4, <1>5
<1>7. n \in Nat \ {0} /\ n <= Len(new) + 1
  BY <1>1, <1>2
<1>8. QED
  BY <1>6, <1>7 DEF n

LEMMA DataMgrKeeps ==
    ASSUME IInv, DataMgr
    PROVE  IInv'
<1>1. UNCHANGED <<mainPc, storPc, cancel, connVars, dataFile, logProcess, netVars, running>>
  BY DEF DataMgr, sharedVars, DataLoop, DataWait, DataSort, AverageGroup, LogAverage,
         DataUnlock, DataPost, DataCancelled
<1>2. SharedTypes /\ ThreadTypes /\ OutTypes /\ MutexInv /\ WalkIsStable
  BY DEF IInv, TypeOK
<1>3. ConnTypes' /\ ConnInv' /\ NetTypes'
  BY <1>1 DEF IInv, TypeOK, ConnTypes, ConnInv, NetTypes, connVars, netVars
<1> SUFFICES SharedTypes' /\ ThreadTypes' /\ OutTypes' /\ MutexInv' /\ WalkIsStable'
  BY <1>3 DEF IInv, TypeOK
<1>4. CASE DataLoop \/ DataWait \/ DataPost
  <2>1. SharedTypes'
    BY <1>1, <1>2, <1>4 DEF DataLoop, DataWait, DataPost, sharedVars, SharedTypes
  <2>2. ThreadTypes' /\ OutTypes'
    BY <1>1, <1>2, <1>4 DEF DataLoop, DataWait, DataPost, ThreadTypes, OutTypes
  <2>3. MutexInv' /\ WalkIsStable'
    BY <1>1, <1>2, <1>4 DEF DataLoop, DataWait, DataPost, sharedVars, MutexInv, WalkIsStable
  <2>4. QED
    BY <2>1, <2>2, <2>3
<1>5. CASE DataSort
  <2>1. head' \in Seq(Reading) /\ Ordered(head')
    BY <1>2, <1>5, SortedType DEF DataSort, SharedTypes
  <2>2. SharedTypes'
    BY <1>1, <1>2, <1>5, <2>1 DEF DataSort, SharedTypes
  <2>3. ThreadTypes' /\ OutTypes' /\ MutexInv'
    BY <1>1, <1>2, <1>5 DEF DataSort, ThreadTypes, OutTypes, MutexInv
  <2>4. WalkIsStable'
    <3>1. Len(head') \in Nat /\ temp' = 1 /\ dataPc' = "average"
      BY <1>5, <2>1 DEF DataSort
    <3>2. QED
      BY <2>1, <3>1 DEF WalkIsStable
  <2>5. QED
    BY <2>2, <2>3, <2>4
<1>6. CASE AverageGroup
  <2>1. UNCHANGED <<sharedVars, averages>> /\ dataPc = "average" /\ temp <= Len(head)
    BY <1>6 DEF AverageGroup
  <2>2. temp \in DOMAIN head /\ head \in Seq(Reading)
    BY <1>2, <2>1 DEF SharedTypes, ThreadTypes
  <2>3. CASE HasWindow(head, temp)
    <3>1. dataPc' = "log" /\ UNCHANGED temp
      BY <1>6, <2>3 DEF AverageGroup
    <3>2. SharedTypes' /\ ThreadTypes' /\ OutTypes' /\ MutexInv'
      BY <1>1, <1>2, <2>1, <3>1 DEF SharedTypes, ThreadTypes, OutTypes, MutexInv, sharedVars
    <3>3. WalkIsStable'
      BY <1>2, <2>1, <2>3, <3>1 DEF WalkIsStable, sharedVars
    <3>4. QED
      BY <3>2, <3>3
  <2>4. CASE ~ HasWindow(head, temp)
    <3>1. UNCHANGED dataPc /\ temp' = NextGroup(head, temp)
      BY <1>6, <2>4 DEF AverageGroup
    <3>2. /\ temp' \in Nat \ {0} /\ temp' <= Len(head) + 1
          /\ 1 < temp' /\ temp' <= Len(head) => head[temp' - 1].id # head[temp'].id
      BY <2>2, <3>1, NextGroupStarts
    <3>3. SharedTypes' /\ ThreadTypes' /\ OutTypes' /\ MutexInv'
      BY <1>1, <1>2, <2>1, <3>1, <3>2 DEF SharedTypes, ThreadTypes, OutTypes, MutexInv, sharedVars
    <3>4. WalkIsStable'
      BY <1>2, <2>1, <3>1, <3>2 DEF WalkIsStable, sharedVars
    <3>5. QED
      BY <3>3, <3>4
  <2>5. QED
    BY <2>3, <2>4
<1>7. CASE LogAverage \/ (DataCancelled /\ dataPc = "log")
  <2>1. temp \in DOMAIN head /\ head \in Seq(Reading) /\ HasWindow(head, temp) /\ Ordered(head)
    BY <1>2, <1>7 DEF LogAverage, SharedTypes, ThreadTypes, WalkIsStable
  <2>2. WindowAt(head, temp) \in Seq(Reading)
    BY <2>1, WindowInList
  <2>3. OutTypes'
    <3>1. averages' \in {averages, Append(averages, WindowAt(head, temp))}
      BY <1>7 DEF LogAverage, DataCancelled
    <3>2. averages \in Seq(Seq(Reading))
      BY <1>2 DEF OutTypes
    <3>3. Append(averages, WindowAt(head, temp)) \in Seq(Seq(Reading))
      BY <2>2, <3>2, AppendProperties
    <3>4. QED
      BY <1>1, <1>2, <3>1, <3>2, <3>3 DEF OutTypes
  <2>4. CASE LogAverage
    <3>1. /\ head' \in Seq(Reading) /\ Len(head') = Len(head) /\ Ordered(head')
          /\ \A i \in DOMAIN head : head'[i].id = head[i].id
      BY <2>1, <2>4, MarkKeeps DEF LogAverage
    <3>2. /\ temp' \in Nat \ {0} /\ temp' <= Len(head') + 1
          /\ 1 < temp' /\ temp' <= Len(head') => head'[temp' - 1].id # head'[temp'].id
      BY <2>1, <2>4, <3>1, NextGroupStarts DEF LogAverage
    <3>3. SharedTypes' /\ ThreadTypes' /\ MutexInv'
      BY <1>1, <1>2, <2>4, <3>1, <3>2 DEF LogAverage, SharedTypes, ThreadTypes, MutexInv
    <3>4. WalkIsStable'
      BY <2>4, <3>1, <3>2 DEF LogAverage, WalkIsStable
    <3>5. QED
      BY <2>3, <3>3, <3>4
  <2>5. CASE DataCancelled
    BY <1>1, <1>2, <2>3, <2>5
       DEF DataCancelled, SharedTypes, ThreadTypes, MutexInv, WalkIsStable, sharedVars
  <2>6. QED
    BY <1>7, <2>4, <2>5
<1>8. CASE DataUnlock
  <2>1. SharedTypes' /\ ThreadTypes' /\ OutTypes'
    BY <1>1, <1>2, <1>8 DEF DataUnlock, SharedTypes, ThreadTypes, OutTypes
  <2>2. MutexInv' /\ WalkIsStable'
    BY <1>1, <1>2, <1>8 DEF DataUnlock, MutexInv, WalkIsStable
  <2>3. QED
    BY <2>1, <2>2
<1>9. CASE DataCancelled /\ dataPc # "log"
  BY <1>1, <1>2, <1>9
     DEF DataCancelled, SharedTypes, ThreadTypes, OutTypes, MutexInv, WalkIsStable, sharedVars
<1>10. QED
  BY <1>4, <1>5, <1>6, <1>7, <1>8, <1>9 DEF DataMgr

-----------------------------------------------------------------------------
(* stor_mgr. *)

LEMMA StorMgrKeeps ==
    ASSUME IInv, StorMgr
    PROVE  IInv'
<1>1. UNCHANGED <<mainPc, dataPc, cancel, temp, connVars, averages, logProcess, netVars>>
  BY DEF StorMgr
<1>2. SharedTypes /\ ThreadTypes /\ OutTypes /\ MutexInv /\ WalkIsStable
  BY DEF IInv, TypeOK
<1>3. ConnTypes' /\ ConnInv' /\ NetTypes'
  BY <1>1 DEF IInv, TypeOK, ConnTypes, ConnInv, NetTypes, connVars, netVars
<1>4. head \in Seq(Reading) /\ dataFile \in Seq(Reading)
  BY <1>2 DEF SharedTypes, OutTypes
<1> SUFFICES SharedTypes' /\ ThreadTypes' /\ OutTypes' /\ MutexInv' /\ WalkIsStable'
  BY <1>3 DEF IInv, TypeOK
<1>5. CASE StorLoop \/ StorWait \/ StorLock
  <2>1. SharedTypes'
    BY <1>2, <1>5 DEF StorLoop, StorWait, StorLock, sharedVars, SharedTypes
  <2>2. ThreadTypes' /\ OutTypes'
    BY <1>1, <1>2, <1>5 DEF StorLoop, StorWait, StorLock, ThreadTypes, OutTypes
  <2>3. MutexInv'
    BY <1>1, <1>2, <1>5 DEF StorLoop, StorWait, StorLock, sharedVars, MutexInv
  <2>4. WalkIsStable'
    BY <1>1, <1>2, <1>5 DEF StorLoop, StorWait, StorLock, sharedVars, WalkIsStable
  <2>5. QED
    BY <2>1, <2>2, <2>3, <2>4
<1>6. CASE Copy \/ CopyFails \/ StorCancelled
  <2>1. Marked(head) \in Seq(Reading)
    BY <1>4, PickType DEF Marked
  <2>2. dataFile' \in {dataFile, dataFile \o Marked(head)} /\ UNCHANGED sharedVars
    BY <1>6 DEF Copy, CopyFails, StorCancelled
  <2>3. OutTypes'
    <3>1. dataFile \o Marked(head) \in Seq(Reading)
      BY <1>4, <2>1, ConcatProperties
    <3>2. QED
      BY <1>1, <1>2, <2>2, <3>1 DEF OutTypes
  <2>4. SharedTypes'
    BY <1>2, <2>2 DEF SharedTypes, sharedVars
  <2>5. ThreadTypes' /\ MutexInv'
    BY <1>1, <1>2, <1>6, <2>2
       DEF Copy, CopyFails, StorCancelled, ThreadTypes, MutexInv, sharedVars
  <2>6. WalkIsStable'
    BY <1>1, <1>2, <2>2 DEF WalkIsStable, sharedVars
  <2>7. QED
    BY <2>3, <2>4, <2>5, <2>6
<1>7. CASE RemoveMarked
  <2>1. Unmarked(head) \in Seq(Reading)
    BY <1>4, PickType DEF Unmarked
  <2>2. SharedTypes' /\ ThreadTypes' /\ OutTypes'
    BY <1>1, <1>2, <1>7, <2>1 DEF RemoveMarked, SharedTypes, ThreadTypes, OutTypes
  <2>3. dataPc' \notin {"average", "log"}
    BY <1>1, <1>2, <1>7 DEF RemoveMarked, MutexInv
  <2>4. MutexInv' /\ WalkIsStable'
    BY <1>7, <2>3 DEF RemoveMarked, MutexInv, WalkIsStable
  <2>5. QED
    BY <2>2, <2>4
<1>8. QED
  BY <1>5, <1>6, <1>7 DEF StorMgr

\* A part of the marked readings, from the first of them on.
LEMMA MarkedPart ==
    ASSUME NEW list \in Seq(Reading), NEW n \in 0..Len(Marked(list))
    PROVE  /\ SubSeq(Marked(list), 1, n) \in Seq(Reading)
           /\ Len(SubSeq(Marked(list), 1, n)) = n
           /\ \A k \in 1..n : k \in DOMAIN Marked(list)
                            /\ SubSeq(Marked(list), 1, n)[k] = Marked(list)[k]
           /\ n = Len(Marked(list)) => SubSeq(Marked(list), 1, n) = Marked(list)
<1>1. Marked(list) \in Seq(Reading)
  BY PickType DEF Marked
<1>2. PICK s : s = Marked(list)
  OBVIOUS
<1>3. s \in Seq(Reading) /\ Len(s) \in Nat /\ n \in 0..Len(s)
  BY <1>1, <1>2
<1>4. \A i \in 1..n : i \in 1..Len(s) /\ s[i] \in Reading
  BY <1>3
<1>5. /\ SubSeq(s, 1, n) \in Seq(Reading) /\ Len(SubSeq(s, 1, n)) = n
      /\ \A k \in 1..n : SubSeq(s, 1, n)[k] = s[k]
  BY <1>3, <1>4
<1>6. n = Len(s) => SubSeq(s, 1, n) = s
  BY <1>3, SubSeqFull
<1>7. QED
  BY <1>2, <1>3, <1>4, <1>5, <1>6

-----------------------------------------------------------------------------
(* The main thread and the log process. *)

LEMMA MainKeeps ==
    ASSUME IInv, MainThread \/ LogProcessEnds
    PROVE  IInv'
<1>1. UNCHANGED <<sharedVars, dataPc, storPc, temp, connVars, averages, dataFile, netVars>>
  BY DEF MainThread, LogProcessEnds
<1>2. SharedTypes' /\ ConnTypes' /\ NetTypes' /\ ConnInv' /\ MutexInv' /\ WalkIsStable'
  BY <1>1 DEF IInv, TypeOK, SharedTypes, ConnTypes, NetTypes, ConnInv, MutexInv, WalkIsStable,
              sharedVars, connVars, netVars
<1>3. ThreadTypes' /\ OutTypes'
  BY <1>1 DEF IInv, TypeOK, ThreadTypes, OutTypes, MainThread, LogProcessEnds,
              JoinConn, JoinData, JoinStor, Spin
<1>4. QED
  BY <1>2, <1>3 DEF IInv, TypeOK

\* handle_error: the process is gone, the data file has got a part of what was
\* being written to it.
LEMMA HandleErrorKeeps ==
    ASSUME IInv, HandleError
    PROVE  IInv'
<1>1. UNCHANGED <<sharedVars, dataPc, storPc, cancel, temp, connVars, averages, logProcess, netVars>>
  BY DEF HandleError
<1>2. SharedTypes' /\ ConnTypes' /\ NetTypes' /\ ConnInv' /\ MutexInv' /\ WalkIsStable'
  BY <1>1 DEF IInv, TypeOK, SharedTypes, ConnTypes, NetTypes, ConnInv, MutexInv, WalkIsStable,
              sharedVars, connVars, netVars
<1>3. head \in Seq(Reading) /\ dataFile \in Seq(Reading)
  BY DEF IInv, TypeOK, SharedTypes, OutTypes
<1>4. dataFile' \in Seq(Reading)
  <2>1. CASE storPc = "copy"
    <3>1. PICK n \in 0..Len(Marked(head)) : dataFile' = dataFile \o SubSeq(Marked(head), 1, n)
      BY <2>1 DEF HandleError
    <3>2. SubSeq(Marked(head), 1, n) \in Seq(Reading)
      BY <1>3, MarkedPart
    <3>3. QED
      BY <1>3, <3>1, <3>2, ConcatProperties
  <2>2. CASE storPc # "copy"
    BY <1>3, <2>2 DEF HandleError
  <2>3. QED
    BY <2>1, <2>2
<1>5. ThreadTypes' /\ OutTypes'
  BY <1>1, <1>4 DEF IInv, TypeOK, ThreadTypes, OutTypes, HandleError
<1>6. QED
  BY <1>2, <1>5 DEF IInv, TypeOK

LEMMA StutterKeeps ==
    ASSUME IInv, UNCHANGED vars
    PROVE  IInv'
<1>1. SharedTypes' /\ ThreadTypes' /\ ConnTypes' /\ OutTypes' /\ NetTypes'
  BY DEF IInv, TypeOK, SharedTypes, ThreadTypes, ConnTypes, OutTypes, NetTypes,
         vars, connVars, outVars, netVars
<1>2. ConnInv' /\ MutexInv' /\ WalkIsStable'
  BY DEF IInv, ConnInv, MutexInv, WalkIsStable, vars, connVars
<1>3. QED
  BY <1>1, <1>2 DEF IInv, TypeOK

-----------------------------------------------------------------------------
\* The invariant holds in every state the gateway reaches.
THEOREM Invariance == Spec => []IInv
<1>1. IInv /\ [Next]_vars => IInv'
  <2> SUFFICES ASSUME IInv, [Next]_vars PROVE IInv'
    OBVIOUS
  <2>1. CASE ConnMgr
    BY <2>1, ConnMgrLocal, ConnMgrShared DEF IInv, TypeOK
  <2>2. CASE DataMgr \/ StorMgr \/ MainThread \/ LogProcessEnds \/ HandleError
    BY <2>2, DataMgrKeeps, StorMgrKeeps, MainKeeps, HandleErrorKeeps
  <2>3. CASE \E c \in Client : SensorNode(c)
    BY <2>3, SensorNodeKeeps
  <2>4. CASE UNCHANGED vars
    BY <2>4, StutterKeeps
  <2>5. QED
    BY <2>1, <2>2, <2>3, <2>4 DEF Next
<1>2. QED
  BY <1>1, InitIInv, PTL DEF Spec

\* Every variable keeps its type; a logged window is made of readings.
THEOREM Typing == Spec => []TypeOK
<1>1. IInv => TypeOK
  BY DEF IInv
<1>2. QED
  BY <1>1, Invariance, PTL

\* While data_mgr walks the list, nobody else changes it: the list stays in
\* order and temp at the start of a group, whatever conn_mgr and stor_mgr do.
THEOREM WalkStays == Spec => []WalkIsStable
<1>1. IInv => WalkIsStable
  BY DEF IInv
<1>2. QED
  BY <1>1, Invariance, PTL

-----------------------------------------------------------------------------
(* Averages before marks. *)

HasAverage(r) == \E k \in DOMAIN averages : Key(averages[k][1]) = Key(r)

\* Every marked reading of a list was the oldest of a window that was averaged.
MarkedHasAverage(list) == \A i \in DOMAIN list : list[i].del => HasAverage(list[i])

AverageInv == MarkedHasAverage(head) /\ MarkedHasAverage(dataFile)

LEMMA AverageInvMeans == AverageInv <=> AveragedBeforeStored
BY DEF AverageInv, AveragedBeforeStored, MarkedHasAverage, HasAverage

\* Averages are only ever added.
LEMMA AveragesStay ==
    ASSUME IInv, [Next]_vars, NEW r, HasAverage(r)
    PROVE  HasAverage(r)'
<1>1. averages \in Seq(Seq(Reading))
  BY DEF IInv, TypeOK, OutTypes
<1>2. averages' = averages \/ \E w \in Seq(Reading) : averages' = Append(averages, w)
  <2>1. CASE UNCHANGED vars
    BY <2>1 DEF vars, outVars
  <2>2. CASE ConnMgr \/ StorMgr \/ MainThread \/ LogProcessEnds \/ HandleError
    BY <2>2 DEF ConnMgr, StorMgr, MainThread, LogProcessEnds, HandleError, outVars
  <2>3. CASE \E c \in Client : SensorNode(c)
    BY <2>3 DEF SensorNode, outVars
  <2>4. CASE DataMgr /\ dataPc # "log"
    BY <2>4 DEF DataMgr, DataLoop, DataWait, DataSort, AverageGroup, LogAverage,
                DataUnlock, DataPost, DataCancelled
  <2>5. CASE DataMgr /\ dataPc = "log"
    <3>1. averages' \in {averages, Append(averages, WindowAt(head, temp))}
      BY <2>5 DEF DataMgr, DataLoop, DataWait, DataSort, AverageGroup, LogAverage,
                  DataUnlock, DataPost, DataCancelled
    <3>2. temp \in DOMAIN head /\ head \in Seq(Reading) /\ HasWindow(head, temp)
      BY <2>5 DEF IInv, TypeOK, SharedTypes, ThreadTypes, WalkIsStable
    <3>3. WindowAt(head, temp) \in Seq(Reading)
      BY <3>2, WindowInList
    <3>4. QED
      BY <3>1, <3>3
  <2>6. QED
    BY <2>1, <2>2, <2>3, <2>4, <2>5 DEF Next
<1>3. \A k \in DOMAIN averages : k \in DOMAIN averages' /\ averages'[k] = averages[k]
  <2>1. ASSUME NEW w \in Seq(Reading), averages' = Append(averages, w), NEW k \in DOMAIN averages
        PROVE  k \in DOMAIN averages' /\ averages'[k] = averages[k]
    BY <1>1, <2>1, AppendProperties
  <2>2. QED
    BY <1>2, <2>1
<1>4. QED
  BY <1>3 DEF HasAverage

LEMMA AverageInvKept ==
    ASSUME IInv, AverageInv, [Next]_vars
    PROVE  AverageInv'
<1>0. head \in Seq(Reading) /\ dataFile \in Seq(Reading) /\ averages \in Seq(Seq(Reading))
  BY DEF IInv, TypeOK, SharedTypes, OutTypes
<1> DEFINE Below(list, new) == \A n \in DOMAIN new : \E i \in DOMAIN list : new[n] = list[i]
<1>1. ASSUME UNCHANGED dataFile PROVE MarkedHasAverage(dataFile)'
  <2>1. ASSUME NEW n \in DOMAIN dataFile, dataFile[n].del
        PROVE  \E k \in DOMAIN averages' : Key(averages'[k][1]) = Key(dataFile[n])
    <3>1. PICK r : r = dataFile[n]
      OBVIOUS
    <3>2. HasAverage(r)
      BY <2>1, <3>1 DEF AverageInv, MarkedHasAverage
    <3>3. HasAverage(r)'
      BY <3>2, AveragesStay
    <3>4. QED
      BY <3>1, <3>3 DEF HasAverage
  <2>2. QED
    BY <1>1, <2>1 DEF MarkedHasAverage, HasAverage
<1>2. ASSUME Below(head, head') PROVE MarkedHasAverage(head)'
  <2>1. ASSUME NEW n \in DOMAIN head', head'[n].del
        PROVE  \E k \in DOMAIN averages' : Key(averages'[k][1]) = Key(head'[n])
    <3>1. PICK i \in DOMAIN head : head'[n] = head[i]
      BY <1>2
    <3>2. HasAverage(head[i])
      BY <2>1, <3>1 DEF AverageInv, MarkedHasAverage
    <3>3. PICK r : r = head[i]
      OBVIOUS
    <3>4. HasAverage(r)'
      BY <3>2, <3>3, AveragesStay
    <3>5. QED
      BY <3>1, <3>3, <3>4 DEF HasAverage
  <2>2. QED
    BY <2>1 DEF MarkedHasAverage, HasAverage
<1>3. CASE ConnMgr
  <2>1. UNCHANGED dataFile
    BY <1>3 DEF ConnMgr, outVars
  <2>2. CASE SaveReading
    <3>1. head' = Save(head, msg[1].id, msg[1].time)
      BY <2>2 DEF SaveReading
    <3>2. ASSUME NEW n \in DOMAIN head', head'[n].del
          PROVE  \E k \in DOMAIN averages' : Key(averages'[k][1]) = Key(head'[n])
      <4>1. n \in 1..(Len(head) + 1) /\ n # 1 /\ head'[n] = head[n - 1] /\ n - 1 \in DOMAIN head
        <5>1. n \in 1..(Len(head) + 1)
          BY <1>0, <3>1 DEF Save
        <5>2. head'[1] = [id |-> msg[1].id, time |-> msg[1].time, del |-> FALSE]
          BY <1>0, <3>1 DEF Save
        <5>3. ~ head'[1].del
          BY <5>2
        <5>4. n # 1
          BY <3>2, <5>3
        <5>5. head'[n] = head[n - 1]
          BY <1>0, <3>1, <5>1, <5>4 DEF Save
        <5>6. QED
          BY <1>0, <5>1, <5>4, <5>5
      <4>2. PICK r : r = head[n - 1]
        OBVIOUS
      <4>3. HasAverage(r)
        BY <3>2, <4>1, <4>2 DEF AverageInv, MarkedHasAverage
      <4>4. HasAverage(r)'
        BY <4>3, AveragesStay
      <4>5. QED
        BY <4>1, <4>2, <4>4 DEF HasAverage
    <3>3. MarkedHasAverage(head)'
      BY <3>2 DEF MarkedHasAverage, HasAverage
    <3>4. QED
      BY <1>1, <2>1, <3>3 DEF AverageInv
  <2>3. CASE ~ SaveReading
    <3>1. UNCHANGED head
      BY <1>3, <2>3 DEF ConnMgr, sharedVars, Setup, SelectAccept, LogOpened,
           SelectData, SelectTimeout, Receive, LogClosed, PostReading, ScanEnds, CloseAll
    <3>2. QED
      BY <1>1, <1>2, <2>1, <3>1 DEF AverageInv
  <2>4. QED
    BY <2>2, <2>3
<1>4. CASE DataMgr
  <2>1. UNCHANGED dataFile
    BY <1>4 DEF DataMgr
  <2>2. CASE DataSort
    <3>1. Below(head, head')
      BY <2>2, SortedMember, <1>0 DEF DataSort
    <3>2. QED
      BY <1>1, <1>2, <2>1, <3>1 DEF AverageInv
  <2>3. CASE LogAverage
    <3>1. /\ averages' = Append(averages, WindowAt(head, temp))
          /\ head' = Mark(head, temp)
      BY <2>3 DEF LogAverage
    <3>2. temp \in DOMAIN head /\ HasWindow(head, temp)
      BY <2>3 DEF LogAverage, IInv, TypeOK, SharedTypes, ThreadTypes, WalkIsStable
    <3>3. /\ WindowAt(head, temp) \in Seq(Reading) /\ Len(WindowAt(head, temp)) = Window
          /\ WindowAt(head, temp)[1] = head[temp]
      <4>1. /\ WindowAt(head, temp) \in Seq(Reading) /\ Len(WindowAt(head, temp)) = Window
            /\ \A k \in 1..Window : WindowAt(head, temp)[k] = head[temp + k - 1]
        BY <1>0, <3>2, WindowInList
      <4>2. 1 \in 1..Window /\ temp + 1 - 1 = temp
        BY <1>0, <3>2, WindowAssumption
      <4>3. WindowAt(head, temp)[1] = head[temp + 1 - 1]
        BY <4>1, <4>2
      <4>4. QED
        BY <4>1, <4>2, <4>3
    <3>4. Len(averages) + 1 \in DOMAIN averages' /\ averages'[Len(averages) + 1] = WindowAt(head, temp)
      BY <1>0, <3>1, <3>3, AppendProperties
    <3>5. /\ DOMAIN head' = DOMAIN head
          /\ \A n \in DOMAIN head : Key(head'[n]) = Key(head[n]) /\ (n # temp => head'[n] = head[n])
      <4>1. /\ head' \in Seq(Reading) /\ Len(head') = Len(head)
            /\ \A n \in DOMAIN head : head'[n].id = head[n].id /\ head'[n].time = head[n].time
        BY <1>0, <3>1, <3>2, MarkKeeps
      <4>2. DOMAIN head' = DOMAIN head
        BY <1>0, <4>1
      <4>3. \A n \in DOMAIN head : n # temp => head'[n] = head[n]
        BY <3>1 DEF Mark
      <4>4. QED
        BY <4>1, <4>2, <4>3 DEF Key
    <3>6. ASSUME NEW n \in DOMAIN head', head'[n].del
          PROVE  \E k \in DOMAIN averages' : Key(averages'[k][1]) = Key(head'[n])
      <4>1. CASE n = temp
        BY <3>3, <3>4, <3>5, <4>1
      <4>2. CASE n # temp
        <5>1. PICK r : r = head[n]
          OBVIOUS
        <5>2. HasAverage(r)
          BY <3>5, <3>6, <4>2, <5>1 DEF AverageInv, MarkedHasAverage
        <5>3. HasAverage(r)'
          BY <5>2, AveragesStay
        <5>4. QED
          BY <3>5, <4>2, <5>1, <5>3 DEF HasAverage
      <4>3. QED
        BY <4>1, <4>2
    <3>7. MarkedHasAverage(head)'
      BY <3>6 DEF MarkedHasAverage, HasAverage
    <3>8. QED
      BY <1>1, <2>1, <3>7 DEF AverageInv
  <2>4. CASE ~ DataSort /\ ~ LogAverage
    <3>1. UNCHANGED head
      BY <1>4, <2>4 DEF DataMgr, sharedVars, DataLoop, DataWait, AverageGroup,
           DataUnlock, DataPost, DataCancelled
    <3>2. QED
      BY <1>1, <1>2, <2>1, <3>1 DEF AverageInv
  <2>5. QED
    BY <2>2, <2>3, <2>4
<1>5. CASE StorMgr
  <2>1. Below(head, head')
    <3>1. CASE RemoveMarked
      BY <1>0, <3>1, MarkedMember DEF RemoveMarked
    <3>2. CASE ~ RemoveMarked
      BY <1>5, <3>2 DEF StorMgr, sharedVars, StorLoop, StorWait, StorLock, Copy, CopyFails,
                        StorCancelled
    <3>3. QED
      BY <3>1, <3>2
  <2>2. dataFile' = dataFile \/ dataFile' = dataFile \o Marked(head)
    BY <1>5 DEF StorMgr, sharedVars, StorLoop, StorWait, StorLock, Copy, CopyFails, RemoveMarked,
                StorCancelled
  <2>3. CASE dataFile' = dataFile \o Marked(head)
    <3>1. Marked(head) \in Seq(Reading)
      BY <1>0, PickType DEF Marked
    <3>2. ASSUME NEW n \in DOMAIN dataFile', dataFile'[n].del
          PROVE  \E k \in DOMAIN averages' : Key(averages'[k][1]) = Key(dataFile'[n])
      <4>1. \/ n \in DOMAIN dataFile /\ dataFile'[n] = dataFile[n]
            \/ \E m \in DOMAIN Marked(head) : dataFile'[n] = Marked(head)[m]
        <5> DEFINE m == n - Len(dataFile)
        <5>1. n \in 1..(Len(dataFile) + Len(Marked(head)))
          BY <1>0, <2>3, <3>1, ConcatProperties
        <5>2. CASE n <= Len(dataFile)
          BY <1>0, <2>3, <3>1, <5>1, <5>2, ConcatProperties
        <5>3. CASE ~ (n <= Len(dataFile))
          <6>1. m \in 1..Len(Marked(head))
            BY <1>0, <3>1, <5>1, <5>3
          <6>2. dataFile'[n] = Marked(head)[m]
            BY <1>0, <2>3, <3>1, <5>1, <5>3, ConcatProperties
          <6>3. QED
            BY <3>1, <6>1, <6>2
        <5>4. QED
          BY <5>2, <5>3
      <4>2. \/ n \in DOMAIN dataFile /\ dataFile'[n] = dataFile[n]
            \/ \E i \in DOMAIN head : dataFile'[n] = head[i]
        BY <1>0, <4>1, MarkedMember
      <4>3. PICK r : r = dataFile'[n]
        OBVIOUS
      <4>4. HasAverage(r)
        BY <3>2, <4>2, <4>3 DEF AverageInv, MarkedHasAverage
      <4>5. HasAverage(r)'
        BY <4>4, AveragesStay
      <4>6. QED
        BY <4>3, <4>5 DEF HasAverage
    <3>3. MarkedHasAverage(dataFile)'
      BY <3>2 DEF MarkedHasAverage, HasAverage
    <3>4. QED
      BY <1>2, <2>1, <3>3 DEF AverageInv
  <2>4. QED
    BY <1>1, <1>2, <2>1, <2>2, <2>3 DEF AverageInv
<1>6. CASE MainThread \/ LogProcessEnds \/ (\E c \in Client : SensorNode(c)) \/ UNCHANGED vars
  <2>1. UNCHANGED <<head, dataFile>>
    BY <1>6 DEF MainThread, LogProcessEnds, SensorNode, vars, sharedVars, outVars
  <2>2. QED
    BY <1>1, <1>2, <2>1 DEF AverageInv
<1>7. CASE HandleError
  <2>1. UNCHANGED <<head, averages>>
    BY <1>7 DEF HandleError, sharedVars
  <2>2. CASE storPc = "copy"
    <3>1. PICK k \in 0..Len(Marked(head)) : dataFile' = dataFile \o SubSeq(Marked(head), 1, k)
      BY <1>7, <2>2 DEF HandleError
    <3>2. PICK s : s = SubSeq(Marked(head), 1, k)
      OBVIOUS
    <3>3. s \in Seq(Reading) /\ \A n \in 1..Len(s) : \E i \in DOMAIN head : s[n] = head[i]
      BY <1>0, <3>2, MarkedPart, MarkedMember
    <3>4. \A n \in DOMAIN dataFile' :
             \/ n \in DOMAIN dataFile /\ dataFile'[n] = dataFile[n]
             \/ \E i \in DOMAIN head : dataFile'[n] = head[i]
      BY <1>0, <3>1, <3>2, <3>3, ConcatProperties
    <3>5. MarkedHasAverage(dataFile)'
      BY <2>1, <3>4 DEF AverageInv, MarkedHasAverage, HasAverage
    <3>6. QED
      BY <1>2, <2>1, <3>5 DEF AverageInv
  <2>3. CASE storPc # "copy"
    BY <1>1, <1>2, <1>7, <2>1, <2>3 DEF HandleError, AverageInv
  <2>4. QED
    BY <2>2, <2>3
<1>8. QED
  BY <1>3, <1>4, <1>5, <1>6, <1>7 DEF Next

\* A reading is marked, and stored, only after the average of a window it is the
\* oldest of was logged, for any number of nodes and any window: no sort and no
\* removal moves a mark to another reading.
THEOREM AveragedFirst == Spec => []AveragedBeforeStored
<1>1. Init => AverageInv
  BY DEF Init, AverageInv, MarkedHasAverage
<1>2. IInv /\ AverageInv /\ [Next]_vars => AverageInv'
  BY AverageInvKept
<1>3. QED
  BY <1>1, <1>2, Invariance, AverageInvMeans, PTL DEF Spec

-----------------------------------------------------------------------------
(* Wake-ups and work to be done. *)

\* A list that is not in order has a wake-up for data_mgr under way, a marked
\* reading one for stor_mgr, as long as the two have not ended.
SortIsDue ==
    \/ serSem > 0
    \/ connPc = "post"
    \/ dataPc \in {"lock", "done", "cancelled"}

RemovalIsDue ==
    \/ storSem > 0
    \/ dataPc \in {"average", "log", "post", "done", "cancelled"}
    \/ storPc \in {"lock", "copy", "remove", "done", "cancelled"}

NoneMarked == \A i \in DOMAIN head : ~ head[i].del

WorkInv == (Ordered(head) \/ SortIsDue) /\ (NoneMarked \/ RemovalIsDue)

LEMMA WorkInvKept ==
    ASSUME IInv, WorkInv, [Next]_vars
    PROVE  WorkInv'
<1>0. head \in Seq(Reading) /\ serSem \in Nat /\ storSem \in Nat
  BY DEF IInv, TypeOK, SharedTypes
<1>1. CASE ConnMgr
  <2>1. UNCHANGED <<storSem, dataPc, storPc>>
    BY <1>1 DEF ConnMgr, sharedVars, Setup, SelectAccept, LogOpened, SelectData,
         SelectTimeout, Receive, LogClosed, SaveReading, PostReading, ScanEnds, CloseAll
  <2>2. CASE SaveReading
    <3>1. connPc' = "post" /\ head' = Save(head, msg[1].id, msg[1].time)
      BY <2>2 DEF SaveReading
    <3>2. ASSUME NoneMarked PROVE NoneMarked'
      <4>1. ASSUME NEW n \in DOMAIN head' PROVE ~ head'[n].del
        <5>1. n \in 1..(Len(head) + 1)
          BY <1>0, <3>1 DEF Save
        <5>2. head'[1] = [id |-> msg[1].id, time |-> msg[1].time, del |-> FALSE]
          BY <1>0, <3>1 DEF Save
        <5>3. n # 1 => head'[n] = head[n - 1] /\ n - 1 \in DOMAIN head
          BY <1>0, <3>1, <5>1 DEF Save
        <5>4. QED
          BY <3>2, <5>2, <5>3 DEF NoneMarked
      <4>2. QED
        BY <4>1 DEF NoneMarked
    <3>3. QED
      BY <2>1, <3>1, <3>2 DEF WorkInv, SortIsDue, RemovalIsDue
  <2>3. CASE ~ SaveReading
    <3>1. UNCHANGED head
      BY <1>1, <2>3 DEF ConnMgr, sharedVars, Setup, SelectAccept, LogOpened,
           SelectData, SelectTimeout, Receive, LogClosed, PostReading, ScanEnds, CloseAll
    <3>2. (serSem' = serSem /\ connPc # "post") \/ serSem' = serSem + 1
      BY <1>1, <2>3 DEF ConnMgr, sharedVars, Setup, SelectAccept, LogOpened,
           SelectData, SelectTimeout, Receive, LogClosed, PostReading, ScanEnds, CloseAll
    <3>3. SortIsDue => SortIsDue'
      BY <1>0, <2>1, <3>2 DEF SortIsDue
    <3>4. QED
      BY <2>1, <3>1, <3>3 DEF WorkInv, RemovalIsDue, NoneMarked
  <2>4. QED
    BY <2>2, <2>3
<1>2. CASE DataMgr
  <2>0. UNCHANGED <<connPc, storPc>>
    BY <1>2 DEF DataMgr, connVars
  <2>1. CASE DataLoop \/ DataPost
    <3>1. /\ UNCHANGED <<head, serSem>> /\ dataPc \in {"loop", "post"}
          /\ storSem' = storSem \/ storSem' = storSem + 1
          /\ dataPc = "post" => storSem' = storSem + 1
      BY <2>1 DEF DataLoop, DataPost, sharedVars
    <3>2. SortIsDue => SortIsDue'
      BY <2>0, <3>1 DEF SortIsDue
    <3>3. RemovalIsDue => RemovalIsDue'
      BY <1>0, <2>0, <3>1 DEF RemovalIsDue
    <3>4. QED
      BY <3>1, <3>2, <3>3 DEF WorkInv, NoneMarked
  <2>2. CASE DataWait
    <3>1. UNCHANGED <<head, storSem>> /\ dataPc = "wait" /\ dataPc' = "lock"
      BY <2>2 DEF DataWait
    <3>2. QED
      BY <2>0, <3>1 DEF WorkInv, SortIsDue, RemovalIsDue, NoneMarked
  <2>3. CASE DataSort
    <3>1. Ordered(head') /\ dataPc' = "average"
      BY <1>0, <2>3, SortedType DEF DataSort
    <3>2. QED
      BY <3>1 DEF WorkInv, RemovalIsDue
  <2>4. CASE LogAverage
    <3>1. temp \in DOMAIN head /\ Ordered(head)
      BY <2>4 DEF LogAverage, IInv, TypeOK, SharedTypes, ThreadTypes, WalkIsStable
    <3>2. Ordered(head') /\ dataPc' = "average"
      BY <1>0, <2>4, <3>1, MarkKeeps DEF LogAverage
    <3>3. QED
      BY <3>2 DEF WorkInv, RemovalIsDue
  <2>5. CASE AverageGroup \/ DataUnlock
    <3>1. /\ UNCHANGED <<head, serSem>>
          /\ dataPc = "average" /\ dataPc' \in {"average", "log", "post"}
      BY <2>5 DEF AverageGroup, DataUnlock, sharedVars
    <3>2. QED
      BY <2>0, <3>1 DEF WorkInv, SortIsDue, RemovalIsDue
  <2>6. CASE DataCancelled
    BY <2>6 DEF DataCancelled, WorkInv, SortIsDue, RemovalIsDue
  <2>7. QED
    BY <1>2, <2>1, <2>2, <2>3, <2>4, <2>5, <2>6 DEF DataMgr
<1>3. CASE StorMgr
  <2>0. UNCHANGED <<connPc, dataPc, serSem>>
    BY <1>3 DEF StorMgr, connVars, sharedVars, StorLoop, StorWait, StorLock, Copy, CopyFails,
                RemoveMarked, StorCancelled
  <2>1. SortIsDue => SortIsDue'
    BY <2>0 DEF SortIsDue
  <2>2. CASE RemoveMarked
    <3>1. head' = Unmarked(head)
      BY <2>2 DEF RemoveMarked
    <3>2. Ordered(head) => Ordered(head')
      BY <1>0, <3>1, PickOrdered DEF Unmarked
    <3>3. NoneMarked'
      BY <1>0, <3>1, MarkedMember DEF NoneMarked
    <3>4. QED
      BY <2>1, <3>2, <3>3 DEF WorkInv
  <2>3. CASE StorWait
    BY <2>1, <2>3 DEF StorWait, WorkInv, RemovalIsDue
  <2>4. CASE ~ RemoveMarked /\ ~ StorWait
    <3>1. /\ UNCHANGED <<head, storSem>>
          /\ \/ storPc = "loop"
             \/ storPc' \in {"copy", "remove", "cancelled"}
      BY <1>3, <2>4 DEF StorMgr, sharedVars, StorLoop, StorLock, Copy, CopyFails, StorCancelled
    <3>2. QED
      BY <2>0, <2>1, <3>1 DEF WorkInv, RemovalIsDue, NoneMarked
  <2>5. QED
    BY <2>2, <2>3, <2>4
<1>4. CASE \/ MainThread \/ LogProcessEnds \/ HandleError
           \/ (\E c \in Client : SensorNode(c)) \/ UNCHANGED vars
  <2>1. UNCHANGED <<head, serSem, storSem, connPc, dataPc, storPc>>
    BY <1>4 DEF MainThread, LogProcessEnds, HandleError, SensorNode, vars, sharedVars, connVars
  <2>2. QED
    BY <2>1 DEF WorkInv, SortIsDue, RemovalIsDue, NoneMarked
<1>5. QED
  BY <1>1, <1>2, <1>3, <1>4 DEF Next

\* No wake-up is lost, whatever the interleaving and for any number of nodes: when
\* all three threads wait, the list is in order and nothing is left to be moved.
THEOREM QuietMeansDone == Spec => []QuietIsProcessed
<1>1. Init => WorkInv
  BY DEF Init, WorkInv, Ordered, NoneMarked
<1>2. IInv /\ WorkInv /\ [Next]_vars => WorkInv'
  BY WorkInvKept
<1>3. IInv /\ WorkInv => QuietIsProcessed
  BY DEF WorkInv, SortIsDue, RemovalIsDue, NoneMarked, QuietIsProcessed, AllWait
<1>4. QED
  BY <1>1, <1>2, <1>3, Invariance, PTL DEF Spec
-----------------------------------------------------------------------------
(***************************************************************************)
(* That readings reach the data file once and oldest first: the gateway is *)
(* a ReadingStore, for any number of sensor nodes whose IDs differ and     *)
(* which send at most ten readings each.                                   *)
(***************************************************************************)

\* What is known of the sensor nodes: each has an ID of its own, and so few
\* messages that Parse's garbled times are larger than all others.
NodesDiffer == \A c, d \in Client : Device[c] = Device[d] => c = d
FewMessages == Messages <= 10

-----------------------------------------------------------------------------
(* The order of the readings of one sensor. *)

\* Two readings of one sensor differ in time, and if both times are genuine the
\* first is the older.
Before(r, s) ==
    r.id = s.id =>
        /\ r.time # s.time
        /\ r.time <= Messages /\ s.time <= Messages => r.time < s.time

\* The reading was sent before the sensor's t-th.
Came(r, t) == IF r.time <= Messages THEN r.time < t ELSE r.time < 10 * t + r.id

CameEarlier(r) ==
    \A c \in Client :
        Device[c] = r.id =>
            /\ Came(r, sent[c] + 1)
            /\ stream[c] # <<>> => Came(r, stream[c][1])

\* No reading is twice in the list, what is marked is older than what is not,
\* and the marked ones are in order.
Tidy(list) ==
    /\ \A i, j \in DOMAIN list : i # j /\ list[i].id = list[j].id => list[i].time # list[j].time
    /\ \A i, j \in DOMAIN list : list[i].del /\ ~ list[j].del => Before(list[i], list[j])
    /\ \A i, j \in DOMAIN list : list[i].del /\ list[j].del /\ i < j => Before(list[i], list[j])

LEMMA SortTidy ==
    ASSUME NEW list \in Seq(Reading), Tidy(list), NEW s \in Sorted(list)
    PROVE  Tidy(s)
<1>1. PICK p \in Bijection(DOMAIN list, DOMAIN list) :
          s = [i \in DOMAIN list |-> list[p[i]]]
  BY DEF Sorted
<1>2. /\ p \in [DOMAIN list -> DOMAIN list]
      /\ \A i, j \in DOMAIN list : p[i] = p[j] => i = j
  BY DEF Bijection, Injection, IsInjective
<1>3. Ordered(s) /\ DOMAIN s = DOMAIN list /\ \A i \in DOMAIN s : s[i] = list[p[i]] /\ s[i] \in Reading
  BY <1>1, <1>2 DEF Sorted
<1>4. \A i, j \in DOMAIN s : i # j /\ s[i].id = s[j].id => s[i].time # s[j].time
  BY <1>2, <1>3 DEF Tidy
<1>5. \A i, j \in DOMAIN s : s[i].del /\ ~ s[j].del => Before(s[i], s[j])
  BY <1>2, <1>3 DEF Tidy
<1>6. ASSUME NEW i \in DOMAIN s, NEW j \in DOMAIN s, i < j
      PROVE  Before(s[i], s[j])
  <2>1. InOrder(s[i], s[j]) /\ i # j
    BY <1>3, <1>6 DEF Ordered
  <2>2. s[i].id = s[j].id => s[i].time < s[j].time
    BY <1>3, <1>4, <2>1 DEF InOrder, Reading
  <2>3. QED
    BY <1>3, <2>2 DEF Before, Reading
<1>7. QED
  BY <1>4, <1>5, <1>6 DEF Tidy

LEMMA SaveTidy ==
    ASSUME NEW list \in Seq(Reading), Tidy(list), NEW id \in Nat, NEW time \in Nat,
           \A i \in DOMAIN list : Before(list[i], [id |-> id, time |-> time])
    PROVE  Tidy(Save(list, id, time))
<1> DEFINE new == Save(list, id, time)
<1>0. Len(list) \in Nat /\ DOMAIN list = 1..Len(list)
  OBVIOUS
<1>1. DOMAIN new = 1..(Len(list) + 1) /\ new[1] = [id |-> id, time |-> time, del |-> FALSE]
  BY DEF Save
<1>2. \A n \in DOMAIN new : n # 1 => n - 1 \in DOMAIN list /\ new[n] = list[n - 1]
  BY <1>0, <1>1 DEF Save
<1> HIDE DEF new
<1>3. \A n \in DOMAIN new : n # 1 => Before(new[n], new[1]) /\ new[n] \in Reading
  BY <1>1, <1>2 DEF Before
<1>4. ASSUME NEW i \in DOMAIN new, NEW j \in DOMAIN new, i # j, new[i].id = new[j].id
      PROVE  new[i].time # new[j].time
  <2>1. CASE i = 1 \/ j = 1
    BY <1>3, <1>4, <2>1 DEF Before
  <2>2. CASE i # 1 /\ j # 1
    <3>1. i - 1 # j - 1
      BY <1>0, <1>1, <1>4
    <3>2. QED
      BY <1>2, <1>4, <2>2, <3>1 DEF Tidy
  <2>3. QED
    BY <2>1, <2>2
<1>5. ASSUME NEW i \in DOMAIN new, NEW j \in DOMAIN new, new[i].del, ~ new[j].del
      PROVE  Before(new[i], new[j])
  <2>1. i # 1
    BY <1>1, <1>5
  <2>2. QED
    BY <1>2, <1>3, <1>5, <2>1 DEF Tidy
<1>6. ASSUME NEW i \in DOMAIN new, NEW j \in DOMAIN new, new[i].del, new[j].del, i < j
      PROVE  Before(new[i], new[j])
  <2>1. i # 1 /\ j # 1
    BY <1>1, <1>6
  <2>2. i - 1 < j - 1
    BY <1>0, <1>1, <1>6
  <2>3. QED
    BY <1>2, <1>6, <2>1, <2>2 DEF Tidy
<1>7. QED
  BY <1>4, <1>5, <1>6 DEF Tidy, new

\* The mark on the first reading of a sensor in a list that is in order.
LEMMA MarkTidy ==
    ASSUME NEW list \in Seq(Reading), Tidy(list), Ordered(list), NEW p \in DOMAIN list,
           \A i \in DOMAIN list : list[i].id = list[p].id => p <= i
    PROVE  Tidy(Mark(list, p))
<1> DEFINE new == Mark(list, p)
<1>1. /\ DOMAIN new = DOMAIN list /\ new \in Seq(Reading)
      /\ \A i \in DOMAIN list : new[i].id = list[i].id /\ new[i].time = list[i].time
      /\ Ordered(new)
  BY MarkKeeps
<1>2. \A i \in DOMAIN list : i # p => new[i] = list[i]
  BY DEF Mark
<1>3. new[p].del
  <2>1. list[p] \in Reading
    OBVIOUS
  <2>2. new[p] = [list[p] EXCEPT !.del = TRUE]
    BY DEF Mark
  <2>3. QED
    BY <2>1, <2>2 DEF Reading
<1> HIDE DEF new
<1>4. \A i, j \in DOMAIN new : i # j /\ new[i].id = new[j].id => new[i].time # new[j].time
  BY <1>1 DEF Tidy
<1>5. ASSUME NEW i \in DOMAIN new, NEW j \in DOMAIN new, i < j
      PROVE  Before(new[i], new[j])
  <2>1. InOrder(new[i], new[j]) /\ i # j
    BY <1>1, <1>5 DEF Ordered
  <2>2. new[i] \in Reading /\ new[j] \in Reading
    BY <1>1
  <2>3. new[i].time \in Nat /\ new[j].time \in Nat /\ new[i].id \in Nat /\ new[j].id \in Nat
    BY <2>2 DEF Reading
  <2>4. new[i].id = new[j].id => new[i].time < new[j].time
    <3>1. new[i].id = new[j].id => new[i].time <= new[j].time
      BY <2>1, <2>3 DEF InOrder
    <3>2. new[i].id = new[j].id => new[i].time # new[j].time
      BY <1>4, <2>1
    <3>3. QED
      BY <2>3, <3>1, <3>2
  <2>5. QED
    BY <2>3, <2>4 DEF Before
<1>6. ASSUME NEW i \in DOMAIN new, NEW j \in DOMAIN new, new[i].del, ~ new[j].del
      PROVE  Before(new[i], new[j])
  <2>1. j # p
    BY <1>3, <1>6
  <2>2. CASE i = p
    <3>1. new[i].id = new[j].id => i < j
      BY <1>1, <2>1, <2>2
    <3>2. QED
      BY <1>5, <3>1 DEF Before
  <2>3. CASE i # p
    BY <1>1, <1>2, <1>6, <2>1, <2>3 DEF Tidy
  <2>4. QED
    BY <2>2, <2>3
<1>7. QED
  BY <1>4, <1>5, <1>6 DEF Tidy, new

LEMMA UnmarkedTidy ==
    ASSUME NEW list \in Seq(Reading), Tidy(list)
    PROVE  Tidy(Unmarked(list))
<1>0. PICK I : I = {i \in DOMAIN list : ~ list[i].del}
  OBVIOUS
<1>1. I \in SUBSET Nat /\ IsFiniteSet(I)
  <2>1. IsFiniteSet(DOMAIN list) /\ I \subseteq DOMAIN list
    BY <1>0, FS_Interval
  <2>2. QED
    BY <2>1, FS_Subset
<1>a. \A i \in I : i \in DOMAIN list /\ ~ list[i].del
  BY <1>0
<1>b. Unmarked(list) = Pick(list, I)
  BY <1>0 DEF Unmarked
<1>c. PICK f : PickedBy(list, I, f)
  BY <1>1, PickPositions
<1>2. /\ f \in [1..Cardinality(I) -> I]
      /\ \A n \in 1..Cardinality(I) : Pick(list, I)[n] = list[f[n]]
      /\ \A m, n \in 1..Cardinality(I) : m < n => f[m] < f[n]
  BY <1>c DEF PickedBy
<1>3. DOMAIN Pick(list, I) = 1..Cardinality(I) /\ Cardinality(I) \in Nat
  BY <1>1, FS_CardinalityType DEF Pick
<1>4. \A m, n \in 1..Cardinality(I) : m # n => f[m] # f[n]
  <2>1. \A i \in I : i \in Nat
    BY <1>1
  <2>2. ASSUME NEW m \in 1..Cardinality(I), NEW n \in 1..Cardinality(I), m # n PROVE f[m] # f[n]
    <3>1. m < n \/ n < m
      BY <1>3, <2>2
    <3>2. f[m] \in Nat /\ f[n] \in Nat
      BY <1>2, <2>1
    <3>3. QED
      BY <1>2, <3>1, <3>2
  <2>3. QED
    BY <2>2
<1>5. \A n \in 1..Cardinality(I) : f[n] \in DOMAIN list /\ ~ list[f[n]].del
  BY <1>2, <1>a
<1>6. \A n \in 1..Cardinality(I) : ~ Pick(list, I)[n].del
  BY <1>2, <1>5
<1>7. \A m, n \in 1..Cardinality(I) :
        m # n /\ Pick(list, I)[m].id = Pick(list, I)[n].id =>
          Pick(list, I)[m].time # Pick(list, I)[n].time
  BY <1>2, <1>4, <1>5 DEF Tidy
<1>8. QED
  BY <1>3, <1>6, <1>7, <1>b DEF Tidy

-----------------------------------------------------------------------------
(* The invariant. *)

\* The times on their way were sent, each sensor at most Messages of them.
NetInv ==
    \A c \in Client :
        /\ sent[c] \in 0..Messages
        /\ \A k \in DOMAIN stream[c] : stream[c][k] \in 1..sent[c]

HeadCame == \A i \in DOMAIN head : CameEarlier(head[i])
FileCame == \A i \in DOMAIN dataFile : CameEarlier(dataFile[i])

\* The reading conn_mgr is about to save is younger than all that are there.
MsgIsNew ==
    msg # <<>> =>
        /\ CameEarlier(msg[1])
        /\ \A i \in DOMAIN head : Before(head[i], msg[1])
        /\ \A i \in DOMAIN dataFile : Before(dataFile[i], msg[1])

\* The marked readings of the list may be in the data file: stor_mgr is between
\* copy and remove, or was cancelled there and has the mutex for ever, or the
\* process has ended there.
Copied ==
    \/ storPc = "remove"
    \/ mutex = "stor_mgr" /\ (storPc = "cancelled" \/ mainPc = "exited")

FileOlder ==
    \A i \in DOMAIN dataFile, j \in DOMAIN head :
        ~ head[j].del \/ ~ Copied => Before(dataFile[i], head[j])

FileInOrder == \A i, j \in DOMAIN dataFile : i < j => Before(dataFile[i], dataFile[j])

OrderInv ==
    /\ NetInv /\ HeadCame /\ FileCame /\ MsgIsNew
    /\ Tidy(head) /\ FileOlder /\ FileInOrder

LEMMA Types ==
    ASSUME IInv
    PROVE  /\ head \in Seq(Reading) /\ dataFile \in Seq(Reading) /\ msg \in Seq(MsgReading)
           /\ sent \in [Client -> Nat] /\ stream \in [Client -> Seq(Nat)]
           /\ \A c \in Client : Device[c] \in 1..9
           /\ Messages \in Nat
BY GatewayAssumption DEF IInv, TypeOK, SharedTypes, OutTypes, ConnTypes, NetTypes

\* Steps that change neither the file nor what is on its way, and make a new list
\* of the readings of the old.
LEMMA ListStep ==
    ASSUME OrderInv, UNCHANGED <<msg, sent, stream, dataFile>>, Tidy(head'), FileOlder',
           \A n \in DOMAIN head' : \E i \in DOMAIN head :
               head'[n].id = head[i].id /\ head'[n].time = head[i].time
    PROVE  OrderInv'
<1>1. NetInv' /\ FileCame' /\ FileInOrder'
  BY DEF OrderInv, NetInv, FileCame, FileInOrder, CameEarlier
<1>2. HeadCame'
  BY DEF OrderInv, HeadCame, CameEarlier, Came
<1>3. MsgIsNew'
  BY DEF OrderInv, MsgIsNew, CameEarlier, Before
<1>4. QED
  BY <1>1, <1>2, <1>3 DEF OrderInv

\* Steps that leave the list alone as well.
LEMMA IdleStep ==
    ASSUME OrderInv, UNCHANGED <<msg, sent, stream, dataFile, head>>, Copied' \/ ~ Copied
    PROVE  OrderInv'
<1>1. Tidy(head') /\ FileOlder'
  BY DEF OrderInv, FileOlder
<1>2. \A n \in DOMAIN head' : \E i \in DOMAIN head :
         head'[n].id = head[i].id /\ head'[n].time = head[i].time
  OBVIOUS
<1>3. QED
  BY <1>1, <1>2, ListStep

-----------------------------------------------------------------------------
(* The sensor nodes and conn_mgr. *)

LEMMA SensorNodeOrder ==
    ASSUME IInv, OrderInv, NEW c \in Client, SensorNode(c)
    PROVE  OrderInv'
<1>0. UNCHANGED <<head, dataFile, msg, mainPc, storPc, mutex>>
  BY DEF SensorNode, sharedVars, connVars, outVars
<1>1. CASE Connect(c) \/ Close(c)
  <2>1. UNCHANGED <<sent, stream>>
    BY <1>1 DEF Connect, Close
  <2>2. Copied' = Copied
    BY <1>0 DEF Copied
  <2>3. QED
    BY <1>0, <2>1, <2>2, IdleStep
<1>2. CASE Send(c)
  <2>1. /\ sent[c] < Messages
        /\ sent' = [sent EXCEPT ![c] = @ + 1]
        /\ stream' = [stream EXCEPT ![c] = Append(@, sent[c] + 1)]
    BY <1>2 DEF Send
  <2>2. /\ sent'[c] = sent[c] + 1 /\ sent[c] \in Nat /\ stream[c] \in Seq(Nat)
        /\ stream'[c] = Append(stream[c], sent[c] + 1)
        /\ \A d \in Client : d # c => sent'[d] = sent[d] /\ stream'[d] = stream[d]
    BY <2>1, Types
  <2>3. stream'[c][1] = IF stream[c] = <<>> THEN sent[c] + 1 ELSE stream[c][1]
    BY <2>2
  <2>4. NetInv'
    <3>1. ASSUME NEW k \in DOMAIN stream'[c] PROVE stream'[c][k] \in 1..sent'[c]
      <4>1. k \in 1..(Len(stream[c]) + 1) /\ Len(stream[c]) \in Nat
        BY <2>2
      <4>2. CASE k = Len(stream[c]) + 1
        BY <2>2, <4>2
      <4>3. CASE k # Len(stream[c]) + 1
        <5>1. k \in DOMAIN stream[c] /\ stream'[c][k] = stream[c][k]
          BY <2>2, <4>1, <4>3
        <5>2. stream[c][k] \in 1..sent[c]
          BY <5>1 DEF OrderInv, NetInv
        <5>3. QED
          BY <2>2, <5>1, <5>2
      <4>4. QED
        BY <4>2, <4>3
    <3>2. sent'[c] \in 0..Messages
      BY <2>1, <2>2, Types
    <3>3. QED
      BY <2>2, <3>1, <3>2 DEF OrderInv, NetInv
  <2>5. ASSUME NEW r, r.id \in Nat, r.time \in Nat, CameEarlier(r) PROVE CameEarlier(r)'
    <3>1. ASSUME NEW d \in Client, Device[d] = r.id
          PROVE  Came(r, sent'[d] + 1) /\ (stream'[d] # <<>> => Came(r, stream'[d][1]))
      <4>1. Came(r, sent[d] + 1) /\ (stream[d] # <<>> => Came(r, stream[d][1]))
        BY <2>5, <3>1 DEF CameEarlier
      <4>2. CASE d # c
        BY <2>2, <4>1, <4>2
      <4>3. CASE d = c
        <5>1. Came(r, sent[c] + 1 + 1)
          BY <2>2, <2>5, <4>1, <4>3 DEF Came
        <5>2. QED
          BY <2>2, <2>3, <4>1, <4>3, <5>1
      <4>4. QED
        BY <4>2, <4>3
    <3>2. QED
      BY <3>1 DEF CameEarlier
  <2>6. ASSUME NEW list \in Seq(Reading), \A i \in DOMAIN list : CameEarlier(list[i])
        PROVE  (\A i \in DOMAIN list : CameEarlier(list[i]))'
    <3>1. ASSUME NEW i \in DOMAIN list PROVE CameEarlier(list[i])'
      <4>1. list[i] \in Reading
        OBVIOUS
      <4>2. list[i].id \in Nat /\ list[i].time \in Nat
        BY <4>1 DEF Reading
      <4>3. QED
        BY <2>5, <2>6, <4>2
    <3>2. QED
      BY <3>1
  <2>7. HeadCame'
    <3>1. PICK list : list = head
      OBVIOUS
    <3>2. (\A i \in DOMAIN list : CameEarlier(list[i]))'
      BY <2>6, <3>1, Types DEF OrderInv, HeadCame
    <3>3. QED
      BY <1>0, <3>1, <3>2 DEF HeadCame, CameEarlier
  <2>8. FileCame'
    <3>1. PICK list : list = dataFile
      OBVIOUS
    <3>2. (\A i \in DOMAIN list : CameEarlier(list[i]))'
      BY <2>6, <3>1, Types DEF OrderInv, FileCame
    <3>3. QED
      BY <1>0, <3>1, <3>2 DEF FileCame, CameEarlier
  <2>9. MsgIsNew'
    <3>1. ASSUME msg # <<>> PROVE CameEarlier(msg[1])'
      <4>1. PICK r : r = msg[1]
        OBVIOUS
      <4>2. r.id \in Nat /\ r.time \in Nat
        <5>1. msg[1] \in MsgReading
          BY <3>1, Types
        <5>2. QED
          BY <4>1, <5>1 DEF MsgReading
      <4>3. CameEarlier(r)'
        BY <2>5, <3>1, <4>1, <4>2 DEF OrderInv, MsgIsNew
      <4>4. QED
        BY <1>0, <4>1, <4>3 DEF CameEarlier
    <3>2. QED
      BY <1>0, <3>1 DEF OrderInv, MsgIsNew
  <2>10. FileOlder' /\ FileInOrder' /\ Tidy(head)'
    BY <1>0 DEF OrderInv, FileOlder, FileInOrder, Copied
  <2>11. QED
    BY <2>4, <2>7, <2>8, <2>9, <2>10 DEF OrderInv
<1>3. QED
  BY <1>1, <1>2 DEF SensorNode

\* What Receive parses is younger than every reading that came before it.
LEMMA ParsedIsNew ==
    ASSUME FewMessages, IInv, NEW c \in Client, stream[c] # <<>>,
           stream[c][1] \in 1..sent[c], sent[c] \in 0..Messages
    PROVE  /\ Parse(c).id = Device[c] /\ Came(Parse(c), sent[c] + 1)
           /\ \A r : /\ r.time \in Nat /\ r.id = Device[c]
                     /\ Came(r, stream[c][1])
                     => Before(r, Parse(c))
<1> DEFINE t == stream[c][1]
           m == Parse(c)
<1>1. /\ t \in Nat \ {0} /\ t <= sent[c] /\ sent[c] \in Nat /\ sent[c] <= Messages
      /\ Messages \in Nat /\ Messages <= 10 /\ Device[c] \in 1..9
  BY Types DEF FewMessages
<1>2. /\ m.id = Device[c]
      /\ m.time = t \/ m.time = 10 * t + Device[c]
  BY DEF Parse
<1> HIDE DEF t, m
<1>3. CASE m.time = t
  <2>1. m.time <= Messages /\ m.time < sent[c] + 1
    BY <1>1, <1>3
  <2>2. Came(m, sent[c] + 1)
    BY <2>1 DEF Came
  <2>3. ASSUME NEW r, r.time \in Nat, r.id = Device[c], Came(r, t)
        PROVE  Before(r, m)
    <3>1. CASE r.time <= Messages
      BY <1>1, <1>3, <2>3, <3>1 DEF Came, Before
    <3>2. CASE ~ (r.time <= Messages)
      BY <1>1, <1>3, <2>1, <3>2 DEF Before
    <3>3. QED
      BY <3>1, <3>2
  <2>4. QED
    BY <1>2, <2>2, <2>3 DEF t, m
<1>4. CASE m.time = 10 * t + Device[c]
  <2>1. ~ (m.time <= Messages)
    BY <1>1, <1>4
  <2>2. m.time < 10 * (sent[c] + 1) + m.id
    <3>1. \A x, y, d \in Nat : x <= y => 10 * x + d < 10 * (y + 1) + d
      OBVIOUS
    <3>2. t \in Nat /\ sent[c] \in Nat /\ Device[c] \in Nat /\ t <= sent[c]
      BY <1>1
    <3>3. 10 * t + Device[c] < 10 * (sent[c] + 1) + Device[c]
      BY <3>1, <3>2
    <3>4. QED
      BY <1>2, <1>4, <3>3
  <2>3. Came(m, sent[c] + 1)
    BY <2>1, <2>2 DEF Came
  <2>4. ASSUME NEW r, r.time \in Nat, r.id = Device[c], Came(r, t)
        PROVE  Before(r, m)
    <3>1. r.time # m.time
      BY <1>1, <1>4, <2>1, <2>4 DEF Came
    <3>2. QED
      BY <2>1, <3>1 DEF Before
  <2>5. QED
    BY <1>2, <2>3, <2>4 DEF t, m
<1>5. QED
  BY <1>2, <1>3, <1>4

LEMMA ReceiveOrder ==
    ASSUME NodesDiffer, FewMessages, IInv, OrderInv, Receive,
           UNCHANGED <<dataFile, storPc>>
    PROVE  OrderInv'
<1> DEFINE c == client_socket[Serving]
<1>0. UNCHANGED <<head, mutex, mainPc, sent>>
  BY DEF Receive, sharedVars
<1>1. c \in Client
  <2>1. readfds # {} /\ ConnTypes /\ ConnInv
    BY DEF Receive, IInv, TypeOK
  <2>2. QED
    BY <2>1, ServingReady DEF ConnTypes, ConnInv
<1>2. CASE UNCHANGED <<msg, stream>>
  <2>1. Copied' = Copied
    BY <1>0 DEF Copied
  <2>2. QED
    BY <1>0, <1>2, <2>1, IdleStep
<1>3. CASE /\ stream[c] # <<>>
           /\ msg' = <<Parse(c)>>
           /\ stream' = [stream EXCEPT ![c] = <<>>]
  <2> HIDE DEF c
  <2>1. /\ stream'[c] = <<>>
        /\ \A d \in Client : d # c => stream'[d] = stream[d]
    BY <1>1, <1>3, Types
  <2>2. /\ sent[c] \in 0..Messages
        /\ stream[c][1] \in 1..sent[c]
    <3>1. 1 \in DOMAIN stream[c]
      BY <1>1, <1>3, Types
    <3>2. QED
      BY <1>1, <3>1 DEF OrderInv, NetInv
  <2>3. /\ Parse(c).id = Device[c] /\ Came(Parse(c), sent[c] + 1)
        /\ \A r : r.time \in Nat /\ r.id = Device[c] /\ Came(r, stream[c][1])
                  => Before(r, Parse(c))
    BY <1>1, <1>3, <2>2, ParsedIsNew
  <2>4. ASSUME NEW r, CameEarlier(r)
        PROVE  \A d \in Client : Device[d] = r.id =>
                 Came(r, sent[d] + 1) /\ (stream'[d] # <<>> => Came(r, stream'[d][1]))
    BY <2>1, <2>4 DEF CameEarlier
  <2>5. HeadCame' /\ FileCame'
    BY <1>0, <2>4 DEF OrderInv, HeadCame, FileCame, CameEarlier
  <2>6. NetInv'
    <3>1. \A d \in Client : sent[d] \in 0..Messages /\ \A k \in DOMAIN stream'[d] : stream'[d][k] \in 1..sent[d]
      BY <2>1 DEF OrderInv, NetInv
    <3>2. QED
      BY <1>0, <3>1 DEF NetInv
  <2>7. MsgIsNew'
    <3>1. msg'[1] = Parse(c)
      BY <1>3
    <3>2. CameEarlier(msg[1])'
      <4>1. \A d \in Client : Device[d] = Device[c] => d = c
        BY <1>1 DEF NodesDiffer
      <4>2. QED
        BY <1>0, <2>1, <2>3, <3>1, <4>1 DEF CameEarlier
    <3>3. ASSUME NEW list \in Seq(Reading), NEW i \in DOMAIN list, CameEarlier(list[i])
          PROVE  Before(list[i], Parse(c))
      <4>1. list[i] \in Reading
        OBVIOUS
      <4>2. list[i].time \in Nat
        BY <4>1 DEF Reading
      <4>3. CASE list[i].id = Device[c]
        BY <1>1, <1>3, <2>3, <3>3, <4>2, <4>3 DEF CameEarlier
      <4>4. CASE list[i].id # Device[c]
        BY <2>3, <4>4 DEF Before
      <4>5. QED
        BY <4>3, <4>4
    <3>4. \A i \in DOMAIN head : Before(head[i], Parse(c))
      BY <3>3, Types DEF OrderInv, HeadCame
    <3>5. \A i \in DOMAIN dataFile : Before(dataFile[i], Parse(c))
      BY <3>3, Types DEF OrderInv, FileCame
    <3>6. QED
      BY <1>0, <3>1, <3>2, <3>4, <3>5 DEF MsgIsNew
  <2>8. FileOlder' /\ FileInOrder' /\ Tidy(head)'
    BY <1>0 DEF OrderInv, FileOlder, FileInOrder, Copied
  <2>9. QED
    BY <2>5, <2>6, <2>7, <2>8 DEF OrderInv
<1>4. QED
  BY <1>2, <1>3 DEF Receive

LEMMA SaveOrder ==
    ASSUME IInv, OrderInv, SaveReading, UNCHANGED <<dataFile, storPc>>
    PROVE  OrderInv'
<1>0. /\ UNCHANGED <<mutex, mainPc, sent, stream>> /\ msg' = <<>>
      /\ head' = Save(head, msg[1].id, msg[1].time)
  BY DEF SaveReading, netVars
<1>1. /\ msg # <<>> /\ msg[1].id \in Nat /\ msg[1].time \in Nat
  <2>1. msg \in Seq(MsgReading) /\ Len(msg) = 1
    BY Types DEF SaveReading, IInv, ConnInv
  <2>2. msg[1] \in MsgReading /\ msg # <<>>
    BY <2>1
  <2>3. QED
    BY <2>2 DEF MsgReading
<1>2. /\ head' \in Seq(Reading) /\ DOMAIN head' = 1..(Len(head) + 1) /\ Len(head) \in Nat
      /\ head'[1] = [id |-> msg[1].id, time |-> msg[1].time, del |-> FALSE]
      /\ \A n \in DOMAIN head' : n # 1 => n - 1 \in DOMAIN head /\ head'[n] = head[n - 1]
  BY <1>0, <1>1, Types DEF Save, Reading
<1>3. /\ CameEarlier(msg[1])
      /\ \A i \in DOMAIN head : Before(head[i], msg[1])
      /\ \A i \in DOMAIN dataFile : Before(dataFile[i], msg[1])
  BY <1>1 DEF OrderInv, MsgIsNew
<1>4. Tidy(head')
  <2>1. \A i \in DOMAIN head : Before(head[i], [id |-> msg[1].id, time |-> msg[1].time])
    BY <1>3 DEF Before
  <2>2. QED
    BY <1>0, <1>1, <2>1, SaveTidy, Types DEF OrderInv
<1>5. HeadCame'
  <2>1. ASSUME NEW n \in DOMAIN head' PROVE CameEarlier(head'[n])
    <3>1. CASE n = 1
      BY <1>2, <1>3, <3>1 DEF CameEarlier, Came
    <3>2. CASE n # 1
      BY <1>2, <3>2 DEF OrderInv, HeadCame
    <3>3. QED
      BY <3>1, <3>2
  <2>2. QED
    BY <1>0, <2>1 DEF HeadCame, CameEarlier
<1>6. FileOlder'
  <2>1. ASSUME NEW i \in DOMAIN dataFile, NEW n \in DOMAIN head', ~ head'[n].del \/ ~ Copied
        PROVE  Before(dataFile[i], head'[n])
    <3>1. CASE n = 1
      BY <1>2, <1>3, <3>1 DEF Before
    <3>2. CASE n # 1
      BY <1>2, <2>1, <3>2 DEF OrderInv, FileOlder
    <3>3. QED
      BY <3>1, <3>2
  <2>2. QED
    BY <1>0, <2>1 DEF FileOlder, Copied
<1>7. NetInv' /\ FileCame' /\ FileInOrder' /\ MsgIsNew'
  BY <1>0 DEF OrderInv, NetInv, FileCame, FileInOrder, MsgIsNew, CameEarlier
<1>8. QED
  BY <1>4, <1>5, <1>6, <1>7 DEF OrderInv

LEMMA ConnMgrOrder ==
    ASSUME NodesDiffer, FewMessages, IInv, OrderInv, ConnMgr
    PROVE  OrderInv'
<1>1. UNCHANGED <<dataFile, storPc>>
  BY DEF ConnMgr, outVars
<1>2. CASE ~ Receive /\ ~ SaveReading
  <2>1. UNCHANGED <<msg, sent, stream, head, mutex, mainPc>>
    BY <1>2 DEF ConnMgr, sharedVars, connVars, netVars, Setup, SelectAccept, LogOpened,
         SelectData, SelectTimeout, LogClosed, PostReading, ScanEnds, CloseAll
  <2>2. Copied' = Copied
    BY <1>1, <2>1 DEF Copied
  <2>3. QED
    BY <1>1, <2>1, <2>2, IdleStep
<1>3. QED
  BY <1>1, <1>2, ReceiveOrder, SaveOrder

-----------------------------------------------------------------------------
(* data_mgr. *)

\* While data_mgr has the mutex, or nobody, nothing is half moved.
LEMMA NotHalfMoved ==
    ASSUME IInv, mutex # "stor_mgr"
    PROVE  ~ Copied
BY DEF IInv, MutexInv, Copied

\* The group data_mgr is about to mark starts with the sensor's first reading.
LEMMA WalkAtFirst ==
    ASSUME IInv, dataPc = "log"
    PROVE  /\ temp \in DOMAIN head
           /\ \A i \in DOMAIN head : head[i].id = head[temp].id => temp <= i
<1>1. /\ Ordered(head) /\ temp <= Len(head) /\ temp \in Nat \ {0} /\ head \in Seq(Reading)
      /\ 1 < temp => head[temp - 1].id # head[temp].id
  BY Types DEF IInv, TypeOK, ThreadTypes, WalkIsStable
<1>2. temp \in DOMAIN head /\ DOMAIN head = 1..Len(head)
  BY <1>1
<1>3. ASSUME NEW i \in DOMAIN head, head[i].id = head[temp].id, ~ (temp <= i)
      PROVE  FALSE
  <2>1. i \in Nat /\ 1 <= i /\ i < temp
    BY <1>1, <1>2, <1>3
  <2>2. temp - 1 \in DOMAIN head /\ temp - 1 < temp /\ 1 < temp
    BY <1>1, <1>2, <2>1
  <2>3. InOrder(head[temp - 1], head[temp])
    BY <1>1, <1>2, <2>2 DEF Ordered
  <2>4. CASE i = temp - 1
    BY <1>1, <1>3, <2>2, <2>4
  <2>5. CASE i # temp - 1
    <3>1. i < temp - 1
      BY <1>1, <2>1, <2>5
    <3>2. InOrder(head[i], head[temp - 1])
      BY <1>1, <2>2, <3>1 DEF Ordered
    <3>3. /\ head[i].id <= head[temp - 1].id
          /\ head[temp - 1].id <= head[temp].id
      <4>1. head[i] \in Reading /\ head[temp - 1] \in Reading /\ head[temp] \in Reading
        BY <1>1, <1>2, <2>2
      <4>2. QED
        BY <2>3, <3>2, <4>1 DEF InOrder, Reading
    <3>4. head[temp - 1].id = head[temp].id
      <4>1. head[i] \in Reading /\ head[temp - 1] \in Reading /\ head[temp] \in Reading
        BY <1>1, <1>2, <2>2
      <4>2. head[i].id \in Nat /\ head[temp - 1].id \in Nat /\ head[temp].id \in Nat
        BY <4>1 DEF Reading
      <4>3. QED
        BY <1>3, <3>3, <4>2
    <3>5. QED
      BY <1>1, <2>2, <3>4
  <2>6. QED
    BY <2>4, <2>5
<1>4. QED
  BY <1>2, <1>3

LEMMA DataMgrOrder ==
    ASSUME IInv, OrderInv, DataMgr
    PROVE  OrderInv'
<1>1. UNCHANGED <<msg, sent, stream, dataFile, mainPc, storPc>>
  BY DEF DataMgr, connVars, netVars
<1>2. CASE DataSort
  <2>1. head' \in Sorted(head) /\ ~ Copied
    BY <1>2, NotHalfMoved DEF DataSort
  <2>2. \A n \in DOMAIN head' : \E i \in DOMAIN head : head'[n] = head[i]
    BY <2>1, SortedMember, Types
  <2>3. Tidy(head')
    BY <2>1, SortTidy, Types DEF OrderInv
  <2>4. FileOlder'
    BY <1>1, <2>1, <2>2 DEF OrderInv, FileOlder
  <2>5. QED
    BY <1>1, <2>2, <2>3, <2>4, ListStep
<1>3. CASE LogAverage
  <2>1. head' = Mark(head, temp) /\ dataPc = "log" /\ ~ Copied /\ Ordered(head)
    BY <1>3, NotHalfMoved DEF LogAverage, IInv, MutexInv, WalkIsStable
  <2>2. temp \in DOMAIN head /\ \A i \in DOMAIN head : head[i].id = head[temp].id => temp <= i
    BY <2>1, WalkAtFirst
  <2>3. /\ DOMAIN head' = DOMAIN head
        /\ \A i \in DOMAIN head : head'[i].id = head[i].id /\ head'[i].time = head[i].time
    BY <2>1, <2>2, MarkKeeps, Types
  <2>4. Tidy(head')
    BY <2>1, <2>2, MarkTidy, Types DEF OrderInv
  <2>5. FileOlder'
    BY <1>1, <2>1, <2>3 DEF OrderInv, FileOlder, Before
  <2>6. QED
    BY <1>1, <2>3, <2>4, <2>5, ListStep
<1>4. CASE ~ DataSort /\ ~ LogAverage
  <2>1. UNCHANGED head /\ (mutex' = mutex \/ mutex # "stor_mgr")
    BY <1>4 DEF DataMgr, sharedVars, DataLoop, DataWait, AverageGroup, DataUnlock, DataPost,
                DataCancelled, IInv, MutexInv
  <2>2. Copied' \/ ~ Copied
    BY <1>1, <2>1, NotHalfMoved DEF Copied
  <2>3. QED
    BY <1>1, <2>1, <2>2, IdleStep
<1>5. QED
  BY <1>2, <1>3, <1>4

-----------------------------------------------------------------------------
(* stor_mgr. *)

\* What Copy appends: the marked readings, in their order.
LEMMA MarkedPicked ==
    ASSUME NEW list \in Seq(Reading), NEW I, I = {i \in DOMAIN list : list[i].del}
    PROVE  /\ I \in SUBSET Nat /\ IsFiniteSet(I) /\ Cardinality(I) \in Nat
           /\ Marked(list) \in Seq(Reading) /\ Len(Marked(list)) = Cardinality(I)
           /\ \E f : PickedBy(list, I, f)
           /\ Marked(list) = Pick(list, I)
<1>1. I \in SUBSET Nat /\ IsFiniteSet(I) /\ I \in SUBSET DOMAIN list
  <2>1. IsFiniteSet(DOMAIN list) /\ I \subseteq DOMAIN list
    BY FS_Interval
  <2>2. QED
    BY <2>1, FS_Subset
<1>2. Marked(list) = Pick(list, I)
  BY DEF Marked
<1>3. Cardinality(I) \in Nat /\ Pick(list, I) \in Seq(Reading) /\ Len(Pick(list, I)) = Cardinality(I)
  BY <1>1, FS_CardinalityType, PickType
<1>4. \E f : PickedBy(list, I, f)
  BY <1>1, PickPositions
<1>5. QED
  BY <1>1, <1>2, <1>3, <1>4

\* The file after a copy, whole or in part: what was there, then the marked
\* readings, the first k of them.
LEMMA CopyOrder ==
    ASSUME IInv, OrderInv, storPc = "copy", mainPc # "exited",
           storPc' \in {"remove", "cancelled"} \/ mainPc' = "exited",
           NEW k \in 0..Len(Marked(head)),
           dataFile' = dataFile \o SubSeq(Marked(head), 1, k),
           UNCHANGED <<head, mutex, msg, sent, stream>>
    PROVE  OrderInv'
<1>0. Copied' /\ ~ Copied
  BY DEF IInv, MutexInv, Copied
<1>1. PICK I : I = {i \in DOMAIN head : head[i].del}
  OBVIOUS
<1>2. /\ Marked(head) \in Seq(Reading) /\ Len(Marked(head)) = Cardinality(I)
      /\ Cardinality(I) \in Nat /\ I \in SUBSET Nat
  BY <1>1, MarkedPicked, Types
<1>a. PICK f : PickedBy(head, I, f)
  BY <1>1, MarkedPicked, Types
<1>b. PICK s : s = SubSeq(Marked(head), 1, k)
  OBVIOUS
<1>3. /\ k \in Nat /\ s \in Seq(Reading) /\ Len(s) = k
      /\ \A n \in 1..k : f[n] \in I /\ s[n] = head[f[n]]
      /\ \A m, n \in 1..k : m < n => f[m] < f[n]
  <2>1. Marked(head) = Pick(head, I)
    BY <1>1, MarkedPicked, Types
  <2>2. /\ s \in Seq(Reading) /\ Len(s) = k
        /\ \A n \in 1..k : s[n] = Pick(head, I)[n]
    BY <1>b, <2>1, MarkedPart, Types
  <2>3. k \in Nat /\ \A n \in 1..k : n \in 1..Cardinality(I)
    <3>1. \A l \in Nat : \A m \in 0..l : m \in Nat /\ \A n \in 1..m : n \in 1..l
      OBVIOUS
    <3>2. k \in 0..Cardinality(I)
      BY <1>2
    <3>3. QED
      BY <1>2, <3>1, <3>2
  <2>4. QED
    BY <1>a, <2>2, <2>3 DEF PickedBy
<1> DEFINE L == Len(dataFile)
<1>4. /\ L \in Nat /\ DOMAIN dataFile = 1..L /\ DOMAIN dataFile' = 1..(L + k)
      /\ \A n \in 1..L : dataFile'[n] = dataFile[n]
      /\ \A n \in 1..k : dataFile'[L + n] = head[f[n]]
  <2>1. dataFile \in Seq(Reading) /\ dataFile' = dataFile \o s
    BY <1>b, Types
  <2>2. /\ dataFile' \in Seq(Reading) /\ Len(dataFile') = L + k
        /\ \A i \in 1..(L + k) : dataFile'[i] = IF i <= L THEN dataFile[i] ELSE s[i - L]
    BY <1>3, <2>1, ConcatProperties
  <2>3. L \in Nat /\ DOMAIN dataFile = 1..L /\ DOMAIN dataFile' = 1..(L + k)
    BY <2>1, <2>2
  <2> HIDE DEF L
  <2>4. ASSUME NEW n \in 1..L PROVE dataFile'[n] = dataFile[n]
    BY <1>3, <2>2, <2>3
  <2>5. ASSUME NEW n \in 1..k PROVE dataFile'[L + n] = s[n]
    <3>1. L + n \in 1..(L + k) /\ ~ (L + n <= L) /\ (L + n) - L = n
      BY <1>3, <2>3
    <3>2. dataFile'[L + n] = s[(L + n) - L]
      BY <2>2, <3>1
    <3>3. QED
      BY <3>1, <3>2
  <2>6. QED
    BY <1>3, <2>3, <2>4, <2>5
<1> HIDE DEF L
\* An entry of the file is an old one or a marked reading.
<1>5. ASSUME NEW n \in DOMAIN dataFile', n \notin 1..L
      PROVE  /\ n - L \in 1..k
             /\ f[n - L] \in DOMAIN head /\ head[f[n - L]].del
             /\ dataFile'[n] = head[f[n - L]]
  <2>1. n - L \in 1..k /\ n = L + (n - L)
    BY <1>3, <1>4, <1>5
  <2>2. f[n - L] \in I
    BY <1>3, <2>1
  <2>3. QED
    BY <1>1, <1>4, <2>1, <2>2
<1>6. FileCame'
  <2>1. ASSUME NEW n \in DOMAIN dataFile' PROVE CameEarlier(dataFile'[n])
    <3>1. CASE n \in 1..L
      BY <1>4, <3>1 DEF OrderInv, FileCame
    <3>2. CASE n \notin 1..L
      BY <1>5, <3>2 DEF OrderInv, HeadCame
    <3>3. QED
      BY <3>1, <3>2
  <2>2. QED
    BY <2>1 DEF FileCame, CameEarlier
<1>7. MsgIsNew'
  <2>1. ASSUME msg # <<>>, NEW n \in DOMAIN dataFile' PROVE Before(dataFile'[n], msg[1])
    <3>1. CASE n \in 1..L
      BY <1>4, <2>1, <3>1 DEF OrderInv, MsgIsNew
    <3>2. CASE n \notin 1..L
      BY <1>5, <2>1, <3>2 DEF OrderInv, MsgIsNew
    <3>3. QED
      BY <3>1, <3>2
  <2>2. QED
    BY <2>1 DEF OrderInv, MsgIsNew, CameEarlier
<1>8. FileOlder'
  <2>1. ASSUME NEW n \in DOMAIN dataFile', NEW j \in DOMAIN head, ~ head[j].del
        PROVE  Before(dataFile'[n], head[j])
    <3>1. CASE n \in 1..L
      BY <1>4, <2>1, <3>1 DEF OrderInv, FileOlder
    <3>2. CASE n \notin 1..L
      BY <1>5, <2>1, <3>2 DEF OrderInv, Tidy
    <3>3. QED
      BY <3>1, <3>2
  <2>2. QED
    BY <1>0, <2>1 DEF FileOlder
<1>9. FileInOrder'
  <2>1. ASSUME NEW m \in DOMAIN dataFile', NEW n \in DOMAIN dataFile', m < n
        PROVE  Before(dataFile'[m], dataFile'[n])
    <3>1. CASE n \in 1..L
      <4>1. m \in 1..L
        BY <1>4, <2>1, <3>1
      <4>2. QED
        BY <1>4, <2>1, <3>1, <4>1 DEF OrderInv, FileInOrder
    <3>2. CASE n \notin 1..L /\ m \in 1..L
      BY <1>0, <1>4, <1>5, <3>2 DEF OrderInv, FileOlder
    <3>3. CASE n \notin 1..L /\ m \notin 1..L
      <4>1. m - L \in 1..k /\ n - L \in 1..k /\ m - L < n - L
        BY <1>3, <1>4, <1>5, <2>1, <3>3
      <4>2. f[m - L] < f[n - L]
        BY <1>3, <4>1
      <4>3. QED
        BY <1>5, <3>3, <4>2 DEF OrderInv, Tidy
    <3>4. QED
      BY <3>1, <3>2, <3>3
  <2>2. QED
    BY <2>1 DEF FileInOrder
<1>10. NetInv' /\ HeadCame' /\ Tidy(head)'
  BY DEF OrderInv, NetInv, HeadCame, CameEarlier
<1>11. QED
  BY <1>6, <1>7, <1>8, <1>9, <1>10 DEF OrderInv

LEMMA StorMgrOrder ==
    ASSUME IInv, OrderInv, mainPc # "exited", StorMgr
    PROVE  OrderInv'
<1>1. UNCHANGED <<mainPc, msg, sent, stream>>
  BY DEF StorMgr, connVars, netVars
<1>2. CASE RemoveMarked
  <2>1. head' = Unmarked(head) /\ UNCHANGED dataFile /\ storPc' = "loop"
    BY <1>2 DEF RemoveMarked
  <2>2. \A n \in DOMAIN head' : \E i \in DOMAIN head : ~ head[i].del /\ head'[n] = head[i]
    BY <2>1, MarkedMember, Types
  <2>3. Tidy(head')
    BY <2>1, UnmarkedTidy, Types DEF OrderInv
  <2>4. FileOlder'
    BY <2>1, <2>2 DEF OrderInv, FileOlder
  <2>5. QED
    BY <1>1, <2>1, <2>2, <2>3, <2>4, ListStep
<1>3. CASE Copy \/ (StorCancelled /\ storPc = "copy" /\ dataFile' = dataFile \o Marked(head))
  <2>1. /\ storPc = "copy" /\ storPc' \in {"remove", "cancelled"}
        /\ dataFile' = dataFile \o Marked(head) /\ UNCHANGED <<head, mutex>>
    BY <1>3 DEF Copy, StorCancelled, sharedVars
  <2>2. PICK k \in 0..Len(Marked(head)) : k = Len(Marked(head))
    <3>1. \A l \in Nat : l \in 0..l
      OBVIOUS
    <3>2. Len(Marked(head)) \in Nat
      BY PickType, Types, LenProperties DEF Marked
    <3>3. QED
      BY <3>1, <3>2
  <2>3. SubSeq(Marked(head), 1, k) = Marked(head)
    BY <2>2, MarkedPart, Types
  <2>4. QED
    BY <1>1, <2>1, <2>3, CopyOrder
<1>4. CASE /\ ~ RemoveMarked /\ ~ Copy
           /\ ~ (StorCancelled /\ storPc = "copy" /\ dataFile' = dataFile \o Marked(head))
  <2>1. UNCHANGED <<head, dataFile>> /\ ~ Copied
    BY <1>4 DEF StorMgr, sharedVars, StorLoop, StorWait, StorLock, CopyFails, StorCancelled, Copied
  <2>2. QED
    BY <1>1, <2>1, IdleStep
<1>5. QED
  BY <1>2, <1>3, <1>4

-----------------------------------------------------------------------------
(* The whole gateway. *)

LEMMA HandleErrorOrder ==
    ASSUME IInv, OrderInv, mainPc # "exited", HandleError
    PROVE  OrderInv'
<1>1. UNCHANGED <<head, mutex, storPc, msg, sent, stream>> /\ mainPc' = "exited"
  BY DEF HandleError, sharedVars, connVars, netVars
<1>2. CASE storPc = "copy"
  <2>1. PICK k \in 0..Len(Marked(head)) : dataFile' = dataFile \o SubSeq(Marked(head), 1, k)
    BY <1>2 DEF HandleError
  <2>2. QED
    BY <1>1, <1>2, <2>1, CopyOrder
<1>3. CASE storPc # "copy"
  <2>1. UNCHANGED dataFile /\ (Copied' \/ ~ Copied)
    BY <1>1, <1>3 DEF HandleError, Copied
  <2>2. QED
    BY <1>1, <2>1, IdleStep
<1>4. QED
  BY <1>2, <1>3

LEMMA OrderInvKept ==
    ASSUME NodesDiffer, FewMessages, IInv, OrderInv, [Next]_vars
    PROVE  OrderInv'
<1>1. CASE mainPc # "exited" /\ (ConnMgr \/ DataMgr \/ StorMgr \/ HandleError)
  BY <1>1, ConnMgrOrder, DataMgrOrder, StorMgrOrder, HandleErrorOrder
<1>2. CASE \E c \in Client : SensorNode(c)
  BY <1>2, SensorNodeOrder
<1>3. CASE (mainPc # "exited" /\ MainThread) \/ LogProcessEnds \/ UNCHANGED vars
  <2>1. UNCHANGED <<msg, sent, stream, dataFile, head, mutex, storPc>>
    BY <1>3 DEF MainThread, LogProcessEnds, vars, sharedVars, connVars, netVars, outVars
  <2>2. Copied' \/ ~ Copied
    BY <1>3, <2>1 DEF Copied, MainThread, LogProcessEnds, vars
  <2>3. QED
    BY <2>1, <2>2, IdleStep
<1>4. QED
  BY <1>1, <1>2, <1>3 DEF Next

LEMMA InitOrder == Init => OrderInv
<1> SUFFICES ASSUME Init PROVE OrderInv
  OBVIOUS
<1>1. NetInv
  BY GatewayAssumption DEF Init, NetInv
<1>2. HeadCame /\ FileCame /\ MsgIsNew /\ Tidy(head) /\ FileOlder /\ FileInOrder
  BY DEF Init, HeadCame, FileCame, MsgIsNew, Tidy, FileOlder, FileInOrder
<1>3. QED
  BY <1>1, <1>2 DEF OrderInv

\* The readings of each sensor reach the data file oldest first, through every
\* interleaving of the threads and every cancellation, for any number of nodes
\* whose IDs differ, with at most ten messages each, and any window.
THEOREM StoredOldestFirst ==
    ASSUME NodesDiffer, FewMessages
    PROVE  Spec => []StoredInTimeOrder
<1>1. IInv /\ OrderInv /\ [Next]_vars => OrderInv'
  BY OrderInvKept
<1>2. OrderInv => StoredInTimeOrder
  BY DEF OrderInv, FileInOrder, Before, StoredInTimeOrder, Genuine
<1>3. QED
  BY <1>1, <1>2, InitOrder, Invariance, PTL DEF Spec

-----------------------------------------------------------------------------
(* The gateway is a ReadingStore. *)

MarkedKeys(list) == {Key(list[i]) : i \in {j \in DOMAIN list : list[j].del}}

\* What is about to be removed is in the file.
MovedInv == storPc = "remove" => MarkedKeys(head) \subseteq Keys(dataFile)

LEMMA MovedInvKept ==
    ASSUME AlwaysOpens, IInv, MovedInv, [Next]_vars
    PROVE  MovedInv'
<1>0. head \in Seq(Reading) /\ dataFile \in Seq(Reading) /\ (storPc \in {"copy", "remove"} => mutex = "stor_mgr")
  BY Types DEF IInv, MutexInv
<1>1. CASE ConnMgr
  <2>1. UNCHANGED <<storPc, dataFile>>
    BY <1>1 DEF ConnMgr, outVars
  <2>2. CASE SaveReading
    BY <1>0, <2>1, <2>2 DEF SaveReading, MovedInv
  <2>3. CASE ~ SaveReading
    <3>1. UNCHANGED head
      BY <1>1, <2>3 DEF ConnMgr, sharedVars, Setup, SelectAccept, LogOpened,
           SelectData, SelectTimeout, Receive, LogClosed, PostReading, ScanEnds, CloseAll
    <3>2. QED
      BY <2>1, <3>1 DEF MovedInv
  <2>4. QED
    BY <2>2, <2>3
<1>2. CASE DataMgr
  <2>1. UNCHANGED <<storPc, dataFile>>
    BY <1>2 DEF DataMgr
  <2>2. storPc = "remove" => UNCHANGED head
    BY <1>0, <1>2 DEF DataMgr, sharedVars, DataLoop, DataWait, DataSort, AverageGroup, LogAverage,
         DataUnlock, DataPost, DataCancelled, IInv, MutexInv
  <2>3. QED
    BY <2>1, <2>2 DEF MovedInv
<1>3. CASE StorMgr
  <2>1. CASE Copy
    <3>1. dataFile' = dataFile \o Marked(head) /\ UNCHANGED head
      BY <2>1 DEF Copy, sharedVars
    <3>2. PICK I : I = {i \in DOMAIN head : head[i].del}
      OBVIOUS
    <3>3. /\ Marked(head) \in Seq(Reading) /\ Len(Marked(head)) = Cardinality(I)
          /\ Cardinality(I) \in Nat
      BY <1>0, <3>2, MarkedPicked
    <3>4. PICK f : PickedBy(head, I, f)
      BY <1>0, <3>2, MarkedPicked
    <3>5. \A i \in I : \E n \in 1..Cardinality(I) : Marked(head)[n] = head[i]
      <4>1. Marked(head) = Pick(head, I)
        BY <1>0, <3>2, MarkedPicked
      <4>2. \A n \in 1..Cardinality(I) : Marked(head)[n] = head[f[n]]
        BY <3>4, <4>1 DEF PickedBy
      <4>3. \A i \in I : \E n \in 1..Cardinality(I) : f[n] = i
        BY <3>4 DEF PickedBy
      <4>4. QED
        BY <4>2, <4>3
    <3>6. \A n \in 1..Cardinality(I) :
            Len(dataFile) + n \in DOMAIN dataFile' /\ dataFile'[Len(dataFile) + n] = Marked(head)[n]
      BY <1>0, <3>1, <3>3, ConcatProperties
    <3>7. \A i \in I : \E n \in DOMAIN dataFile' : dataFile'[n] = head[i]
      BY <3>5, <3>6
    <3>8. QED
      BY <3>1, <3>2, <3>7 DEF MovedInv, MarkedKeys, Keys
  <2>2. CASE ~ Copy
    <3>1. storPc' # "remove"
      BY <1>3, <2>2 DEF StorMgr, StorLoop, StorWait, StorLock, CopyFails, RemoveMarked, StorCancelled,
                        AlwaysOpens
    <3>2. QED
      BY <3>1 DEF MovedInv
  <2>3. QED
    BY <2>1, <2>2
<1>4. CASE MainThread \/ LogProcessEnds \/ (\E c \in Client : SensorNode(c)) \/ UNCHANGED vars
  <2>1. UNCHANGED <<head, dataFile, storPc>>
    BY <1>4 DEF MainThread, LogProcessEnds, SensorNode, vars, sharedVars, outVars
  <2>2. QED
    BY <2>1 DEF MovedInv
<1>5. CASE HandleError
  BY <1>5 DEF HandleError, MovedInv, sharedVars
<1>6. QED
  BY <1>1, <1>2, <1>3, <1>4, <1>5 DEF Next

\* Readings that differ have as many keys as there are readings.
LEMMA KeyCount ==
    ASSUME NEW list \in Seq(Reading), Tidy(list), NEW I \in SUBSET DOMAIN list
    PROVE  /\ IsFiniteSet({Key(list[i]) : i \in I})
           /\ Cardinality({Key(list[i]) : i \in I}) = Cardinality(I)
<1> DEFINE T == {Key(list[i]) : i \in I}
           f == [i \in I |-> Key(list[i])]
<1>1. IsFiniteSet(I)
  <2>1. IsFiniteSet(DOMAIN list)
    BY FS_Interval
  <2>2. QED
    BY <2>1, FS_Subset
<1>2. f \in [I -> T] /\ \A y \in T : \E i \in I : f[i] = y
  OBVIOUS
<1>3. \A i, j \in I : i # j => Key(list[i]) # Key(list[j])
  BY DEF Tidy, Key
<1>4. \A i, j \in I : f[i] = f[j] => i = j
  BY <1>3
<1> HIDE DEF f, T
<1>5. f \in Surjection(I, T)
  BY <1>2 DEF Surjection
<1>6. f \in Injection(I, T)
  BY <1>2, <1>4 DEF Injection, IsInjective
<1>7. IsFiniteSet(T) /\ Cardinality(T) = Cardinality(I)
  BY <1>1, <1>5, <1>6, FS_Surjection
<1>8. QED
  BY <1>7 DEF T

\* A reading in the list and in the file is one that stor_mgr is moving.
LEMMA Apart ==
    ASSUME OrderInv, NEW j \in DOMAIN head, ~ head[j].del \/ ~ Copied
    PROVE  Key(head[j]) \notin Keys(dataFile)
BY DEF OrderInv, FileOlder, Before, Key, Keys

-----------------------------------------------------------------------------
(* Each step is a step of ReadingStore or none. *)

Running == mainPc # "exited"

\* Steps that keep the keys, and those of marked readings.
LEMMA KeysStutter ==
    ASSUME UNCHANGED dataFile, Keys(head') = Keys(head), MarkedKeys(head') = MarkedKeys(head),
           Running' = Running
    PROVE  UNCHANGED Store!vars
BY DEF Store!vars, MarkedKeys, Keys, Running

LEMMA SaveKeeps ==
    ASSUME IInv, Running, SaveReading, UNCHANGED dataFile
    PROVE  Store!Keep
<1>1. /\ head \in Seq(Reading) /\ head' = Save(head, msg[1].id, msg[1].time)
  BY Types DEF SaveReading
<1>2. /\ DOMAIN head' = 1..(Len(head) + 1) /\ Len(head) \in Nat
      /\ ~ head'[1].del
      /\ \A n \in DOMAIN head' : n # 1 => n - 1 \in DOMAIN head /\ head'[n] = head[n - 1]
      /\ \A i \in DOMAIN head : i + 1 \in DOMAIN head' /\ i + 1 # 1 /\ head'[i + 1] = head[i]
  BY <1>1 DEF Save
<1>3. Keys(head) \subseteq Keys(head')
  BY <1>2 DEF Keys
<1>4. MarkedKeys(head') = MarkedKeys(head)
  BY <1>2 DEF MarkedKeys
<1>5. mainPc # "exited" /\ mainPc' = mainPc
  BY DEF SaveReading, Running
<1>6. QED
  BY <1>3, <1>4, <1>5 DEF Store!Keep, Store!Range, MarkedKeys, Keys

LEMMA SortStutters ==
    ASSUME IInv, DataSort, UNCHANGED <<dataFile, mainPc>>
    PROVE  UNCHANGED Store!vars
<1>1. head \in Seq(Reading) /\ head' \in Sorted(head)
  BY Types DEF DataSort
<1>2. PICK p \in Bijection(DOMAIN head, DOMAIN head) : head' = [i \in DOMAIN head |-> head[p[i]]]
  BY <1>1 DEF Sorted
<1>3. /\ p \in [DOMAIN head -> DOMAIN head]
      /\ \A j \in DOMAIN head : \E i \in DOMAIN head : p[i] = j
  BY DEF Bijection, Injection, Surjection
<1>4. /\ DOMAIN head' = DOMAIN head
      /\ \A i \in DOMAIN head' : \E j \in DOMAIN head : head'[i] = head[j]
      /\ \A j \in DOMAIN head : \E i \in DOMAIN head' : head'[i] = head[j]
  BY <1>2, <1>3
<1>5. Keys(head') = Keys(head) /\ MarkedKeys(head') = MarkedKeys(head)
  BY <1>4 DEF Keys, MarkedKeys
<1>6. Running' = Running
  BY DEF Running
<1>7. QED
  BY <1>5, <1>6, KeysStutter

LEMMA MarkIsDue ==
    ASSUME IInv, OrderInv, Running, LogAverage, UNCHANGED <<dataFile, mainPc>>
    PROVE  \E r \in Keys(head) \ Keys(dataFile) : Store!MarkDue(r)
<1>1. /\ head \in Seq(Reading) /\ head' = Mark(head, temp) /\ dataPc = "log"
      /\ ~ Copied /\ Ordered(head) /\ HasWindow(head, temp) /\ Tidy(head)
  BY NotHalfMoved, Types DEF LogAverage, IInv, MutexInv, WalkIsStable, OrderInv
<1>2. temp \in DOMAIN head /\ \A i \in DOMAIN head : head[i].id = head[temp].id => temp <= i
  BY <1>1, WalkAtFirst
<1>3. /\ DOMAIN head' = DOMAIN head /\ head'[temp].del
      /\ \A i \in DOMAIN head : Key(head'[i]) = Key(head[i]) /\ (i # temp => head'[i] = head[i])
  <2>1. /\ DOMAIN head' = DOMAIN head
        /\ \A i \in DOMAIN head : head'[i].id = head[i].id /\ head'[i].time = head[i].time
    BY <1>1, <1>2, MarkKeeps
  <2>2. head'[temp] = [head[temp] EXCEPT !.del = TRUE] /\ head[temp] \in Reading
    BY <1>1, <1>2 DEF Mark
  <2>3. head'[temp].del
    BY <2>2 DEF Reading
  <2>4. \A i \in DOMAIN head : i # temp => head'[i] = head[i]
    BY <1>1 DEF Mark
  <2>5. QED
    BY <2>1, <2>3, <2>4 DEF Key
<1>r. PICK r : r = Key(head[temp])
  OBVIOUS
<1>4. \A i \in DOMAIN head : Key(head[i]) \notin Keys(dataFile)
  BY <1>1, Apart
<1>5. Keys(head') = Keys(head) /\ MarkedKeys(head') = MarkedKeys(head) \cup {r}
  <2>1. Keys(head') = Keys(head)
    BY <1>3 DEF Keys
  <2>2. ASSUME NEW k \in MarkedKeys(head') PROVE k \in MarkedKeys(head) \cup {r}
    <3>1. PICK i \in DOMAIN head : head'[i].del /\ k = Key(head'[i])
      BY <1>3, <2>2 DEF MarkedKeys
    <3>2. QED
      BY <1>3, <1>r, <3>1 DEF MarkedKeys
  <2>3. ASSUME NEW k \in MarkedKeys(head) PROVE k \in MarkedKeys(head')
    <3>1. PICK i \in DOMAIN head : head[i].del /\ k = Key(head[i])
      BY <2>3 DEF MarkedKeys
    <3>2. head'[i].del /\ k = Key(head'[i])
      BY <1>3, <3>1
    <3>3. QED
      BY <1>3, <3>2 DEF MarkedKeys
  <2>4. r \in MarkedKeys(head')
    BY <1>2, <1>3, <1>r DEF MarkedKeys
  <2>5. QED
    BY <2>1, <2>2, <2>3, <2>4
<1>6. r \in Keys(head) /\ r \notin Keys(dataFile) /\ r[1] = head[temp].id /\ r[2] = head[temp].time
  BY <1>2, <1>4, <1>r DEF Keys, Key
<1> DEFINE mine == {s \in Keys(head) \ Keys(dataFile) : s[1] = r[1]}
<1>7. \A s \in mine : r[2] <= s[2]
  <2>1. ASSUME NEW i \in DOMAIN head, head[i].id = head[temp].id
        PROVE  head[temp].time <= head[i].time
    <3>1. temp <= i /\ head[i] \in Reading /\ head[temp] \in Reading
      BY <1>1, <1>2, <2>1
    <3>2. CASE temp = i
      BY <3>1, <3>2 DEF Reading
    <3>3. CASE temp # i
      <4>1. temp < i
        BY <1>1, <1>2, <3>1, <3>3
      <4>2. InOrder(head[temp], head[i])
        BY <1>1, <1>2, <4>1 DEF Ordered
      <4>3. QED
        BY <2>1, <3>1, <4>2 DEF InOrder, Reading
    <3>4. QED
      BY <3>2, <3>3
  <2>2. ASSUME NEW s \in mine PROVE r[2] <= s[2]
    <3>1. PICK i \in DOMAIN head : s = Key(head[i])
      BY DEF Keys
    <3>2. head[i].id = head[temp].id /\ s[2] = head[i].time
      BY <1>6, <3>1 DEF Key
    <3>3. QED
      BY <1>6, <2>1, <3>2
  <2>3. QED
    BY <2>2
<1>8. Cardinality(mine) >= Window
  <2> DEFINE G == Group(head, temp)
             KG == {Key(head[i]) : i \in G}
             All == {Key(head[i]) : i \in DOMAIN head}
  <2>1. G \subseteq DOMAIN head /\ \A i \in G : head[i].id = head[temp].id
    <3>1. /\ G = temp..(NextGroup(head, temp) - 1)
          /\ NextGroup(head, temp) \in (temp + 1)..(Len(head) + 1)
          /\ \A j \in temp..(NextGroup(head, temp) - 1) : head[j].id = head[temp].id
      BY <1>1, <1>2, GroupEnd
    <3>2. temp \in 1..Len(head) /\ Len(head) \in Nat
      BY <1>1, <1>2
    <3>3. QED
      BY <1>1, <3>1, <3>2
  <2>2. Cardinality(G) >= Window /\ Cardinality(G) \in Nat
    BY <1>1, <1>2, GroupEnd DEF HasWindow
  <2> HIDE DEF G
  <2>3. IsFiniteSet(KG) /\ Cardinality(KG) = Cardinality(G) /\ IsFiniteSet(All)
    BY <1>1, <2>1, KeyCount
  <2>4. KG \subseteq mine
    BY <1>4, <1>6, <2>1 DEF Keys, Key
  <2>5. IsFiniteSet(mine)
    <3>1. mine \subseteq All
      BY DEF Keys
    <3>2. QED
      BY <2>3, <3>1, FS_Subset
  <2>6. Cardinality(KG) <= Cardinality(mine) /\ Cardinality(mine) \in Nat
    BY <2>4, <2>5, FS_Subset, FS_CardinalityType
  <2>7. QED
    BY <2>2, <2>3, <2>6, WindowAssumption
<1>9. Store!MarkDue(r)
  <2>1. Store!OfSensor(r[1]) = mine
    BY DEF Store!OfSensor
  <2>2. /\ Cardinality(Store!OfSensor(r[1])) >= Window
        /\ \A s \in Store!OfSensor(r[1]) : r[2] <= s[2]
    BY <1>7, <1>8, <2>1
  <2>c. Store!Cardinality(Store!OfSensor(r[1])) = Cardinality(Store!OfSensor(r[1]))
    BY Zenon DEF Store!Cardinality, Cardinality
  <2> HIDE DEF mine
  <2>3. dataFile' = dataFile /\ Keys(dataFile') = Keys(dataFile)
    BY DEF Keys
  <2>4. MarkedKeys(head') \ Keys(dataFile') = (MarkedKeys(head) \ Keys(dataFile)) \cup {r}
    BY <1>5, <1>6, <2>3
  <2>5. Keys(head') \ Keys(dataFile') = Keys(head) \ Keys(dataFile)
    BY <1>5, <2>3
  <2>6. /\ ({Key(head[i]) : i \in {j \in DOMAIN head : head[j].del}} \ Keys(dataFile))'
             = ({Key(head[i]) : i \in {j \in DOMAIN head : head[j].del}} \ Keys(dataFile)) \cup {r}
        /\ (Keys(head) \ Keys(dataFile))' = Keys(head) \ Keys(dataFile)
        /\ [i \in DOMAIN dataFile |-> Key(dataFile[i])]' = [i \in DOMAIN dataFile |-> Key(dataFile[i])]
    <3>1. (Keys(head) \ Keys(dataFile))' = Keys(head') \ Keys(dataFile')
      BY DEF Keys
    <3>2. ({Key(head[i]) : i \in {j \in DOMAIN head : head[j].del}} \ Keys(dataFile))'
            = MarkedKeys(head') \ Keys(dataFile')
      BY DEF MarkedKeys, Keys
    <3>3. {Key(head[i]) : i \in {j \in DOMAIN head : head[j].del}} = MarkedKeys(head)
      BY DEF MarkedKeys
    <3>4. QED
      BY <2>3, <2>4, <2>5, <3>1, <3>2, <3>3
  <2>7. QED
    BY <2>2, <2>c, <2>6 DEF Store!MarkDue, Running
<1>10. QED
  BY <1>6, <1>9

\* The file as ReadingStore has it.
KeyList(list) == [i \in DOMAIN list |-> Key(list[i])]

\* The keys in the file new are those in the file and behind them those in K.
KeysAppended(new, file, K) ==
    /\ Keys(new) = Keys(file) \cup K
    /\ Len(KeyList(new)) = Len(KeyList(file)) + Cardinality(K)
    /\ SubSeq(KeyList(new), 1, Len(KeyList(file))) = KeyList(file)
    /\ {KeyList(new)[i] : i \in (Len(KeyList(file)) + 1)..Len(KeyList(new))} = K

\* What a copy of the first N marked readings does to the keys in the file.
LEMMA AppendKeys ==
    ASSUME NEW list \in Seq(Reading), Tidy(list), NEW file \in Seq(Reading),
           NEW N \in 0..Len(Marked(list)), NEW new,
           new = file \o SubSeq(Marked(list), 1, N)
    PROVE  \E K \in SUBSET MarkedKeys(list) :
             /\ KeysAppended(new, file, K)
             /\ N = Len(Marked(list)) => K = MarkedKeys(list)
<1> DEFINE L == Len(file)
<1>1. PICK I : I = {i \in DOMAIN list : list[i].del}
  OBVIOUS
<1>2. /\ Marked(list) \in Seq(Reading) /\ Len(Marked(list)) = Cardinality(I)
      /\ Cardinality(I) \in Nat /\ I \in SUBSET DOMAIN list
  BY <1>1, MarkedPicked
<1>3. PICK f : PickedBy(list, I, f)
  BY <1>1, MarkedPicked
<1>8. N \in Nat /\ N \in 0..Cardinality(I) /\ \A n \in 1..N : n \in 1..Cardinality(I)
  <2>1. \A l \in Nat : \A m \in 0..l : m \in Nat /\ \A n \in 1..m : n \in 1..l
    OBVIOUS
  <2>2. N \in 0..Cardinality(I)
    BY <1>2
  <2>3. QED
    BY <1>2, <2>1, <2>2
<1>s. PICK s : s = SubSeq(Marked(list), 1, N)
  OBVIOUS
<1>4. /\ s \in Seq(Reading) /\ Len(s) = N
      /\ \A n \in 1..N : f[n] \in I /\ s[n] = list[f[n]]
      /\ \A m, n \in 1..N : m < n => f[m] < f[n]
  <2>1. Marked(list) = Pick(list, I)
    BY <1>1, MarkedPicked
  <2>2. /\ s \in Seq(Reading) /\ Len(s) = N
        /\ \A n \in 1..N : s[n] = Pick(list, I)[n]
    BY <1>s, <2>1, MarkedPart
  <2>3. QED
    BY <1>3, <1>8, <2>2 DEF PickedBy
\* The positions of the readings that are copied.
<1>J. PICK J : J = {f[n] : n \in 1..N}
  OBVIOUS
<1>9. J \in SUBSET DOMAIN list /\ Cardinality(J) = N /\ (N = Len(Marked(list)) => J = I)
  <2>1. J \subseteq I
    BY <1>4, <1>J
  <2>2. Cardinality(J) = N
    <3>1. PICK g : g = [n \in 1..N |-> f[n]]
      OBVIOUS
    <3>2. g \in [1..N -> J] /\ \A j \in J : \E n \in 1..N : g[n] = j
      BY <1>J, <3>1
    <3>3. \A n \in 1..N : f[n] \in Nat
      BY <1>2, <1>4
    <3>4. \A m, n \in 1..N : m # n => m < n \/ n < m
      BY <1>8
    <3>5. \A m, n \in 1..N : g[m] = g[n] => m = n
      BY <1>4, <3>1, <3>3, <3>4
    <3>6. g \in Surjection(1..N, J)
      BY <3>2 DEF Surjection
    <3>7. g \in Injection(1..N, J)
      BY <3>2, <3>5 DEF Injection, IsInjective
    <3>8. IsFiniteSet(1..N) /\ Cardinality(1..N) = N
      <4>1. \A m \in Nat : m >= 1 \/ m = 0
        OBVIOUS
      <4>2. QED
        BY <1>8, <4>1, FS_Interval
    <3>9. QED
      BY <3>6, <3>7, <3>8, FS_Surjection
  <2>3. N = Len(Marked(list)) => J = I
    <3>1. N = Cardinality(I) => \A i \in I : \E n \in 1..N : f[n] = i
      BY <1>3 DEF PickedBy
    <3>2. N = Cardinality(I) => J = I
      BY <1>J, <2>1, <3>1
    <3>3. QED
      BY <1>2, <3>2
  <2>4. QED
    BY <1>2, <2>1, <2>2, <2>3
<1>K. PICK K : K = {Key(list[i]) : i \in J}
  OBVIOUS
<1>6. /\ K \in SUBSET MarkedKeys(list)
      /\ N = Len(Marked(list)) => K = MarkedKeys(list)
      /\ \A n \in 1..N : s[n] = list[f[n]] /\ Key(list[f[n]]) \in K
      /\ \A k \in K : \E n \in 1..N : k = Key(list[f[n]])
  <2>1. J \subseteq I
    BY <1>4, <1>J
  <2>2. K \in SUBSET MarkedKeys(list)
    BY <1>1, <1>K, <2>1 DEF MarkedKeys
  <2>3. N = Len(Marked(list)) => K = MarkedKeys(list)
    BY <1>1, <1>9, <1>K DEF MarkedKeys
  <2>4. ASSUME NEW n \in 1..N PROVE s[n] = list[f[n]] /\ Key(list[f[n]]) \in K
    <3>1. s[n] = list[f[n]] /\ f[n] \in J
      BY <1>4, <1>J
    <3>2. QED
      BY <1>K, <3>1
  <2>5. ASSUME NEW k \in K PROVE \E n \in 1..N : k = Key(list[f[n]])
    <3>1. PICK j \in J : k = Key(list[j])
      BY <1>K
    <3>2. QED
      BY <1>J, <3>1
  <2>6. QED
    BY <2>2, <2>3, <2>4, <2>5
<1>7. Cardinality(K) = N
  BY <1>9, <1>K, KeyCount
<1>5. /\ L \in Nat /\ DOMAIN file = 1..L /\ DOMAIN new = 1..(L + N)
      /\ new \in Seq(Reading) /\ Len(new) = L + N
      /\ \A n \in 1..L : new[n] = file[n]
      /\ \A n \in 1..N : new[L + n] = list[f[n]]
  <2>1. new = file \o s
    BY <1>s
  <2>2. /\ new \in Seq(Reading) /\ Len(new) = L + N
        /\ \A i \in 1..(L + N) : new[i] = IF i <= L THEN file[i] ELSE s[i - L]
    BY <1>4, <2>1, ConcatProperties
  <2>3. L \in Nat /\ DOMAIN file = 1..L /\ DOMAIN new = 1..(L + N)
    BY <2>1, <2>2
  <2> HIDE DEF L
  <2>4. ASSUME NEW n \in 1..L PROVE new[n] = file[n]
    BY <1>8, <2>2, <2>3
  <2>5. ASSUME NEW n \in 1..N PROVE new[L + n] = s[n]
    <3>1. L + n \in 1..(L + N) /\ ~ (L + n <= L) /\ (L + n) - L = n
      BY <1>8, <2>3
    <3>2. new[L + n] = s[(L + n) - L]
      BY <2>2, <3>1
    <3>3. QED
      BY <3>1, <3>2
  <2>6. QED
    BY <1>4, <2>2, <2>3, <2>4, <2>5
<1> HIDE DEF L
<1>18. \A n \in 1..(L + N) : KeyList(new)[n] = Key(new[n])
  BY <1>5 DEF KeyList
<1>16. /\ KeyList(file) \in Seq(Nat \X Nat) /\ Len(KeyList(file)) = L
      /\ KeyList(new) \in Seq(Nat \X Nat) /\ Len(KeyList(new)) = L + N
      /\ \A n \in 1..L : KeyList(new)[n] = KeyList(file)[n]
  <2>1. \A r \in Reading : Key(r) \in Nat \X Nat
    BY DEF Key, Reading
  <2>2. new \in Seq(Reading)
    BY <1>5
  <2>3. \A q \in Seq(Reading) : KeyList(q) \in Seq(Nat \X Nat) /\ Len(KeyList(q)) = Len(q)
    <3>1. ASSUME NEW q \in Seq(Reading)
          PROVE  KeyList(q) \in Seq(Nat \X Nat) /\ Len(KeyList(q)) = Len(q)
      <4>1. KeyList(q) = [i \in 1..Len(q) |-> Key(q[i])]
        BY DEF KeyList
      <4>2. Len(q) \in Nat /\ \A i \in 1..Len(q) : Key(q[i]) \in Nat \X Nat
        BY <2>1
      <4>3. QED
        BY <4>1, <4>2
    <3>2. QED
      BY <3>1
  <2>4. Len(new) = L + N /\ Len(file) = L
    BY <1>5 DEF L
  <2>6. \A n \in 1..L : KeyList(new)[n] = KeyList(file)[n]
    BY <1>5, <1>8, <1>18 DEF KeyList
  <2>7. QED
    BY <2>2, <2>3, <2>4, <2>6
<1>10. SubSeq(KeyList(new), 1, Len(KeyList(file))) = KeyList(file)
  <2>1. \A p, q \in Seq(Nat \X Nat) :
          Len(p) = L /\ Len(q) = L + N /\ (\A n \in 1..L : q[n] = p[n])
            => SubSeq(q, 1, Len(p)) = p
    <3>1. L \in Nat /\ N \in Nat
      BY <1>5, <1>8
    <3>2. QED
      BY <3>1
  <2>2. PICK p : p = KeyList(file)
    OBVIOUS
  <2>3. PICK q : q = KeyList(new)
    OBVIOUS
  <2>4. /\ p \in Seq(Nat \X Nat) /\ Len(p) = L /\ q \in Seq(Nat \X Nat) /\ Len(q) = L + N
        /\ \A n \in 1..L : q[n] = p[n]
    BY <1>16, <2>2, <2>3
  <2>5. SubSeq(q, 1, Len(p)) = p
    BY <2>1, <2>4
  <2>6. QED
    BY <2>2, <2>3, <2>5
<1>11. \A n \in (L + 1)..(L + N) : n - L \in 1..N /\ n = L + (n - L)
  BY <1>5, <1>8
<1>12. \A n \in 1..N : L + n \in (L + 1)..(L + N) /\ L + n \in 1..(L + N)
  BY <1>5, <1>8
<1>19. ASSUME NEW n \in 1..N
       PROVE  KeyList(new)[L + n] = Key(list[f[n]]) /\ Key(new[L + n]) = Key(list[f[n]])
  <2>1. new[L + n] = list[f[n]]
    BY <1>5
  <2>2. KeyList(new)[L + n] = Key(new[L + n])
    <3> DEFINE m == L + n
    <3>1. m \in 1..(L + N)
      BY <1>12
    <3> HIDE DEF m
    <3>2. KeyList(new)[m] = Key(new[m])
      BY <1>18, <3>1
    <3>3. QED
      BY <3>2 DEF m
  <2>3. QED
    BY <2>1, <2>2
<1>13. {KeyList(new)[i] : i \in (L + 1)..(L + N)} = K
  <2>1. ASSUME NEW n \in (L + 1)..(L + N) PROVE KeyList(new)[n] \in K
    <3>1. PICK k \in 1..N : n = L + k
      BY <1>11
    <3>2. KeyList(new)[n] = Key(list[f[k]])
      BY <1>19, <3>1
    <3>3. Key(list[f[k]]) \in K
      BY <1>6
    <3>4. QED
      BY <3>2, <3>3
  <2>2. ASSUME NEW k \in K
        PROVE  \E n \in (L + 1)..(L + N) : KeyList(new)[n] = k
    <3>1. PICK n \in 1..N : k = Key(list[f[n]])
      BY <1>6
    <3>2. KeyList(new)[L + n] = k
      BY <1>19, <3>1
    <3>3. L + n \in (L + 1)..(L + N)
      BY <1>12
    <3>4. QED
      BY <3>2, <3>3
  <2>3. QED
    BY <2>1, <2>2
<1>14. Keys(new) = Keys(file) \cup K
  <2>1. ASSUME NEW k \in Keys(new) PROVE k \in Keys(file) \cup K
    <3>1. PICK n \in 1..(L + N) : k = Key(new[n])
      BY <1>5 DEF Keys
    <3>2. CASE n \in 1..L
      BY <1>5, <3>1, <3>2 DEF Keys
    <3>3. CASE n \notin 1..L
      <4>1. n \in (L + 1)..(L + N)
        BY <1>5, <1>8, <3>3
      <4>2. KeyList(new)[n] \in K
        BY <1>13, <4>1
      <4>3. KeyList(new)[n] = k
        BY <1>18, <3>1
      <4>4. QED
        BY <4>2, <4>3
    <3>4. QED
      BY <3>2, <3>3
  <2>2. ASSUME NEW k \in Keys(file) PROVE k \in Keys(new)
    <3>1. PICK n \in 1..L : k = Key(file[n])
      BY <1>5 DEF Keys
    <3>2. n \in DOMAIN new /\ k = Key(new[n])
      BY <1>5, <1>8, <3>1
    <3>3. QED
      BY <3>2 DEF Keys
  <2>3. ASSUME NEW k \in K PROVE k \in Keys(new)
    <3>1. PICK n \in (L + 1)..(L + N) : KeyList(new)[n] = k
      BY <1>13
    <3>2. PICK m \in 1..N : n = L + m
      BY <1>11
    <3>3. n \in DOMAIN new
      <4>1. DOMAIN new = 1..(L + N) /\ L + m \in 1..(L + N)
        BY <1>5, <1>12
      <4>2. QED
        BY <3>2, <4>1
    <3>4. k = Key(new[n])
      BY <1>18, <1>5, <3>1, <3>3
    <3>5. QED
      BY <3>3, <3>4 DEF Keys
  <2>4. QED
    BY <2>1, <2>2, <2>3
<1>15. KeysAppended(new, file, K)
  BY <1>7, <1>16, <1>10, <1>13, <1>14 DEF KeysAppended
<1>17. QED
  BY <1>6, <1>15

\* What is due, as ReadingStore has it.
DueKeys == {Key(head[i]) : i \in {j \in DOMAIN head : head[j].del}} \ Keys(dataFile)

\* A copy of the first k marked readings puts what is due into the file, all of
\* it if k is their number.
LEMMA CopyPuts ==
    ASSUME IInv, OrderInv, Running, storPc = "copy", NEW k \in 0..Len(Marked(head)),
           dataFile' = dataFile \o SubSeq(Marked(head), 1, k), UNCHANGED head
    PROVE  \E R \in SUBSET DueKeys :
             Store!Put(R) /\ (k = Len(Marked(head)) => R = DueKeys)
<1>1. /\ head \in Seq(Reading) /\ dataFile \in Seq(Reading) /\ Tidy(head) /\ ~ Copied
  BY Types DEF IInv, MutexInv, Copied, OrderInv, Running
<1>2. \A i \in DOMAIN head : Key(head[i]) \notin Keys(dataFile)
  BY <1>1, Apart
<1> DEFINE D == {Key(head[i]) : i \in {j \in DOMAIN head : head[j].del}}
           kept == Keys(head) \ Keys(dataFile)
           due == D \ Keys(dataFile)
           stored == [i \in DOMAIN dataFile |-> Key(dataFile[i])]
<1>3. D = MarkedKeys(head) /\ due = MarkedKeys(head) /\ DueKeys = MarkedKeys(head)
  BY <1>2 DEF MarkedKeys, DueKeys
<1>4. stored = KeyList(dataFile) /\ stored' = KeyList(dataFile')
  BY DEF KeyList
<1>5. PICK R \in SUBSET MarkedKeys(head) :
        /\ Keys(dataFile') = Keys(dataFile) \cup R
        /\ Len(stored') = Len(stored) + Cardinality(R)
        /\ SubSeq(stored', 1, Len(stored)) = stored
        /\ {stored'[i] : i \in (Len(stored) + 1)..Len(stored')} = R
        /\ k = Len(Marked(head)) => R = MarkedKeys(head)
  <2> HIDE DEF stored, due
  <2>1. PICK new : new = dataFile'
    OBVIOUS
  <2>2. PICK R \in SUBSET MarkedKeys(head) :
          KeysAppended(new, dataFile, R) /\ (k = Len(Marked(head)) => R = MarkedKeys(head))
    BY <1>1, <2>1, AppendKeys
  <2>3. stored' = KeyList(new) /\ stored = KeyList(dataFile)
    BY <1>4, <2>1
  <2>4. /\ Keys(new) = Keys(dataFile) \cup R
        /\ Len(stored') = Len(stored) + Cardinality(R)
        /\ SubSeq(stored', 1, Len(stored)) = stored
        /\ {stored'[i] : i \in (Len(stored) + 1)..Len(stored')} = R
    <3>1. KeysAppended(new, dataFile, R)
      BY <2>2
    <3> HIDE DEF stored
    <3>2. QED
      BY Zenon, <2>3, <3>1 DEF KeysAppended
  <2>5. Keys(dataFile') = Keys(dataFile) \cup R
    BY <2>1, <2>4
  <2>6. QED
    BY <2>2, <2>4, <2>5
<1>6. kept' = kept \ R /\ due' = due \ R
  <2>1. kept' = Keys(head) \ Keys(dataFile') /\ due' = D \ Keys(dataFile')
    BY DEF Keys
  <2> HIDE DEF D
  <2>2. QED
    BY <1>3, <1>5, <2>1
<1>7. Store!Cardinality(R) = Cardinality(R)
  BY Zenon DEF Store!Cardinality, Cardinality
<1>8. Store!Put(R)
  BY <1>5, <1>6, <1>7 DEF Store!Put
<1>9. QED
  BY <1>3, <1>5, <1>8

\* The copy, though stor_mgr be cancelled in it, stores all that is due.
LEMMA CopyStores ==
    ASSUME IInv, OrderInv, Running, UNCHANGED mainPc, storPc = "copy",
           dataFile' = dataFile \o Marked(head), UNCHANGED head
    PROVE  Store!StoreDue
<1>1. PICK k \in 0..Len(Marked(head)) : k = Len(Marked(head))
  <2>1. \A l \in Nat : l \in 0..l
    OBVIOUS
  <2>2. Len(Marked(head)) \in Nat
    BY PickType, Types, LenProperties DEF Marked
  <2>3. QED
    BY <2>1, <2>2
<1>2. SubSeq(Marked(head), 1, k) = Marked(head)
  BY <1>1, MarkedPart, Types
<1>3. PICK R \in SUBSET DueKeys :
        Store!Put(R) /\ (k = Len(Marked(head)) => R = DueKeys)
  <2>1. dataFile' = dataFile \o SubSeq(Marked(head), 1, k)
    BY <1>2
  <2>2. QED
    BY <2>1, CopyPuts
<1>5. Store!Put(DueKeys)
  <2>1. R = DueKeys
    BY <1>1, <1>3
  <2>2. QED
    BY <1>3, <2>1 DEF Store!Put
<1>4. QED
  BY <1>5 DEF Store!StoreDue, DueKeys, Running

\* Steps that change neither the list nor the file put nothing into it.
LEMMA NothingPut ==
    ASSUME IInv, UNCHANGED <<head, dataFile>>
    PROVE  Store!Put({})
<1> DEFINE kept == Keys(head) \ Keys(dataFile)
           due == {Key(head[i]) : i \in {j \in DOMAIN head : head[j].del}} \ Keys(dataFile)
           stored == [i \in DOMAIN dataFile |-> Key(dataFile[i])]
<1>1. kept' = kept /\ due' = due /\ stored' = stored
  BY DEF Keys
<1>2. stored \in Seq(Nat \X Nat)
  <2>1. dataFile \in Seq(Reading) /\ \A r \in Reading : Key(r) \in Nat \X Nat
    BY Types DEF Key, Reading
  <2>2. DOMAIN dataFile = 1..Len(dataFile) /\ Len(dataFile) \in Nat
    BY <2>1
  <2>3. \A i \in 1..Len(dataFile) : Key(dataFile[i]) \in Nat \X Nat
    BY <2>1, <2>2
  <2>4. QED
    BY <2>2, <2>3
<1>3. Store!Cardinality({}) = 0
  <2>1. Store!Cardinality({}) = Cardinality({})
    BY Zenon DEF Store!Cardinality, Cardinality
  <2>2. QED
    BY <2>1, FS_EmptySet
<1> HIDE DEF kept, due, stored
<1>4. /\ Len(stored) \in Nat /\ SubSeq(stored, 1, Len(stored)) = stored
      /\ Len(stored) = Len(stored) + 0
      /\ (Len(stored) + 1)..Len(stored) = {}
  BY <1>2, SubSeqFull
<1>5. /\ kept' = kept \ {} /\ due' = due \ {}
      /\ Len(stored') = Len(stored) + Store!Cardinality({})
      /\ SubSeq(stored', 1, Len(stored)) = stored
      /\ {stored'[i] : i \in (Len(stored) + 1)..Len(stored')} = {}
  BY <1>1, <1>3, <1>4
<1>6. QED
  BY <1>5 DEF Store!Put, kept, due, stored

\* handle_error ends the store, perhaps in the midst of a copy.
LEMMA ErrorEnds ==
    ASSUME IInv, OrderInv, Running, HandleError
    PROVE  Store!End
<1>1. mainPc' = "exited" /\ UNCHANGED head
  BY DEF HandleError, sharedVars
<1>2. \E R \in SUBSET DueKeys : Store!Put(R)
  <2>1. CASE storPc = "copy"
    <3>1. PICK k \in 0..Len(Marked(head)) : dataFile' = dataFile \o SubSeq(Marked(head), 1, k)
      BY <2>1 DEF HandleError
    <3>2. QED
      BY <1>1, <2>1, <3>1, CopyPuts
  <2>2. CASE storPc # "copy"
    <3>1. UNCHANGED <<head, dataFile>>
      BY <1>1, <2>2 DEF HandleError
    <3>2. QED
      BY <3>1, NothingPut
  <2>3. QED
    BY <2>1, <2>2
<1>3. QED
  BY <1>1, <1>2 DEF Store!End, DueKeys, Running

\* The removal changes nothing but the copy of what is in the file.
LEMMA RemoveStutters ==
    ASSUME IInv, MovedInv, RemoveMarked, UNCHANGED <<dataFile, mainPc>>
    PROVE  UNCHANGED Store!vars
<1>1. head \in Seq(Reading) /\ head' = Unmarked(head) /\ MarkedKeys(head) \subseteq Keys(dataFile)
  BY Types DEF RemoveMarked, MovedInv
<1> DEFINE I == {i \in DOMAIN head : ~ head[i].del}
<1>2. PICK f : PickedBy(head, I, f)
  <2>1. IsFiniteSet(DOMAIN head) /\ I \subseteq DOMAIN head /\ DOMAIN head \subseteq Nat
    BY <1>1, FS_Interval
  <2>2. I \in SUBSET Nat /\ IsFiniteSet(I)
    BY <2>1, FS_Subset
  <2>3. QED
    BY <2>2, PickPositions
<1>3. head' = Pick(head, I) /\ DOMAIN head' = 1..Cardinality(I)
  <2>1. head' = Pick(head, I)
    BY <1>1 DEF Unmarked
  <2>2. QED
    BY <2>1 DEF Pick
<1>4. /\ \A n \in DOMAIN head' : \E i \in I : head'[n] = head[i]
      /\ \A i \in I : \E n \in DOMAIN head' : head'[n] = head[i]
  <2>1. /\ \A n \in 1..Cardinality(I) : f[n] \in I /\ Pick(head, I)[n] = head[f[n]]
        /\ \A i \in I : \E n \in 1..Cardinality(I) : f[n] = i
    BY <1>2 DEF PickedBy
  <2> HIDE DEF I
  <2>2. QED
    BY <1>3, <2>1
<1>5. MarkedKeys(head') = {}
  BY <1>4 DEF MarkedKeys
<1>6. Keys(head') \ Keys(dataFile) = Keys(head) \ Keys(dataFile)
  <2>1. Keys(head') \subseteq Keys(head)
    BY <1>4 DEF Keys
  <2>2. ASSUME NEW k \in Keys(head), k \notin Keys(dataFile) PROVE k \in Keys(head')
    <3>1. PICK i \in DOMAIN head : k = Key(head[i])
      BY DEF Keys
    <3>2. i \in I
      BY <1>1, <2>2, <3>1 DEF MarkedKeys
    <3>3. QED
      BY <1>4, <3>1, <3>2 DEF Keys
  <2>3. QED
    BY <2>1, <2>2
<1>7. /\ ({Key(head[i]) : i \in {j \in DOMAIN head : head[j].del}} \ Keys(dataFile))'
           = {Key(head[i]) : i \in {j \in DOMAIN head : head[j].del}} \ Keys(dataFile)
      /\ (Keys(head) \ Keys(dataFile))' = Keys(head) \ Keys(dataFile)
  <2>1. Keys(dataFile') = Keys(dataFile)
    BY DEF Keys
  <2>2. ({Key(head[i]) : i \in {j \in DOMAIN head : head[j].del}})' = MarkedKeys(head')
    BY DEF MarkedKeys
  <2>3. {Key(head[i]) : i \in {j \in DOMAIN head : head[j].del}} = MarkedKeys(head)
    BY DEF MarkedKeys
  <2>4. QED
    BY <1>1, <1>5, <1>6, <2>1, <2>2, <2>3
<1>8. QED
  BY <1>7 DEF Store!vars

LEMMA StepImplements ==
    ASSUME AlwaysOpens, IInv, OrderInv, MovedInv, [Next]_vars
    PROVE  [Store!Next]_(Store!vars)
<1>1. CASE UNCHANGED <<head, dataFile>> /\ Running' = Running
  <2>1. Keys(head') = Keys(head) /\ MarkedKeys(head') = MarkedKeys(head)
    BY <1>1
  <2>2. UNCHANGED Store!vars
    BY <1>1, <2>1, KeysStutter
  <2>3. QED
    BY <2>2
<1>2. CASE Running /\ ConnMgr
  <2>1. UNCHANGED dataFile /\ Running' = Running
    BY <1>2 DEF ConnMgr, outVars, Running, Setup, SelectAccept, LogOpened, SelectData, SelectTimeout,
                Receive, LogClosed, SaveReading, PostReading, ScanEnds, CloseAll
  <2>2. CASE SaveReading
    BY <1>2, <2>1, <2>2, SaveKeeps DEF Store!Next
  <2>3. CASE ~ SaveReading
    <3>1. UNCHANGED head
      BY <1>2, <2>3 DEF ConnMgr, sharedVars, Setup, SelectAccept, LogOpened,
           SelectData, SelectTimeout, Receive, LogClosed, PostReading, ScanEnds, CloseAll
    <3>2. QED
      BY <1>1, <2>1, <3>1
  <2>4. QED
    BY <2>2, <2>3
<1>3. CASE Running /\ DataMgr
  <2>1. UNCHANGED <<dataFile, mainPc>> /\ Running' = Running
    BY <1>3 DEF DataMgr, Running
  <2>2. CASE DataSort
    BY <2>1, <2>2, SortStutters
  <2>3. CASE LogAverage
    BY <1>3, <2>1, <2>3, MarkIsDue DEF Store!Next
  <2>4. CASE ~ DataSort /\ ~ LogAverage
    <3>1. UNCHANGED head
      BY <1>3, <2>4 DEF DataMgr, sharedVars, DataLoop, DataWait, AverageGroup, DataUnlock,
                        DataPost, DataCancelled
    <3>2. QED
      BY <1>1, <2>1, <3>1
  <2>5. QED
    BY <2>2, <2>3, <2>4
<1>4. CASE Running /\ StorMgr
  <2>0. UNCHANGED mainPc /\ Running' = Running
    BY <1>4 DEF StorMgr, Running
  <2>1. CASE RemoveMarked
    <3>1. UNCHANGED dataFile
      BY <2>1 DEF RemoveMarked
    <3>2. QED
      BY <2>0, <2>1, <3>1, RemoveStutters
  <2>2. CASE storPc = "copy" /\ dataFile' = dataFile \o Marked(head) /\ UNCHANGED head
    BY <1>4, <2>0, <2>2, CopyStores DEF Store!Next
  <2>3. CASE ~ RemoveMarked /\ ~ (storPc = "copy" /\ dataFile' = dataFile \o Marked(head) /\ UNCHANGED head)
    <3>1. UNCHANGED <<head, dataFile>>
      BY <1>4, <2>3 DEF StorMgr, sharedVars, StorLoop, StorWait, StorLock, Copy, CopyFails,
                        StorCancelled
    <3>2. QED
      BY <1>1, <2>0, <3>1
  <2>4. QED
    BY <2>1, <2>2, <2>3
<1>5. CASE \/ Running /\ MainThread
           \/ LogProcessEnds
           \/ \E c \in Client : SensorNode(c)
           \/ UNCHANGED vars
  <2>1. UNCHANGED <<head, dataFile>>
    BY <1>5 DEF MainThread, LogProcessEnds, SensorNode, vars, sharedVars, outVars
  <2>2. Running' = Running
    BY <1>5 DEF MainThread, JoinConn, JoinData, JoinStor, Spin, LogProcessEnds, SensorNode, vars,
                Running
  <2>3. QED
    BY <1>1, <2>1, <2>2
<1>6. CASE Running /\ HandleError
  BY <1>6, ErrorEnds DEF Store!Next
<1>7. QED
  BY <1>2, <1>3, <1>4, <1>5, <1>6 DEF Next, Running

\* With a data file that can always be opened, and with sensor nodes whose IDs
\* differ and which send at most ten readings each, the gateway implements the
\* store of readings: for any number of nodes and any window, what is saved is
\* kept until it is the oldest of a full window, is then written to the file
\* once, and only then removed, until handle_error ends the process, if it does.
THEOREM StoreIsImplemented ==
    ASSUME NodesDiffer, FewMessages, AlwaysOpens
    PROVE  Spec => ImplementsReadingStore
<1>1. Init => Store!Init
  <2> SUFFICES ASSUME Init PROVE Store!Init
    OBVIOUS
  <2>1. head = <<>> /\ dataFile = <<>>
    BY DEF Init
  <2>2. Keys(head) = {} /\ {Key(head[i]) : i \in {j \in DOMAIN head : head[j].del}} = {}
    BY <2>1 DEF Keys
  <2>3. [i \in DOMAIN dataFile |-> Key(dataFile[i])] = <<>>
    BY <2>1
  <2>4. (mainPc # "exited") = TRUE
    BY DEF Init
  <2>5. QED
    BY <2>2, <2>3, <2>4 DEF Store!Init
<1>2. Init => MovedInv
  BY DEF Init, MovedInv
<1>3. IInv /\ OrderInv /\ [Next]_vars => OrderInv'
  BY OrderInvKept
<1>4. IInv /\ MovedInv /\ [Next]_vars => MovedInv'
  BY MovedInvKept
<1>5. IInv /\ OrderInv /\ MovedInv /\ [Next]_vars => [Store!Next]_(Store!vars)
  BY StepImplements
<1>6. QED
  BY <1>1, <1>2, <1>3, <1>4, <1>5, InitOrder, Invariance, PTL
     DEF Spec, ImplementsReadingStore, Store!Spec
=============================================================================
