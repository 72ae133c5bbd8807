--------------------------- MODULE LedSysfsProofs ---------------------------
(***************************************************************************)
(* What holds of the LEDs that several programs switch through sysfs, for  *)
(* any number of programs and anything a shell writes: the option they     *)
(* agree on is the one that holds.                                         *)
(***************************************************************************)
EXTENDS LedSysfs, SequenceTheorems, TLAPS

\* The writes of the two options of a program.
OptionWrites(option) ==
    IF option = "1" THEN <<<<"direction", "out">>, <<"value", "1">>>>
                    ELSE <<<<"direction", "in">>, <<"value", "0">>>>

\* Where a writer stands with the writes it has been given.
WriterInv(w) ==
    /\ at[w] # "store" => step[w] = 1
    /\ at[w] = "store" /\ Attribute(w) = "value" /\ step[w] > 1 => Text(w) # "5"
    /\ ~AtRest(w) => last[w] # "none"
    /\ ~AtRest(w) => todo[w] # <<>>
    /\ ~AtRest(w) /\ last[w] \in {"0", "1"} =>
         todo[w] = OptionWrites(last[w]) \/ todo[w] = Tail(OptionWrites(last[w]))

\* How many of the six steps of an option's two stores a writer has behind it.
Done(w) ==
    IF AtRest(w) THEN 6 ELSE IF Len(todo[w]) = 2 THEN step[w] - 1 ELSE 2 + step[w]

\* The steps and what each leaves behind.
Steps == 1..6
Effect(option, k) ==
    CASE k = 1 -> _direct = IF option = "1" THEN "out" ELSE "in"
      [] k = 2 -> (LED_1 \in oe) <=> (option = "0")
      [] k = 3 -> (LED_2 \in oe) <=> (option = "0")
      [] k = 4 -> option = "1" => LED_1 \in dataout
      [] k = 5 -> option = "1" => LED_2 \in dataout
      [] k = 6 -> _value = option

\* All whose choice still counts chose this option.
Agreed(option) == \A w \in Writer : last[w] \in {option, "none"}

\* While they agree: what all of them have done has its effect, whoever did it last.
EffectsLast(option) ==
    Agreed(option) =>
        \A k \in Steps :
            (/\ \E w \in Writer : last[w] = option
             /\ \A w \in Writer : last[w] = option => Done(w) >= k)
            => Effect(option, k)

LedInv ==
    /\ TypeOK
    /\ \A w \in Writer : WriterInv(w)
    /\ EffectsLast("0") /\ EffectsLast("1")

-----------------------------------------------------------------------------
(* Where a writer stands. *)

LEMMA EmptyOrLonger ==
    ASSUME NEW S, NEW s \in Seq(S)
    PROVE  Len(s) \in Nat /\ (s = <<>> <=> Len(s) = 0)
BY EmptySeq, LenProperties

LEMMA OptionWritesAre ==
    /\ OptionWrites("1")[1] = <<"direction", "out">> /\ OptionWrites("1")[2] = <<"value", "1">>
    /\ OptionWrites("0")[1] = <<"direction", "in">> /\ OptionWrites("0")[2] = <<"value", "0">>
    /\ \A option \in {"0", "1"} :
         /\ OptionWrites(option) \in Seq(Write) /\ Len(OptionWrites(option)) = 2
         /\ Tail(OptionWrites(option)) \in Seq(Write) /\ Len(Tail(OptionWrites(option))) = 1
         /\ Tail(OptionWrites(option))[1] = OptionWrites(option)[2]
         /\ Tail(Tail(OptionWrites(option))) = <<>>
BY DEF OptionWrites, Write, Direction, Value

\* The text that the option has for the direction.
DirectionOf(option) == IF option = "1" THEN "out" ELSE "in"

\* A writer whose option may still count is at one of two writes.
LEMMA OptionAt ==
    ASSUME NEW w \in Writer, WriterInv(w), ~AtRest(w), last[w] \in {"0", "1"}
    PROVE  \/ /\ todo[w] = OptionWrites(last[w]) /\ Len(todo[w]) = 2
              /\ Attribute(w) = "direction" /\ Text(w) = DirectionOf(last[w])
           \/ /\ todo[w] = Tail(OptionWrites(last[w])) /\ Len(todo[w]) = 1
              /\ Attribute(w) = "value" /\ Text(w) = last[w]
<1>1. todo[w] = OptionWrites(last[w]) \/ todo[w] = Tail(OptionWrites(last[w]))
  BY DEF WriterInv
<1>2. last[w] = "1" => OptionWrites(last[w])[1] = <<"direction", DirectionOf(last[w])>>
                       /\ OptionWrites(last[w])[2] = <<"value", last[w]>>
  BY OptionWritesAre DEF DirectionOf
<1>3. last[w] = "0" => OptionWrites(last[w])[1] = <<"direction", DirectionOf(last[w])>>
                       /\ OptionWrites(last[w])[2] = <<"value", last[w]>>
  BY OptionWritesAre DEF DirectionOf
<1>4. CASE todo[w] = OptionWrites(last[w])
  <2>1. todo[w][1] = <<"direction", DirectionOf(last[w])>> /\ Len(todo[w]) = 2
    BY <1>2, <1>3, <1>4, OptionWritesAre
  <2>2. QED
    BY <1>4, <2>1 DEF Attribute, Text
<1>5. CASE todo[w] = Tail(OptionWrites(last[w]))
  <2>1. todo[w][1] = <<"value", last[w]>> /\ Len(todo[w]) = 1
    BY <1>2, <1>3, <1>5, OptionWritesAre
  <2>2. QED
    BY <1>5, <2>1 DEF Attribute, Text
<1>6. QED
  BY <1>1, <1>4, <1>5

\* Writers whose choice does not count, or who have just begun, agree on nothing
\* that was done.
LEMMA NothingAgreed ==
    ASSUME NEW option \in {"0", "1"}, NEW w \in Writer,
           \/ last'[w] \notin {option, "none"}
           \/ last'[w] = option /\ Done(w)' = 0
    PROVE  EffectsLast(option)'
BY DEF EffectsLast, Agreed, Steps

LEMMA NoChoice ==
    ASSUME NEW option \in {"0", "1"}, \A w \in Writer : last'[w] # option
    PROVE  EffectsLast(option)'
BY DEF EffectsLast

\* Nobody has done more than before, and what was done is as it was.
LEMMA EffectsStay ==
    ASSUME NEW option \in {"0", "1"}, EffectsLast(option),
           UNCHANGED <<oe, dataout, _value, _direct, last>>,
           \A w \in Writer : Done(w)' = Done(w)
    PROVE  EffectsLast(option)'
<1>1. \A k \in Steps : Effect(option, k)' <=> Effect(option, k)
  BY DEF Steps, Effect
<1>2. Agreed(option)' <=> Agreed(option)
  BY DEF Agreed
<1>3. QED
  BY <1>1, <1>2 DEF EffectsLast

\* One writer has made its j-th step, and that did not undo the earlier ones.
LEMMA EffectAdded ==
    ASSUME NEW option \in {"0", "1"}, EffectsLast(option), UNCHANGED last,
           NEW w \in Writer, last[w] = option, NEW j \in Steps,
           Done(w) = j - 1, Done(w)' = j,
           \A x \in Writer \ {w} : Done(x)' = Done(x),
           Effect(option, j)',
           \A k \in Steps : k < j /\ Effect(option, k) => Effect(option, k)'
    PROVE  EffectsLast(option)'
<1> SUFFICES ASSUME Agreed(option)', NEW k \in Steps,
                    \A x \in Writer : last'[x] = option => Done(x)' >= k
             PROVE  Effect(option, k)'
  BY DEF EffectsLast
<1>1. Agreed(option)
  BY DEF Agreed
<1>2. k <= j
  <2>1. Done(w)' >= k
    OBVIOUS
  <2>2. QED
    BY <2>1
<1>3. CASE k = j
  BY <1>3
<1>4. CASE k < j
  <2>1. Done(w) >= k
    BY <1>4 DEF Steps
  <2>2. \A x \in Writer : last[x] = option => Done(x) >= k
    BY <2>1
  <2>3. Effect(option, k)
    BY <1>1, <2>2 DEF EffectsLast
  <2>4. QED
    BY <1>4, <2>3
<1>5. QED
  BY <1>2, <1>3, <1>4 DEF Steps

-----------------------------------------------------------------------------
(* The driver and the orders. *)

LEMMA UnsaidKeeps ==
    ASSUME LedInv, Unsay, TypeOK', UNCHANGED writers
    PROVE  LedInv'
<1>1. \A w \in Writer : last'[w] = IF AtRest(w) THEN "none" ELSE "unknown"
  BY DEF Unsay
<1>2. ASSUME NEW w \in Writer PROVE WriterInv(w)'
  BY <1>1 DEF LedInv, WriterInv, writers, AtRest, Attribute, Text
<1>3. ASSUME NEW option \in {"0", "1"} PROVE EffectsLast(option)'
  BY <1>1, <1>3, NoChoice
<1>4. QED
  BY <1>2, <1>3 DEF LedInv

\* A step that concerns neither the writers nor what they have done.
LEMMA FrameKeeps ==
    ASSUME LedInv, TypeOK', UNCHANGED <<oe, dataout, _value, _direct, writers, last>>
    PROVE  LedInv'
<1>1. ASSUME NEW w \in Writer PROVE WriterInv(w)' /\ Done(w)' = Done(w)
  BY DEF LedInv, WriterInv, writers, AtRest, Attribute, Text, Done
<1>2. ASSUME NEW option \in {"0", "1"}, EffectsLast(option) PROVE EffectsLast(option)'
  BY <1>1, <1>2, EffectsStay
<1>3. QED
  BY <1>1, <1>2 DEF LedInv

LEMMA DriverKeeps ==
    ASSUME LedInv, Driver
    PROVE  LedInv'
<1>1. PinTypes'
  BY LedsAreGpios DEF LedInv, TypeOK, Driver, CreateDirection, CreateValue, RequestLeds, FreeLeds,
     RemoveGroup, PinTypes, pins, Request, FreeGpio
<1>2. TypeOK'
  <2>1. last' \in [Writer -> {"0", "1", "none", "unknown"}]
    BY DEF LedInv, TypeOK, Driver, CreateDirection, CreateValue, RequestLeds, FreeLeds,
       RemoveGroup, Unsay
  <2>2. UNCHANGED <<at, todo, step>>
    BY DEF Driver, CreateDirection, CreateValue, RequestLeds, FreeLeds, RemoveGroup, writers
  <2>3. /\ driver' \in {"absent", "group", "request1", "request2", "loaded",
                        "free2", "remove", "drain1", "drain2"}
        /\ group' \subseteq {"direction", "value"}
        /\ _value' \in {"0", "1"} /\ _direct' \in Direction \cup {""}
    BY DEF LedInv, TypeOK, Driver, CreateDirection, CreateValue, RequestLeds, FreeLeds, RemoveGroup
  <2>4. QED
    BY <1>1, <2>1, <2>2, <2>3 DEF LedInv, TypeOK, AtRest
<1>3. CASE CreateDirection \/ FreeLeds
  BY <1>2, <1>3, UnsaidKeeps DEF CreateDirection, FreeLeds
<1>4. CASE CreateValue \/ RequestLeds \/ RemoveGroup
  BY <1>2, <1>4, FrameKeeps DEF CreateValue, RequestLeds, RemoveGroup, pins
<1>5. QED
  BY <1>3, <1>4 DEF Driver

LEMMA OrderKeeps ==
    ASSUME LedInv, NEW w \in Writer, NEW writes \in Seq(Write),
           NEW choice \in {"0", "1", "unknown"}, Order(w, writes, choice),
           Len(writes) \in 1..2,
           choice # "unknown" => writes = OptionWrites(choice)
    PROVE  LedInv'
<1>1. /\ TypeOK /\ at[w] = "menu" /\ step[w] = 1 /\ step' = step
      /\ at' = [at EXCEPT ![w] = "open"] /\ todo' = [todo EXCEPT ![w] = writes]
      /\ last'[w] = choice
      /\ \A x \in Writer \ {w} :
           last'[x] = last[x] \/ (last'[x] = "none" /\ AtRest(x))
      /\ last' \in [Writer -> {"0", "1", "none", "unknown"}]
  BY DEF LedInv, Order, system, TypeOK, WriterInv
<1>2. writes # <<>> /\ Len(writes) <= 2
  <2>1. Len(writes) \in 1..2
    OBVIOUS
  <2>2. writes # <<>>
    BY <2>1, EmptyOrLonger
  <2>3. QED
    BY <2>1, <2>2
<1>3. /\ at'[w] = "open" /\ todo'[w] = writes /\ step'[w] = 1
      /\ \A x \in Writer \ {w} : at'[x] = at[x] /\ todo'[x] = todo[x]
  BY <1>1 DEF TypeOK
<1>4. TypeOK'
  <2>1. at' \in [Writer -> {"menu", "open", "store", "gone"}] /\ todo' \in [Writer -> Seq(Write)]
    BY <1>1 DEF TypeOK
  <2>2. ASSUME NEW x \in Writer PROVE Len(todo'[x]) <= 2 /\ (AtRest(x)' <=> todo'[x] = <<>>)
    <3>1. CASE x = w
      <4>1. ~AtRest(x)'
        BY <1>3, <3>1 DEF AtRest
      <4>2. todo'[x] = writes
        BY <1>3, <3>1
      <4>3. QED
        BY <1>2, <4>1, <4>2, Zenon
    <3>2. CASE x # w
      BY <1>1, <1>3, <3>2 DEF AtRest, TypeOK
    <3>3. QED
      BY <3>1, <3>2
  <2>3. QED
    BY <1>1, <2>1, <2>2 DEF Order, system, pins, TypeOK, PinTypes
<1>5. ASSUME NEW x \in Writer PROVE WriterInv(x)'
  <2>1. CASE x = w
    <3>1. at'[w] = "open" /\ step'[w] = 1 /\ todo'[w] # <<>> /\ last'[w] = choice
      BY <1>1, <1>2, <1>3
    <3>2. choice \in {"0", "1"} => todo'[w] = OptionWrites(choice)
      BY <1>3
    <3>3. QED
      BY <2>1, <3>1, <3>2 DEF WriterInv
  <2>2. CASE x # w
    <3>1. at'[x] = at[x] /\ todo'[x] = todo[x] /\ step'[x] = step[x]
          /\ (AtRest(x) \/ last'[x] = last[x])
      BY <1>1, <2>2 DEF TypeOK
    <3>2. WriterInv(x)
      BY DEF LedInv
    <3>3. QED
      BY <3>1, <3>2 DEF WriterInv, AtRest, Attribute, Text
  <2>3. QED
    BY <2>1, <2>2
<1>6. ASSUME NEW option \in {"0", "1"} PROVE EffectsLast(option)'
  <2>1. CASE choice = option
    <3>1. Done(w)' = 0
      BY <1>3, <2>1, OptionWritesAre DEF Done, AtRest
    <3>2. QED
      BY <1>1, <2>1, <3>1, NothingAgreed
  <2>2. CASE choice # option
    <3>1. last'[w] \notin {option, "none"}
      BY <1>1, <2>2
    <3>2. QED
      BY <3>1, NothingAgreed
  <2>3. QED
    BY <2>1, <2>2
<1>7. QED
  BY <1>4, <1>5, <1>6 DEF LedInv

LEMMA OptionKeeps ==
    ASSUME LedInv, NEW p \in Program, Option(p) \/ Option99(p)
    PROVE  LedInv'
<1>1. p \in Writer
  BY DEF Writer
<1>2. CASE Option(p)
  <2>1. \/ Order(p, OptionWrites("1"), "1")
        \/ Order(p, OptionWrites("0"), "0")
    BY <1>2 DEF Option, OptionWrites
  <2>2. QED
    BY <1>1, <2>1, OptionWritesAre, OrderKeeps
<1>3. CASE Option99(p)
  <2>1. TypeOK' /\ (\A x \in Writer : AtRest(x)' <=> AtRest(x))
    BY <1>1, <1>3 DEF LedInv, TypeOK, PinTypes, Option99, system, pins, AtRest
  <2>2. ASSUME NEW x \in Writer PROVE WriterInv(x)' /\ Done(x)' = Done(x)
    BY <1>1, <1>3, <2>1 DEF LedInv, WriterInv, Option99, Attribute, Text, Done, TypeOK
  <2>3. ASSUME NEW option \in {"0", "1"}, EffectsLast(option) PROVE EffectsLast(option)'
    BY <1>3, <2>2, <2>3, EffectsStay DEF Option99, system, pins
  <2>4. QED
    BY <2>1, <2>2, <2>3 DEF LedInv
<1>4. QED
  BY <1>2, <1>3

LEMMA EchoKeeps ==
    ASSUME LedInv, Echo
    PROVE  LedInv'
<1>1. PICK write \in Echoed : Order(Shell, <<write>>, "unknown")
  BY DEF Echo
<1> DEFINE writes == <<write>>
<1>2. writes \in Seq(Write) /\ Len(writes) \in 1..2 /\ Shell \in Writer
  BY <1>1, EchoedAreWrites DEF Writer
<1>3. Order(Shell, writes, "unknown")
  BY <1>1
<1> HIDE DEF writes
<1>4. QED
  BY <1>2, <1>3, OrderKeeps

-----------------------------------------------------------------------------
(* The writes. *)

\* What Return does to the writer.
LEMMA Returned ==
    ASSUME TypeOK, NEW w \in Writer, ~AtRest(w), Return(w)
    PROVE  /\ at'[w] = IF Len(todo[w]) = 1 THEN "menu" ELSE "open"
           /\ todo'[w] = Tail(todo[w]) /\ step'[w] = 1
           /\ \A x \in Writer \ {w} : at'[x] = at[x] /\ todo'[x] = todo[x] /\ step'[x] = step[x]
           /\ at' \in [Writer -> {"menu", "open", "store", "gone"}]
           /\ todo' \in [Writer -> Seq(Write)] /\ step' \in [Writer -> 1..3]
           /\ \A x \in Writer : Len(todo'[x]) <= 2 /\ (AtRest(x)' <=> todo'[x] = <<>>)
<1>1. /\ at'[w] = IF Len(todo[w]) = 1 THEN "menu" ELSE "open"
      /\ todo'[w] = Tail(todo[w]) /\ step'[w] = 1
      /\ \A x \in Writer \ {w} : at'[x] = at[x] /\ todo'[x] = todo[x] /\ step'[x] = step[x]
  BY DEF TypeOK, Return
<1>2. todo[w] \in Seq(Write) /\ todo[w] # <<>> /\ Len(todo[w]) <= 2
  BY DEF TypeOK
<1>3. /\ Tail(todo[w]) \in Seq(Write) /\ Len(Tail(todo[w])) <= 2
      /\ Len(todo[w]) = 1 <=> Tail(todo[w]) = <<>>
  <2>1. Len(todo[w]) \in 1..2
    <3>1. Len(todo[w]) \in Nat /\ Len(todo[w]) # 0
      BY <1>2, EmptyOrLonger, Zenon
    <3>2. ASSUME NEW n \in Nat, n # 0, n <= 2 PROVE n \in 1..2
      BY <3>2
    <3>3. QED
      BY <1>2, <3>1, <3>2, Zenon
  <2>2. Tail(todo[w]) \in Seq(Write) /\ Len(Tail(todo[w])) = Len(todo[w]) - 1
    BY <1>2
  <2>3. Tail(todo[w]) = <<>> <=> Len(Tail(todo[w])) = 0
    BY <2>2, EmptyOrLonger
  <2>4. Len(todo[w]) = 1 <=> Len(Tail(todo[w])) = 0
    BY <2>1, <2>2
  <2>5. Len(Tail(todo[w])) <= 2
    <3>1. ASSUME NEW n \in 1..2 PROVE n - 1 <= 2
      OBVIOUS
    <3>2. QED
      BY <2>1, <2>2, <3>1, Zenon
  <2>6. QED
    BY <2>2, <2>3, <2>4, <2>5, Zenon
<1>4. /\ at' \in [Writer -> {"menu", "open", "store", "gone"}]
      /\ todo' \in [Writer -> Seq(Write)] /\ step' \in [Writer -> 1..3]
  <2>1. /\ todo' = [todo EXCEPT ![w] = Tail(todo[w])]
        /\ step' = [step EXCEPT ![w] = 1]
        /\ at' = [at EXCEPT ![w] = IF Len(todo[w]) = 1 THEN "menu" ELSE "open"]
    BY DEF Return
  <2>2. todo \in [Writer -> Seq(Write)] /\ step \in [Writer -> 1..3]
        /\ at \in [Writer -> {"menu", "open", "store", "gone"}]
    BY DEF TypeOK
  <2>3. todo' \in [Writer -> Seq(Write)]
    BY <1>3, <2>1, <2>2
  <2>4. QED
    BY <2>1, <2>2, <2>3
<1>5. ASSUME NEW x \in Writer PROVE Len(todo'[x]) <= 2 /\ (AtRest(x)' <=> todo'[x] = <<>>)
  <2>1. CASE x = w
    <3>1. AtRest(x)' <=> Len(todo[w]) = 1
      BY <1>1, <2>1 DEF AtRest
    <3>2. QED
      BY <1>1, <1>3, <2>1, <3>1, Zenon
  <2>2. CASE x # w
    BY <1>1, <2>2 DEF AtRest, TypeOK
  <2>3. QED
    BY <2>1, <2>2
<1>6. QED
  BY <1>1, <1>4, <1>5

\* The writers that do not move stand where they stood.
LEMMA OthersStay ==
    ASSUME NEW w \in Writer, UNCHANGED last,
           \A x \in Writer \ {w} : at'[x] = at[x] /\ todo'[x] = todo[x] /\ step'[x] = step[x]
    PROVE  \A x \in Writer \ {w} : (WriterInv(x) => WriterInv(x)') /\ Done(x)' = Done(x)
BY DEF WriterInv, AtRest, Attribute, Text, Done

\* A writer returns and has more or nothing to do.
LEMMA ReturnKeeps ==
    ASSUME TypeOK, NEW w \in Writer, WriterInv(w), ~AtRest(w), Return(w),
           last'[w] = last[w] \/ last'[w] = "unknown"
    PROVE  WriterInv(w)'
<1>1. /\ at'[w] = IF Len(todo[w]) = 1 THEN "menu" ELSE "open"
      /\ todo'[w] = Tail(todo[w]) /\ step'[w] = 1 /\ (AtRest(w)' <=> todo'[w] = <<>>)
  BY Returned
<1>2. last[w] # "none" /\ last'[w] # "none"
  BY DEF WriterInv
<1>3. CASE last'[w] = "unknown"
  BY <1>1, <1>3 DEF WriterInv
<1>4. CASE last'[w] = last[w] /\ last[w] \in {"0", "1"}
  <2>1. \/ todo[w] = OptionWrites(last[w])
        \/ todo[w] = Tail(OptionWrites(last[w])) /\ Len(todo[w]) = 1
    BY <1>4, OptionAt
  <2>2. \/ todo'[w] = Tail(OptionWrites(last'[w]))
        \/ AtRest(w)'
    BY <1>1, <1>4, <2>1 DEF AtRest
  <2>3. QED
    BY <1>1, <1>2, <2>2 DEF WriterInv
<1>5. QED
  BY <1>1, <1>2, <1>3, <1>4 DEF WriterInv

\* A step whose writer has no option that counts: the others do not agree with it.
LEMMA UncountedKeeps ==
    ASSUME LedInv, NEW w \in Writer, TypeOK', last'[w] = "unknown",
           \A x \in Writer : WriterInv(x)'
    PROVE  LedInv'
<1>1. ASSUME NEW option \in {"0", "1"} PROVE EffectsLast(option)'
  BY NothingAgreed
<1>2. QED
  BY <1>1 DEF LedInv

LEMMA OpenKeeps ==
    ASSUME LedInv, NEW w \in Writer, OpenAndWrite(w) \/ OpenOrWriteFails(w)
    PROVE  LedInv'
<1>1. TypeOK /\ WriterInv(w) /\ ~AtRest(w) /\ last[w] # "none" /\ at[w] = "open"
  BY DEF LedInv, OpenAndWrite, OpenOrWriteFails, AtRest, WriterInv
<1>2. CASE OpenAndWrite(w)
  <2>1. /\ at'[w] = "store" /\ step' = step /\ todo' = todo /\ last' = last
        /\ \A x \in Writer \ {w} : at'[x] = at[x]
        /\ at' \in [Writer -> {"menu", "open", "store", "gone"}]
    BY <1>1, <1>2 DEF OpenAndWrite, TypeOK
  <2>2. \A x \in Writer : AtRest(x)' <=> AtRest(x)
    BY <1>1, <2>1 DEF AtRest
  <2>3. TypeOK'
    BY <1>1, <1>2, <2>1, <2>2 DEF OpenAndWrite, system, pins, TypeOK, PinTypes
  <2>4. WriterInv(w)' /\ Done(w)' = Done(w)
    BY <1>1, <2>1, <2>2 DEF WriterInv, Done, Attribute, Text
  <2>5. \A x \in Writer : WriterInv(x)' /\ Done(x)' = Done(x)
    BY <2>1, <2>4, OthersStay DEF LedInv
  <2>6. ASSUME NEW option \in {"0", "1"}, EffectsLast(option) PROVE EffectsLast(option)'
    BY <1>2, <2>5, <2>6, EffectsStay DEF OpenAndWrite, system, pins
  <2>7. QED
    BY <2>3, <2>5, <2>6 DEF LedInv
<1>3. CASE OpenOrWriteFails(w)
  <2>1. Return(w) /\ last' = [last EXCEPT ![w] = "unknown"]
    BY <1>3 DEF OpenOrWriteFails
  <2>2. last'[w] = "unknown" /\ last' \in [Writer -> {"0", "1", "none", "unknown"}]
        /\ \A x \in Writer \ {w} : last'[x] = last[x]
    BY <1>1, <2>1 DEF TypeOK
  <2>3. TypeOK'
    BY <1>1, <1>3, <2>1, <2>2, Returned DEF OpenOrWriteFails, system, pins, TypeOK, PinTypes
  <2>4. ASSUME NEW x \in Writer PROVE WriterInv(x)'
    <3>1. CASE x = w
      BY <1>1, <2>1, <2>2, <3>1, ReturnKeeps
    <3>2. CASE x # w
      <4>1. at'[x] = at[x] /\ todo'[x] = todo[x] /\ step'[x] = step[x] /\ last'[x] = last[x]
        BY <1>1, <2>1, <2>2, <3>2, Returned
      <4>2. QED
        BY <4>1 DEF LedInv, WriterInv, AtRest, Attribute, Text
    <3>3. QED
      BY <3>1, <3>2
  <2>5. QED
    BY <2>2, <2>3, <2>4, UncountedKeeps
<1>4. QED
  BY <1>2, <1>3

-----------------------------------------------------------------------------
(* The store functions. *)

WriterTypes ==
    /\ at \in [Writer -> {"menu", "open", "store", "gone"}]
    /\ todo \in [Writer -> Seq(Write)]
    /\ step \in [Writer -> 1..3]
    /\ \A w \in Writer : Len(todo[w]) <= 2 /\ (AtRest(w) <=> todo[w] = <<>>)

\* A store function goes on, or returns behind its last step.
LEMMA StoreStepMoves ==
    ASSUME LedInv, NEW w \in Writer, at[w] = "store", UNCHANGED last, StoreStep(w),
           Attribute(w) = "value" => Text(w) # "5"
    PROVE  /\ WriterTypes'
           /\ \A x \in Writer : WriterInv(x)'
           /\ \A x \in Writer \ {w} : Done(x)' = Done(x)
           /\ Done(w) \in 0..5 /\ Done(w)' = Done(w) + 1
<1>1. TypeOK /\ WriterInv(w) /\ ~AtRest(w) /\ WriterTypes /\ (\A x \in Writer : WriterInv(x))
  BY DEF LedInv, AtRest, TypeOK, WriterTypes
<1>2. Len(todo[w]) \in 1..2
  <2>1. todo[w] \in Seq(Write) /\ todo[w] # <<>> /\ Len(todo[w]) <= 2
    BY <1>1 DEF WriterTypes
  <2>2. Len(todo[w]) \in Nat /\ Len(todo[w]) # 0
    BY <2>1, EmptyOrLonger, Zenon
  <2>3. ASSUME NEW n \in Nat, n # 0, n <= 2 PROVE n \in 1..2
    BY <2>3
  <2>4. QED
    BY <2>1, <2>2, <2>3, Zenon
<1>3. step[w] \in 1..3
  BY <1>1 DEF WriterTypes
<1>4. CASE step[w] = 3
  <2>1. Return(w)
    BY <1>4 DEF StoreStep
  <2>2. WriterTypes' /\ WriterInv(w)'
    BY <1>1, <2>1, Returned, ReturnKeeps DEF WriterTypes
  <2>3. \A x \in Writer \ {w} : WriterInv(x)' /\ Done(x)' = Done(x)
    BY <1>1, <2>1, Returned, OthersStay
  <2>4. Done(w) \in 0..5 /\ Done(w)' = Done(w) + 1
    <3>1. /\ at'[w] = IF Len(todo[w]) = 1 THEN "menu" ELSE "open"
          /\ todo'[w] = Tail(todo[w]) /\ step'[w] = 1
      BY <1>1, <2>1, Returned
    <3>2. CASE Len(todo[w]) = 1
      <4>1. AtRest(w)'
        BY <3>1, <3>2 DEF AtRest
      <4>2. Done(w)' = 6 /\ Done(w) = 2 + step[w]
        BY <1>1, <3>2, <4>1 DEF Done
      <4>3. QED
        BY <1>4, <4>2
    <3>3. CASE Len(todo[w]) = 2
      <4>1. ~AtRest(w)'
        BY <3>1, <3>3 DEF AtRest
      <4>2. Len(todo'[w]) = 1
        BY <1>1, <3>1, <3>3 DEF WriterTypes
      <4>3. Done(w)' = 2 + step'[w] /\ Done(w) = step[w] - 1
        BY <1>1, <3>3, <4>1, <4>2 DEF Done
      <4>4. QED
        BY <1>4, <3>1, <4>3
    <3>4. QED
      BY <1>2, <3>2, <3>3
  <2>5. QED
    BY <2>2, <2>3, <2>4
<1>5. CASE step[w] # 3
  <2>1. step' = [step EXCEPT ![w] = @ + 1] /\ UNCHANGED <<at, todo>>
    BY <1>5 DEF StoreStep
  <2>2. step'[w] = step[w] + 1 /\ step' \in [Writer -> 1..3]
        /\ \A x \in Writer \ {w} : step'[x] = step[x]
    BY <1>1, <1>3, <1>5, <2>1 DEF WriterTypes
  <2>3. \A x \in Writer : AtRest(x)' <=> AtRest(x)
    BY <2>1 DEF AtRest
  <2>4. WriterTypes'
    BY <1>1, <2>1, <2>2, <2>3 DEF WriterTypes
  <2>5. WriterInv(w)'
    BY <1>1, <2>1, <2>3 DEF WriterInv, Attribute, Text
  <2>6. \A x \in Writer \ {w} : WriterInv(x)' /\ Done(x)' = Done(x)
    BY <1>1, <2>1, <2>2, OthersStay
  <2>7. Done(w) \in 0..5 /\ Done(w)' = Done(w) + 1
    <3>1. Done(w) = (IF Len(todo[w]) = 2 THEN step[w] - 1 ELSE 2 + step[w])
          /\ Done(w)' = (IF Len(todo[w]) = 2 THEN step'[w] - 1 ELSE 2 + step'[w])
      BY <1>1, <2>1, <2>3 DEF Done
    <3>2. QED
      BY <1>2, <1>3, <1>5, <2>2, <3>1
  <2>8. QED
    BY <2>4, <2>5, <2>6, <2>7
<1>6. QED
  BY <1>4, <1>5

\* A step of a store function that belongs to an option which counts, or to none.
LEMMA StepCounts ==
    ASSUME LedInv, NEW w \in Writer, at[w] = "store", UNCHANGED last, StoreStep(w), TypeOK',
           Attribute(w) = "value" => Text(w) # "5",
           \A option \in {"0", "1"}, j \in Steps :
              last[w] = option /\ j = Done(w) + 1 =>
                /\ Effect(option, j)'
                /\ \A k \in Steps : k < j /\ Effect(option, k) => Effect(option, k)'
    PROVE  LedInv'
<1>1. /\ \A x \in Writer : WriterInv(x)'
      /\ \A x \in Writer \ {w} : Done(x)' = Done(x)
      /\ Done(w) \in 0..5 /\ Done(w)' = Done(w) + 1
  BY StoreStepMoves
<1>2. last[w] \in {"0", "1", "unknown"}
  BY DEF LedInv, TypeOK, WriterInv, AtRest
<1>3. CASE last[w] = "unknown"
  BY <1>1, <1>3, UncountedKeeps
<1>4. CASE last[w] \in {"0", "1"}
  <2>1. PICK j \in Steps : j = Done(w) + 1
    BY <1>1 DEF Steps
  <2>2. Done(w) = j - 1 /\ Done(w)' = j
    BY <1>1, <2>1
  <2>3. EffectsLast(last[w])
    BY <1>4 DEF LedInv
  <2>4. PICK option \in {"0", "1"} : option = last[w]
    BY <1>4
  <2>5. Effect(option, j)' /\ \A k \in Steps : k < j /\ Effect(option, k) => Effect(option, k)'
    BY <1>4, <2>1, <2>4
  <2>6. EffectsLast(option)'
    BY <1>1, <2>2, <2>3, <2>4, <2>5, EffectAdded
  <2>7. last'[w] = option
    BY <2>4
  <2>8. ASSUME NEW o \in {"0", "1"} PROVE EffectsLast(o)'
    <3>1. CASE o = option
      BY <2>6, <3>1
    <3>2. CASE o # option
      BY <2>7, <3>2, NothingAgreed
    <3>3. QED
      BY <3>1, <3>2
  <2>9. QED
    BY <1>1, <2>8 DEF LedInv
<1>5. QED
  BY <1>2, <1>3, <1>4

LEMMA DoneInStore ==
    ASSUME LedInv, NEW w \in Writer, at[w] = "store", last[w] \in {"0", "1"}
    PROVE  \/ /\ Attribute(w) = "direction" /\ Text(w) = DirectionOf(last[w])
              /\ Done(w) = step[w] - 1
           \/ /\ Attribute(w) = "value" /\ Text(w) = last[w]
              /\ Done(w) = 2 + step[w]
<1>1. WriterInv(w) /\ ~AtRest(w)
  BY DEF LedInv, AtRest
<1>2. QED
  BY <1>1, OptionAt DEF Done

\* What a writer has written is one of the texts of its attribute.
LEMMA WrittenTexts ==
    ASSUME LedInv, NEW w \in Writer, at[w] = "store"
    PROVE  /\ todo[w] \in Seq(Write) /\ todo[w] # <<>> /\ todo[w][1] \in Write
           /\ Attribute(w) = "direction" => Text(w) \in Direction
           /\ Attribute(w) = "value" => Text(w) \in Value
           /\ Attribute(w) \in {"direction", "value"}
<1>1. todo[w] \in Seq(Write) /\ todo[w] # <<>>
  BY DEF LedInv, TypeOK, AtRest
<1>2. todo[w][1] \in Write
  BY <1>1
<1>3. QED
  BY <1>1, <1>2 DEF Attribute, Text, Write

\* What switching the direction of one pin leaves behind.
LEMMA DirectionEffect ==
    ASSUME NEW option \in {"0", "1"}, NEW j \in {2, 3}, NEW pin,
           j = 2 => pin = LED_1, j = 3 => pin = LED_2, _direct' = _direct,
           option = "1" => oe' = oe \ {pin}, option = "0" => oe' = oe \cup {pin}
    PROVE  /\ Effect(option, j)'
           /\ \A k \in Steps : k < j /\ Effect(option, k) => Effect(option, k)'
<1>1. LED_1 # LED_2
  BY LedsAreGpios
<1>2. CASE j = 2
  <2>1. (LED_1 \in oe') <=> (option = "0")
    BY <1>2
  <2>2. Effect(option, 2)'
    BY <2>1 DEF Effect
  <2>3. Effect(option, 1) => Effect(option, 1)'
    BY DEF Effect
  <2>4. \A k \in Steps : k < 2 => k = 1
    BY DEF Steps
  <2>5. QED
    BY <1>2, <2>2, <2>3, <2>4
<1>3. CASE j = 3
  <2>1. /\ (LED_2 \in oe') <=> (option = "0")
        /\ LED_1 \in oe' <=> LED_1 \in oe
    BY <1>1, <1>3
  <2>2. Effect(option, 3)'
    BY <2>1 DEF Effect
  <2>3. Effect(option, 1) => Effect(option, 1)'
    BY DEF Effect
  <2>4. Effect(option, 2) => Effect(option, 2)'
    BY <2>1 DEF Effect
  <2>5. \A k \in Steps : k < 3 => k = 1 \/ k = 2
    BY DEF Steps
  <2>6. QED
    BY <1>3, <2>2, <2>3, <2>4, <2>5
<1>4. QED
  BY <1>2, <1>3

\* What setting one pin leaves behind.
LEMMA ValueEffect ==
    ASSUME NEW option \in {"0", "1"}, NEW j \in {4, 5}, NEW pin,
           j = 4 => pin = LED_1, j = 5 => pin = LED_2,
           _direct' = _direct, oe' = oe, option = "1" => dataout' = dataout \cup {pin}
    PROVE  /\ Effect(option, j)'
           /\ \A k \in Steps : k < j /\ Effect(option, k) => Effect(option, k)'
<1>1. /\ Effect(option, 1) => Effect(option, 1)'
      /\ Effect(option, 2) => Effect(option, 2)'
      /\ Effect(option, 3) => Effect(option, 3)'
  BY DEF Effect
<1>2. CASE j = 4
  <2>1. Effect(option, 4)'
    BY <1>2 DEF Effect
  <2>2. \A k \in Steps : k < 4 => k = 1 \/ k = 2 \/ k = 3
    BY DEF Steps
  <2>3. QED
    BY <1>1, <1>2, <2>1, <2>2
<1>3. CASE j = 5
  <2>1. Effect(option, 5)'
    BY <1>3 DEF Effect
  <2>2. Effect(option, 4) => Effect(option, 4)'
    BY DEF Effect
  <2>3. \A k \in Steps : k < 5 => k = 1 \/ k = 2 \/ k = 3 \/ k = 4
    BY DEF Steps
  <2>4. QED
    BY <1>1, <1>3, <2>1, <2>2, <2>3
<1>4. QED
  BY <1>2, <1>3

LEMMA DirectionKeeps ==
    ASSUME LedInv, NEW w \in Writer, DirectionStore(w)
    PROVE  LedInv'
<1>1. /\ TypeOK /\ at[w] = "store" /\ Attribute(w) = "direction" /\ Text(w) \in Direction
      /\ last' = last /\ UNCHANGED <<requested, driver, group, _value>>
      /\ WriterInv(w) /\ ~AtRest(w) /\ last[w] # "none"
  BY WrittenTexts DEF LedInv, DirectionStore, WriterInv, AtRest
<1>2. TypeOK' <=> WriterTypes' /\ PinTypes' /\ _direct' \in Direction \cup {""}
  BY <1>1 DEF TypeOK, WriterTypes
<1>3. last[w] \in {"0", "1"} => Text(w) = DirectionOf(last[w]) /\ Text(w) \in {"in", "out"}
                                /\ Done(w) = step[w] - 1
  BY <1>1, DoneInStore DEF DirectionOf
<1>4. CASE step[w] = 1 /\ _direct' = Text(w) /\ UNCHANGED <<oe, dataout>> /\ StoreStep(w)
  <2>1. TypeOK'
    BY <1>1, <1>2, <1>4, StoreStepMoves DEF TypeOK, PinTypes
  <2>2. ASSUME NEW option \in {"0", "1"}, NEW j \in Steps, last[w] = option, j = Done(w) + 1
        PROVE  /\ Effect(option, j)'
               /\ \A k \in Steps : k < j /\ Effect(option, k) => Effect(option, k)'
    <3>1. j = 1 /\ _direct' = DirectionOf(option)
      BY <1>3, <1>4, <2>2
    <3>2. QED
      BY <3>1 DEF Effect, DirectionOf, Steps
  <2>3. QED
    BY <1>1, <1>4, <2>1, <2>2, StepCounts
<1>5. CASE step[w] \in {2, 3} /\ StoreStep(w) /\ UNCHANGED _direct
           /\ LET pin == IF step[w] = 2 THEN LED_1 ELSE LED_2 IN
              IF Text(w) = "in" THEN DirectionInput(pin) ELSE DirectionOutput(pin)
  <2>1. PICK pin \in {LED_1, LED_2} :
          /\ pin = IF step[w] = 2 THEN LED_1 ELSE LED_2
          /\ IF Text(w) = "in" THEN DirectionInput(pin) ELSE DirectionOutput(pin)
    BY <1>5
  <2>2. PinTypes'
    BY <1>1, <2>1, LedsAreGpios DEF TypeOK, PinTypes, DirectionInput, DirectionOutput
  <2>3. TypeOK'
    BY <1>1, <1>2, <1>5, <2>2, StoreStepMoves DEF TypeOK
  <2>4. ASSUME NEW option \in {"0", "1"}, NEW j \in Steps, last[w] = option, j = Done(w) + 1
        PROVE  /\ Effect(option, j)'
               /\ \A k \in Steps : k < j /\ Effect(option, k) => Effect(option, k)'
    <3>1. j = step[w] /\ j \in {2, 3} /\ (j = 2 => pin = LED_1) /\ (j = 3 => pin = LED_2)
      BY <1>3, <1>5, <2>1, <2>4
    <3>2. option = "1" => oe' = oe \ {pin}
      BY <1>3, <2>1, <2>4 DEF DirectionOf, DirectionOutput
    <3>3. option = "0" => oe' = oe \cup {pin}
      BY <1>3, <2>1, <2>4, LedsAreGpios DEF DirectionOf, DirectionInput
    <3>4. QED
      BY <1>5, <3>1, <3>2, <3>3, DirectionEffect
  <2>5. QED
    BY <1>1, <1>5, <2>3, <2>4, StepCounts
<1>6. CASE Text(w) = "junk" /\ _direct' = Text(w) /\ UNCHANGED <<oe, dataout>> /\ Return(w)
  <2>1. last'[w] = "unknown"
    BY <1>1, <1>3, <1>6 DEF TypeOK
  <2>2. WriterTypes' /\ WriterInv(w)'
    BY <1>1, <1>6, Returned, ReturnKeeps DEF WriterTypes
  <2>3. \A x \in Writer : WriterInv(x)'
    BY <1>1, <1>6, <2>2, Returned, OthersStay DEF LedInv
  <2>4. TypeOK'
    BY <1>1, <1>2, <1>6, <2>2 DEF TypeOK, PinTypes
  <2>5. QED
    BY <2>1, <2>3, <2>4, UncountedKeeps
<1>7. ASSUME NEW taken \in {"in", "out"}, todo' = [todo EXCEPT ![w][1][2] = taken],
             step[w] = 1, step' = [step EXCEPT ![w] = 2], UNCHANGED at, Text(w) = "junk",
             _direct' = Text(w), UNCHANGED <<oe, dataout>>
      PROVE  LedInv'
  <2>1. last'[w] = "unknown"
    BY <1>1, <1>3, <1>7 DEF TypeOK
  <2>2. /\ todo[w] \in Seq(Write) /\ todo[w] # <<>> /\ todo[w][1] \in Write
        /\ todo[w][1][1] = "direction"
    BY <1>1, WrittenTexts DEF Attribute
  <2>3. [todo[w][1] EXCEPT ![2] = taken] \in Write
        /\ [todo[w][1] EXCEPT ![2] = taken][1] = "direction"
    BY <2>2 DEF Write, Direction
  <2>4. PICK write \in Write : write = [todo[w][1] EXCEPT ![2] = taken] /\ write[1] = "direction"
    BY <2>3
  <2>5. todo' = [todo EXCEPT ![w] = [todo[w] EXCEPT ![1] = write]]
    BY <1>1, <1>7, <2>4 DEF TypeOK
  <2>6. /\ [todo[w] EXCEPT ![1] = write] \in Seq(Write) /\ [todo[w] EXCEPT ![1] = write] # <<>>
        /\ [todo[w] EXCEPT ![1] = write][1] = write
        /\ Len([todo[w] EXCEPT ![1] = write]) = Len(todo[w])
    BY <2>2
  <2>7. /\ todo'[w] = [todo[w] EXCEPT ![1] = write] /\ step'[w] = 2
        /\ \A x \in Writer \ {w} : todo'[x] = todo[x] /\ step'[x] = step[x]
        /\ todo' \in [Writer -> Seq(Write)] /\ step' \in [Writer -> 1..3]
    <3>1. todo \in [Writer -> Seq(Write)] /\ step \in [Writer -> 1..3]
      BY <1>1 DEF TypeOK
    <3>2. PICK writes \in Seq(Write) : writes = [todo[w] EXCEPT ![1] = write]
      BY <2>6
    <3>3. todo' = [todo EXCEPT ![w] = writes]
      BY <2>5, <3>2
    <3>4. /\ todo'[w] = writes /\ todo' \in [Writer -> Seq(Write)]
          /\ \A x \in Writer \ {w} : todo'[x] = todo[x]
      BY <3>1, <3>3, Zenon
    <3>5. /\ step'[w] = 2 /\ step' \in [Writer -> 1..3]
          /\ \A x \in Writer \ {w} : step'[x] = step[x]
      BY <1>7, <3>1
    <3>6. QED
      BY <3>2, <3>4, <3>5, Zenon
  <2>8. ASSUME NEW x \in Writer PROVE Len(todo'[x]) <= 2 /\ (AtRest(x)' <=> todo'[x] = <<>>)
    BY <1>1, <1>7, <2>2, <2>6, <2>7 DEF TypeOK, AtRest
  <2>9. WriterTypes' /\ TypeOK'
    BY <1>1, <1>2, <1>7, <2>7, <2>8 DEF WriterTypes, TypeOK, PinTypes
  <2>10. WriterInv(w)'
    BY <1>1, <1>7, <2>1, <2>4, <2>6, <2>7 DEF WriterInv, Attribute, Text, AtRest
  <2>11. \A x \in Writer : WriterInv(x)'
    BY <1>1, <1>7, <2>7, <2>10, OthersStay DEF LedInv
  <2>12. QED
    BY <2>1, <2>9, <2>11, UncountedKeeps
<1>8. QED
  BY <1>1, <1>4, <1>5, <1>6, <1>7 DEF DirectionStore

LEMMA ValueKeeps ==
    ASSUME LedInv, NEW w \in Writer, ValueStore(w)
    PROVE  LedInv'
<1>1. /\ TypeOK /\ at[w] = "store" /\ Attribute(w) = "value" /\ Text(w) \in Value
      /\ last' = last /\ UNCHANGED <<requested, driver, group, _direct>>
      /\ WriterInv(w) /\ ~AtRest(w) /\ last[w] # "none"
  BY WrittenTexts DEF LedInv, ValueStore, WriterInv, AtRest
<1>2. TypeOK' <=> WriterTypes' /\ PinTypes' /\ _value' \in {"0", "1"}
  BY <1>1 DEF TypeOK, WriterTypes
<1>3. last[w] \in {"0", "1"} => Text(w) = last[w] /\ Done(w) = 2 + step[w]
  BY <1>1, DoneInStore
<1>4. CASE IgnoreValue(w)
  <2>1. last'[w] = "unknown"
    BY <1>1, <1>3, <1>4 DEF TypeOK, IgnoreValue
  <2>2. Return(w)
    BY <1>4 DEF IgnoreValue
  <2>3. WriterTypes' /\ WriterInv(w)'
    BY <1>1, <2>2, Returned, ReturnKeeps DEF WriterTypes
  <2>4. \A x \in Writer : WriterInv(x)'
    BY <1>1, <2>2, <2>3, Returned, OthersStay DEF LedInv
  <2>5. TypeOK'
    BY <1>1, <1>2, <1>4, <2>3 DEF IgnoreValue, TypeOK, PinTypes
  <2>6. QED
    BY <2>1, <2>4, <2>5, UncountedKeeps
<1>5. CASE /\ Text(w) # "5" /\ step[w] \in {1, 2}
           /\ SetValue(IF step[w] = 1 THEN LED_1 ELSE LED_2, Text(w) = "1")
           /\ StoreStep(w) /\ UNCHANGED _value
  <2>1. PICK pin \in {LED_1, LED_2} :
          pin = (IF step[w] = 1 THEN LED_1 ELSE LED_2) /\ SetValue(pin, Text(w) = "1")
    BY <1>5
  <2>2. oe' = oe /\ (Text(w) = "1" => dataout' = dataout \cup {pin})
        /\ (Text(w) # "1" => dataout' = dataout \ {pin})
    BY <2>1, LedsAreGpios DEF SetValue
  <2>3. PinTypes'
    BY <1>1, <2>2, LedsAreGpios DEF TypeOK, PinTypes
  <2>4. TypeOK'
    BY <1>1, <1>2, <1>5, <2>3, StoreStepMoves DEF TypeOK
  <2>5. ASSUME NEW option \in {"0", "1"}, NEW j \in Steps, last[w] = option, j = Done(w) + 1
        PROVE  /\ Effect(option, j)'
               /\ \A k \in Steps : k < j /\ Effect(option, k) => Effect(option, k)'
    <3>1. j \in {4, 5} /\ (j = 4 => pin = LED_1) /\ (j = 5 => pin = LED_2) /\ Text(w) = option
      BY <1>3, <1>5, <2>1, <2>5
    <3>2. option = "1" => dataout' = dataout \cup {pin}
      BY <2>2, <3>1
    <3>3. QED
      BY <1>1, <2>2, <3>1, <3>2, ValueEffect
  <2>6. QED
    BY <1>1, <1>5, <2>4, <2>5, StepCounts
<1>6. CASE /\ step[w] = 3 /\ StoreStep(w) /\ UNCHANGED <<oe, dataout>>
           /\ _value' = IF Text(w) = "junk" THEN _value ELSE Text(w)
  <2>1. Text(w) # "5"
    BY <1>1, <1>6 DEF WriterInv
  <2>2. TypeOK'
    BY <1>1, <1>2, <1>6, <2>1, StoreStepMoves DEF TypeOK, PinTypes, Value
  <2>3. ASSUME NEW option \in {"0", "1"}, NEW j \in Steps, last[w] = option, j = Done(w) + 1
        PROVE  /\ Effect(option, j)'
               /\ \A k \in Steps : k < j /\ Effect(option, k) => Effect(option, k)'
    <3>1. j = 6 /\ _value' = option
      BY <1>3, <1>6, <2>3
    <3>2. QED
      BY <1>1, <1>6, <3>1 DEF Effect, Steps
  <2>4. QED
    BY <1>1, <1>6, <2>1, <2>2, <2>3, StepCounts
<1>7. QED
  BY <1>4, <1>5, <1>6 DEF ValueStore

LEMMA LedInit == Init => LedInv
<1> SUFFICES ASSUME Init PROVE LedInv
  OBVIOUS
<1>1. TypeOK
  <2>1. PinTypes /\ _value \in {"0", "1"} /\ _direct \in Direction \cup {""}
    BY LedsAreGpios DEF Init, PinTypes
  <2>2. <<>> \in Seq(Write) /\ Len(<<>>) = 0
    BY EmptySeq
  <2>3. /\ at \in [Writer -> {"menu", "open", "store", "gone"}]
        /\ todo \in [Writer -> Seq(Write)] /\ step \in [Writer -> 1..3]
        /\ last \in [Writer -> {"0", "1", "none", "unknown"}]
    <3>1. todo \in [Writer -> Seq(Write)]
      BY <2>2, Zenon DEF Init
    <3>2. 1 \in 1..3
      OBVIOUS
    <3>3. /\ at \in [Writer -> {"menu", "open", "store", "gone"}]
          /\ step \in [Writer -> 1..3]
          /\ last \in [Writer -> {"0", "1", "none", "unknown"}]
      BY <3>2, Zenon DEF Init
    <3>4. QED
      BY <3>1, <3>3
  <2>4. ASSUME NEW w \in Writer
        PROVE  Len(todo[w]) <= 2 /\ (AtRest(w) <=> todo[w] = <<>>)
    <3>1. todo[w] = <<>> /\ at[w] = "menu"
      BY DEF Init
    <3>2. Len(todo[w]) = 0
      BY <2>2, <3>1, Zenon
    <3>3. QED
      BY <3>1, <3>2 DEF AtRest
  <2>5. QED
    BY <2>1, <2>3, <2>4 DEF Init, TypeOK
<1>2. ASSUME NEW w \in Writer PROVE WriterInv(w) /\ last[w] = "none"
  BY DEF Init, WriterInv, AtRest
<1>3. EffectsLast("0") /\ EffectsLast("1")
  BY <1>2 DEF EffectsLast
<1>4. QED
  BY <1>1, <1>2, <1>3 DEF LedInv

LEMMA LedStep == LedInv /\ [Next]_vars => LedInv'
<1> SUFFICES ASSUME LedInv, [Next]_vars PROVE LedInv'
  OBVIOUS
<1>1. CASE Driver
  BY <1>1, DriverKeeps
<1>2. CASE Echo
  BY <1>2, EchoKeeps
<1>3. ASSUME NEW p \in Program, Option(p) \/ Option99(p) PROVE LedInv'
  BY <1>3, OptionKeeps
<1>4. ASSUME NEW w \in Writer, WriterStep(w) PROVE LedInv'
  BY <1>4, OpenKeeps, DirectionKeeps, ValueKeeps DEF WriterStep
<1>5. CASE UNCHANGED vars
  <2>1. TypeOK'
    BY <1>5 DEF vars, pins, LedInv, TypeOK, PinTypes, AtRest
  <2>2. QED
    BY <1>5, <2>1, FrameKeeps DEF vars, pins, writers
<1>6. QED
  BY <1>1, <1>2, <1>3, <1>4, <1>5 DEF Next

\* Every variable has its type, whatever the shell writes: a text that the driver
\* ignores or cannot read never becomes the value.
THEOREM LedTypesHold == Spec => []TypeOK
<1>1. LedInv => TypeOK
  BY DEF LedInv
<1>2. QED
  BY <1>1, LedInit, LedStep, PTL DEF Spec

\* Whatever the number of programs and however their stores interleave: when all
\* rest and those whose choice still counts agree, the LEDs and both attributes
\* show that option.
THEOREM AgreedOptionHoldsAlways == Spec => []AgreedOptionHolds
<1>1. LedInv => AgreedOptionHolds
  <2> SUFFICES ASSUME LedInv, NEW option \in {"0", "1"}, \A w \in Writer : AtRest(w),
                      {last[w] : w \in Writer} \ {"none"} = {option}
               PROVE  /\ \A n \in {LED_1, LED_2} : Shows(n) = IF option = "1" THEN "HIGH" ELSE "in"
                      /\ _value = option
                      /\ _direct = IF option = "1" THEN "out" ELSE "in"
    BY DEF AgreedOptionHolds
  <2>1. Agreed(option) /\ \E w \in Writer : last[w] = option
    BY DEF Agreed
  <2>2. \A w \in Writer : Done(w) = 6
    BY DEF Done
  <2>3. ASSUME NEW k \in Steps PROVE Effect(option, k)
    BY <2>1, <2>2 DEF LedInv, EffectsLast, Steps
  <2>4. _direct = (IF option = "1" THEN "out" ELSE "in") /\ _value = option
    BY <2>3 DEF Effect, Steps
  <2>5. /\ LED_1 \in oe <=> option = "0"
        /\ LED_2 \in oe <=> option = "0"
        /\ option = "1" => LED_1 \in dataout /\ LED_2 \in dataout
    BY <2>3 DEF Effect, Steps
  <2>6. QED
    BY <2>4, <2>5 DEF Shows
<1>2. QED
  BY <1>1, LedInit, LedStep, PTL DEF Spec
=============================================================================
