-------------------------- MODULE GpioBoardProofs --------------------------
(***************************************************************************)
(* What the two drivers on one board keep, for any pins, banks, files and  *)
(* commands, and a table of any length: the types, the list of the pins    *)
(* that were set, and that a pin shows what it was asked to show.          *)
(***************************************************************************)
EXTENDS GpioBoard, TLAPS

\* The variables of one m_write
Local == [word : Word, slot : 0..(MAX_GPIOS - 1), wish : Word]

\* A text over another is a text, word by word (copy_from_user, sscanf).
LEMMA OverIsWord ==
  ASSUME NEW new \in Word, NEW old \in Word
  PROVE  /\ Over(new, old) \in Word
         /\ Over(new, old).pin = IF new.pin = Missing THEN old.pin ELSE new.pin
         /\ Over(new, old).mode = IF new.mode = Missing THEN old.mode ELSE new.mode
         /\ Over(new, old).value = IF new.value = Missing THEN old.value ELSE new.value
<1>1. DOMAIN new = {"pin", "mode", "value"}
  BY DEF Word
<1>2. Over(new, old) = [pin |-> Over(new, old).pin, mode |-> Over(new, old).mode, value |-> Over(new, old).value]
  BY <1>1 DEF Over
<1>3. /\ Over(new, old).pin = IF new.pin = Missing THEN old.pin ELSE new.pin
      /\ Over(new, old).mode = IF new.mode = Missing THEN old.mode ELSE new.mode
      /\ Over(new, old).value = IF new.value = Missing THEN old.value ELSE new.value
  BY <1>1 DEF Over
<1>4. QED
  BY <1>2, <1>3 DEF Word

\* Over a buffer that was cleared it is itself.
LEMMA OverBlank ==
  ASSUME NEW new \in Word
  PROVE  Over(new, Blank) = new
<1>1. DOMAIN new = {"pin", "mode", "value"}
  BY DEF Word
<1>2. QED
  BY <1>1 DEF Over, Blank, Word

-----------------------------------------------------------------------------
(* Types *)

\* A write that is under way is counted: the offset grows no further than writes.
Counted ==
    /\ size <= writes
    /\ \A f \in File : offset[f] <= writes /\ (Writing(f) => offset[f] < writes)

\* What was loaded is of the bank that is stored to next.
Loaded == reg # <<>> => todo # <<>> /\ reg[1] \subseteq BankOf(Head(todo)[2])

\* Only complete commands are kept as wishes, and what was parsed has a pin.
Parsed(f) == call[f] \in {"direct", "value", "check", "record"}
Wished == \A f \in File :
    /\ local[f].wish # Blank => Complete(local[f].wish)
    /\ Parsed(f) => local[f].word.pin # Missing

TypeInv == TypeOK /\ Counted /\ Loaded /\ Wished

\* What m_write does to its variables leaves them variables of m_write.
LEMMA LocalChanges ==
  ASSUME local \in [File -> Local], NEW f \in File, NEW w \in Word, NEW s \in 0..(MAX_GPIOS - 1)
  PROVE  /\ Blank \in Word /\ Unset \in Local
         /\ Unset.wish = Blank
         /\ [local EXCEPT ![f] = Unset] \in [File -> Local]
         /\ [local EXCEPT ![f].word = w] \in [File -> Local]
         /\ [local EXCEPT ![f].slot = s] \in [File -> Local]
<1>1. Blank \in Word
  BY DEF Blank, Word
<1>2. Unset \in Local /\ Unset.wish = Blank
  BY <1>1, NumbersAndWords DEF Unset, Local
<1>3. QED
  BY <1>1, <1>2 DEF Local

\* The registers hold bits of pins, whatever the driver does to them.
LEMMA DriverPins ==
  ASSUME TypeInv, DeviceNext
  PROVE  oe' \subseteq Pin /\ dataout' \subseteq Pin
<1> oe \subseteq Pin /\ dataout \subseteq Pin /\ requested \subseteq Pin
  BY DEF TypeInv, TypeOK, BoardTypes, PinTypes
<1>1. CASE Module
  <2>1. CASE ExitFrees
    BY <2>1 DEF ExitFrees, FreeGpio
  <2>2. CASE ~ ExitFrees
    BY <1>1, <2>2 DEF Module, Registers, CdevAddFails, Kmalloc, KmallocFails, Rmmod, ExitEnds, board, pins
  <2>3. QED
    BY <2>1, <2>2
<1>2. ASSUME NEW f \in File, SystemCall(f) PROVE oe' \subseteq Pin /\ dataout' \subseteq Pin
  <2>1. CASE Direct(f)
    BY <2>1 DEF Direct, DirectionInput, DirectionOutput
  <2>2. CASE Value(f)
    BY <2>2 DEF Value, SetValue
  <2>3. CASE ~ Direct(f) /\ ~ Value(f)
    <3>1. UNCHANGED <<oe, dataout>>
      <4>1. CASE MOpen(f) \/ MClose(f) \/ MRead(f) \/ MWrite(f)
        BY <4>1 DEF MOpen, MClose, MRead, MWrite, board, pins
      <4>2. CASE Clear(f) \/ Copy(f) \/ CopyFails(f) \/ Parse(f)
        BY <4>2 DEF Clear, Copy, CopyFails, Parse, board, pins
      <4>3. CASE Invalid(f) \/ Check(f) \/ Record(f)
        BY <4>3 DEF Invalid, Check, LoadCount, Record, RecordAt, board, pins
      <4>4. QED
        BY <1>2, <2>3, <4>1, <4>2, <4>3 DEF SystemCall, MWriteStep
    <3>2. QED
      BY <3>1
  <2>4. QED
    BY <2>1, <2>2, <2>3
<1>3. QED
  BY <1>1, <1>2 DEF DeviceNext

\* Every step of the driver keeps the types.
LEMMA DriverTypes ==
  ASSUME TypeInv, DeviceNext, Touch, UNCHANGED <<todo, loaded, reg>>
  PROVE  TypeInv'
<1> USE NumbersAndWords, CommandsAreWords, GarbageIsThere, LedsAreGpios, UsersAreDistinct
<1> USE DEF TypeInv, TypeOK, DeviceTypes, Counted, Wished, board, pins
<1> local \in [File -> Local]
  BY DEF Local
<1>1. LedTypes' /\ Loaded'
  <2>1. touched' \subseteq Pin
    BY DriverPins DEF Touch, Differ, LedTypes, BoardTypes, PinTypes
  <2>2. QED
    BY <2>1 DEF LedTypes, Loaded, BankOf
<1>2. CASE Module
  <2> USE DEF BoardTypes, PinTypes, files, Writing, Parsed, Complete
  <2>1. CASE Registers
    <3>1. module' \in {"region", "cdev", "class", "device"} /\ made' \subseteq {"region", "cdev", "class", "node"}
      <4>1. \A x \in {made} \cup {made \cup {"node"} : c \in made \cap {"class"}} : x \subseteq made \cup {"node"}
        OBVIOUS
      <4>2. \A x \in {made, made \cup {"class"}} : x \subseteq made \cup {"class"}
        OBVIOUS
      <4>3. QED
        BY <2>1, <4>1, <4>2 DEF Registers
    <3>2. QED
      BY <2>1, <3>1, <1>1 DEF Registers
  <2>2. CASE CdevAddFails
    BY <2>2, <1>1 DEF CdevAddFails
  <2>3. CASE Kmalloc
    BY <2>3, <1>1 DEF Kmalloc
  <2>4. CASE KmallocFails
    BY <2>4, <1>1 DEF KmallocFails
  <2>5. CASE Rmmod
    BY <2>5, <1>1 DEF Rmmod
  <2>6. CASE ExitFrees
    BY <2>6, <1>1 DEF ExitFrees, FreeGpio, Forget, device
  <2>7. CASE ExitEnds
    <3>1. Blank \in Word
      BY DEF Blank, Word
    <3>2. module' \in {"absent", "oops"} /\ made' \subseteq {"region", "cdev", "class", "node"}
      BY <2>7 DEF ExitEnds
    <3>3. QED
      BY <2>7, <3>1, <3>2, <1>1 DEF ExitEnds
  <2>8. QED
    BY <1>2, <2>1, <2>2, <2>3, <2>4, <2>5, <2>6, <2>7 DEF Module
<1>3. ASSUME NEW f \in File, SystemCall(f) PROVE TypeInv'
  <2> USE DEF loading, table
  <2>1. CASE MOpen(f)
    BY <2>1, <1>1 DEF MOpen, Goto, BoardTypes, PinTypes, Writing, Parsed, Complete
  <2>2. CASE MClose(f)
    BY <2>2, <1>1 DEF MClose, Goto, BoardTypes, PinTypes, Writing, Parsed, Complete
  <2>3. CASE MRead(f)
    BY <2>3, <1>1 DEF MRead, BoardTypes, PinTypes, Writing, Parsed, Complete
  <2>4. CASE MWrite(f)
    <3> DEFINE wished(c) == IF ~Complete(c) \/ offset[f] > 0 \/ \E h \in File : Writing(h)
                            THEN Blank ELSE c
               fresh(c) == [word |-> c, slot |-> 0, wish |-> wished(c)]
    <3>0. /\ writes < MaxWrites /\ writes' = writes + 1
          /\ call' = [call EXCEPT ![f] = "clear"]
          /\ UNCHANGED <<loading, buffer, table, offset, owed, board>>
      BY <2>4 DEF MWrite, Goto
    <3>1. PICK c \in Command :
            local' = [g \in File |-> IF g # f THEN [local[g] EXCEPT !.wish = Blank] ELSE fresh(c)]
      BY <2>4 DEF MWrite
    <3>2. c \in Word /\ Blank \in Word
      BY DEF Blank, Word
    <3>3. fresh(c) \in Local
      <4>1. wished(c) \in Word
        BY <3>2
      <4> HIDE DEF wished
      <4>2. QED
        BY <3>2, <4>1 DEF Local
    <3>4. \A g \in File : [local[g] EXCEPT !.wish = Blank] \in Local
      BY <3>2 DEF Local
    <3>5. fresh(c).wish # Blank => Complete(fresh(c).wish)
      BY <3>2
    <3>6. \A g \in File : [local[g] EXCEPT !.wish = Blank].wish = Blank
      BY DEF Local
    <3> HIDE DEF fresh
    <3>7. local' \in [File -> Local]
      BY <3>1, <3>3, <3>4
    <3>8. Wished'
      <4>1. \A g \in File : local'[g].wish # Blank => Complete(local'[g].wish)
        BY <3>1, <3>5, <3>6
      <4>2. \A g \in File : Parsed(g)' => g # f /\ Parsed(g)
        BY <3>0 DEF Parsed
      <4>3. \A g \in File : g # f => local'[g].word = local[g].word
        BY <3>1 DEF Local
      <4>4. QED
        BY <4>1, <4>2, <4>3 DEF Complete
    <3>9. Counted'
      BY <3>0 DEF Writing
    <3>10. call' \in [File -> {"closed", "idle", "clear", "copy", "parse", "direct",
                               "value", "check", "record", "oops"}]
      BY <3>0
    <3>11. QED
      BY <3>0, <1>1, <3>7, <3>8, <3>9, <3>10 DEF BoardTypes, PinTypes, Local
  <2>5. CASE Clear(f)
    <3>1. local' \in [File -> Local] /\ buffer' \in Word
      <4>1. Blank \in Word /\ [local EXCEPT ![f] = Unset] \in [File -> Local]
        BY LocalChanges
      <4>2. local' \in {local, [local EXCEPT ![f] = Unset]} /\ buffer' \in {buffer, Blank}
        BY <2>5 DEF Clear
      <4>3. QED
        BY <4>1, <4>2
    <3>2. Wished'
      BY <2>5, LocalChanges DEF Clear, Goto, Parsed, Complete
    <3>3. QED
      BY <2>5, <1>1, <3>1, <3>2 DEF Clear, Goto, BoardTypes, PinTypes, Writing, Local, Parsed, Complete
  <2>6. CASE Copy(f)
    <3>1. buffer' \in Word
      BY <2>6, OverIsWord DEF Copy, Local
    <3>2. local' \in [File -> Local]
      BY <2>6, LocalChanges DEF Copy
    <3>3. QED
      BY <2>6, <1>1, <3>1, <3>2 DEF Copy, Goto, BoardTypes, PinTypes, Writing, Local, Parsed, Complete
  <2>7. CASE CopyFails(f)
    <3>1. local' \in [File -> Local] /\ Wished'
      BY <2>7, LocalChanges DEF CopyFails, Return, Goto, Parsed, Complete
    <3>2. QED
      BY <2>7, <1>1, <3>1 DEF CopyFails, Return, Goto, BoardTypes, PinTypes, Writing, Local, Parsed, Complete
  <2>8. CASE Parse(f)
    <3>1. PICK stack \in Garbage : local' = [local EXCEPT ![f].word = Over(buffer, stack)]
      BY <2>8 DEF Parse
    <3>2. Over(buffer, stack) \in Word
      BY OverIsWord
    <3> Over(buffer, stack).pin # Missing
      BY OverIsWord DEF Word
    <3>3. local' \in [File -> Local]
      BY <3>1, <3>2, LocalChanges
    <3>4. Wished'
      BY <2>8, <3>1, <3>2 DEF Parse, Goto, Parsed, Complete, Local
    <3>5. QED
      BY <2>8, <1>1, <3>3, <3>4 DEF Parse, Goto, BoardTypes, PinTypes, Writing, Local
  <2>9. CASE Direct(f)
    BY <2>9, <1>1 DEF Direct, Goto, Claim, DirectionInput, DirectionOutput, BoardTypes, PinTypes, Writing, Parsed, Complete
  <2>10. CASE Value(f)
    BY <2>10, <1>1 DEF Value, Goto, KeepClaim, SetValue, BoardTypes, PinTypes, Writing, Parsed, Complete
  <2>11. CASE Invalid(f)
    <3>1. local' \in [File -> Local] /\ Wished'
      BY <2>11, LocalChanges DEF Invalid, Return, Goto, Parsed, Complete
    <3>2. QED
      BY <2>11, <1>1, <3>1 DEF Invalid, Return, Goto, BoardTypes, PinTypes, Writing, Local, Parsed, Complete
  <2>12. CASE Check(f)
    <3>1. local' \in [File -> Local]
      <4>1. gpio_count \in 0..(MAX_GPIOS - 1)
        BY <2>12 DEF Check
      <4>2. QED
        BY <2>12, <4>1, LocalChanges DEF Check, LoadCount
    <3>2. QED
      BY <2>12, <1>1, <3>1 DEF Check, LoadCount, Goto, BoardTypes, PinTypes, Writing, Local, Parsed, Complete
  <2>13. CASE Record(f)
    <3>1. local[f] \in Local /\ local[f].slot \in 0..(MAX_GPIOS - 1)
      BY DEF Local
    <3>2. local[f].word.pin \in Pin \cup {NoGpio}
      BY <2>13, <3>1 DEF Record, RecordAt, Parsed, Local, Word
    <3>3. local[f].wish # Blank => local[f].wish.pin \in Pin /\ Wish(local[f].wish) \in Level
      BY DEF Complete, Wish, Level
    <3>4. local' \in [File -> Local]
      BY <2>13, LocalChanges DEF Record, RecordAt, Return
    <3>5. owed' \subseteq Pin
      BY <2>13, <3>3 DEF Record, RecordAt
    <3>6. DeviceTypes' /\ Counted'
      BY <2>13, <3>1, <3>2, <3>4, <3>5 DEF Record, RecordAt, Return, Goto, Writing, Local
    <3>7. asked' \in [Pin -> Level \cup {"anything"} \cup User]
      <4>1. CASE local[f].wish = Blank
        BY <2>13, <4>1 DEF Record, RecordAt, BoardTypes
      <4>2. CASE local[f].wish # Blank
        BY <2>13, <3>3, <4>2 DEF Record, RecordAt, Fulfil, BoardTypes
      <4>3. QED
        BY <4>1, <4>2
    <3>8. BoardTypes'
      BY <2>13, <3>7 DEF Record, RecordAt, BoardTypes, PinTypes
    <3>9. Wished'
      BY <2>13, LocalChanges DEF Record, RecordAt, Return, Goto, Parsed, Complete
    <3>10. QED
      BY <1>1, <3>6, <3>8, <3>9
  <2>14. QED
    BY <1>3, <2>1, <2>2, <2>3, <2>4, <2>5, <2>6, <2>7, <2>8, <2>9, <2>10, <2>11, <2>12, <2>13
       DEF SystemCall, MWriteStep
<1>4. QED
  BY <1>2, <1>3 DEF DeviceNext

\* So does every step of the ioremap module.
LEMMA LedTypesStay ==
  ASSUME TypeInv, LedNext, UNCHANGED device
  PROVE  TypeInv'
<1> USE LedsAreGpios, UsersAreDistinct DEF TypeInv, TypeOK, LedTypes, Loaded, board, pins
<1>1. DeviceTypes' /\ Counted' /\ Wished'
  BY DEF device, DeviceTypes, Counted, Wished, Writing, Parsed, Complete
<1>2. CASE LedInit
  <2>1. todo' = LedInitStores /\ UNCHANGED <<reg, touched, board>> /\ loaded' = "yes" /\ reg = <<>>
    BY <1>2 DEF LedInit
  <2>2. LedInitStores \in Seq({"OE", "SET", "CLEAR"} \X {LED_1, LED_2}) /\ Len(LedInitStores) = 4
    BY DEF LedInitStores
  <2>3. QED
    BY <1>1, <2>1, <2>2 DEF BoardTypes, PinTypes
<1>3. CASE LedExit
  <2>1. todo' = LedExitStores /\ UNCHANGED <<reg, touched, board>> /\ loaded' = "gone" /\ reg = <<>>
    BY <1>3 DEF LedExit
  <2>2. LedExitStores \in Seq({"OE", "SET", "CLEAR"} \X {LED_1, LED_2}) /\ Len(LedExitStores) = 2
    BY DEF LedExitStores
  <2>3. QED
    BY <1>1, <2>1, <2>2 DEF BoardTypes, PinTypes
<1>4. CASE Load
  <2> DEFINE bits == Content(Head(todo)[1], Head(todo)[2])
  <2>1. todo # <<>> /\ reg' = <<bits>> /\ touched' = {} /\ UNCHANGED <<todo, loaded, board>>
    BY <1>4 DEF Load
  <2>2. bits \subseteq BankOf(Head(todo)[2]) /\ BankOf(Head(todo)[2]) \subseteq Pin
    BY DEF Content, BankOf
  <2>3. bits \in SUBSET Pin
    BY <2>2
  <2> HIDE DEF bits
  <2>4. reg' \in Seq(SUBSET Pin) /\ Len(reg') = 1 /\ reg'[1] = bits
    BY <2>1, <2>3
  <2>5. Loaded'
    BY <2>1, <2>2, <2>4 DEF BankOf
  <2>6. QED
    BY <1>1, <2>1, <2>4, <2>5 DEF BoardTypes, PinTypes
<1>5. CASE Store
  <2>1. PICK n \in {LED_1, LED_2} : n = Head(todo)[2] /\ (StoreOe(n) \/ StoreSet(n) \/ StoreClear(n))
    <3>1. Head(todo) \in {"OE", "SET", "CLEAR"} \X {LED_1, LED_2}
      BY <1>5 DEF Store
    <3>2. QED
      BY <1>5, <3>1 DEF Store
  <2>2. /\ todo # <<>> /\ reg # <<>> /\ todo' = Tail(todo) /\ reg' = <<>> /\ touched' = {}
        /\ UNCHANGED <<loaded, requested>>
    BY <1>5 DEF Store
  <2>3. todo' \in Seq({"OE", "SET", "CLEAR"} \X {LED_1, LED_2}) /\ Len(todo') <= 4
    BY <2>2
  <2>4. reg[1] \subseteq BankOf(n) /\ BankOf(n) \subseteq Pin
    BY <2>1, <2>2 DEF BankOf
  <2>5. asked' \in [Pin -> Level \cup {"anything"} \cup User]
    BY <2>1 DEF StoreOe, StoreBits, StoreSet, StoreClear, Obey, BoardTypes, Level
  <2>6. oe' \subseteq Pin /\ dataout' \subseteq Pin
    BY <2>1, <2>4 DEF StoreOe, StoreBits, StoreSet, StoreClear, BoardTypes, PinTypes
  <2>7. QED
    BY <1>1, <2>2, <2>3, <2>5, <2>6 DEF BoardTypes, PinTypes
<1>6. QED
  BY <1>2, <1>3, <1>4, <1>5 DEF LedNext

\* The types hold at all times.
LEMMA TypesHold == Spec => []TypeInv
<1>1. Init => TypeInv
  <2> SUFFICES ASSUME Init PROVE TypeInv
    OBVIOUS
  <2> USE NumbersAndWords, LedsAreGpios, UsersAreDistinct DEF Init, DeviceInit, LedStart
  <2>1. Blank \in Word /\ Unset \in Local /\ Unset.wish = Blank
    <3>1. Blank \in Word
      BY DEF Blank, Word
    <3>2. QED
      BY <3>1 DEF Unset, Local
  <2>2. DeviceTypes
    BY <2>1 DEF DeviceTypes, Local
  <2>3. Counted /\ Wished
    BY <2>1 DEF Counted, Wished, Writing, Parsed
  <2>4. BoardTypes /\ LedTypes /\ Loaded
    BY DEF BoardTypes, PinTypes, LedTypes, Loaded
  <2>5. QED
    BY <2>2, <2>3, <2>4 DEF TypeInv, TypeOK
<1>2. TypeInv /\ [Next]_vars => TypeInv'
  <2>1. TypeInv /\ UNCHANGED vars => TypeInv'
    BY DEF vars, board, pins, device, led, TypeInv, TypeOK, BoardTypes, PinTypes, DeviceTypes, LedTypes,
           Counted, Wished, Loaded, Writing, Parsed, Complete, BankOf
  <2>2. QED
    BY <2>1, DriverTypes, LedTypesStay DEF Next
<1>3. QED
  BY <1>1, <1>2, PTL DEF Spec

\* Every variable keeps its type, for any pins, files and commands, a table of any
\* length and stale values on the stack: gpio_count never passes MAX_GPIOS, also
\* where writers interleave between the test of gpio_count and its use.
THEOREM Typing == Spec => []TypeOK
<1>1. TypeInv => TypeOK
  BY DEF TypeInv
<1>2. QED
  BY <1>1, TypesHold, PTL

-----------------------------------------------------------------------------
(* Commands that are written while no other is *)

\* Such a command is the only one under way, and what it says is found on
\* its way through the buffer into the variables of m_write.
Wishes(f) == local[f].wish # Blank
Alone(f) ==
    /\ Writing(f) /\ \A g \in File : Writing(g) => g = f
    /\ call[f] \in {"clear", "copy"} => local[f].word = local[f].wish /\ offset[f] = 0
    /\ call[f] = "copy" => buffer = Blank
    /\ call[f] = "parse" => buffer = local[f].wish
    /\ Parsed(f) => /\ local[f].word.pin = local[f].wish.pin
                    /\ local[f].word.mode = local[f].wish.mode
                    /\ local[f].wish.mode = "out" => local[f].word.value = local[f].wish.value

\* The entries below the one that f is about to write
Below(f) == {gpio_list[k] : k \in {j \in DOMAIN gpio_list : j < local[f].slot}}

\* What a writer is about to overwrite holds nothing that is owed, wherever
\* gpio_count has gone since it was loaded.
Kept == /\ owed \subseteq Listed
        /\ \A f \in File : call[f] = "record" => owed \subseteq Below(f)

\* While the driver is on its way out no call is in it.
Quiet == module = "exit" => \A f \in File : call[f] = "closed"

AloneInv == (\A f \in File : Wishes(f) => Alone(f)) /\ Kept /\ Quiet

\* A step of one writer leaves no other with a command that is alone.
LEMMA OthersStayAlone ==
  ASSUME TypeInv, AloneInv, NEW f \in File, Writing(f),
         \A g \in File : g # f => call'[g] = call[g] /\ local'[g] = local[g]
  PROVE  \A g \in File : g # f => ~(local'[g].wish # Blank)
<1>1. \A g \in File : Wishes(g) => g = f
  BY DEF AloneInv, Alone
<1>2. QED
  BY <1>1 DEF Wishes

\* What is owed stays listed by steps that leave gpio_list and gpio_count alone.
LEMMA KeptStays ==
  ASSUME Kept, UNCHANGED <<gpio_list, gpio_count, owed>>,
         \A f \in File : call'[f] = "record" => call[f] = "record" /\ local'[f].slot = local[f].slot
  PROVE  Kept'
BY DEF Kept, Listed, Below

\* Every step of the driver keeps commands that are alone, and what is owed.
LEMMA AloneStays ==
  ASSUME TypeInv, AloneInv, DeviceNext
  PROVE  AloneInv'
<1> USE NumbersAndWords
<1> local \in [File -> Local] /\ call \in [File -> {"closed", "idle", "clear", "copy", "parse", "direct",
                          "value", "check", "record", "oops"}]
  BY DEF TypeInv, TypeOK, DeviceTypes, Local
<1>1. CASE Module
  <2>1. CASE ExitEnds
    <3>1. /\ gpio_list' = [i \in DOMAIN gpio_list |-> NoGpio] /\ owed' = {} /\ UNCHANGED <<call, local, offset>>
          /\ module' # "exit" /\ module = "exit"
      BY <2>1 DEF ExitEnds
    <3>2. \A f \in File : call[f] = "closed" /\ ~Wishes(f)
      BY <3>1 DEF AloneInv, Quiet, Alone, Writing
    <3>3. Kept'
      BY <3>1 DEF Kept
    <3>4. QED
      BY <3>1, <3>2, <3>3 DEF AloneInv, Wishes, Quiet
  <2>2. CASE ~ExitEnds
    <3>1. UNCHANGED files /\ (module' = "exit" => \A f \in File : call[f] = "closed")
      BY <1>1, <2>2 DEF Module, Registers, CdevAddFails, Kmalloc, KmallocFails, Rmmod, ExitFrees, device,
         files, AloneInv, Quiet
    <3>2. Kept'
      BY <3>1 DEF AloneInv, Kept, Listed, Below, files
    <3>3. QED
      BY <3>1, <3>2 DEF AloneInv, files, Wishes, Alone, Writing, Parsed, Quiet
  <2>3. QED
    BY <2>1, <2>2
<1>2. ASSUME NEW f \in File, SystemCall(f) PROVE AloneInv'
  <2>1. Quiet'
    BY <1>2 DEF SystemCall, MOpen, MClose, MRead, MWrite, MWriteStep, Clear, Copy, CopyFails, Parse, Direct,
       Value, Invalid, Check, LoadCount, Record, RecordAt, loading, AloneInv, Quiet, Goto, Return, Writing
  <2>2. CASE MOpen(f) \/ MClose(f) \/ MRead(f)
    <3>1. /\ UNCHANGED <<buffer, gpio_list, gpio_count, local, owed>>
          /\ call[f] \in {"closed", "idle"}
          /\ call' \in {call, [call EXCEPT ![f] = "idle"], [call EXCEPT ![f] = "closed"]}
          /\ \A g \in File : g # f => offset'[g] = offset[g]
      BY <2>2 DEF MOpen, MClose, MRead, Goto, table, TypeInv, TypeOK, DeviceTypes
    <3>2. Kept'
      BY <3>1, KeptStays DEF AloneInv
    <3>3. \A g \in File : Wishes(g)' => Alone(g)'
      BY <3>1 DEF AloneInv, Alone, Wishes, Writing, Parsed
    <3>4. QED
      BY <2>1, <3>2, <3>3 DEF AloneInv
  <2>3. CASE MWrite(f)
    <3>1. PICK c \in Command :
            local' = [g \in File |-> IF g # f THEN [local[g] EXCEPT !.wish = Blank]
                                     ELSE [word |-> c, slot |-> 0,
                                           wish |-> IF ~Complete(c) \/ offset[f] > 0 \/ \E h \in File : Writing(h)
                                                    THEN Blank ELSE c]]
      BY <2>3 DEF MWrite
    <3>2. /\ call[f] = "idle" /\ call' = [call EXCEPT ![f] = "clear"]
          /\ UNCHANGED <<buffer, gpio_list, gpio_count, owed, offset>>
      BY <2>3 DEF MWrite, Goto, table
    <3>3. \A g \in File : g # f => local'[g].wish = Blank /\ local'[g].slot = local[g].slot
      BY <3>1 DEF Local
    <3>4. local'[f].wish # Blank => /\ \A h \in File : ~Writing(h)
                                    /\ ~(offset[f] > 0) /\ local'[f].word = local'[f].wish
      BY <3>1
    <3>5. offset[f] \in Nat
      BY DEF TypeInv, TypeOK, DeviceTypes
    <3>6. Kept'
      BY <3>2, <3>3, KeptStays DEF AloneInv
    <3>7. \A g \in File : Wishes(g)' => Alone(g)'
      BY <3>2, <3>3, <3>4, <3>5 DEF Wishes, Alone, Writing, Parsed
    <3>8. QED
      BY <2>1, <3>6, <3>7 DEF AloneInv
  <2>4. CASE MWriteStep(f)
    <3>1. Writing(f) /\ \A g \in File : g # f => call'[g] = call[g] /\ local'[g] = local[g]
      BY <2>4 DEF MWriteStep, Writing, Clear, Copy, CopyFails, Parse, Direct,
       Value, Invalid, Check, LoadCount, Record, RecordAt, Goto, Return
    <3>2. \A g \in File : g # f => ~Wishes(g)'
      BY <3>1, OthersStayAlone DEF Wishes
    <3>3. Wishes(f) => \A g \in File : Writing(g) => g = f
      BY DEF AloneInv, Alone
    <3>4. CASE CopyFails(f) \/ Invalid(f)
      <4>1. /\ local' = [local EXCEPT ![f] = Unset] /\ call' = [call EXCEPT ![f] = "idle"]
            /\ UNCHANGED <<gpio_list, gpio_count, owed>>
        BY <3>4 DEF CopyFails, Invalid, Return, Goto, table
      <4>2. ~Wishes(f)'
        BY <4>1 DEF Wishes, Unset
      <4>3. Kept'
        BY <4>1, <3>1, KeptStays DEF AloneInv
      <4>4. QED
        BY <2>1, <3>2, <4>2, <4>3 DEF AloneInv
    <3>5. CASE Clear(f) \/ Copy(f) \/ Parse(f) \/ Direct(f) \/ Value(f)
      <4>1. UNCHANGED <<gpio_list, gpio_count, owed, offset>> /\ call'[f] # "record"
        BY <3>5 DEF Clear, Copy, Parse, Direct, Value, Goto, table
      <4>2. Kept'
        BY <4>1, <3>1, KeptStays DEF AloneInv
      <4>3. ASSUME Wishes(f)' PROVE Alone(f)'
        <5> local[f].wish \in Word /\ local[f].word \in Word /\ buffer \in Word
          BY DEF Local, TypeInv, TypeOK, DeviceTypes
        <5>1. CASE Clear(f)
          <6>1. kmalloc_ptr = "held"
            BY <4>3, <5>1 DEF Clear, Wishes, Unset
          <6>2. call[f] = "clear" /\ call' = [call EXCEPT ![f] = "copy"] /\ buffer' = Blank /\ UNCHANGED <<local, offset>>
            BY <5>1, <6>1, <4>1 DEF Clear, Goto
          <6>3. Wishes(f) /\ Alone(f)
            BY <4>3, <6>2 DEF Wishes, AloneInv
          <6>4. QED
            BY <3>1, <3>3, <6>2, <6>3 DEF Alone, Writing, Parsed
        <5>2. CASE Copy(f)
          <6>1. Wishes(f) /\ local'[f].wish = local[f].wish
            BY <4>3, <5>2 DEF Copy, Wishes, Local
          <6>2. buffer' = local[f].wish
            BY <5>2, <6>1, OverBlank DEF Copy, AloneInv, Alone
          <6>3. QED
            BY <3>1, <3>3, <5>2, <6>1, <6>2 DEF Copy, Goto, Alone, Writing, Parsed
        <5>3. CASE Parse(f)
          <6>1. PICK stack \in Garbage : local' = [local EXCEPT ![f].word = Over(buffer, stack)]
            BY <5>3 DEF Parse
          <6>2. local'[f].word = Over(buffer, stack) /\ local'[f].wish = local[f].wish /\ Wishes(f)
            BY <4>3, <6>1 DEF Wishes, Local
          <6>3. buffer = local[f].wish /\ Complete(buffer)
            BY <5>3, <6>2 DEF AloneInv, Alone, Parse, TypeInv, Wished, Wishes
          <6>4. /\ local'[f].word.pin = local[f].wish.pin
                /\ local'[f].word.mode = local[f].wish.mode
                /\ local[f].wish.mode = "out" => local'[f].word.value = local[f].wish.value
            BY <6>2, <6>3, OverIsWord, GarbageIsThere DEF Complete
          <6>5. QED
            BY <3>1, <3>3, <5>3, <6>2, <6>4 DEF Parse, Goto, Alone, Writing, Parsed
        <5>4. CASE Direct(f) \/ Value(f)
          BY <3>1, <3>3, <4>3, <5>4 DEF Direct, Value, Goto, AloneInv, Alone, Wishes, Writing, Parsed
        <5>5. QED
          BY <3>5, <5>1, <5>2, <5>3, <5>4
      <4>4. QED
        BY <2>1, <3>2, <4>2, <4>3 DEF AloneInv
    <3>6. CASE Check(f)
      <4>1. /\ gpio_count < MAX_GPIOS /\ call[f] = "check" /\ call' = [call EXCEPT ![f] = "record"]
            /\ local' = [local EXCEPT ![f].slot = gpio_count]
            /\ UNCHANGED <<gpio_list, gpio_count, owed, offset, buffer>>
        BY <3>6 DEF Check, LoadCount, Goto, table
      <4>2. local'[f].slot = gpio_count /\ local'[f].word = local[f].word /\ local'[f].wish = local[f].wish
        BY <4>1 DEF Local
      <4>3. Kept'
        BY <3>1, <4>1, <4>2 DEF AloneInv, Kept, Listed, Below
      <4>4. Wishes(f)' => Alone(f)'
        BY <3>1, <3>3, <4>1, <4>2 DEF AloneInv, Alone, Wishes, Writing, Parsed
      <4>5. QED
        BY <2>1, <3>2, <4>3, <4>4 DEF AloneInv
    <3>7. CASE Record(f)
      <4> DEFINE s == local[f].slot
                 pin == local[f].word.pin
      <4>1. /\ call[f] = "record" /\ gpio_list' = [gpio_list EXCEPT ![s] = pin] /\ gpio_count' = s + 1
            /\ local' = [local EXCEPT ![f] = Unset] /\ call' = [call EXCEPT ![f] = "idle"]
            /\ owed' = IF Wishes(f) THEN owed \cup {local[f].wish.pin} ELSE owed
        BY <3>7 DEF Record, RecordAt, Return, Goto, Wishes
      <4>2. s \in 0..(MAX_GPIOS - 1) /\ gpio_list \in [0..(MAX_GPIOS - 1) -> Pin \cup {NoGpio}]
        BY DEF Local, TypeInv, TypeOK, DeviceTypes
      <4>3. Wishes(f) => local[f].wish.pin = pin
        BY <4>1 DEF AloneInv, Alone, Parsed
      <4>4. owed \subseteq Below(f)
        BY <4>1 DEF AloneInv, Kept
      <4>5. Listed' = Below(f) \cup {pin}
        <5>1. Listed' = {gpio_list'[k] : k \in {j \in 0..(MAX_GPIOS - 1) : j < s + 1}}
          BY <4>1, <4>2 DEF Listed
        <5>2. Below(f) = {gpio_list[k] : k \in {j \in 0..(MAX_GPIOS - 1) : j < s}}
          BY <4>2 DEF Below
        <5>3. \A k \in 0..(MAX_GPIOS - 1) : (k < s => gpio_list'[k] = gpio_list[k]) /\ (k = s => gpio_list'[k] = pin)
          BY <4>1, <4>2
        <5> HIDE DEF s, pin
        <5>4. QED
          BY <4>2, <5>1, <5>2, <5>3
      <4>6. ASSUME NEW g \in File, call'[g] = "record" PROVE owed' \subseteq Below(g)'
        <5>1. g # f /\ call[g] = "record" /\ local'[g] = local[g]
          BY <4>1, <4>6
        <5>2. ~Wishes(f) /\ owed \subseteq Below(g)
          BY <3>3, <5>1 DEF AloneInv, Kept, Writing
        <5>3. local[g].slot \in 0..(MAX_GPIOS - 1)
          BY DEF Local
        <5>4. CASE local[g].slot <= s
          <6>1. Below(g)' = Below(g)
            BY <4>1, <4>2, <5>1, <5>3, <5>4 DEF Below
          <6>2. QED
            BY <4>1, <5>2, <6>1
        <5>5. CASE s < local[g].slot
          <6>1. Below(f) \subseteq Below(g)'
            BY <4>1, <4>2, <5>1, <5>3, <5>5 DEF Below
          <6>2. QED
            BY <4>1, <4>4, <5>2, <6>1
        <5>6. QED
          BY <4>2, <5>3, <5>4, <5>5
      <4>7. Kept'
        BY <4>1, <4>3, <4>4, <4>5, <4>6 DEF Kept
      <4>8. ~Wishes(f)'
        BY <4>1 DEF Wishes, Unset
      <4>9. QED
        BY <2>1, <3>2, <4>7, <4>8 DEF AloneInv
    <3>8. QED
      BY <2>4, <3>4, <3>5, <3>6, <3>7 DEF MWriteStep
  <2>5. QED
    BY <1>2, <2>2, <2>3, <2>4 DEF SystemCall
<1>3. QED
  BY <1>1, <1>2 DEF DeviceNext

\* Both hold at all times; the other module does not touch the driver.
LEMMA AloneHolds == Spec => [](TypeInv /\ AloneInv)
<1>1. Init => AloneInv
  <2> SUFFICES ASSUME Init PROVE AloneInv
    OBVIOUS
  <2>1. \A f \in File : ~Wishes(f)
    BY DEF Init, DeviceInit, Wishes, Unset
  <2>2. QED
    BY <2>1 DEF Init, DeviceInit, AloneInv, Kept, Quiet
<1>2. TypeInv /\ AloneInv /\ [Next]_vars => AloneInv'
  <2>1. AloneInv /\ UNCHANGED device => AloneInv'
    BY DEF device, AloneInv, Wishes, Alone, Writing, Parsed, Kept, Listed, Below, Quiet
  <2>2. QED
    BY <2>1, AloneStays DEF Next, vars
<1>3. QED
  BY <1>1, <1>2, TypesHold, PTL DEF Spec

\* A pin set by a command that was written while no other was stays on the list,
\* for any number of files and a table of any length: writers that interleave
\* lose only entries of each other.
THEOREM ObeyedStayListed == Spec => []ObeyedAreListed
<1>1. AloneInv => ObeyedAreListed
  BY DEF AloneInv, Kept, ObeyedAreListed
<1>2. QED
  BY <1>1, AloneHolds, PTL

-----------------------------------------------------------------------------
(* Pins and orders *)

\* A pin that was claimed is as far as the order has come that has it to itself.
Acting == {"value", "check", "record"}
PinOK(n) ==
    /\ asked[n] \in Level => Shows(n) = asked[n]
    /\ asked[n] = LED => n \notin oe
    /\ \A f \in File :
         asked[n] = f /\ local[f].word.pin = n =>
            /\ call[f] = "value" => n \notin oe /\ local[f].word.mode = "out"
            /\ call[f] \in {"check", "record"} => Shows(n) = Wish(local[f].word)

PinInv == \A n \in Pin : PinOK(n)

\* Of a pin of which nothing is asked nothing has to be shown.
LEMMA Unclaimed ==
  ASSUME NEW n \in Pin, asked'[n] = "anything"
  PROVE  PinOK(n)'
BY UsersAreDistinct DEF PinOK, Level

\* A step that leaves a pin, what it was asked and its order alone keeps it right.
LEMMA Undisturbed ==
  ASSUME NEW n \in Pin, PinOK(n),
         asked'[n] = asked[n], n \in oe' <=> n \in oe, n \in dataout' <=> n \in dataout,
         \A f \in File : asked[n] = f /\ local'[f].word.pin = n /\ call'[f] \in Acting =>
            /\ local'[f].word = local[f].word
            /\ call[f] = call'[f] \/ (call[f] = "check" /\ call'[f] = "record")
  PROVE  PinOK(n)'
BY DEF PinOK, Shows, Wish, Acting

\* Every step of the driver keeps every pin right.
LEMMA DriverKeepsPins ==
  ASSUME TypeInv, AloneInv, PinInv, DeviceNext
  PROVE  PinInv'
<1> USE UsersAreDistinct
<1> SUFFICES ASSUME NEW n \in Pin PROVE PinOK(n)'
  BY DEF PinInv
<1> /\ PinOK(n)
    /\ local \in [File -> Local]
    /\ call \in [File -> {"closed", "idle", "clear", "copy", "parse", "direct",
                          "value", "check", "record", "oops"}]
    /\ asked \in [Pin -> Level \cup {"anything"} \cup User]
  BY DEF PinInv, TypeInv, TypeOK, DeviceTypes, BoardTypes, Local
<1>1. CASE Module
  <2>1. UNCHANGED <<call, local>>
    BY <1>1 DEF Module, Registers, CdevAddFails, Kmalloc, KmallocFails, Rmmod, ExitFrees, ExitEnds, files, device
  <2>2. CASE ExitFrees
    <3>1. PICK m \in requested : FreeGpio(m) /\ Forget({m})
      BY <2>2 DEF ExitFrees
    <3>2. CASE n = m
      BY <3>1, <3>2, Unclaimed DEF Forget
    <3>3. CASE n # m
      <4>1. asked'[n] = asked[n] /\ (n \in oe' <=> n \in oe) /\ dataout' = dataout
        BY <3>1, <3>3 DEF Forget, FreeGpio
      <4>2. QED
        BY <4>1, <2>1, Undisturbed
    <3>4. QED
      BY <3>2, <3>3
  <2>3. CASE ~ExitFrees
    <3>1. UNCHANGED <<oe, dataout, asked>>
      BY <1>1, <2>3 DEF Module, Registers, CdevAddFails, Kmalloc, KmallocFails, Rmmod, ExitEnds, board, pins
    <3>2. QED
      BY <2>1, <3>1, Undisturbed
  <2>4. QED
    BY <2>2, <2>3
<1>2. ASSUME NEW f \in File, SystemCall(f) PROVE PinOK(n)'
  <2>1. CASE MOpen(f) \/ MClose(f) \/ MRead(f) \/ Clear(f) \/ Copy(f) \/ CopyFails(f) \/ Parse(f) \/ Invalid(f)
    <3>1. /\ UNCHANGED <<oe, dataout, asked>>
          /\ call'[f] \notin Acting
          /\ \A g \in File : g # f => call'[g] = call[g] /\ local'[g] = local[g]
      BY <2>1 DEF MOpen, MClose, MRead, Clear, Copy, CopyFails, Parse, Invalid, Goto, Return, board, pins, Acting
    <3>2. QED
      BY <3>1, Undisturbed
  <2>2. CASE MWrite(f)
    <3>1. /\ UNCHANGED <<oe, dataout, asked>>
          /\ call'[f] \notin Acting
          /\ \A g \in File : g # f => call'[g] = call[g]
      BY <2>2 DEF MWrite, Goto, board, pins, Acting
    <3>2. \A g \in File : g # f => local'[g].word = local[g].word
      <4>1. \A g \in File : g # f => local'[g] = [local[g] EXCEPT !.wish = Blank]
        BY <2>2 DEF MWrite
      <4>2. \A l \in Local : [l EXCEPT !.wish = Blank].word = l.word
        BY DEF Local
      <4>3. QED
        BY <4>1, <4>2
    <3>3. QED
      BY <3>1, <3>2, Undisturbed
  <2>3. CASE Check(f)
    <3>1. /\ UNCHANGED <<oe, dataout, asked>>
          /\ call[f] = "check" /\ call' = [call EXCEPT ![f] = "record"]
          /\ local' = [local EXCEPT ![f].slot = gpio_count]
      BY <2>3 DEF Check, LoadCount, Goto, board, pins
    <3>2. \A g \in File : local'[g].word = local[g].word
      BY <3>1 DEF Local
    <3>3. QED
      BY <3>1, <3>2, Undisturbed
  <2>4. CASE Direct(f)
    <3> DEFINE p == local[f].word.pin
    <3>1. /\ call[f] = "direct" /\ UNCHANGED local
          /\ asked' = [m \in Pin |-> IF m = p THEN f ELSE asked[m]]
          /\ \/ /\ local[f].word.mode = "out" /\ oe' = oe \ {p} /\ dataout' = dataout \ {p}
                /\ call' = [call EXCEPT ![f] = "value"]
             \/ /\ local[f].word.mode = "in" /\ oe' = oe \cup (Pin \cap {p}) /\ dataout' = dataout
                /\ call' = [call EXCEPT ![f] = "check"]
      BY <2>4 DEF Direct, Goto, Claim, DirectionInput, DirectionOutput
    <3>2. CASE n = p
      <4>1. asked'[n] = f /\ f \notin Level /\ f # LED
        BY <3>1, <3>2
      <4>2. /\ call'[f] = "value" => n \notin oe' /\ local'[f].word.mode = "out"
            /\ call'[f] \in {"check", "record"} => Shows(n)' = Wish(local'[f].word)
        BY <3>1, <3>2 DEF Shows, Wish
      <4>3. QED
        BY <4>1, <4>2 DEF PinOK, Wish
    <3>3. CASE n # p
      <4>1. asked'[n] = asked[n] /\ (n \in oe' <=> n \in oe) /\ (n \in dataout' <=> n \in dataout)
        BY <3>1, <3>3
      <4>2. \A g \in File : local'[g].word.pin = n => g # f /\ call'[g] = call[g]
        BY <3>1, <3>3
      <4>3. QED
        BY <3>1, <4>1, <4>2, Undisturbed
    <3>4. QED
      BY <3>2, <3>3
  <2>5. CASE Value(f)
    <3> DEFINE p == local[f].word.pin
               v == local[f].word.value
    <3>1. /\ call[f] = "value" /\ UNCHANGED <<local, oe>> /\ v \in {"HIGH", "LOW"}
          /\ asked' = [m \in Pin |-> IF m = p /\ asked[m] # f THEN "anything" ELSE asked[m]]
          /\ dataout' = IF v = "HIGH" THEN dataout \cup (Pin \cap {p}) ELSE dataout \ {p}
          /\ call' = [call EXCEPT ![f] = "check"]
      BY <2>5 DEF Value, Goto, KeepClaim, SetValue
    <3>2. CASE n = p /\ asked[n] = f
      <4>1. n \notin oe /\ local[f].word.mode = "out"
        BY <3>1, <3>2 DEF PinOK
      <4>2. Shows(n)' = Wish(local'[f].word)
        BY <3>1, <3>2, <4>1 DEF Shows, Wish
      <4>3. asked'[n] = f /\ f \notin Level /\ f # LED /\ call'[f] = "check"
        BY <3>1, <3>2
      <4>4. QED
        BY <4>2, <4>3 DEF PinOK, Wish
    <3>3. CASE n = p /\ asked[n] # f
      BY <3>1, <3>3, Unclaimed
    <3>4. CASE n # p
      <4>1. asked'[n] = asked[n] /\ (n \in dataout' <=> n \in dataout)
        BY <3>1, <3>4
      <4>2. \A g \in File : local'[g].word.pin = n => g # f /\ call'[g] = call[g]
        BY <3>1, <3>4
      <4>3. QED
        BY <3>1, <4>1, <4>2, Undisturbed
    <3>5. QED
      BY <3>2, <3>3, <3>4
  <2>6. CASE Record(f)
    <3> DEFINE c == local[f].wish
    <3>1. /\ call[f] = "record" /\ UNCHANGED <<oe, dataout>>
          /\ local' = [local EXCEPT ![f] = Unset] /\ call' = [call EXCEPT ![f] = "idle"]
          /\ asked' = IF Wishes(f)
                      THEN [m \in Pin |-> IF m = c.pin /\ asked[m] = f THEN Wish(c) ELSE asked[m]]
                      ELSE asked
      BY <2>6 DEF Record, RecordAt, Return, Goto, Fulfil, Wishes
    <3>2. \A g \in File : call'[g] \in Acting => g # f /\ call'[g] = call[g] /\ local'[g] = local[g]
      BY <3>1 DEF Acting
    <3>3. CASE asked'[n] = asked[n]
      BY <3>1, <3>2, <3>3, Undisturbed
    <3>4. CASE asked'[n] # asked[n]
      <4>1. Wishes(f) /\ n = c.pin /\ asked[n] = f /\ asked'[n] = Wish(c)
        BY <3>1, <3>4
      <4>2. /\ local[f].word.pin = c.pin /\ local[f].word.mode = c.mode
            /\ c.mode = "out" => local[f].word.value = c.value
        BY <3>1, <4>1 DEF AloneInv, Alone, Parsed
      <4>3. Complete(c)
        BY <4>1 DEF TypeInv, Wished, Wishes
      <4>4. Shows(n) = Wish(c) /\ Wish(c) \in Level
        BY <3>1, <4>1, <4>2, <4>3 DEF PinOK, Wish, Complete, Level
      <4>5. Shows(n)' = asked'[n] /\ asked'[n] \in Level
        BY <3>1, <4>1, <4>4 DEF Shows
      <4>6. QED
        BY <4>5 DEF PinOK
    <3>5. QED
      BY <3>3, <3>4
  <2>7. QED
    BY <1>2, <2>1, <2>2, <2>3, <2>4, <2>5, <2>6 DEF SystemCall, MWriteStep
<1>3. QED
  BY <1>1, <1>2 DEF DeviceNext

\* Of the pins that nobody changed since, the bits that were loaded are still
\* those of the register.
Fresh == reg # <<>> =>
    \A m \in BankOf(Head(todo)[2]) \ touched :
        m \in reg[1] <=> m \in Content(Head(todo)[1], Head(todo)[2])

\* What another driver changes is touched.
LEMMA OthersTouch ==
  ASSUME Fresh, Touch, UNCHANGED <<todo, loaded, reg>>
  PROVE  Fresh'
<1> SUFFICES ASSUME reg # <<>>, NEW m \in BankOf(Head(todo)[2]) \ touched'
             PROVE  m \in reg[1] <=> m \in Content(Head(todo)[1], Head(todo)[2])'
  BY DEF Fresh, BankOf
<1>1. m \notin touched /\ (m \in oe' <=> m \in oe) /\ (m \in dataout' <=> m \in dataout)
  BY DEF Touch, Differ
<1>2. m \in reg[1] <=> m \in Content(Head(todo)[1], Head(todo)[2])
  BY <1>1 DEF Fresh
<1>3. QED
  BY <1>1, <1>2 DEF Content, BankOf

\* The module loads what the register holds, and what it loaded it stores.
LEMMA LedKeepsFresh ==
  ASSUME TypeInv, Fresh, LedNext
  PROVE  Fresh'
<1>1. CASE LedInit \/ LedExit
  <2>1. reg = <<>> /\ reg' = reg
    BY <1>1 DEF LedInit, LedExit, TypeInv, Loaded
  <2>2. QED
    BY <2>1 DEF Fresh
<1>2. CASE Load
  <2> DEFINE bits == Content(Head(todo)[1], Head(todo)[2])
  <2>1. reg' = <<bits>> /\ todo' = todo /\ oe' = oe /\ dataout' = dataout
    BY <1>2 DEF Load, board, pins
  <2>2. reg'[1] = bits
    BY <2>1
  <2>3. bits' = bits
    BY <2>1 DEF Content, BankOf
  <2>4. QED
    BY <2>2, <2>3 DEF Fresh
<1>3. CASE Store
  BY <1>3 DEF Store, Fresh
<1>4. QED
  BY <1>1, <1>2, <1>3 DEF LedNext

\* So does every step of the ioremap module: what nobody changed since the load
\* is stored as it was.
LEMMA LedKeepsPins ==
  ASSUME TypeInv, PinInv, Fresh, LedNext, UNCHANGED device
  PROVE  PinInv'
<1> USE UsersAreDistinct
<1> SUFFICES ASSUME NEW n \in Pin PROVE PinOK(n)'
  BY DEF PinInv
<1> PinOK(n) /\ asked \in [Pin -> Level \cup {"anything"} \cup User]
  BY DEF PinInv, TypeInv, TypeOK, BoardTypes
<1>1. UNCHANGED <<call, local>>
  BY DEF device
<1>2. CASE LedInit \/ LedExit \/ Load
  <2>1. UNCHANGED <<oe, dataout, asked>>
    BY <1>2 DEF LedInit, LedExit, Load, board, pins
  <2>2. QED
    BY <1>1, <2>1, Undisturbed
<1>3. CASE Store
  <2>1. PICK m \in Pin : /\ m = Head(todo)[2]
                         /\ \/ Head(todo)[1] = "OE" /\ StoreOe(m)
                            \/ Head(todo)[1] = "SET" /\ StoreSet(m)
                            \/ Head(todo)[1] = "CLEAR" /\ StoreClear(m)
    <3>1. Head(todo) \in {"OE", "SET", "CLEAR"} \X {LED_1, LED_2}
      BY <1>3 DEF Store, TypeInv, TypeOK, LedTypes, Loaded
    <3>2. QED
      BY <1>3, <3>1, LedsAreGpios DEF Store
  <2>2. reg[1] \subseteq BankOf(m) /\ m \in BankOf(m) /\ reg # <<>>
    BY <1>3, <2>1 DEF Store, TypeInv, Loaded, BankOf
  <2>3. n \in BankOf(m) /\ n \notin touched => (n \in reg[1] <=> n \in Content(Head(todo)[1], m))
    BY <2>1, <2>2 DEF Fresh
  <2>4. CASE asked'[n] = "anything"
    BY <2>4, Unclaimed
  <2>5. CASE n \notin BankOf(m)
    <3>1. asked'[n] = asked[n] /\ (n \in oe' <=> n \in oe) /\ (n \in dataout' <=> n \in dataout)
      BY <2>1, <2>2, <2>5 DEF StoreOe, StoreBits, StoreSet, StoreClear, Obey
    <3>2. QED
      BY <1>1, <3>1, Undisturbed
  <2>6. CASE n \in BankOf(m) /\ Head(todo)[1] = "OE" /\ StoreOe(m) /\ asked'[n] # "anything"
    <3>1. /\ oe' = (oe \ BankOf(m)) \cup (reg[1] \ {m}) /\ dataout' = dataout
          /\ asked'[n] = IF n = m THEN LED ELSE IF n \in touched THEN "anything" ELSE asked[n]
      BY <2>6 DEF StoreOe, StoreBits, Obey
    <3>2. CASE n = m
      BY <3>1, <3>2, <2>2 DEF PinOK
    <3>3. CASE n # m
      <4>1. asked'[n] = asked[n] /\ (n \in oe' <=> n \in oe)
        BY <2>3, <2>6, <3>1, <3>3 DEF Content
      <4>2. QED
        BY <1>1, <3>1, <4>1, Undisturbed
    <3>4. QED
      BY <3>2, <3>3
  <2>7. CASE n \in BankOf(m) /\ Head(todo)[1] = "SET" /\ StoreSet(m) /\ asked'[n] # "anything"
    <3>1. /\ oe' = oe /\ dataout' = dataout \cup reg[1] \cup {m}
          /\ asked'[n] = IF n = m THEN IF asked[m] = LED THEN "HIGH" ELSE "anything"
                         ELSE IF n \in touched THEN "anything" ELSE asked[n]
      BY <2>7 DEF StoreSet, Obey
    <3>2. CASE n = m
      <4>1. asked[n] = LED /\ asked'[n] = "HIGH" /\ n \notin oe' /\ n \in dataout'
        BY <2>7, <3>1, <3>2 DEF PinOK
      <4>2. Shows(n)' = "HIGH"
        BY <4>1 DEF Shows
      <4>3. QED
        BY <4>1, <4>2 DEF PinOK, Level
    <3>3. CASE n # m
      <4>1. asked'[n] = asked[n] /\ (n \in dataout' <=> n \in dataout)
        BY <2>3, <2>7, <3>1, <3>3 DEF Content
      <4>2. QED
        BY <1>1, <3>1, <4>1, Undisturbed
    <3>4. QED
      BY <3>2, <3>3
  <2>8. CASE n \in BankOf(m) /\ Head(todo)[1] = "CLEAR" /\ StoreClear(m) /\ asked'[n] # "anything"
    <3>1. /\ oe' = oe /\ dataout' = dataout \ (reg[1] \cup {m})
          /\ asked'[n] = IF n = m THEN IF asked[m] \in {"HIGH", "LOW"} THEN "LOW" ELSE "anything"
                         ELSE IF n \in reg[1] \ oe THEN "anything" ELSE asked[n]
      BY <2>8 DEF StoreClear, Obey
    <3>2. CASE n = m
      <4>1. asked[n] \in {"HIGH", "LOW"} /\ asked'[n] = "LOW"
        BY <2>8, <3>1, <3>2
      <4>2. n \notin oe' /\ n \notin dataout'
        BY <3>1, <3>2, <4>1 DEF PinOK, Shows, Level
      <4>3. Shows(n)' = "LOW"
        BY <4>2 DEF Shows
      <4>4. QED
        BY <4>1, <4>3 DEF PinOK, Level
    <3>3. CASE n # m /\ n \notin reg[1]
      <4>1. asked'[n] = asked[n] /\ (n \in dataout' <=> n \in dataout)
        BY <3>1, <3>3
      <4>2. QED
        BY <1>1, <3>1, <4>1, Undisturbed
    <3>4. CASE n # m /\ n \in reg[1]
      <4>1. asked'[n] = asked[n] /\ n \in oe /\ n \in oe'
        BY <2>8, <3>1, <3>4
      <4>2. Shows(n)' = Shows(n)
        BY <4>1 DEF Shows
      <4>3. QED
        BY <1>1, <4>1, <4>2 DEF PinOK
    <3>5. QED
      BY <3>2, <3>3, <3>4
  <2>9. QED
    BY <2>1, <2>4, <2>5, <2>6, <2>7, <2>8
<1>4. QED
  BY <1>2, <1>3 DEF LedNext

\* However the driver's commands, the loads and stores of the ioremap module and
\* the unloading of either interleave, a pin shows what it was asked last: a store
\* of a whole register gives every pin of the bank back as it is, unless somebody
\* changed the pin between the load and the store; only such a pin may lose its
\* order (led.c:22-26), as do the outputs that are high when the module is
\* unloaded (led.c:35), and of orders to one pin that overlap nothing is said.
THEOREM PinsShowWhatWasAsked == Spec => []PinsAsAsked
<1>1. Init => PinInv /\ Fresh
  BY UsersAreDistinct DEF Init, LedStart, PinInv, PinOK, Level, Fresh
<1>2. TypeInv /\ AloneInv /\ PinInv /\ Fresh /\ [Next]_vars => PinInv' /\ Fresh'
  <2>1. PinInv /\ Fresh /\ UNCHANGED vars => PinInv' /\ Fresh'
    BY DEF vars, board, pins, device, led, PinInv, PinOK, Shows, Wish, Fresh, Content, BankOf
  <2>2. QED
    BY <2>1, DriverKeepsPins, LedKeepsPins, OthersTouch, LedKeepsFresh DEF Next
<1>3. PinInv => PinsAsAsked
  BY DEF PinInv, PinOK, PinsAsAsked
<1>4. QED
  BY <1>1, <1>2, <1>3, AloneHolds, PTL DEF Spec
=============================================================================
