------------------------------ MODULE LedSysfs ------------------------------
(***************************************************************************)
(* The sysfs driver driver_gpio_sysfs/bbb-sysfs.c of                       *)
(* LAB_GPIO/Blink_led_userspace, the programs of program_user_control_led  *)
(* that switch both LEDs through its two attributes, and a shell that may  *)
(* write anything to them.  sysfs calls a store function on its own        *)
(* thread, without a lock of the driver, while it holds the attribute      *)
(* active; to remove an attribute it waits until no store is active.       *)
(* Copies of the short strings are one step each.                          *)
(***************************************************************************)
EXTENDS GpioBank, Naturals, Sequences

CONSTANTS
    Program, Shell,
    Echoed      \* what is written from the shell, as <<attribute, text>>

VARIABLES
    driver,     \* where gpio_sysfs_init or gpio_sysfs_exit is
    group,      \* the attributes there are in /sys/bbb_gpios
    _value, _direct, \* as value_show and direction_show return them
    at,         \* per writer: "menu", "open", "store" or "gone"
    todo,       \* per writer: the writes <<attribute, text>> still to be made
    step,       \* per writer: how far its store function is
    last        \* ghost, per writer: the option it chose last, or "none", or
                \* "unknown" if that cannot have had its effect

vars == <<pins, driver, group, _value, _direct, at, todo, step, last>>

Writer == Program \cup {Shell}
Direction == {"in", "out", "junk"}
Value == {"0", "1", "junk", "5"}
Write == ({"direction"} \X Direction) \cup ({"value"} \X Value)

ASSUME EchoedAreWrites == Echoed \subseteq Write

AtRest(w) == at[w] \in {"menu", "gone"}

TypeOK ==
    /\ PinTypes
    /\ driver \in {"absent", "group", "request1", "request2", "loaded",
                   "free2", "remove", "drain1", "drain2"}
    /\ group \subseteq {"direction", "value"}
    /\ _value \in {"0", "1"} /\ _direct \in Direction \cup {""}
    /\ at \in [Writer -> {"menu", "open", "store", "gone"}]
    /\ todo \in [Writer -> Seq(Write)]
    /\ step \in [Writer -> 1..3]
    /\ last \in [Writer -> {"0", "1", "none", "unknown"}]
    /\ \A w \in Writer : Len(todo[w]) <= 2 /\ (AtRest(w) <=> todo[w] = <<>>)

Init ==
    /\ oe = Pin /\ dataout = {} /\ requested = {}
    /\ driver = "absent" /\ group = {} /\ _value = "0" /\ _direct = ""
    /\ at = [w \in Writer |-> "menu"]
    /\ todo = [w \in Writer |-> <<>>]
    /\ step = [w \in Writer |-> 1]
    /\ last = [w \in Writer |-> "none"]

-----------------------------------------------------------------------------
(* gpio_sysfs_init and gpio_sysfs_exit *)

writers == <<at, todo, step>>

\* What was asked of the module before, or is being asked, no longer counts.
Unsay == last' = [w \in Writer |-> IF AtRest(w) THEN "none" ELSE "unknown"]

CreateDirection ==
    /\ driver = "absent"
    /\ driver' = "group" /\ group' = {"direction"}
    /\ _value' = "0" /\ _direct' = ""
    /\ Unsay
    /\ UNCHANGED <<pins, writers>>

CreateValue ==
    /\ driver = "group"
    /\ \/ driver' = "request1" /\ group' = {"direction", "value"}
       \/ driver' = "drain1" /\ group' = {}      \* rm_kobj
    /\ UNCHANGED <<pins, _value, _direct, writers, last>>

RequestLeds ==
    /\ \/ driver = "request1" /\ driver' = "request2" /\ Request(LED_1)
       \/ driver = "request2" /\ driver' = "loaded" /\ Request(LED_2)
    /\ UNCHANGED <<oe, dataout, group, _value, _direct, writers, last>>

\* The pins are freed while the attributes are still there.
FreeLeds ==
    /\ \/ driver = "loaded" /\ driver' = "free2" /\ FreeGpio(LED_1)
       \/ driver = "free2" /\ driver' = "remove" /\ FreeGpio(LED_2)
    /\ Unsay
    /\ UNCHANGED <<group, _value, _direct, writers>>

InStore(attribute) == \E w \in Writer : at[w] = "store" /\ todo[w][1][1] = attribute

RemoveGroup ==
    /\ \/ driver = "remove" /\ driver' = "drain1" /\ group' = group \ {"direction"}
       \/ driver = "drain1" /\ ~InStore("direction") /\ driver' = "drain2" /\ group' = {}
       \/ driver = "drain2" /\ ~InStore("value") /\ driver' = "absent" /\ UNCHANGED group
    /\ UNCHANGED <<pins, _value, _direct, writers, last>>

Driver == CreateDirection \/ CreateValue \/ RequestLeds \/ FreeLeds \/ RemoveGroup

-----------------------------------------------------------------------------
(* The programs and the shell *)

system == <<pins, driver, group, _value, _direct>>

\* An order given while all others rest supersedes theirs.
Order(w, writes, option) ==
    /\ at[w] = "menu"
    /\ at' = [at EXCEPT ![w] = "open"]
    /\ todo' = [todo EXCEPT ![w] = writes]
    /\ last' = [x \in Writer |-> IF x = w THEN option
                                 ELSE IF \A y \in Writer : AtRest(y) THEN "none" ELSE last[x]]
    /\ UNCHANGED <<system, step>>

\* Wrong: the value first, which making the pins outputs undoes.
OptionBackwards(p) ==
    \/ Order(p, <<<<"value", "1">>, <<"direction", "out">>>>, "1")
    \/ Order(p, <<<<"value", "0">>, <<"direction", "in">>>>, "0")

Option(p) ==
    \/ Order(p, <<<<"direction", "out">>, <<"value", "1">>>>, "1")
    \/ Order(p, <<<<"direction", "in">>, <<"value", "0">>>>, "0")

Option99(p) ==
    /\ at[p] = "menu"
    /\ at' = [at EXCEPT ![p] = "gone"]
    /\ UNCHANGED <<system, todo, step, last>>

Echo == \E write \in Echoed : Order(Shell, <<write>>, "unknown")

\* The rest of GPIO_Direction or GPIO_Value; main goes on whatever it returns
Return(w) ==
    /\ todo' = [todo EXCEPT ![w] = Tail(@)]
    /\ at' = [at EXCEPT ![w] = IF Len(todo[w]) = 1 THEN "menu" ELSE "open"]
    /\ step' = [step EXCEPT ![w] = 1]

Attribute(w) == todo[w][1][1]
Text(w) == todo[w][1][2]

\* The open and the write fail alike when the attribute is gone.
OpenAndWrite(w) ==
    /\ at[w] = "open" /\ Attribute(w) \in group
    /\ at' = [at EXCEPT ![w] = "store"]
    /\ UNCHANGED <<system, todo, step, last>>

OpenOrWriteFails(w) ==
    /\ at[w] = "open" /\ Attribute(w) \notin group
    /\ Return(w)
    /\ last' = [last EXCEPT ![w] = "unknown"]
    /\ UNCHANGED system

StoreStep(w) ==
    IF step[w] = 3 THEN Return(w)
                   ELSE step' = [step EXCEPT ![w] = @ + 1] /\ UNCHANGED <<at, todo>>

\* check_buf is not set for a text that is neither "in" nor "out": whichever
\* branch is taken, _direct has the text.
DirectionStore(w) ==
    /\ at[w] = "store" /\ Attribute(w) = "direction"
    /\ \/ /\ step[w] = 1
          /\ _direct' = Text(w)
          /\ \/ Text(w) \in {"in", "out"} /\ StoreStep(w)
             \/ Text(w) = "junk" /\ Return(w)
             \/ /\ Text(w) = "junk"
                /\ \E taken \in {"in", "out"} : todo' = [todo EXCEPT ![w][1][2] = taken]
                /\ step' = [step EXCEPT ![w] = 2]
                /\ UNCHANGED at
          /\ UNCHANGED <<oe, dataout>>
       \/ /\ step[w] \in {2, 3}
          /\ LET pin == IF step[w] = 2 THEN LED_1 ELSE LED_2 IN
             IF Text(w) = "in" THEN DirectionInput(pin) ELSE DirectionOutput(pin)
          /\ StoreStep(w)
          /\ UNCHANGED _direct
    /\ UNCHANGED <<requested, driver, group, _value, last>>

\* Wrong: sscanf reads into _value before the switch.
IgnoreValueLate(w) ==
    /\ Text(w) = "5" /\ Return(w)
    /\ _value' = Text(w) /\ UNCHANGED <<oe, dataout>>

IgnoreValue(w) ==
    /\ Text(w) = "5" /\ Return(w)
    /\ UNCHANGED <<oe, dataout, _value>>

\* A text that is no number counts as 0 and leaves _value as it is.
ValueStore(w) ==
    /\ at[w] = "store" /\ Attribute(w) = "value"
    /\ \/ IgnoreValue(w)
       \/ /\ Text(w) # "5" /\ step[w] \in {1, 2}
          /\ SetValue(IF step[w] = 1 THEN LED_1 ELSE LED_2, Text(w) = "1")
          /\ StoreStep(w)
          /\ UNCHANGED _value
       \/ /\ step[w] = 3
          /\ _value' = IF Text(w) = "junk" THEN _value ELSE Text(w)
          /\ StoreStep(w)
          /\ UNCHANGED <<oe, dataout>>
    /\ UNCHANGED <<requested, driver, group, _direct, last>>

WriterStep(w) == OpenAndWrite(w) \/ OpenOrWriteFails(w) \/ DirectionStore(w) \/ ValueStore(w)

Next == \/ Driver
        \/ Echo
        \/ \E p \in Program : Option(p) \/ Option99(p)
        \/ \E w \in Writer : WriterStep(w)

Spec == Init /\ [][Next]_vars

-----------------------------------------------------------------------------
(* When all programs rest and those whose choice still counts chose the    *)
(* same option, however their stores were interleaved, both LEDs show it   *)
(* and the attributes return it (main.c:29-40, bbb-sysfs.c:40-104).        *)
AgreedOptionHolds ==
    \A option \in {"0", "1"} :
       (/\ \A w \in Writer : AtRest(w)
        /\ {last[w] : w \in Writer} \ {"none"} = {option})
       => /\ \A n \in {LED_1, LED_2} : Shows(n) = IF option = "1" THEN "HIGH" ELSE "in"
          /\ _value = option
          /\ _direct = IF option = "1" THEN "out" ELSE "in"
=============================================================================
