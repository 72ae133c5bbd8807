----------------------------- MODULE LedIoremap -----------------------------
(***************************************************************************)
(* The module LAB_GPIO/GPIO_iormap/led.c, which lights the two LEDs by     *)
(* writing to the registers of their banks itself, without the spin lock   *)
(* gpiolib holds: each |= and &= is a load and a store of a whole bank,    *)
(* and undoes what was done to other pins of the bank in between.          *)
(* SETDATAOUT and CLEARDATAOUT read as DATAOUT, and of what is stored to   *)
(* them only the ones have an effect (AM335x TRM, 25.4).                   *)
(***************************************************************************)
EXTENDS GpioOrders, Naturals, Sequences

CONSTANTS
    Bank,       \* the bank of each pin
    LED         \* the module as a user of pins

VARIABLES
    todo,       \* the stores still to be made, as <<register, pin>>
    loaded,     \* the module: "no", "yes" or "gone"; bound: it is loaded once
    reg,        \* <<the bits loaded for the next store>>, or empty
    touched     \* ghost: the pins that somebody changed since they were loaded

led == <<todo, loaded, reg, touched>>

LedInitStores == <<<<"OE", LED_1>>, <<"SET", LED_1>>, <<"OE", LED_2>>, <<"SET", LED_2>>>>
LedExitStores == <<<<"CLEAR", LED_1>>, <<"CLEAR", LED_2>>>>

BankOf(n) == {m \in Pin : Bank[m] = Bank[n]}
Content(register, n) == BankOf(n) \cap (IF register = "OE" THEN oe ELSE dataout)

LedTypes ==
    /\ todo \in Seq({"OE", "SET", "CLEAR"} \X {LED_1, LED_2})
    /\ Len(todo) <= 4
    /\ loaded \in {"no", "yes", "gone"}
    /\ reg \in Seq(SUBSET Pin) /\ Len(reg) <= 1
    /\ touched \subseteq Pin

LedStart == todo = <<>> /\ loaded = "no" /\ reg = <<>> /\ touched = {}

\* What another driver changes while bits are loaded.
Differ(s, t) == (s \ t) \cup (t \ s)
Touch ==
    touched' = IF reg = <<>> THEN {} ELSE touched \cup Differ(oe, oe') \cup Differ(dataout, dataout')

\* An ioremap that fails changes nothing here; that the first mapping is not
\* undone when the second fails is no part of the model.
LedInit ==
    /\ loaded = "no" /\ todo = <<>>
    /\ todo' = LedInitStores /\ loaded' = "yes"
    /\ UNCHANGED <<reg, touched, board>>

LedExit ==
    /\ loaded = "yes" /\ todo = <<>>
    /\ todo' = LedExitStores /\ loaded' = "gone"
    /\ UNCHANGED <<reg, touched, board>>

Load ==
    /\ todo # <<>> /\ reg = <<>>
    /\ reg' = <<Content(Head(todo)[1], Head(todo)[2])>>
    /\ touched' = {}
    /\ UNCHANGED <<todo, loaded, board>>

\* What a store makes of the orders: that to its own pin n is `own', and the
\* others last, but those to the pins in `lost'.
Obey(n, own, lost) ==
    asked' = [m \in Pin |-> IF m = n THEN own ELSE IF m \in lost THEN "anything" ELSE asked[m]]

StoreBits(n, bits) ==
    /\ oe' = (oe \ BankOf(n)) \cup bits
    /\ UNCHANGED dataout
    /\ Obey(n, LED, touched \cap BankOf(n))

\* Wrong: ~LED is assigned to the register, and the rest of the bank are inputs.
StoreOeWhole(n) == StoreBits(n, BankOf(n) \ {n})
StoreOe(n) == StoreBits(n, reg[1] \ {n})

StoreSet(n) ==
    /\ dataout' = dataout \cup reg[1] \cup {n}
    /\ UNCHANGED oe
    /\ Obey(n, IF asked[n] = LED THEN "HIGH" ELSE "anything", touched \cap BankOf(n))

\* Every output of the bank that was high is stored back as a one and cleared.
StoreClear(n) ==
    /\ dataout' = dataout \ (reg[1] \cup {n})
    /\ UNCHANGED oe
    /\ Obey(n, IF asked[n] \in {"HIGH", "LOW"} THEN "LOW" ELSE "anything", reg[1] \ oe)

Store ==
    /\ reg # <<>>
    /\ LET n == Head(todo)[2] IN CASE Head(todo)[1] = "OE" -> StoreOe(n)
                                   [] Head(todo)[1] = "SET" -> StoreSet(n)
                                   [] Head(todo)[1] = "CLEAR" -> StoreClear(n)
    /\ todo' = Tail(todo) /\ reg' = <<>> /\ touched' = {}
    /\ UNCHANGED <<loaded, requested>>

LedNext == LedInit \/ LedExit \/ Load \/ Store
=============================================================================
