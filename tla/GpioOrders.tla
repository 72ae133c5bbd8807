----------------------------- MODULE GpioOrders -----------------------------
(***************************************************************************)
(* A ghost beside the banks, for drivers that know nothing of each other:  *)
(* what the order that was carried out last says of each pin.              *)
(***************************************************************************)
EXTENDS GpioBank

CONSTANT User   \* who gives orders to pins: the opens of a device, a module

VARIABLE asked  \* what a pin was asked to show and must show still, or the
                \* user that is giving it an order and has it to itself

board == <<pins, asked>>

Level == {"in", "LOW", "HIGH"}
BoardTypes == PinTypes /\ asked \in [Pin -> Level \cup {"anything"} \cup User]

\* The steps of an order of user u to pin n: the first claims the pin, a
\* later one keeps the claim unless somebody else has changed the pin since.
Claim(n, u) == asked' = [m \in Pin |-> IF m = n THEN u ELSE asked[m]]
KeepClaim(n, u) ==
    asked' = [m \in Pin |-> IF m = n /\ asked[m] # u THEN "anything" ELSE asked[m]]
Fulfil(n, u, level) ==
    asked' = [m \in Pin |-> IF m = n /\ asked[m] = u THEN level ELSE asked[m]]
Forget(those) ==
    asked' = [m \in Pin |-> IF m \in those THEN "anything" ELSE asked[m]]

(* A pin shows what it was asked to show last, whatever other pins are     *)
(* asked (gpio.c:98-126, led.c:22-39).  Nothing is said of a pin to which  *)
(* two users gave orders that overlap, of one that was changed between a   *)
(* load and the store of led.c, which may undo the change (led.c:22), and  *)
(* of the outputs that were high when led.c is unloaded (led.c:35).        *)
PinsAsAsked == \A n \in Pin : asked[n] \in Level => Shows(n) = asked[n]
=============================================================================
