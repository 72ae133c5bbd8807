------------------------------ MODULE GpioBank ------------------------------
(***************************************************************************)
(* The GPIO banks of the BeagleBone's AM335x and gpiolib over them, as the *)
(* drivers under LAB_GPIO use them; the vermagic of the built modules      *)
(* names the kernel, 5.4.209, preemptible.  A bank has an output enable    *)
(* register OE, a bit set for an input, and an output latch DATAOUT.       *)
(* gpiolib changes the bit of one pin at a time with the bank's spin lock  *)
(* held.  A number that is no GPIO has no descriptor: its calls do         *)
(* nothing.                                                                *)
(***************************************************************************)

CONSTANTS
    Pin,        \* the GPIOs of the board that the drivers are used with
    LED_1,      \* GPIO1_14, number 46, P8_16
    LED_2       \* GPIO0_31, number 31, P9_13

ASSUME LedsAreGpios == LED_1 \in Pin /\ LED_2 \in Pin /\ LED_1 # LED_2

VARIABLES
    oe,         \* the pins whose bit is set in OE: inputs
    dataout,    \* the pins whose bit is set in DATAOUT: driven high as outputs
    requested   \* the pins requested in gpiolib

pins == <<oe, dataout, requested>>

PinTypes == oe \subseteq Pin /\ dataout \subseteq Pin /\ requested \subseteq Pin

Shows(n) == IF n \in oe THEN "in" ELSE IF n \in dataout THEN "HIGH" ELSE "LOW"

\* gpio_direction_input, gpio_direction_output(., 0), gpio_set_value
DirectionInput(n) == oe' = oe \cup (Pin \cap {n}) /\ UNCHANGED dataout
DirectionOutput(n) == oe' = oe \ {n} /\ dataout' = dataout \ {n}
SetValue(n, high) ==
    /\ dataout' = IF high THEN dataout \cup (Pin \cap {n}) ELSE dataout \ {n}
    /\ UNCHANGED oe

\* gpio_request fails with EBUSY on a pin that is requested, gpio_free only
\* warns about one that is not; a freed pin becomes an input
Request(n) == requested' = requested \cup {n}
FreeGpio(n) ==
    /\ requested' = requested \ {n}
    /\ oe' = IF n \in requested THEN oe \cup {n} ELSE oe
    /\ UNCHANGED dataout
=============================================================================
