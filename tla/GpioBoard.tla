----------------------------- MODULE GpioBoard ------------------------------
(***************************************************************************)
(* The character driver and the ioremap module on one board.  They know    *)
(* nothing of each other and share the registers of the GPIO banks.        *)
(* Another driver has requested the pins of the LEDs, as bbb-sysfs does.   *)
(***************************************************************************)
EXTENDS GpioDevice, LedIoremap

ASSUME UsersAreDistinct ==
    /\ User = File \cup {LED} /\ LED \notin File
    /\ User \cap (Level \cup {"anything"}) = {}

vars == <<board, device, led>>

TypeOK == BoardTypes /\ DeviceTypes /\ LedTypes

Init ==
    /\ oe = Pin /\ dataout = {}
    /\ requested = {LED_1, LED_2}
    /\ asked = [n \in Pin |-> "anything"]
    /\ DeviceInit /\ LedStart

Next == \/ DeviceNext /\ Touch /\ UNCHANGED <<todo, loaded, reg>>
        \/ LedNext /\ UNCHANGED device

Spec == Init /\ [][Next]_vars
=============================================================================
