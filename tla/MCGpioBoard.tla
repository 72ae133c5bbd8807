---------------------------- MODULE MCGpioBoard -----------------------------
(***************************************************************************)
(* The LEDs of GPIO 46 and 31 and the pin 48 of readme.md, which is in the *)
(* bank of 46; two commands a user may type, and what is on the stack for  *)
(* a command that is not complete where it is parsed.                      *)
(***************************************************************************)
EXTENDS GpioBoard, TLC

CONSTANTS P46, P31, P48, File1, File2

MCPin == {P46, P31, P48}
MCFile == {File1, File2}
MCUser == MCFile \cup {LED}
MCBank == (P46 :> 1) @@ (P48 :> 1) @@ (P31 :> 0)
MCCommand ==
    {[pin |-> P48, mode |-> "out", value |-> "HIGH"],
     [pin |-> P46, mode |-> "in", value |-> Missing]}
MCGarbage ==
    {[pin |-> NoGpio, mode |-> "out", value |-> "LOW"],
     [pin |-> P48, mode |-> "out", value |-> "other"],
     [pin |-> P46, mode |-> "other", value |-> "other"]}
MCSymmetry == Permutations(MCFile)
=============================================================================
