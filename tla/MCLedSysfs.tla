----------------------------- MODULE MCLedSysfs -----------------------------
(***************************************************************************)
(* Two programs on the two LEDs, and a shell that writes what the programs *)
(* do not.                                                                 *)
(***************************************************************************)
EXTENDS LedSysfs, TLC

CONSTANTS P46, P31, App1, App2

MCPin == {P46, P31}
MCProgram == {App1, App2}
MCEchoed == {<<"direction", "junk">>, <<"value", "5">>, <<"value", "junk">>}
MCSymmetry == Permutations(MCProgram)
=============================================================================
