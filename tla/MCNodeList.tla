----------------------------- MODULE MCNodeList -----------------------------
(***************************************************************************)
(* Four nodes of memory: as many readings as are saved, so that malloc may *)
(* also return a node that was freed before.                               *)
(***************************************************************************)
EXTENDS NodeList

MCNode == 1..4
=============================================================================
