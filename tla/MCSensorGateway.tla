-------------------------- MODULE MCSensorGateway --------------------------
(***************************************************************************)
(* The gateway with the two sensor nodes of the repository.                *)
(***************************************************************************)
EXTENDS SensorGateway, TLC

CONSTANTS client_1, client_2

MCClient == {client_1, client_2}
MCDevice == (client_1 :> 1) @@ (client_2 :> 2)

OneClient == {client_1}
OneDevice == client_1 :> 1
=============================================================================
