----------------------------- MODULE MCLogFifo -----------------------------
(***************************************************************************)
(* The event log with the two threads that write to it.                    *)
(***************************************************************************)
EXTENDS LogFifo

CONSTANTS conn_mgr, data_mgr

MCWriter == {conn_mgr, data_mgr}
MCFirst == {conn_mgr}
MCCancellable == {data_mgr}
MCWhat == {"event"}
=============================================================================
