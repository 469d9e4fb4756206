-------------------------- MODULE MC_Go2BridgeCore --------------------------
(***************************************************************************)
(* Small instances of Go2BridgeCore for TLC.                               *)
(***************************************************************************)
EXTENDS Go2BridgeCore
=============================================================================
