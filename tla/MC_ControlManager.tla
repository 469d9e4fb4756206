-------------------------- MODULE MC_ControlManager --------------------------
(***************************************************************************)
(* Small instances of ControlManager for TLC.                              *)
(***************************************************************************)
EXTENDS ControlManager
=============================================================================
