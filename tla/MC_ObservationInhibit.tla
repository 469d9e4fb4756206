----------------------- MODULE MC_ObservationInhibit -----------------------
(***************************************************************************)
(* Small instances of ObservationInhibit for TLC.                          *)
(***************************************************************************)
EXTENDS ObservationInhibit
=============================================================================
