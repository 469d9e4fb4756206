------------------------- MODULE MC_NavigationStart -------------------------
(***************************************************************************)
(* Small instances of NavigationStart for TLC.                             *)
(***************************************************************************)
EXTENDS NavigationStart
=============================================================================
