------------------------ MODULE MC_NavigationGateway ------------------------
(***************************************************************************)
(* Small instances of NavigationGateway for TLC.                           *)
(***************************************************************************)
EXTENDS NavigationGateway
=============================================================================
