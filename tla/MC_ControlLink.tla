--------------------------- MODULE MC_ControlLink ---------------------------
(***************************************************************************)
(* One dashboard process for TLC, with and without the assumption that it  *)
(* heard of a bridge process before that one is replaced.                  *)
(***************************************************************************)
EXTENDS ControlLink
=============================================================================
