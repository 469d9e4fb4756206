------------------------ MODULE MC_MissionCoordinator ------------------------
(* Two missions of two visits whose second visit asks for both              *)
(* confirmations, three requests, one fault and a restart;                  *)
(* MC_MissionUndriven.cfg has one mission, both visits of which are         *)
(* confirmed after arrival, and one caller that is cancelled.               *)
EXTENDS MissionCoordinator
=============================================================================
