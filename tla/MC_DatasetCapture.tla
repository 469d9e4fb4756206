-------------------------- MODULE MC_DatasetCapture --------------------------
(* The dataset capture service on a small instance: two cameras, a queue of *)
(* two bundles, two sessions, crashes and faults at any step.               *)
EXTENDS DatasetCapture

=============================================================================
