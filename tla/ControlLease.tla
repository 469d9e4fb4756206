---------------------------- MODULE ControlLease ----------------------------
(***************************************************************************)
(* What the control manager of src/robot_dashboard/control.py promises to  *)
(* the rest of the program, without its timeouts, bindings, sequence       *)
(* numbers and queues: there is one holder at a time, only the holder      *)
(* drives, a lease ends together with its motion, and a new holder starts  *)
(* with a robot that was told to stop.  ControlManager implements it.      *)
(***************************************************************************)
EXTENDS Naturals

VARIABLES
    holder,   \* the lease that is alive, 0 for none
    newest,   \* the lease whose drive is the newest command, 0 for a stop
    granted   \* leases granted so far

lease == <<holder, newest, granted>>

Init == holder = 0 /\ newest = 0 /\ granted = 0

\* A lease is granted; a predecessor may end in the same step.
Grant == /\ granted' = granted + 1 /\ holder' = granted' /\ newest' = 0

\* The holder's drive becomes the newest command.
Drive == /\ holder # 0 /\ newest' = holder
         /\ UNCHANGED <<holder, granted>>

\* The holder lets go of the deadman.
Still == /\ newest' = 0
         /\ UNCHANGED <<holder, granted>>

\* The lease ends, for whatever reason.
Revoke == /\ holder # 0 /\ holder' = 0 /\ newest' = 0
          /\ UNCHANGED granted

Next == Grant \/ Drive \/ Still \/ Revoke

Spec == Init /\ [][Next]_lease
=============================================================================
