------------------------- MODULE NavigationGateway -------------------------
(***************************************************************************)
(* The gateway between Nav2 and the control lease, class                   *)
(* NavigationRosGateway of src/robot_dashboard/ros/navigation_gateway.py,  *)
(* with the control tick of ros_agent.py that supervises it.               *)
(*                                                                         *)
(* Two locks order it.  HTTP requests, velocity commands and the control   *)
(* tick hold operation_lock for their whole duration; the callbacks of the *)
(* action client (goal response, feedback, result) take only               *)
(* _navigation_lock, and take operation_lock later to issue the stop they  *)
(* owe.  An action is one critical section of _navigation_lock: held says  *)
(* who is between two of them with operation_lock in hand, tail what a     *)
(* callback still has to do after its first one.  Operations under         *)
(* operation_lock whose later sections no callback can influence are one   *)
(* action.                                                                 *)
(*                                                                         *)
(* The control manager is reduced to ControlLease's view of it: who holds  *)
(* the lease and whether the newest intent is a motion.  Nav2 is external: *)
(* it answers a goal request, runs it, ends it, and sends feedback at any  *)
(* time.  Readiness of the robot appears only as an operation that is not  *)
(* taken and as a lease that ends.  Poses and velocities are reduced to    *)
(* zero or not, maps to the session that pinned them.  The experimental    *)
(* manual-seed sessions and the goal metrology are left out.               *)
(***************************************************************************)
EXTENDS Naturals

CONSTANTS
    MaxSessions,   \* bound: navigation sessions activated
    MaxGoals,      \* bound: goals sent
    MaxFaults      \* bound: adverse changes of the environment

ASSUME BoundsAssumption ==
    MaxSessions \in Nat /\ MaxGoals \in Nat /\ MaxFaults \in Nat

VARIABLES
    gw,     \* the gateway: session, goal and generation counters
    mgr,    \* the control manager as the gateway sees it
    inp,    \* what the validated receipts say of the navigation inputs
    srv,    \* the Nav2 action server, one record per goal
    tail,   \* what the callbacks of a goal still have to do
    held,   \* the operation between two sections, with operation_lock
    owed    \* the input callback that decided to close a session

vars == <<gw, mgr, inp, srv, tail, held, owed>>

Goals    == 1..MaxGoals
Sessions == 1..MaxSessions
MANUAL   == MaxSessions + 1     \* the lease of a human operator
Busy     == {"pending", "active", "canceling"}
Ended    == {"idle", "succeeded", "canceled", "failed"}
Free     == [by |-> "none", goal |-> 0, state |-> "idle"]

Gateway == [active : BOOLEAN, localizing : BOOLEAN,
            token : 0..MaxSessions, sessions : 0..MaxSessions,
            gen : Nat,
            goal : 0..MaxGoals, state : Busy \cup Ended, goals : 0..MaxGoals,
            handle : 0..MaxGoals, cancel : BOOLEAN,
            pose : {"uninitialized", "localizing", "localized"}]

Manager == [lease : 0..MANUAL, moving : BOOLEAN, faults : 0..MaxFaults]

Server == [phase : {"none", "requested", "running", "refused", "ended"},
           cb    : {"none", "respond", "result"},
           gen   : Nat,
           asked : BOOLEAN, unwatched : BOOLEAN]

\* One type invariant for the module.
TypeOK ==
    /\ gw \in Gateway
    /\ mgr \in Manager
    /\ inp \in [fresh : BOOLEAN, located : BOOLEAN]
    /\ srv \in [Goals -> Server]
    /\ tail \in [Goals -> {"none", "cancel", "register", "registerCancel",
                           "stop"}]
    /\ held \in [by : {"none", "send", "cancel", "velocity"},
                 goal : 0..MaxGoals, state : Busy \cup Ended]
    /\ owed \in {"none", "navigation", "localization"}

Init ==
    /\ gw = [active |-> FALSE, localizing |-> FALSE, token |-> 0,
             sessions |-> 0, gen |-> 0, goal |-> 0, state |-> "idle",
             goals |-> 0, handle |-> 0, cancel |-> FALSE,
             pose |-> "uninitialized"]
    /\ mgr = [lease |-> 0, moving |-> FALSE, faults |-> 0]
    /\ inp = [fresh |-> FALSE, located |-> FALSE]
    /\ srv = [g \in Goals |-> [phase |-> "none", cb |-> "none", gen |-> 0,
                               asked |-> FALSE, unwatched |-> FALSE]]
    /\ tail = [g \in Goals |-> "none"]
    /\ held = Free
    /\ owed = "none"

OperationLockFree == held.by = "none"

-----------------------------------------------------------------------------
(* The control manager, as the gateway uses it.                            *)

\* submit_drive is accepted only from the live lease of this session.
Owned == gw.token # 0 /\ mgr.lease = gw.token

\* The stop of release_lease, of a zero velocity and of the fallback: the
\* session's own motion ends.
Halted(m) == IF gw.token # 0 /\ m.lease = gw.token
             THEN [m EXCEPT !.moving = FALSE] ELSE m

-----------------------------------------------------------------------------
(* Interlocks.                                                             *)

\* _navigation_sensor_interlock_reason returns None.
Interlock(requireLocalized) ==
    inp.fresh /\ (requireLocalized => inp.located)

\* start_preflight and localization_only_preflight: no session of either
\* kind, no goal in progress, no lease.
NoOwner ==
    /\ ~gw.active /\ gw.token = 0 /\ gw.state \notin Busy
    /\ ~gw.localizing
    /\ mgr.lease = 0

-----------------------------------------------------------------------------
(* Sessions.                                                               *)

\* activate(): preflight, interlock, acquire and bind the navigation lease,
\* install a new session.
Activate ==
    /\ OperationLockFree
    /\ gw.sessions < MaxSessions
    /\ NoOwner
    /\ Interlock(FALSE)
    /\ gw' = [gw EXCEPT !.active = TRUE, !.token = gw.sessions + 1,
                        !.sessions = @ + 1, !.gen = @ + 1, !.goal = 0,
                        !.state = "idle", !.handle = 0, !.cancel = FALSE,
                        !.pose = "uninitialized"]
    /\ mgr' = [mgr EXCEPT !.lease = gw.sessions + 1, !.moving = FALSE]
    /\ UNCHANGED <<inp, srv, tail, held, owed>>

\* deactivate(): close the velocity gate, release the lease (which stops),
\* then ask Nav2 to cancel the goal whose handle is known.  The last section
\* of every operation that closes the session.
Deactivate ==
    /\ gw' = [gw EXCEPT !.active = FALSE, !.token = 0, !.handle = 0,
                        !.cancel = FALSE, !.gen = @ + 1,
                        !.state = IF @ \in Busy THEN "canceled" ELSE @,
                        !.pose = "uninitialized"]
    /\ mgr' = IF Owned THEN [mgr EXCEPT !.lease = 0, !.moving = FALSE] ELSE mgr
    /\ srv' = IF gw.handle = 0 THEN srv
              ELSE [srv EXCEPT ![gw.handle].asked = TRUE]

\* The operator stops navigation.
StopNavigation ==
    /\ OperationLockFree /\ gw.active
    /\ Deactivate
    /\ UNCHANGED <<inp, tail, held, owed>>

\* activate_localization_only(): the same exclusions, and no lease is taken.
ActivateLocalizationOnly ==
    /\ OperationLockFree
    /\ NoOwner
    /\ Interlock(FALSE)
    /\ gw' = [gw EXCEPT !.localizing = TRUE, !.pose = "uninitialized"]
    /\ UNCHANGED <<mgr, inp, srv, tail, held, owed>>

\* deactivate_localization_only(), by the operator or by a callback that saw
\* the session fail.
EndLocalization == gw' = [gw EXCEPT !.localizing = FALSE,
                                    !.pose = "uninitialized"]

StopLocalization ==
    /\ OperationLockFree /\ gw.localizing
    /\ EndLocalization
    /\ UNCHANGED <<mgr, inp, srv, tail, held, owed>>

\* set_initial_pose() and set_localization_only_initial_pose().
SetInitialPose ==
    /\ OperationLockFree
    /\ gw.active \/ (gw.localizing /\ gw.pose = "uninitialized")
    /\ gw.localizing => mgr.lease = 0
    /\ gw.state \notin Busy
    /\ Interlock(FALSE)
    /\ gw' = [gw EXCEPT !.pose = "localizing"]
    /\ UNCHANGED <<mgr, inp, srv, tail, held, owed>>

-----------------------------------------------------------------------------
(* Navigation inputs.                                                      *)

\* A valid localization pose, scan, odometry or runtime health sample.
ValidSample ==
    \/ /\ inp' = [inp EXCEPT !.fresh = TRUE]
       /\ UNCHANGED gw
    \/ /\ inp' = [inp EXCEPT !.located = TRUE]
       /\ gw' = IF gw.active \/ gw.localizing
                THEN [gw EXCEPT !.pose = "localized"] ELSE gw

NavigationInputCallback ==
    /\ ValidSample
    /\ UNCHANGED <<mgr, srv, tail, held, owed>>

\* Silence, or a runtime health report that says the robot is lost.
InputLost ==
    /\ mgr.faults < MaxFaults
    /\ mgr' = [mgr EXCEPT !.faults = @ + 1]
    /\ \/ inp' = [inp EXCEPT !.fresh = FALSE]
       \/ inp' = [inp EXCEPT !.located = FALSE]
    /\ inp' # inp
    /\ UNCHANGED <<gw, srv, tail, held, owed>>

\* A rejected sample: the receipt is cleared and the callback decides, under
\* _navigation_lock, which session it has to close ...
InvalidSample ==
    /\ mgr.faults < MaxFaults
    /\ mgr' = [mgr EXCEPT !.faults = @ + 1]
    /\ owed = "none"
    /\ \/ inp' = [inp EXCEPT !.fresh = FALSE]
       \/ inp' = [inp EXCEPT !.located = FALSE]
    /\ owed' = IF gw.active THEN "navigation"
               ELSE IF gw.localizing THEN "localization" ELSE "none"
    /\ UNCHANGED <<gw, srv, tail, held>>

\* ... and closes whatever session is there once it has operation_lock;
\* fail_localization_only looks again, deactivate does not.
CloseAfterInvalidSample ==
    /\ OperationLockFree
    /\ owed # "none" /\ owed' = "none"
    /\ \/ owed = "navigation" /\ Deactivate
       \/ /\ owed = "localization"
          /\ IF gw.localizing THEN EndLocalization ELSE UNCHANGED gw
          /\ UNCHANGED <<mgr, srv>>
    /\ UNCHANGED <<inp, tail, held>>

-----------------------------------------------------------------------------
(* Goals.                                                                  *)

\* send_goal(), first part: the guards, a new generation, the goal pending.
SendGoal ==
    /\ OperationLockFree
    /\ gw.goals < MaxGoals
    /\ Interlock(TRUE)
    /\ gw.active /\ gw.pose = "localized"
    /\ gw.state \notin Busy
    /\ gw' = [gw EXCEPT !.goals = @ + 1, !.goal = gw.goals + 1,
                        !.state = "pending", !.gen = @ + 1,
                        !.cancel = FALSE, !.handle = 0]
    /\ held' = [by |-> "send", goal |-> gw.goals + 1, state |-> "pending"]
    /\ UNCHANGED <<mgr, inp, srv, tail, owed>>

\* send_goal(), second part: the request leaves and its response callback is
\* registered, or it could not be sent.
SendGoalDispatch ==
    /\ held.by = "send" /\ held' = Free
    /\ \/ /\ srv' = [srv EXCEPT ![held.goal] =
                         [@ EXCEPT !.phase = "requested", !.cb = "respond",
                                   !.gen = gw.gen]]
          /\ UNCHANGED <<gw, mgr>>
       \/ /\ gw' = IF gw.goal = held.goal
                   THEN [gw EXCEPT !.state = "failed"] ELSE gw
          /\ mgr' = Halted(mgr)
          /\ UNCHANGED srv
    /\ UNCHANGED <<inp, tail, owed>>

\* cancel_goal(), first part: mark the goal and remember its handle.
CancelGoal ==
    /\ OperationLockFree
    /\ gw.goal # 0 /\ gw.state \in Busy
    /\ gw' = [gw EXCEPT !.state = "canceling", !.cancel = TRUE]
    /\ held' = [by |-> "cancel", goal |-> gw.handle, state |-> "canceling"]
    /\ UNCHANGED <<mgr, inp, srv, tail, owed>>

\* cancel_goal(), second part: stop first, then ask Nav2.
CancelGoalStop ==
    /\ held.by = "cancel" /\ held' = Free
    /\ mgr' = Halted(mgr)
    /\ srv' = IF held.goal = 0 THEN srv
              ELSE [srv EXCEPT ![held.goal].asked = TRUE]
    /\ UNCHANGED <<gw, inp, tail, owed>>

\* Only the goal id is compared, so a goal survives its session.
StaleById(g) == gw.goal # g

\* A callback of goal g is of another session or of an older goal.
Stale(g) == srv[g].gen # gw.gen \/ gw.goal # g

\* _navigation_goal_response_callback(), under _navigation_lock.
GoalResponse(g) ==
    LET accepted == srv[g].phase \in {"running", "ended"} IN
    /\ srv[g].cb = "respond" /\ srv[g].phase # "requested"
    /\ tail[g] = "none"
    /\ srv' = [srv EXCEPT ![g].cb = "none"]
    /\ \/ /\ Stale(g)
          /\ tail' = [tail EXCEPT ![g] = IF accepted THEN "cancel" ELSE "none"]
          /\ UNCHANGED gw
       \/ /\ ~Stale(g) /\ accepted
          /\ gw' = [gw EXCEPT !.handle = g, !.state = IF gw.cancel
                                              THEN "canceling" ELSE "active"]
          /\ tail' = [tail EXCEPT ![g] = IF gw.cancel THEN "registerCancel"
                                                      ELSE "register"]
       \/ /\ ~Stale(g) /\ ~accepted
          /\ gw' = [gw EXCEPT !.state = "failed"]
          /\ tail' = [tail EXCEPT ![g] = "stop"]
    /\ UNCHANGED <<mgr, inp, held, owed>>

\* The rest of the response callback: cancel a goal nobody wants, and ask
\* for the result, which may fail.
AfterResponse(g) ==
    /\ tail[g] \in {"cancel", "register", "registerCancel"}
    /\ LET asked == srv[g].asked \/ tail[g] # "register" IN
       \/ /\ srv' = [srv EXCEPT ![g].asked = asked,
                                ![g].cb = IF tail[g] = "cancel" THEN "none"
                                          ELSE "result"]
          /\ tail' = [tail EXCEPT ![g] = "none"]
          /\ UNCHANGED gw
       \/ /\ tail[g] # "cancel"
          /\ srv' = [srv EXCEPT ![g].asked = asked, ![g].unwatched = TRUE]
          /\ gw' = IF Stale(g) THEN gw ELSE [gw EXCEPT !.state = "failed"]
          /\ tail' = [tail EXCEPT ![g] = "stop"]
    /\ UNCHANGED <<mgr, inp, held, owed>>

\* Feedback opens the gate in any state of the current goal.
GoalFeedbackAlways(g) ==
    /\ srv[g].phase \in {"running", "ended"}
    /\ ~Stale(g)
    /\ gw.handle # 0
    /\ gw' = [gw EXCEPT !.state = "active"]
    /\ UNCHANGED <<mgr, inp, srv, tail, held, owed>>

\* _navigation_feedback_callback().
GoalFeedback(g) ==
    /\ srv[g].phase \in {"running", "ended"}
    /\ ~Stale(g) /\ gw.state \in {"pending", "active"}
    /\ gw.handle # 0
    /\ gw' = [gw EXCEPT !.state = "active"]
    /\ UNCHANGED <<mgr, inp, srv, tail, held, owed>>

\* The result callback closes the goal but forgets the stop.
GoalResultWithoutStop(g) ==
    /\ srv[g].cb = "result" /\ srv[g].phase = "ended"
    /\ srv' = [srv EXCEPT ![g].cb = "none"]
    /\ gw' = IF Stale(g) THEN gw
             ELSE [gw EXCEPT !.state = "succeeded", !.handle = 0,
                             !.cancel = FALSE]
    /\ UNCHANGED <<mgr, inp, tail, held, owed>>

\* A result status without a name is written as it came.
GoalResultUnmapped(g) ==
    /\ srv[g].cb = "result" /\ srv[g].phase = "ended"
    /\ srv' = [srv EXCEPT ![g].cb = "none"]
    /\ gw' = IF Stale(g) THEN gw
             ELSE [gw EXCEPT !.state = "unknown", !.handle = 0,
                             !.cancel = FALSE]
    /\ tail' = [tail EXCEPT ![g] = "stop"]
    /\ UNCHANGED <<mgr, inp, held, owed>>

\* _navigation_result_callback(), under _navigation_lock.
GoalResult(g) ==
    /\ srv[g].cb = "result" /\ srv[g].phase = "ended"
    /\ srv' = [srv EXCEPT ![g].cb = "none"]
    /\ IF Stale(g)
       THEN UNCHANGED <<gw, tail>>
       ELSE /\ \E s \in {"succeeded", "canceled", "failed"} :
                  gw' = [gw EXCEPT !.state = s, !.handle = 0,
                                   !.cancel = FALSE]
            /\ tail' = [tail EXCEPT ![g] = "stop"]
    /\ UNCHANGED <<mgr, inp, held, owed>>

\* _navigation_issue_stop() at the end of a callback.
IssueStop(g) ==
    /\ OperationLockFree
    /\ tail[g] = "stop"
    /\ tail' = [tail EXCEPT ![g] = "none"]
    /\ mgr' = Halted(mgr)
    /\ UNCHANGED <<gw, inp, srv, held, owed>>

-----------------------------------------------------------------------------
(* Velocity commands.                                                      *)

\* submit_velocity(), first section: the goal state that opens the gate.
Velocity ==
    /\ OperationLockFree /\ gw.active
    /\ held' = [by |-> "velocity", goal |-> gw.goal, state |-> gw.state]
    /\ UNCHANGED <<gw, mgr, inp, srv, tail, owed>>

\* The rest of it: a zero stops; a motion stops without an active goal,
\* closes the session when an input is missing or the manager refuses it,
\* and is otherwise the newest intent.
VelocitySubmit ==
    /\ held.by = "velocity" /\ held' = Free
    /\ \/ \* zero velocity, or no active goal
          /\ mgr' = Halted(mgr)
          /\ UNCHANGED <<gw, srv>>
       \/ /\ held.state = "active"
          /\ ~Interlock(TRUE) \/ ~Owned
          /\ Deactivate
       \/ /\ held.state = "active"
          /\ Interlock(TRUE) /\ Owned
          /\ mgr' = [mgr EXCEPT !.moving = TRUE]
          /\ UNCHANGED <<gw, srv>>
    /\ UNCHANGED <<inp, tail, owed>>

\* _navigation_cmd_vel_callback() before the gate: an invalid command or a
\* second publisher, and any motion in a localization-only session.
BadCommand ==
    /\ OperationLockFree
    /\ gw.active \/ gw.localizing
    /\ IF gw.localizing THEN EndLocalization /\ UNCHANGED <<mgr, srv>>
                        ELSE Deactivate
    /\ UNCHANGED <<inp, tail, held, owed>>

-----------------------------------------------------------------------------
(* The control tick and the other users of the manager.                    *)

\* The tick looks only at the inputs.
ReconciledByInputs(m) == ~gw.active \/ Interlock(gw.state \in Busy)

\* reconcile_control_locked() finds nothing wrong.
Reconciled(m) ==
    ~gw.active \/ (m.lease = gw.token /\ Interlock(gw.state \in Busy))

\* _control_tick: reconcile, keep the lease alive, let the manager tick,
\* reconcile again.
ControlTick ==
    /\ OperationLockFree
    /\ ~Reconciled(mgr)
    /\ Deactivate
    /\ UNCHANGED <<inp, tail, held, owed>>

\* The manager ends the lease: software stop, lost readiness, a heartbeat
\* that came too late, or its owner.
LeaseEnds ==
    /\ OperationLockFree
    /\ mgr.lease # 0 /\ mgr.faults < MaxFaults
    /\ mgr' = [mgr EXCEPT !.lease = 0, !.moving = FALSE, !.faults = @ + 1]
    /\ UNCHANGED <<gw, inp, srv, tail, held, owed>>

\* The command watchdog of the manager: a motion that is not renewed in time
\* ends with its lease.
CommandTimesOut ==
    /\ OperationLockFree
    /\ mgr.moving
    /\ mgr' = [mgr EXCEPT !.lease = 0, !.moving = FALSE]
    /\ UNCHANGED <<gw, inp, srv, tail, held, owed>>

\* control_acquire(): a human arms manual control.
ManualAcquire ==
    /\ OperationLockFree
    /\ ~gw.active /\ ~gw.localizing
    /\ mgr.lease = 0
    /\ mgr' = [mgr EXCEPT !.lease = MANUAL]
    /\ UNCHANGED <<gw, inp, srv, tail, held, owed>>

ManualDrive ==
    /\ OperationLockFree
    /\ mgr.lease = MANUAL
    /\ mgr' = [mgr EXCEPT !.moving = TRUE]
    /\ UNCHANGED <<gw, inp, srv, tail, held, owed>>

ManualRelease ==
    /\ OperationLockFree
    /\ mgr.lease = MANUAL
    /\ mgr' = [mgr EXCEPT !.lease = 0, !.moving = FALSE]
    /\ UNCHANGED <<gw, inp, srv, tail, held, owed>>

-----------------------------------------------------------------------------
(* Nav2.                                                                   *)

ServerDecide(g) ==
    /\ srv[g].phase = "requested"
    /\ \E p \in {"running", "refused"} : srv' = [srv EXCEPT ![g].phase = p]
    /\ UNCHANGED <<gw, mgr, inp, tail, held, owed>>

ServerEnd(g) ==
    /\ srv[g].phase = "running"
    /\ srv' = [srv EXCEPT ![g].phase = "ended"]
    /\ UNCHANGED <<gw, mgr, inp, tail, held, owed>>

-----------------------------------------------------------------------------

Callbacks(g) == \/ GoalResponse(g) \/ AfterResponse(g) \/ GoalFeedback(g)
                \/ GoalResult(g) \/ IssueStop(g)

Operator == \/ Activate \/ StopNavigation
            \/ ActivateLocalizationOnly \/ StopLocalization \/ SetInitialPose
            \/ SendGoal \/ CancelGoal
            \/ ManualAcquire \/ ManualDrive \/ ManualRelease

Inputs == \/ NavigationInputCallback \/ InputLost \/ InvalidSample
          \/ CloseAfterInvalidSample \/ Velocity \/ BadCommand

Underway == SendGoalDispatch \/ CancelGoalStop \/ VelocitySubmit

Next == \/ Operator \/ Inputs \/ Underway
        \/ ControlTick \/ LeaseEnds \/ CommandTimesOut
        \/ \E g \in Goals : Callbacks(g) \/ ServerDecide(g) \/ ServerEnd(g)

\* The timer and the executor run what is due: an operation that holds the
\* lock goes on, and whoever keeps finding the lock free gets it in the end.
Fairness == /\ WF_vars(Underway)
            /\ SF_vars(ControlTick)
            /\ SF_vars(CloseAfterInvalidSample)
            /\ \A g \in Goals : WF_vars(AfterResponse(g)) /\ SF_vars(IssueStop(g))

Spec == Init /\ [][Next]_vars /\ Fairness

-----------------------------------------------------------------------------
(* Properties.                                                             *)

\* Autonomous motion belongs to the open session and to an active goal.  The
\* one exception is the time between the section that ends the goal and the
\* stop that follows it, in a result callback or in cancel_goal.
MotionHasActiveGoal ==
    mgr.moving /\ mgr.lease \in Sessions =>
        /\ gw.active /\ gw.token = mgr.lease
        /\ \/ gw.state = "active"
           \/ \E g \in Goals : tail[g] = "stop"
           \/ held.by = "cancel"

\* Every goal that Nav2 still runs is the goal of the open session, or was
\* asked to cancel, or a callback is about to ask it; deactivation, a late
\* acceptance and a cancel that overtakes the acceptance lose no goal.  A
\* goal whose result could not be requested is the exception.
NoOrphanGoal ==
    \A g \in Goals : srv[g].phase = "running" =>
        \/ srv[g].asked \/ srv[g].unwatched
        \/ srv[g].cb = "respond"
        \/ tail[g] \in {"cancel", "registerCancel"}
        \/ /\ gw.active /\ gw.goal = g /\ gw.handle = g
           /\ gw.state = "active" \/ held.by = "cancel"

\* A goal that was cancelled, failed or finished never becomes pending or
\* active again, whatever response, feedback or result arrives late.
GoalNeverRevives ==
    [][gw.goal = gw'.goal /\ gw.state \notin {"pending", "active"}
         => gw'.state \notin {"pending", "active"}]_vars

\* A session whose lease is gone is closed by the control tick.
LostLeaseCloses ==
    \A s \in Sessions :
        (gw.active /\ gw.token = s /\ mgr.lease # s) ~> ~(gw.active /\ gw.token = s)
=============================================================================
