------------------------- MODULE MissionCoordinator -------------------------
(***************************************************************************)
(* Multi-waypoint missions, class MissionCoordinator of                    *)
(* src/robot_dashboard/application/mission_coordinator.py.                 *)
(*                                                                         *)
(* Every operation and every poll of the monitor task runs under one fair  *)
(* asyncio lock; op is its holder, queue the tasks that wait for it.  The  *)
(* holder awaits the annotation store, Nav2 and the cancellation of a      *)
(* goal, so an operation is several steps, between which Nav2 goes on and  *)
(* pause and abort leave a stop request, which needs no lock.  Nav2 and    *)
(* the gateway are external: a goal ends by itself or by a cancel, the     *)
(* session may be lost and come back, and a goal that is no mission's may  *)
(* slip in.  A save replaces the stored document or fails; a crash reloads *)
(* the last one stored.                                                    *)
(*                                                                         *)
(* The context guard raises while a planner or a SLAM job has the context  *)
(* (nav.busy), and the caller of an operation may be cancelled where the   *)
(* operation awaits.                                                       *)
(*                                                                         *)
(* Left out: the native two-leg owner, the operator test gate, and what a  *)
(* route pinned to a context revision adds (its admission and its planner).*)
(* The two confirmations, before a departure and after an arrival, are     *)
(* here; a confirmation token is the visit it is for.                      *)
(***************************************************************************)
EXTENDS Integers, Sequences, FiniteSets

CONSTANTS
    Missions,       \* the missions of the catalogue
    Visits,         \* waypoints of a mission
    ConfirmBefore,  \* visits that require a confirmation before departure
    ConfirmAfter,   \* visits that require one after arrival
    MaxRequests,    \* bound: operator requests
    MaxGoals,       \* bound: goals of missions and of others
    MaxFaults,      \* bound: failed saves, lost sessions, foreign goals, guards
                    \* that begin to raise, callers that are cancelled
    MaxCrashes      \* bound: restarts of the dashboard

ASSUME MissionAssumption ==
    /\ Visits \in Nat \ {0} /\ IsFiniteSet(Missions) /\ "none" \notin Missions
    /\ ConfirmBefore \subseteq 1..Visits /\ ConfirmAfter \subseteq 1..Visits
    /\ {MaxRequests, MaxGoals, MaxFaults, MaxCrashes} \subseteq Nat

VARIABLES
    ms,       \* _missions
    active,   \* _active_id, the fence
    stops,    \* _stop_requests
    op,       \* the holder of _operation_lock and where it is
    queue,    \* the tasks waiting for _operation_lock, in order
    mon,      \* _task, the monitor: its mission and where it is
    nav,      \* the goal and the readiness the navigation view shows
    reached,  \* history: visits whose own goal succeeded
    broken,   \* history: visits a mission came to by a departure that was broken off
    disk,     \* the stored document
    left      \* what is left of the bounds

vars == <<ms, active, stops, op, queue, mon, nav, reached, broken, disk, left>>

ActiveStates == {"starting", "running", "pausing", "paused", "retrying",
                 "skipping", "canceling"}
GoalActive   == {"active", "canceling"}
GoalTerminal == {"idle", "succeeded", "failed", "canceled"}
Barred       == {"aborted", "interrupted"}
Requests     == {"start", "pause", "resume", "skip", "retry", "abort"}

Draft == [state |-> "ready", phase |-> "ready", outcome |-> "none", visit |-> 1,
          status |-> [v \in 1..Visits |-> "pending"], goal |-> 0, token |-> 0]
Free     == [kind |-> "free", m |-> "none", token |-> 0, pc |-> "idle"]
NoTask   == [m |-> "none", pc |-> "none"]
NoGoal   == [id |-> 0, state |-> "idle", owner |-> "none", visit |-> 0,
             ready |-> FALSE, busy |-> FALSE]

Init ==
    /\ ms = [m \in Missions |-> Draft] /\ active = "none" /\ stops = {}
    /\ op = Free /\ queue = <<>> /\ mon = NoTask
    /\ nav = [NoGoal EXCEPT !.ready = TRUE] /\ reached = {} /\ broken = {}
    /\ disk = [ms |-> ms, active |-> active]
    /\ left = [requests |-> MaxRequests, goals |-> MaxGoals,
               faults |-> MaxFaults, crashes |-> MaxCrashes]

-----------------------------------------------------------------------------
(* Storage, and how an operation ends.                                     *)

Saved == /\ disk' = [ms |-> ms', active |-> active']
         /\ UNCHANGED left

\* The document was not replaced, or it was and the directory not fsynced.
SaveFailed == /\ left.faults > 0 /\ left' = [left EXCEPT !.faults = @ - 1]
              /\ disk' \in {disk, [ms |-> ms', active |-> active']}

\* _save_for_stop goes on either way.
SavedForStop == Saved \/ SaveFailed

Unsaved == UNCHANGED <<disk, left>>

Me == ms[op.m]
Becomes(r) == ms' = [ms EXCEPT ![op.m] = r]

\* Still inside the operation.
Goto(pc) == op' = [op EXCEPT !.pc = pc] /\ UNCHANGED <<queue, mon>>

\* Where _task, the monitor, waits: at most one place of the queue.
TaskAt == {i \in DOMAIN queue : queue[i].kind \in {"monitor", "handler"}}

\* The waiting tasks without the monitor, which _stop_monitor_locked cancels.
Waiting ==
    IF TaskAt = {} THEN queue
    ELSE LET i == CHOOSE k \in TaskAt : TRUE
         IN  SubSeq(queue, 1, i - 1) \o SubSeq(queue, i + 1, Len(queue))

\* _start_monitor_locked replaces _task and cancels nothing.  An older monitor
\* finds a newer generation when it gets the lock, and is gone; one that waits
\* in its exception handler goes on as an orphan, whatever the generation is.
Orphaned ==
    IF \E i \in DOMAIN queue : queue[i].kind = "handler"
      THEN [i \in DOMAIN queue |->
              IF queue[i].kind = "handler" THEN [queue[i] EXCEPT !.kind = "orphan"]
                                           ELSE queue[i]]
      ELSE Waiting

\* As Return, if only start gave the mission a monitor.
ReturnUnwatched(r) ==
    /\ op' = Free
    /\ CASE op.kind = "monitor" ->
              /\ mon' = IF r.state = "running" THEN [mon EXCEPT !.pc = "sleep"] ELSE NoTask
              /\ UNCHANGED queue
         [] op.kind = "handler" -> mon' = NoTask /\ UNCHANGED queue
         [] op.kind = "start" /\ r.state = "running" ->
              mon' = [m |-> op.m, pc |-> "sleep"] /\ queue' = Orphaned
         [] OTHER -> UNCHANGED <<queue, mon>>

\* The operation returns with mission record r.  A monitor goes to sleep or
\* ends; start, resume, skip and retry start one if the mission runs.
Return(r) ==
    /\ op' = Free
    /\ CASE op.kind = "monitor" ->
              /\ mon' = IF r.state = "running" THEN [mon EXCEPT !.pc = "sleep"] ELSE NoTask
              /\ UNCHANGED queue
         [] op.kind = "handler" -> mon' = NoTask /\ UNCHANGED queue
         [] op.kind \in {"start", "resume", "skip", "retry"} /\ r.state = "running" ->
              mon' = [m |-> op.m, pc |-> "sleep"] /\ queue' = Orphaned
         [] OTHER -> UNCHANGED <<queue, mon>>

\* The operation raises: a request fails, a monitor queues for the lock again
\* in its exception handler.
Raise ==
    /\ op' = Free
    /\ CASE op.kind = "monitor" ->
              /\ mon' = [mon EXCEPT !.pc = "handler"]
              /\ queue' = Append(queue, [kind |-> "handler", m |-> op.m, token |-> 0])
         [] op.kind = "handler" -> mon' = NoTask /\ UNCHANGED queue
         [] OTHER -> UNCHANGED <<queue, mon>>

-----------------------------------------------------------------------------
(* Requests and the lock.                                                  *)

\* A request arrives: resume with the confirmation that is shown at that time,
\* pause and abort with a stop mark that they leave before they wait, and the
\* shutdown of the dashboard.
Request ==
    /\ left.requests > 0 /\ left' = [left EXCEPT !.requests = @ - 1]
    /\ \/ \E kind \in Requests, m \in Missions :
            /\ queue' = Append(queue, [kind |-> kind, m |-> m,
                                 token |-> IF kind = "resume" THEN ms[m].token ELSE 0])
            /\ stops' = IF kind \in {"pause", "abort"} /\ active = m
                          THEN stops \cup {m} ELSE stops
       \/ /\ queue' = Append(queue, [kind |-> "close", m |-> "none", token |-> 0])
          /\ UNCHANGED stops
    /\ UNCHANGED <<ms, active, op, mon, nav, reached, broken, disk>>

\* The caller of a stop is cancelled while it waits: only the mark is left.
StopAbandoned ==
    /\ active # "none" /\ stops' = stops \cup {active}
    /\ left.faults > 0 /\ left' = [left EXCEPT !.faults = @ - 1]
    /\ UNCHANGED <<ms, active, op, queue, mon, nav, reached, broken, disk>>

\* The sleep of the monitor ends.
MonitorWakes ==
    /\ mon.pc = "sleep" /\ mon' = [mon EXCEPT !.pc = "wait"]
    /\ queue' = Append(queue, [kind |-> "monitor", m |-> mon.m, token |-> 0])
    /\ UNCHANGED <<ms, active, stops, op, nav, reached, broken, disk, left>>

Acquire ==
    /\ op = Free /\ queue # <<>>
    /\ op' = [kind |-> Head(queue).kind, m |-> Head(queue).m,
              token |-> Head(queue).token, pc |-> "begin"]
    /\ queue' = Tail(queue)
    /\ UNCHANGED <<ms, active, stops, mon, nav, reached, broken, disk, left>>

Begins(kind) == op.kind = kind /\ op.pc = "begin"

\* The operation is refused or has nothing to do.
Refuse == /\ op' = Free
          /\ UNCHANGED <<ms, active, stops, queue, mon, nav, reached, broken, disk, left>>

\* _claim, with the discard of an older stop request that precedes it.
Claim == active' = op.m /\ stops' = stops \ {op.m}
Claimable == active \in {"none", op.m}

\* _claim raises, because the context guard does: only the stop request is gone.
ClaimRaises == /\ stops' = stops \ {op.m} /\ Raise
               /\ UNCHANGED <<ms, active, nav, reached, broken, disk, left>>

\* What a claimed operation that saves its new state does next.
SaveThen(pc) == \/ Saved /\ Goto(pc)
                \/ SaveFailed /\ Raise

MayStart == Me.state = "ready" /\ Claimable

Start ==
    /\ Begins("start")
    /\ IF ~MayStart THEN Refuse
       ELSE IF nav.busy THEN ClaimRaises
       ELSE /\ Claim
            /\ Becomes([Me EXCEPT !.state = "starting", !.outcome = "none"])
            /\ SaveThen("dispatch")
            /\ UNCHANGED <<nav, reached, broken>>

\* _stop_monitor_locked and the way to the cleanup of the goal, which a failed
\* save does not prevent.
StopThenCancel(state) ==
    /\ op' = [op EXCEPT !.pc = "cancel"] /\ mon' = NoTask /\ queue' = Waiting
    /\ Becomes([Me EXCEPT !.state = state]) /\ UNCHANGED <<active, stops, nav, reached, broken>>
    /\ SavedForStop

Pause ==
    /\ Begins("pause")
    /\ IF Me.state \in {"starting", "running"} /\ active = op.m
         THEN StopThenCancel("pausing")
         ELSE Refuse

\* An unstarted draft is only marked; the owner's goal is cleaned up first.
Abort ==
    /\ Begins("abort")
    /\ IF active = op.m THEN StopThenCancel("canceling")
       ELSE IF Me.state \in {"completed", "failed"} THEN Refuse
       ELSE /\ Becomes([Me EXCEPT !.state = "failed", !.phase = "completed",
                                  !.outcome = "aborted"])
            /\ op' = Free /\ UNCHANGED <<active, stops, queue, mon, nav, reached, broken>>
            /\ SavedForStop

\* _validated_annotations and _navigation_ready.
NavigationReady == nav.ready /\ nav.state \in GoalTerminal

\* What a resume waits for after its claim.
Admitted == ~nav.busy /\ NavigationReady

\* An explicit resume: refused if the state, the map or Nav2 does not allow it
\* or the confirmation is of another visit; the stop request is gone by then.
Resume ==
    /\ Begins("resume")
    /\ IF Me.state # "paused" \/ active # op.m THEN Refuse
       ELSE /\ stops' = stops \ {op.m} /\ UNCHANGED <<active, nav, reached, broken>>
            /\ \/ /\ Admitted /\ Me.phase = "after_arrival" /\ op.token = Me.token
                  /\ Becomes([Me EXCEPT !.state = "running"])
                  /\ Unsaved /\ Goto("confirmed")
               \/ /\ Admitted /\ Me.phase = "holding"
                  /\ Becomes([Me EXCEPT !.state = "running"])
                  /\ \/ Saved /\ Return([Me EXCEPT !.state = "running"])
                     \/ SaveFailed /\ Raise
               \/ /\ Admitted /\ Me.phase \notin {"after_arrival", "holding"}
                  /\ UNCHANGED ms /\ Unsaved /\ Goto("dispatch_confirmed")
               \/ UNCHANGED ms /\ Unsaved /\ Raise

MaySkip == /\ Me.state \in {"running", "paused", "failed"}
           /\ Me.outcome \notin Barred /\ Claimable

Skip ==
    /\ Begins("skip")
    /\ IF ~MaySkip THEN Refuse
       ELSE IF nav.busy THEN ClaimRaises
       ELSE /\ Claim
            /\ Becomes([Me EXCEPT !.state = "skipping"])
            /\ mon' = NoTask /\ queue' = Waiting
            /\ \/ Saved /\ op' = [op EXCEPT !.pc = "cancel"]
               \/ SaveFailed /\ op' = Free
            /\ UNCHANGED <<nav, reached, broken>>

\* As MayRetry, without the refusal of aborted and interrupted runs.
MayRetryAnything == Me.state = "failed" /\ Claimable

MayRetry == Me.state = "failed" /\ Me.outcome \notin Barred /\ Claimable

\* retry stops no monitor: a failed mission has none, or one in its handler.
Retry ==
    /\ Begins("retry")
    /\ IF ~MayRetry THEN Refuse
       ELSE IF nav.busy THEN ClaimRaises
       ELSE /\ Claim
            /\ Becomes([Me EXCEPT !.state = "retrying", !.outcome = "none", !.goal = 0,
                                  !.status = IF Me.visit > Visits THEN @
                                             ELSE [@ EXCEPT ![Me.visit] = "pending"]])
            /\ SaveThen("dispatch_confirmed")
            /\ UNCHANGED <<nav, reached, broken>>

\* close, when the dashboard shuts down: nothing runs after it but the crash.
Close ==
    /\ Begins("close")
    /\ mon' = NoTask /\ queue' = <<>>
    /\ IF active # "none" /\ ms[active].state # "paused"
         THEN op' = [op EXCEPT !.m = active, !.pc = "cancel"]
         ELSE op' = [op EXCEPT !.pc = "down"]
    /\ UNCHANGED <<ms, active, stops, nav, reached, broken, disk, left>>

-----------------------------------------------------------------------------
(* _finish_arrival and _dispatch_current_locked.                           *)

Completed(r) == [r EXCEPT !.state = "completed", !.phase = "completed", !.token = 0,
                          !.outcome = "completed"]

\* After the hold: wait for a confirmation of this visit, or count it as
\* completed and depart for the next one.  A mission that a broken departure
\* left behind its last visit has none, and the operation raises.
FinishArrival ==
    /\ op.pc \in {"finish", "confirmed"} /\ UNCHANGED <<active, stops, nav, reached, broken>>
    /\ IF Me.visit > Visits THEN UNCHANGED ms /\ Unsaved /\ Raise
       ELSE IF op.pc = "finish" /\ Me.visit \in ConfirmAfter
         THEN LET r == [Me EXCEPT !.state = "paused", !.phase = "after_arrival",
                                  !.token = Me.visit]
              IN  /\ Becomes(r)
                  /\ \/ Saved /\ Return(r)
                     \/ SaveFailed /\ Raise
         ELSE /\ Becomes([Me EXCEPT !.status[Me.visit] = "completed",
                                    !.visit = @ + 1, !.token = 0])
              /\ Unsaved /\ Goto("dispatch")

\* The departure is given up with nothing decided.  After _finish_arrival the
\* mission is left running, at the next visit and in the phase of the last one.
BreaksOff == broken' = IF Me.state = "running" THEN broken \cup {<<op.m, Me.visit>>}
                                               ELSE broken

\* The context guard raises outside of any handler; or nothing is left to
\* visit, a confirmation is to be waited for, or on to the preflight.
Dispatch ==
    /\ op.pc \in {"dispatch", "dispatch_confirmed"}
    /\ IF nav.busy THEN BreaksOff /\ Raise /\ Unsaved /\ UNCHANGED <<ms, active>>
       ELSE IF Me.visit > Visits
         THEN /\ Becomes(Completed(Me)) /\ active' = "none" /\ UNCHANGED broken
              /\ \/ Saved /\ Return(Completed(Me))
                 \/ SaveFailed /\ Raise
       ELSE IF Me.visit \in ConfirmBefore /\ op.pc = "dispatch"
         THEN LET r == [Me EXCEPT !.state = "paused", !.phase = "before_departure",
                                  !.token = Me.visit]
              IN  /\ Becomes(r) /\ UNCHANGED <<active, broken>>
                  /\ \/ Saved /\ Return(r)
                     \/ SaveFailed /\ Raise
       ELSE Goto("preflight") /\ Unsaved /\ UNCHANGED <<ms, active, broken>>
    /\ UNCHANGED <<stops, nav, reached>>

\* The preflight answers.  With a stop waiting, the mission stays the owner,
\* in a state the stop accepts and with no goal, whatever the answer is.
PreflightStopped ==
    LET r == [Me EXCEPT !.state = "starting", !.phase = "planning"]
    IN  /\ op.pc = "preflight" /\ op.m \in stops
        /\ Becomes(r) /\ UNCHANGED <<active, stops, nav, reached, broken>>
        /\ SavedForStop /\ Return(r)

\* As PreflightFails, with the fence released only after the save.
PreflightFailsFenced ==
    /\ op.pc = "preflight" /\ op.m \notin stops
    /\ Becomes([Me EXCEPT !.state = "failed", !.outcome = "failed", !.goal = 0,
                          !.status[Me.visit] = "failed"])
    /\ active' = "none" /\ UNCHANGED <<stops, nav, reached, broken, left>>
    /\ disk' = [ms |-> ms', active |-> active] /\ Raise

PreflightFails ==
    /\ op.pc = "preflight" /\ op.m \notin stops
    /\ Becomes([Me EXCEPT !.state = "failed", !.outcome = "failed", !.goal = 0,
                          !.status[Me.visit] = "failed"])
    /\ active' = "none" /\ UNCHANGED <<stops, nav, reached, broken>>
    /\ SavedForStop /\ Raise

PreflightPasses ==
    /\ op.pc = "preflight" /\ op.m \notin stops /\ NavigationReady
    /\ Becomes([Me EXCEPT !.state = "running", !.phase = "navigating", !.token = 0,
                          !.outcome = "none", !.goal = 0,
                          !.status[Me.visit] = "running"])
    /\ UNCHANGED <<active, stops, nav, reached, broken>>
    /\ SaveThen("send")

\* Nav2 accepts a goal of the mission.
NewGoal(owner, visit) ==
    /\ NavigationReady /\ left.goals > 0
    /\ nav' = [nav EXCEPT !.id = MaxGoals - left.goals + 1, !.state = "active",
                          !.owner = owner, !.visit = visit]

\* The send returns the goal.  When the save after it fails the mission stops
\* the goal it has just been given.
SendAccepted ==
    /\ op.pc = "send" /\ NewGoal(op.m, Me.visit)
    /\ LET r == [Me EXCEPT !.goal = nav'.id]
       IN  \/ /\ Becomes(r) /\ Return(r)
              /\ disk' = [ms |-> ms', active |-> active]
              /\ left' = [left EXCEPT !.goals = @ - 1]
           \/ /\ Becomes([r EXCEPT !.state = "canceling", !.phase = "uncertain",
                                   !.outcome = "failed"])
              /\ Goto("fail") /\ left.faults > 0
              /\ disk' \in {disk, [ms |-> ms', active |-> active]}
              /\ left' = [left EXCEPT !.goals = @ - 1, !.faults = @ - 1]
    /\ UNCHANGED <<active, stops, reached, broken>>

\* The send raises or its caller is cancelled, whether a goal runs or not: the
\* mission keeps the fence and does not guess which goal is its own.
SendUncertain ==
    /\ op.pc = "send" /\ left.faults > 0
    /\ \/ /\ NewGoal(op.m, Me.visit)
          /\ left' = [left EXCEPT !.goals = @ - 1, !.faults = @ - 1]
       \/ UNCHANGED nav /\ left' = [left EXCEPT !.faults = @ - 1]
    /\ Becomes([Me EXCEPT !.state = "canceling", !.phase = "uncertain",
                          !.outcome = "failed"])
    /\ disk' = [ms |-> ms', active |-> active] /\ Raise
    /\ UNCHANGED <<active, stops, reached, broken>>

\* Another goal is in the way, or the session is gone: the send raises.
SendRefused ==
    /\ op.pc = "send" /\ ~(NavigationReady /\ left.goals > 0)
    /\ Becomes([Me EXCEPT !.state = "canceling", !.phase = "uncertain",
                          !.outcome = "failed"])
    /\ UNCHANGED <<active, stops, nav, reached, broken>>
    /\ SavedForStop /\ Raise

-----------------------------------------------------------------------------
(* _cancel_current_locked, and what each operation does with its answer.   *)

\* _arrived: the hold begins.
Arrived(r) == [r EXCEPT !.goal = 0, !.phase = "holding"]

\* The waypoint that was being driven to is given up.
GivenUp(r) ==
    IF r.visit <= Visits /\ r.status[r.visit] = "running"
      THEN [r EXCEPT !.status[r.visit] = "failed", !.goal = 0] ELSE r

\* As Paused, with every confirmed end taken for an arrival.
PausedArrives(r, terminal) ==
    [(IF r.phase = "holding" \/ r.visit > Visits THEN r ELSE Arrived(r))
        EXCEPT !.state = "paused"]

\* A pause keeps a hold, turns a goal that succeeded before the cancel into an
\* arrival, and leaves any other visit to be driven to again.
Paused(r, terminal) ==
    [(IF r.phase = "holding" \/ r.visit > Visits THEN r
      ELSE IF terminal = "succeeded" THEN Arrived(r)
      ELSE [r EXCEPT !.status[r.visit] = "pending"]) EXCEPT !.state = "paused"]

\* The mission after a confirmed end of its goal.
Cleaned(r, terminal) ==
    IF op.pc \in {"fail", "failing"}
      THEN [GivenUp(r) EXCEPT !.state = "failed", !.phase = "failed", !.token = 0]
    ELSE
    CASE op.kind = "pause" -> Paused(r, terminal)
      [] op.kind = "abort" ->
           [GivenUp(r) EXCEPT !.state = "failed", !.outcome = "aborted", !.token = 0]
      [] op.kind = "skip" ->
           IF r.visit > Visits THEN r
           ELSE [r EXCEPT !.status[r.visit] = "skipped", !.visit = @ + 1]
      [] op.kind = "monitor" -> [r EXCEPT !.state = "failed", !.outcome = "failed"]
      [] op.kind = "close" -> [r EXCEPT !.state = "failed", !.outcome = "interrupted"]

\* As GoalCleared, with the identity of the ended goal kept.
GoalKept(r) == r

\* The waypoint forgets a goal whose end is confirmed.
GoalCleared(r) == [r EXCEPT !.goal = 0]

\* The goal's end is confirmed.  Only pause and skip keep the fence.
CancelDone(terminal) ==
    LET r == Cleaned(GoalCleared(Me), terminal)
    IN  /\ Becomes(r)
        /\ active' = IF op.pc \in {"cancel", "canceling"} /\ op.kind \in {"pause", "skip"}
                       THEN active ELSE "none"
        /\ IF op.pc \in {"fail", "failing"} THEN SavedForStop /\ Raise
           ELSE CASE op.kind = "skip"  -> Unsaved /\ Goto("dispatch")
                  [] op.kind = "close" -> SavedForStop /\ Goto("down")
                  [] op.kind = "monitor" -> \/ Saved /\ Return(r)
                                            \/ SaveFailed /\ Raise
                  [] OTHER -> SavedForStop /\ Return(r)
        /\ UNCHANGED <<stops, nav, reached, broken>>

\* The goal's end is not confirmed, or the goal shown is another one: the
\* fence stays and the mission waits for an abort.
CancelRaises ==
    /\ UNCHANGED <<active, stops, nav, reached, broken>>
    /\ IF op.pc \in {"fail", "failing"}
         THEN Becomes([Me EXCEPT !.phase = "uncertain"]) /\ SavedForStop /\ Raise
       ELSE IF op.kind = "close"
         THEN /\ Becomes([Me EXCEPT !.state = "canceling", !.phase = "uncertain"])
              /\ SavedForStop /\ Goto("down")
       ELSE UNCHANGED ms /\ Unsaved /\ Raise

\* The goal the navigation view shows is the one this mission was given.
OwnGoal == nav.id = Me.goal

CancelBegin ==
    /\ op.pc \in {"cancel", "fail"}
    /\ IF Me.goal = 0
         THEN IF Me.phase = "uncertain" THEN CancelRaises ELSE CancelDone("idle")
       ELSE IF ~OwnGoal THEN CancelRaises
       ELSE /\ nav' = [nav EXCEPT !.state = IF @ \in GoalActive THEN "canceling" ELSE @]
            /\ Goto(IF op.pc = "fail" THEN "failing" ELSE "canceling")
            /\ UNCHANGED <<ms, active, stops, reached, broken, disk, left>>

CancelPoll ==
    /\ op.pc \in {"canceling", "failing"}
    /\ \/ OwnGoal /\ nav.state \in GoalTerminal /\ CancelDone(nav.state)
       \/ ~OwnGoal /\ CancelRaises

\* cancel_goal raises.
CancelRefused ==
    /\ op.pc \in {"cancel", "fail"} /\ op.kind # "close"
    /\ Me.goal # 0 /\ OwnGoal /\ nav.state \in GoalActive
    /\ CancelRaises

\* As CancelTimeout, with the timeout taken for the end of the goal.
CancelTimeoutEnds ==
    /\ op.pc \in {"canceling", "failing"} /\ OwnGoal /\ nav.state \in GoalActive
    /\ CancelDone("canceled")

\* cancel_timeout_s passes.
CancelTimeout ==
    /\ op.pc \in {"canceling", "failing"} /\ OwnGoal /\ nav.state \in GoalActive
    /\ CancelRaises

\* The caller of a request is cancelled where the operation awaits something
\* other than the send: no handler sees it, and nothing more is changed.
CallerCancelled ==
    /\ op.kind \in Requests /\ op.pc \in {"preflight", "canceling", "failing"}
    /\ left.faults > 0 /\ left' = [left EXCEPT !.faults = @ - 1]
    /\ IF op.pc = "preflight" THEN BreaksOff ELSE UNCHANGED broken
    /\ Raise /\ UNCHANGED <<ms, active, stops, nav, reached, disk>>

-----------------------------------------------------------------------------
(* _monitor: one poll, and its exception handler.                          *)

\* The monitor stores r and goes on with the rest of its poll, or raises.
MonitorSaves(r, act, Then) ==
    /\ Becomes(r) /\ active' = act
    /\ \/ Saved /\ Then
       \/ SaveFailed /\ Raise
    /\ UNCHANGED <<stops, nav, reached, broken>>

MonitorPolls ==
    /\ Begins("monitor")
    /\ IF Me.state # "running" \/ active # op.m
         THEN /\ op' = Free /\ mon' = NoTask
              /\ UNCHANGED <<ms, active, stops, queue, nav, reached, broken, disk, left>>
       ELSE IF ~nav.ready \/ nav.busy
         THEN MonitorSaves([Me EXCEPT !.state = "canceling"], active, Goto("cancel"))
       ELSE IF Me.phase = "holding"
         THEN /\ (Return(Me) \/ Goto("finish"))
              /\ UNCHANGED <<ms, active, stops, nav, reached, broken, disk, left>>
       ELSE IF Me.visit > Visits
         THEN Raise /\ UNCHANGED <<ms, active, stops, nav, reached, broken, disk, left>>
       ELSE IF ~OwnGoal
         THEN LET r == [Me EXCEPT !.state = "canceling", !.phase = "uncertain"]
              IN  MonitorSaves(r, active, Return(r))
       ELSE CASE nav.state \in GoalActive ->
                   Return(Me) /\ UNCHANGED <<ms, active, stops, nav, reached, broken, disk, left>>
              [] nav.state = "succeeded" ->
                   MonitorSaves(Arrived(Me), active, Return(Arrived(Me)) \/ Goto("finish"))
              [] OTHER ->
                   LET r == [Me EXCEPT !.status[Me.visit] = "failed", !.goal = 0,
                                       !.state = "failed", !.outcome = "failed"]
                   IN  MonitorSaves(r, "none", Return(r))

\* The handler fails the mission closed if it is still the owner.
MonitorFails ==
    /\ op.kind \in {"handler", "orphan"} /\ op.pc = "begin"
    /\ UNCHANGED <<active, stops, nav, reached, broken>>
    /\ IF Me.state \in ActiveStates /\ active = op.m
         THEN /\ Becomes([Me EXCEPT !.state = "canceling", !.outcome = "failed"])
              /\ SavedForStop /\ Goto("fail")
         ELSE UNCHANGED ms /\ Unsaved /\ Raise

-----------------------------------------------------------------------------
(* Nav2, its session, and the crash of the dashboard.                      *)

GoalEnds ==
    /\ nav.state \in GoalActive
    /\ \E s \in {"succeeded", "failed"} \cup (IF nav.state = "canceling" THEN {"canceled"} ELSE {}) :
         /\ nav' = [nav EXCEPT !.state = s]
         /\ reached' = IF s = "succeeded" /\ nav.owner # "none"
                         THEN reached \cup {<<nav.owner, nav.visit>>} ELSE reached
    /\ UNCHANGED <<ms, active, stops, op, queue, mon, broken, disk, left>>

\* The session is deactivated with its goal, or localization or the map is
\* lost under a goal that goes on.
NavLost ==
    /\ nav.ready /\ left.faults > 0 /\ left' = [left EXCEPT !.faults = @ - 1]
    /\ \E s \in {nav.state} \cup (IF nav.state \in GoalActive THEN {"canceled"} ELSE {}) :
         nav' = [nav EXCEPT !.ready = FALSE, !.state = s]
    /\ UNCHANGED <<ms, active, stops, op, queue, mon, reached, broken, disk>>

\* The same session is ready again, or a new one that has no goal.
NavBack ==
    /\ ~nav.ready
    /\ \/ nav' = [nav EXCEPT !.ready = TRUE]
       \/ nav.state \in GoalTerminal /\ nav' = [NoGoal EXCEPT !.ready = TRUE, !.busy = nav.busy]
    /\ UNCHANGED <<ms, active, stops, op, queue, mon, reached, broken, disk, left>>

\* The context that missions are guarded by changes: a planner or a SLAM job
\* takes it and gives it back.
ContextTaken ==
    /\ ~nav.busy /\ left.faults > 0 /\ left' = [left EXCEPT !.faults = @ - 1]
    /\ nav' = [nav EXCEPT !.busy = TRUE]
    /\ UNCHANGED <<ms, active, stops, op, queue, mon, reached, broken, disk>>

ContextFreed ==
    /\ nav.busy /\ nav' = [nav EXCEPT !.busy = FALSE]
    /\ UNCHANGED <<ms, active, stops, op, queue, mon, reached, broken, disk, left>>

\* A goal of the operator's, admitted before a mission took the fence.
ForeignGoal ==
    /\ left.faults > 0 /\ NewGoal("none", 0)
    /\ left' = [left EXCEPT !.goals = @ - 1, !.faults = @ - 1]
    /\ UNCHANGED <<ms, active, stops, op, queue, mon, reached, broken, disk>>

\* _recover_interrupted: whatever was active, paused missions included.
Recovered(r) ==
    IF r.state \in ActiveStates
      THEN [r EXCEPT !.state = "failed", !.outcome = "interrupted", !.goal = 0,
                     !.status = [v \in 1..Visits |->
                                   IF @[v] = "running" THEN "failed" ELSE @[v]]]
      ELSE r

Crash ==
    /\ left.crashes > 0 /\ left' = [left EXCEPT !.crashes = @ - 1]
    /\ ms' = [m \in Missions |-> Recovered(disk.ms[m])] /\ active' = "none"
    /\ disk' = [ms |-> ms', active |-> active']
    /\ stops' = {} /\ op' = Free /\ queue' = <<>> /\ mon' = NoTask
    /\ nav' = NoGoal
    /\ UNCHANGED <<reached, broken>>

-----------------------------------------------------------------------------

Holder == \/ Start \/ Pause \/ Abort \/ Resume \/ Skip \/ Retry \/ Close
          \/ FinishArrival \/ Dispatch \/ PreflightStopped \/ PreflightFails
          \/ PreflightPasses \/ SendAccepted \/ SendUncertain \/ SendRefused
          \/ CancelBegin \/ CancelPoll \/ CancelRefused \/ CancelTimeout
          \/ MonitorPolls \/ MonitorFails

Next == \/ Request \/ StopAbandoned \/ MonitorWakes \/ Acquire \/ Holder
        \/ CallerCancelled \/ GoalEnds \/ NavLost \/ NavBack
        \/ ContextTaken \/ ContextFreed \/ ForeignGoal \/ Crash

\* The event loop runs what is ready; nobody has to ask for anything, and Nav2
\* need not end a goal.
Fairness == WF_vars(MonitorWakes) /\ WF_vars(Acquire) /\ WF_vars(Holder)

Spec == Init /\ [][Next]_vars /\ Fairness

-----------------------------------------------------------------------------
(* Properties.                                                             *)

MissionRecord ==
    [state : ActiveStates \cup {"ready", "completed", "failed"},
     phase : {"ready", "navigating", "planning", "before_departure", "holding",
              "after_arrival", "uncertain", "failed", "completed"},
     outcome : {"none", "failed", "aborted", "interrupted", "completed"},
     visit : 1..Visits + 1, goal : 0..MaxGoals, token : 0..Visits,
     status : [1..Visits -> {"pending", "running", "completed", "skipped", "failed"}]]
Owners == Missions \cup {"none"}

\* Types: every record stays in its set, and a goal is kept only for a visit
\* that is being driven to.
TypeOK ==
    /\ ms \in [Missions -> MissionRecord] /\ active \in Owners /\ stops \subseteq Missions
    /\ \A m \in Missions : ms[m].goal # 0 =>
         ms[m].visit <= Visits /\ ms[m].status[ms[m].visit] = "running"
    /\ op.m \in Owners /\ mon.m \in Owners
    /\ nav \in [id : 0..MaxGoals, state : GoalActive \cup GoalTerminal,
                owner : Owners, visit : 0..Visits, ready : BOOLEAN, busy : BOOLEAN]
    /\ disk.ms \in [Missions -> MissionRecord] /\ disk.active \in Owners

\* The stored document can be loaded: whatever a save leaves on disk, also one
\* that reported a failure, the owner it names is in an active state, so that a
\* restart recovers the missions and does not refuse the whole document.
StoredIsLoadable ==
    disk.active # "none" => disk.ms[disk.active].state \in ActiveStates

\* The fence outlives the goal: as long as a goal that a mission submitted may
\* move the robot, also one whose submission was never acknowledged, that
\* mission owns navigation and is neither paused nor at an end, so that no
\* second mission and no operator's goal is admitted beside it.
FenceCoversGoal ==
    nav.state \in GoalActive /\ nav.owner # "none" =>
        /\ active = nav.owner
        /\ ms[nav.owner].state \in ActiveStates \ {"paused", "retrying"}

\* A visit counts as completed only if the goal sent for this very visit has
\* succeeded, not on the success of another goal, of an earlier visit, or of a
\* goal that was cancelled too late, unless the departure for this visit was
\* broken off when the mission moved on to it; and a mission completes only
\* when every visit was completed or skipped.
CompletedIsExplained ==
    \A m \in Missions :
        /\ \A v \in 1..Visits :
             ms[m].status[v] = "completed" => <<m, v>> \in reached \cup broken
        /\ ms[m].state = "completed" =>
             \A v \in 1..Visits : ms[m].status[v] \in {"completed", "skipped"}

\* The rule the tests state (test_waypoints_advance_only_after_terminal_success
\* and test_other_goal_terminal_success_never_advances_current_visit): only the
\* success of its own goal completes a visit in _finish_arrival.
CompletedWasReached ==
    \A m \in Missions, v \in 1..Visits :
        ms[m].status[v] = "completed" => <<m, v>> \in reached

\* A run that was aborted or interrupted never changes again: no request that
\* was already waiting, no monitor and no exception handler revives it.  Only
\* a restart may bring back a document older than the end, when the store had
\* refused it.
EndedStaysEnded ==
    [][ \A m \in Missions :
          ms[m].state = "failed" /\ ms[m].outcome \in Barred =>
              ms'[m] = ms[m] \/ left'.crashes < left.crashes ]_vars

\* The end of a running mission's goal is noticed, and so is another goal in
\* its place: the mission goes on to a new goal, waits, or ends, without
\* anybody's help.
GoalEndIsNoticed ==
    \A m \in Missions :
        LET outdated == /\ ms[m].state = "running" /\ ms[m].goal # 0
                        /\ ~(nav.id = ms[m].goal /\ nav.state \in GoalActive)
        IN  outdated ~> ~outdated
=============================================================================
