-------------------------- MODULE NavigationStart --------------------------
(***************************************************************************)
(* The one-click navigation start of                                       *)
(* src/robot_dashboard/application/navigation_coordinator.py, with the two *)
(* process managers it drives: navigation_jobs.py (Nav2) and               *)
(* mapping_jobs.py (FAST-LIO, shared with the operator's mapping).         *)
(*                                                                         *)
(* Four kinds of thread meet here: the background task of each start, the  *)
(* HTTP requests (start, stop and the mapping requests, one at a time      *)
(* under the coordination lock), the monitor thread of each Nav2 job, and  *)
(* worker threads a cancelled task left behind (asyncio.to_thread cannot   *)
(* be interrupted).  An action is one uninterrupted stretch of one of      *)
(* them, from an await or an unlock to the next.                           *)
(*                                                                         *)
(* Start t is also the identity of its token, of the Nav2 job it starts    *)
(* and of the mapping job it starts; the operator's mapping jobs are the   *)
(* numbers after MaxStarts.  Compare-and-stop of a mapping job is one      *)
(* step: both its critical sections are fenced by the job, and no start    *)
(* can replace a job that is stopping.  A map save, which would refuse the *)
(* stop, never overlaps a start (both check the other under the            *)
(* coordination lock).  Requests that are refused are not taken.  The      *)
(* localisation-only and manual-seed variants are left out.                *)
(***************************************************************************)
EXTENDS Naturals

CONSTANTS
    MaxStarts,     \* bound: starts accepted
    MaxOperator,   \* bound: mapping jobs the operator starts
    MaxFaults      \* bound: processes that die by themselves

ASSUME BoundsAssumption ==
    MaxStarts \in Nat /\ MaxOperator \in Nat /\ MaxFaults \in Nat

VARIABLES
    st,      \* NavigationCoordinator._start, the startup record
    task,    \* the background task of each start
    cur,     \* NavigationCoordinator._start_task (0: none)
    stray,   \* a worker thread that outlived the await of its task
    req,     \* the stop request that holds the coordination lock
    map,     \* the mapping manager's pipeline
    nav,     \* the navigation manager's pipeline
    proc,    \* the Nav2 process group of each job
    mon,     \* the monitor thread of each job
    agent,   \* the start whose session is armed in the gateway (0: none)
    faults

vars == <<st, task, cur, stray, req, map, nav, proc, mon, agent, faults>>

Starts       == 1..MaxStarts
OperatorJobs == (MaxStarts + 1)..(MaxStarts + MaxOperator)
MapJobs      == Starts \cup OperatorJobs
Alive        == {"starting", "running", "stopping"}
Undo         == {"deactivate", "stop", "stopping", "unmap", "finish"}
Unsettled    == {"mapping", "claim", "waitMap", "reserve", "spawn", "publish",
                 "returned", "register", "warm", "waitAgain", "activate",
                 "commit"} \cup Undo

Record == [token : {0} \cup Starts,
           phase : {"idle", "starting_localization", "waiting_localization",
                    "starting_navigation", "warming_navigation", "activating",
                    "active", "stopping", "failed"},
           pending : BOOLEAN, cancel : BOOLEAN,
           mapJob : {0} \cup MapJobs, owned : BOOLEAN,
           navJob : {0} \cup Starts, terminal : BOOLEAN]

Task == [pc : Unsettled \cup {"unused", "done"},
         failed : BOOLEAN,      \* the thread it awaits raised
         cancelled : BOOLEAN,   \* task.cancel() not yet delivered
         err : {"none", "failed", "cancelled"},
         inner : BOOLEAN,       \* undoing in run_manager_start/run_activation
         pgid : {0} \cup Starts]

Settle   == [pc : {"idle", "settle", "deactivate", "stop", "stopping", "unmap",
                   "reset"},
             token : {0} \cup Starts, await : {0} \cup Starts,
             pgid : {0} \cup Starts]
Worker   == [pc : {"none", "deactivate", "stop", "stopping", "unmap"},
             pgid : {0} \cup Starts]
Mapping  == [state : Alive \cup {"idle", "failed", "stopped"},
             job : {0} \cup MapJobs, jobs : 0..MaxOperator]
Pipeline == [state : Alive \cup {"idle", "failed"}, job : {0} \cup Starts,
             token : {0} \cup Starts, pgid : {0} \cup Starts,
             stopRequested : BOOLEAN]

NoRecord == [token |-> 0, phase |-> "idle", pending |-> FALSE, cancel |-> FALSE,
             mapJob |-> 0, owned |-> FALSE, navJob |-> 0, terminal |-> FALSE]
NewTask  == [pc |-> "unused", failed |-> FALSE, cancelled |-> FALSE,
             err |-> "none", inner |-> FALSE, pgid |-> 0]
NoWorker == [pc |-> "none", pgid |-> 0]

Init ==
    /\ st = NoRecord
    /\ task = [t \in Starts |-> NewTask]
    /\ cur = 0
    /\ stray = [t \in Starts |-> NoWorker]
    /\ req = [pc |-> "idle", token |-> 0, await |-> 0, pgid |-> 0]
    /\ map = [state |-> "idle", job |-> 0, jobs |-> 0]
    /\ nav = [state |-> "idle", job |-> 0, token |-> 0, pgid |-> 0,
              stopRequested |-> FALSE]
    /\ proc = [t \in Starts |-> "none"]
    /\ mon = [t \in Starts |-> "none"]
    /\ agent = 0
    /\ faults = 0

-----------------------------------------------------------------------------
(* The startup record: every operation is one section of _state_lock.      *)

\* Mutant: a fence is noticed only once the record is gone.
StartCancelledByToken(t) == st.token # t

\* start_cancelled: the task's token is gone or fenced.
StartCancelled(t) == st.token # t \/ st.cancel

\* update_start: a phase, fenced by the token.
UpdateStart(t, phase) ==
    IF st.token = t THEN [st EXCEPT !.phase = phase] ELSE st

\* update_start with the mapping job the start now owns.
Claimed(t, phase, job) ==
    IF st.token = t
    THEN [st EXCEPT !.phase = phase, !.mapJob = job, !.owned = TRUE] ELSE st

\* Mutant: the phase is a word the record does not know.
FinishedUnknown(t, owner) ==
    IF st.token = t /\ (st.terminal => owner)
    THEN [NoRecord EXCEPT !.phase = "cancelled"] ELSE st

\* Mutant: the task clears the record terminal cleanup is working on.
FinishedByAnyone(t, owner) ==
    IF st.token = t THEN [NoRecord EXCEPT !.phase = "failed"] ELSE st

\* finish_start_failure after a complete cleanup: terminal cleanup keeps the
\* record for itself.
Finished(t, owner) ==
    IF st.token = t /\ (st.terminal => owner)
    THEN [st EXCEPT !.token = 0, !.phase = "failed", !.pending = FALSE,
                    !.cancel = FALSE, !.mapJob = 0, !.owned = FALSE,
                    !.navJob = 0, !.terminal = FALSE]
    ELSE st

\* reset_start: clear the settled owner unless terminal cleanup has it.
Reset(t) == IF st.token = t /\ ~st.terminal THEN NoRecord ELSE st

\* is_active: the cleanup union the operator's mapping requests must not meet.
IsActive ==
    \/ st.pending \/ st.owned \/ st.phase \in {"active", "stopping"}
    \/ nav.state \in Alive \/ nav.job # 0
    \/ agent # 0

-----------------------------------------------------------------------------
(* Operations of the two managers and the gateway that several threads     *)
(* call.                                                                   *)

\* Mutant: the record's job is stopped even if the start did not start it.
CleanMappingShared(t) ==
    IF st.token = t /\ map.job = st.mapJob /\ map.state \in Alive
    THEN [map EXCEPT !.state = "stopped"] ELSE map

\* cleanup_localization_dependency_sync: compare-and-stop the mapping job the
\* record of t says the start owns.
CleanMapping(t) ==
    IF /\ st.token = t /\ st.owned
       /\ map.job = st.mapJob /\ map.state \in Alive
    THEN [map EXCEPT !.state = "stopped"] ELSE map

\* NavigationJobManager.stop up to the first unlock: nothing to do unless the
\* pipeline is up or failed; the process group to terminate is remembered.
StopJobs ==
    IF nav.state = "idle" THEN nav
    ELSE [nav EXCEPT !.state = "stopping", !.stopRequested = TRUE]

\* The rest of it: the group is gone, the pipeline idle.
JobsStopped == [nav EXCEPT !.state = "idle", !.job = 0, !.pgid = 0]
Terminated(g) == IF g = 0 THEN proc ELSE [proc EXCEPT ![g] = "gone"]

-----------------------------------------------------------------------------
(* HTTP requests.                                                          *)

\* start: refused while anything is in transition; reserves the record and
\* schedules the background task.
Start(t) ==
    /\ t \in Starts /\ task[t].pc = "unused"
    /\ \A s \in Starts : s < t => task[s].pc # "unused"
    /\ req.pc = "idle"
    /\ map.state \notin {"starting", "stopping"}
    /\ nav.state \notin Alive
    /\ agent = 0
    /\ st.token = 0 /\ ~st.pending /\ ~st.owned
    /\ st.phase \notin {"active", "stopping"}
    /\ LET warm == map.state = "running" IN
       /\ st' = [NoRecord EXCEPT !.token = t, !.pending = TRUE,
                   !.phase = IF warm THEN "waiting_localization"
                                     ELSE "starting_localization",
                   !.mapJob = IF warm THEN map.job ELSE 0]
       /\ task' = [task EXCEPT ![t].pc = IF warm THEN "waitMap" ELSE "mapping"]
    /\ cur' = t
    /\ UNCHANGED <<stray, req, map, nav, proc, mon, agent, faults>>

\* stop: fence the record and cancel the task that runs.
Stop ==
    /\ req.pc = "idle"
    /\ st' = IF st.token = 0 THEN st
             ELSE [st EXCEPT !.phase = "stopping", !.cancel = TRUE]
    /\ task' = IF cur = 0 THEN task ELSE [task EXCEPT ![cur].cancelled = TRUE]
    /\ req' = [pc |-> "settle", token |-> st.token, await |-> cur, pgid |-> 0]
    /\ UNCHANGED <<cur, stray, map, nav, proc, mon, agent, faults>>

\* The task has settled; _perform_stop_cleanup begins.
StopSettled ==
    /\ req.pc = "settle"
    /\ req.await # 0 => task[req.await].pc = "done"
    /\ req' = [req EXCEPT !.pc = "deactivate"]
    /\ UNCHANGED <<st, task, cur, stray, map, nav, proc, mon, agent, faults>>

\* _perform_stop_cleanup: disarm, stop the job, stop the owned mapping, clear
\* the record.
StopDeactivate ==
    /\ req.pc = "deactivate"
    /\ agent' = 0
    /\ req' = [req EXCEPT !.pc = "stop"]
    /\ UNCHANGED <<st, task, cur, stray, map, nav, proc, mon, faults>>

StopJob ==
    /\ req.pc = "stop"
    /\ nav' = StopJobs
    /\ req' = [req EXCEPT !.pc = IF nav.state = "idle" THEN "unmap" ELSE "stopping",
                          !.pgid = nav.pgid]
    /\ UNCHANGED <<st, task, cur, stray, map, proc, mon, agent, faults>>

StopJobDone ==
    /\ req.pc = "stopping"
    /\ nav' = JobsStopped
    /\ proc' = Terminated(req.pgid)
    /\ req' = [req EXCEPT !.pc = "unmap", !.pgid = 0]
    /\ UNCHANGED <<st, task, cur, stray, map, mon, agent, faults>>

StopMapping ==
    /\ req.pc = "unmap"
    /\ map' = IF req.token = 0 THEN map ELSE CleanMapping(req.token)
    /\ req' = [req EXCEPT !.pc = "reset"]
    /\ UNCHANGED <<st, task, cur, stray, nav, proc, mon, agent, faults>>

StopReset ==
    /\ req.pc = "reset"
    /\ st' = IF req.token = 0 THEN st ELSE Reset(req.token)
    /\ req' = [req EXCEPT !.pc = "idle", !.token = 0, !.await = 0]
    /\ UNCHANGED <<task, cur, stray, map, nav, proc, mon, agent, faults>>

\* MappingCoordinator.start and stop: only while navigation is idle.
OperatorStart ==
    /\ req.pc = "idle" /\ ~IsActive
    /\ map.state \notin Alive /\ map.jobs < MaxOperator
    /\ map' = [state |-> "starting", job |-> MaxStarts + map.jobs + 1,
               jobs |-> map.jobs + 1]
    /\ UNCHANGED <<st, task, cur, stray, req, nav, proc, mon, agent, faults>>

OperatorStop ==
    /\ req.pc = "idle" /\ ~IsActive
    /\ map.state \in Alive
    /\ map' = [map EXCEPT !.state = "stopped"]
    /\ UNCHANGED <<st, task, cur, stray, req, nav, proc, mon, agent, faults>>

-----------------------------------------------------------------------------
(* The background task, _run_start_operation.                              *)

Goto(t, pc) == [task EXCEPT ![t].pc = pc]
Done(t)     == [task EXCEPT ![t] = [NewTask EXCEPT !.pc = "done"]]

\* The exception handler is entered: rollback starts.  Cancellation is
\* consumed by it.
Raise(t, how, inner) ==
    [task EXCEPT ![t].pc = "deactivate", ![t].err = how, ![t].inner = inner,
                 ![t].failed = FALSE,
                 ![t].cancelled = IF how = "cancelled" THEN FALSE ELSE @]

\* MappingJobManager.start_mapping in its worker thread: it runs, its spawn
\* fails after the job was published, or the preview refuses before that.
StartMapping(t) ==
    /\ task[t].pc = "mapping"
    /\ \/ /\ map.state \notin Alive
          /\ map' = [map EXCEPT !.state = "starting", !.job = t]
          /\ task' = Goto(t, "claim")
       \/ /\ map.state \notin Alive
          /\ map' = [map EXCEPT !.state = "failed", !.job = t]
          /\ task' = [task EXCEPT ![t].pc = "claim", ![t].failed = TRUE]
       \/ /\ map' = map
          /\ task' = [task EXCEPT ![t].pc = "claim", ![t].failed = TRUE]
    /\ UNCHANGED <<st, cur, stray, req, nav, proc, mon, agent, faults>>

\* start_localization_dependency after the thread: the job is claimed on
\* success, on failure and on cancellation, if it is a new one.
ClaimMapping(t) ==
    /\ task[t].pc = "claim"
    /\ LET phase == IF task[t].cancelled THEN "stopping"
                    ELSE IF task[t].failed THEN "failed"
                    ELSE "waiting_localization"
       IN st' = IF map.job = t THEN Claimed(t, phase, t) ELSE st
    /\ task' = IF task[t].cancelled THEN Raise(t, "cancelled", FALSE)
               ELSE IF task[t].failed \/ StartCancelled(t)
                    THEN Raise(t, "failed", FALSE)
               ELSE Goto(t, "waitMap")
    /\ UNCHANGED <<cur, stray, req, map, nav, proc, mon, agent, faults>>

\* wait_localization_dependency and the check after it: the exact job must be
\* running.  Either wait may also time out.
MappingReady == map.job = st.mapJob /\ map.state = "running"
MappingLost(t) ==
    \/ StartCancelled(t) \/ map.job # st.mapJob
    \/ map.state \notin {"starting", "running"}

\* Mutant: the poll swallows the cancellation and has no deadline.
WaitMappingForever(t) ==
    /\ task[t].pc = "waitMap"
    /\ \/ /\ MappingReady
          /\ st' = UpdateStart(t, "starting_navigation")
          /\ task' = Goto(t, "reserve")
       \/ /\ map.job # st.mapJob \/ map.state \notin {"starting", "running"}
          /\ task' = Raise(t, "failed", FALSE) /\ st' = st
    /\ UNCHANGED <<cur, stray, req, map, nav, proc, mon, agent, faults>>

WaitMapping(t) ==
    /\ task[t].pc = "waitMap"
    /\ \/ /\ task[t].cancelled
          /\ task' = Raise(t, "cancelled", FALSE) /\ st' = st
       \/ /\ ~task[t].cancelled /\ ~StartCancelled(t) /\ MappingReady
          /\ st' = UpdateStart(t, "starting_navigation")
          /\ task' = Goto(t, "reserve")
       \/ /\ ~task[t].cancelled /\ (MappingLost(t) \/ map.state = "starting")
          /\ task' = Raise(t, "failed", FALSE) /\ st' = st
    /\ UNCHANGED <<cur, stray, req, map, nav, proc, mon, agent, faults>>

\* NavigationJobManager.start in its worker thread: reserve the pipeline,
\* spawn and register the process group, publish it and start its monitor.
\* A failure of any part takes the group down with it.
StartFailed(t) ==
    /\ proc' = [proc EXCEPT ![t] = IF @ = "none" THEN "none" ELSE "gone"]
    /\ nav' = IF nav.token = t
              THEN [nav EXCEPT !.state = "failed", !.pgid = 0] ELSE nav
    /\ task' = [task EXCEPT ![t].pc = "returned", ![t].failed = TRUE]

JobReserve(t) ==
    /\ task[t].pc = "reserve"
    /\ IF nav.state \in Alive
       THEN /\ task' = [task EXCEPT ![t].pc = "returned", ![t].failed = TRUE]
            /\ nav' = nav
       ELSE /\ nav' = [state |-> "starting", job |-> t, token |-> t,
                       pgid |-> 0, stopRequested |-> FALSE]
            /\ task' = Goto(t, "spawn")
    /\ UNCHANGED <<st, cur, stray, req, map, proc, mon, agent, faults>>

JobSpawn(t) ==
    /\ task[t].pc = "spawn"
    /\ \/ /\ nav.token = t /\ ~nav.stopRequested
          /\ proc' = [proc EXCEPT ![t] = "up"]
          /\ nav' = [nav EXCEPT !.pgid = t]
          /\ task' = Goto(t, "publish")
       \/ StartFailed(t)
    /\ UNCHANGED <<st, cur, stray, req, map, mon, agent, faults>>

JobPublish(t) ==
    /\ task[t].pc = "publish"
    /\ \/ /\ nav.token = t /\ ~nav.stopRequested
          /\ nav' = [nav EXCEPT !.state = "running"]
          /\ mon' = [mon EXCEPT ![t] = "watch"]
          /\ task' = Goto(t, "returned")
          /\ proc' = proc
       \/ /\ proc[t] # "up" \/ nav.token # t \/ nav.stopRequested
          /\ StartFailed(t) /\ mon' = mon
    /\ UNCHANGED <<st, cur, stray, req, map, agent, faults>>

\* run_manager_start after the thread.
JobReturned(t) ==
    /\ task[t].pc = "returned"
    /\ task' = IF task[t].cancelled THEN Raise(t, "cancelled", TRUE)
               ELSE IF task[t].failed THEN Raise(t, "failed", TRUE)
               ELSE Goto(t, "register")
    /\ UNCHANGED <<st, cur, stray, req, map, nav, proc, mon, agent, faults>>

\* The job the manager publishes becomes the start's.
Register(t) ==
    /\ task[t].pc = "register"
    /\ LET ok == nav.state = "running" /\ nav.job # 0 IN
       /\ st' = IF ~task[t].cancelled /\ ok /\ st.token = t
                THEN [st EXCEPT !.phase = "warming_navigation", !.navJob = nav.job]
                ELSE st
       /\ task' = IF task[t].cancelled THEN Raise(t, "cancelled", FALSE)
                  ELSE IF ok /\ ~StartCancelled(t) THEN Goto(t, "warm")
                  ELSE Raise(t, "failed", FALSE)
    /\ UNCHANGED <<cur, stray, req, map, nav, proc, mon, agent, faults>>

\* wait_prelocalization_ready: inputs become ready, or the wait times out or
\* sees the pipeline down.
Warm(t) ==
    /\ task[t].pc = "warm"
    /\ \/ task[t].cancelled /\ task' = Raise(t, "cancelled", FALSE)
       \/ ~task[t].cancelled /\ nav.state = "running" /\ task' = Goto(t, "waitAgain")
       \/ ~task[t].cancelled /\ task' = Raise(t, "failed", FALSE)
    /\ UNCHANGED <<st, cur, stray, req, map, nav, proc, mon, agent, faults>>

\* The last checks before motion is armed: mapping, pipeline, control
\* preflight (nothing else holds the robot), cancellation.
WaitAgain(t) ==
    /\ task[t].pc = "waitAgain"
    /\ \/ /\ task[t].cancelled
          /\ task' = Raise(t, "cancelled", FALSE) /\ st' = st
       \/ /\ ~task[t].cancelled /\ ~StartCancelled(t) /\ MappingReady
          /\ nav.state = "running" /\ agent = 0
          /\ st' = UpdateStart(t, "activating")
          /\ task' = Goto(t, "activate")
       \/ /\ ~task[t].cancelled
          /\ \/ MappingLost(t) \/ nav.state # "running" \/ agent # 0
          /\ task' = Raise(t, "failed", FALSE) /\ st' = st
    /\ UNCHANGED <<cur, stray, req, map, nav, proc, mon, agent, faults>>

\* navigation_activate in its worker thread.
Activate(t) ==
    /\ task[t].pc = "activate"
    /\ \/ /\ agent = 0
          /\ agent' = t
          /\ task' = Goto(t, "commit")
       \/ /\ agent' = agent
          /\ task' = [task EXCEPT ![t].pc = "commit", ![t].failed = TRUE]
    /\ UNCHANGED <<st, cur, stray, req, map, nav, proc, mon, faults>>

\* run_activation after the thread, then commit_start.
Commit(t) ==
    /\ task[t].pc = "commit"
    /\ LET settled == ~task[t].cancelled /\ ~task[t].failed
           ok      == settled /\ ~StartCancelled(t)
       IN
       /\ st' = IF ok THEN [st EXCEPT !.phase = "active", !.pending = FALSE] ELSE st
       /\ task' = IF task[t].cancelled THEN Raise(t, "cancelled", TRUE)
                  ELSE IF task[t].failed THEN Raise(t, "failed", TRUE)
                  ELSE IF ok THEN Done(t)
                  ELSE Raise(t, "failed", FALSE)
       /\ cur' = IF ok /\ cur = t THEN 0 ELSE cur
    /\ UNCHANGED <<stray, req, map, nav, proc, mon, agent, faults>>

-----------------------------------------------------------------------------
(* Rollback of a start: rollback_start (deactivate, then stop whatever job *)
(* the manager has), once inside run_manager_start or run_activation and   *)
(* once more in rollback_transaction, then the owned mapping.              *)

Awaiting(t, pc) ==
    task[t].pc = pc /\ (task[t].err = "failed" => ~task[t].cancelled)

RollbackDeactivate(t) ==
    /\ Awaiting(t, "deactivate")
    /\ agent' = 0
    /\ task' = Goto(t, "stop")
    /\ UNCHANGED <<st, cur, stray, req, map, nav, proc, mon, faults>>

AfterStop(t) == IF task[t].inner THEN "deactivate" ELSE "unmap"

RollbackStop(t) ==
    /\ Awaiting(t, "stop")
    /\ nav' = StopJobs
    /\ task' = IF nav.state = "idle"
               THEN [task EXCEPT ![t].pc = AfterStop(t), ![t].inner = FALSE]
               ELSE [task EXCEPT ![t].pc = "stopping", ![t].pgid = nav.pgid]
    /\ UNCHANGED <<st, cur, stray, req, map, proc, mon, agent, faults>>

RollbackStopped(t) ==
    /\ Awaiting(t, "stopping")
    /\ nav' = JobsStopped
    /\ proc' = Terminated(task[t].pgid)
    /\ task' = [task EXCEPT ![t].pc = AfterStop(t), ![t].inner = FALSE,
                            ![t].pgid = 0]
    /\ UNCHANGED <<st, cur, stray, req, map, mon, agent, faults>>

RollbackMapping(t) ==
    /\ Awaiting(t, "unmap")
    /\ map' = CleanMapping(t)
    /\ task' = Goto(t, "finish")
    /\ UNCHANGED <<st, cur, stray, req, nav, proc, mon, agent, faults>>

RollbackFinish(t) ==
    /\ Awaiting(t, "finish")
    /\ st' = Finished(t, FALSE)
    /\ task' = Done(t)
    /\ cur' = IF cur = t THEN 0 ELSE cur
    /\ UNCHANGED <<stray, req, map, nav, proc, mon, agent, faults>>

\* The rollback of a failed start is not shielded: a cancellation that
\* arrives in it leaves the worker thread behind.  The rollback inside
\* run_manager_start or run_activation hands over to the shielded one of
\* _run_start_operation; the outer one ends the task.
CancelRollback(t) ==
    /\ task[t].pc \in Undo /\ task[t].err = "failed" /\ task[t].cancelled
    /\ \/ /\ task[t].pc # "finish"
          /\ stray' = [stray EXCEPT ![t] = [pc |-> task[t].pc, pgid |-> task[t].pgid]]
       \/ /\ task[t].pc # "stopping"
          /\ stray' = stray
    /\ IF task[t].inner
       THEN task' = Raise(t, "cancelled", FALSE) /\ cur' = cur
       ELSE /\ task' = Done(t)
            /\ cur' = IF cur = t THEN 0 ELSE cur
    /\ UNCHANGED <<st, req, map, nav, proc, mon, agent, faults>>

\* What such a thread still does.
StrayStep(t) ==
    /\ \/ /\ stray[t].pc = "deactivate"
          /\ agent' = 0
          /\ stray' = [stray EXCEPT ![t] = NoWorker]
          /\ UNCHANGED <<map, nav, proc>>
       \/ /\ stray[t].pc = "stop"
          /\ nav' = StopJobs
          /\ stray' = [stray EXCEPT ![t] =
                         IF nav.state = "idle" THEN NoWorker
                         ELSE [pc |-> "stopping", pgid |-> nav.pgid]]
          /\ UNCHANGED <<map, proc, agent>>
       \/ /\ stray[t].pc = "stopping"
          /\ nav' = JobsStopped
          /\ proc' = Terminated(stray[t].pgid)
          /\ stray' = [stray EXCEPT ![t] = NoWorker]
          /\ UNCHANGED <<map, agent>>
       \/ /\ stray[t].pc = "unmap"
          /\ map' = CleanMapping(t)
          /\ stray' = [stray EXCEPT ![t] = NoWorker]
          /\ UNCHANGED <<nav, proc, agent>>
    /\ UNCHANGED <<st, task, cur, req, mon, faults>>

-----------------------------------------------------------------------------
(* The processes and their monitors.                                       *)

\* FAST-LIO becomes ready, or dies; _monitor_pipeline publishes it.
MappingUp ==
    /\ map.state = "starting"
    /\ map' = [map EXCEPT !.state = "running"]
    /\ UNCHANGED <<st, task, cur, stray, req, nav, proc, mon, agent, faults>>

MappingDies ==
    /\ map.state \in {"starting", "running"} /\ faults < MaxFaults
    /\ map' = [map EXCEPT !.state = "failed"]
    /\ faults' = faults + 1
    /\ UNCHANGED <<st, task, cur, stray, req, nav, proc, mon, agent>>

\* The Nav2 launcher exits; its children may or may not survive it.
LauncherDies(t) ==
    /\ proc[t] = "up" /\ faults < MaxFaults
    /\ proc' = [proc EXCEPT ![t] = "headless"]
    /\ faults' = faults + 1
    /\ UNCHANGED <<st, task, cur, stray, req, map, nav, mon, agent>>

\* _monitor: an exit nobody asked for fails the pipeline and is reported.
MonitorExit(t) ==
    /\ mon[t] = "watch" /\ proc[t] # "up"
    /\ IF nav.token # t \/ nav.state \in {"idle", "stopping"} \/ nav.stopRequested
       THEN mon' = [mon EXCEPT ![t] = "done"] /\ nav' = nav
       ELSE /\ nav' = [nav EXCEPT !.state = "failed", !.pgid = 0]
            /\ mon' = [mon EXCEPT ![t] = "fence"]
    /\ UNCHANGED <<st, task, cur, stray, req, map, proc, agent, faults>>

\* Mutant: a start still in progress is left to notice by itself.
TerminalFenceCommitted(t) ==
    /\ mon[t] = "fence"
    /\ IF st.token # 0 /\ st.navJob = t /\ ~st.pending
       THEN /\ st' = [st EXCEPT !.phase = "stopping", !.cancel = TRUE,
                                !.terminal = TRUE]
            /\ mon' = [mon EXCEPT ![t] = "deactivate"]
       ELSE st' = st /\ mon' = [mon EXCEPT ![t] = "reap"]
    /\ UNCHANGED <<task, cur, stray, req, map, nav, proc, agent, faults>>

\* handle_terminal: fence the start that owns exactly this job, disarm,
\* stop its mapping, finish its record as the cleanup owner.
TerminalFence(t) ==
    /\ mon[t] = "fence"
    /\ IF st.token # 0 /\ st.navJob = t
       THEN /\ st' = [st EXCEPT !.phase = "stopping", !.cancel = TRUE,
                                !.terminal = TRUE]
            /\ mon' = [mon EXCEPT ![t] = "deactivate"]
       ELSE st' = st /\ mon' = [mon EXCEPT ![t] = "reap"]
    /\ UNCHANGED <<task, cur, stray, req, map, nav, proc, agent, faults>>

TerminalDeactivate(t) ==
    /\ mon[t] = "deactivate"
    /\ agent' = 0
    /\ mon' = [mon EXCEPT ![t] = "unmap"]
    /\ UNCHANGED <<st, task, cur, stray, req, map, nav, proc, faults>>

TerminalMapping(t) ==
    /\ mon[t] = "unmap"
    /\ map' = CleanMapping(t)
    /\ mon' = [mon EXCEPT ![t] = "finish"]
    /\ UNCHANGED <<st, task, cur, stray, req, nav, proc, agent, faults>>

TerminalFinish(t) ==
    /\ mon[t] = "finish"
    /\ st' = Finished(t, TRUE)
    /\ mon' = [mon EXCEPT ![t] = "reap"]
    /\ UNCHANGED <<task, cur, stray, req, map, nav, proc, agent, faults>>

\* The monitor terminates the children that survived.
MonitorReap(t) ==
    /\ mon[t] = "reap"
    /\ proc' = Terminated(t)
    /\ mon' = [mon EXCEPT ![t] = "done"]
    /\ UNCHANGED <<st, task, cur, stray, req, map, nav, agent, faults>>

-----------------------------------------------------------------------------
TaskStep(t) ==
    \/ StartMapping(t) \/ ClaimMapping(t) \/ WaitMapping(t)
    \/ JobReserve(t) \/ JobSpawn(t) \/ JobPublish(t) \/ JobReturned(t)
    \/ Register(t) \/ Warm(t) \/ WaitAgain(t) \/ Activate(t) \/ Commit(t)
    \/ RollbackDeactivate(t) \/ RollbackStop(t) \/ RollbackStopped(t)
    \/ RollbackMapping(t) \/ RollbackFinish(t) \/ CancelRollback(t)

MonitorStep(t) ==
    \/ MonitorExit(t) \/ TerminalFence(t) \/ TerminalDeactivate(t)
    \/ TerminalMapping(t) \/ TerminalFinish(t) \/ MonitorReap(t)

StopStep ==
    \/ StopSettled \/ StopDeactivate \/ StopJob \/ StopJobDone
    \/ StopMapping \/ StopReset

Next ==
    \/ \E t \in Starts : \/ Start(t) \/ TaskStep(t) \/ StrayStep(t)
                         \/ LauncherDies(t) \/ MonitorStep(t)
    \/ Stop \/ StopStep
    \/ OperatorStart \/ OperatorStop \/ MappingUp \/ MappingDies

\* Threads run and awaits return: a wait in the code is bounded by a timeout.
Fairness ==
    /\ \A t \in Starts : /\ WF_vars(TaskStep(t)) /\ WF_vars(StrayStep(t))
                         /\ WF_vars(MonitorStep(t))
    /\ WF_vars(StopStep)

Spec == Init /\ [][Next]_vars /\ Fairness

-----------------------------------------------------------------------------
\* Every variable has the values its code can give it.
TypeOK ==
    /\ st \in Record
    /\ task \in [Starts -> Task]
    /\ cur \in {0} \cup Starts
    /\ stray \in [Starts -> Worker]
    /\ req \in Settle
    /\ map \in Mapping
    /\ nav \in Pipeline
    /\ proc \in [Starts -> {"none", "up", "headless", "gone"}]
    /\ mon \in [Starts -> {"none", "watch", "fence", "deactivate", "unmap",
                           "finish", "reap", "done"}]
    /\ agent \in {0} \cup Starts
    /\ faults \in 0..MaxFaults

\* An armed session always has someone bound to close it: the start that owns
\* it is committed, or its task has not passed its deactivation yet, or the
\* stop request or the monitor of its job is about to disarm (the activation
\* thread cannot be interrupted, so it may arm after the start was fenced).
ArmedIsOwned ==
    \A t \in Starts : agent = t =>
        \/ st.token = t /\ st.phase = "active"
        \/ task[t].pc \in {"commit", "deactivate"}
        \/ mon[t] \in {"fence", "deactivate"}
        \/ req.pc \in {"settle", "deactivate"}

\* No step of a navigation thread stops a mapping job the operator started.
ForeignMappingSpared ==
    [][map.job \in OperatorJobs /\ map.state \in Alive /\ map'.state = "stopped"
       => UNCHANGED <<st, task, stray, mon, req>>]_vars

\* The cleanup after an unexpected exit of job t touches only the record and
\* the mapping of start t, and never the session of a start that replaced it
\* (it may disarm what the thread of an earlier, fenced start armed late).
TerminalSparesReplacement ==
    [][\A t \in Starts : mon'[t] # mon[t] =>
         /\ st' # st => st.token = t
         /\ agent' # agent => agent <= t
         /\ map' # map => map.job = t]_vars

\* A stop request always returns, whatever the start it settles is doing.
StopSettles == req.pc # "idle" ~> req.pc = "idle"

\* A session whose Nav2 job failed by itself is disarmed.
FailedJobDisarms == nav.state = "failed" /\ agent # 0 ~> agent = 0

\* A committed start keeps the Nav2 job it registered until it is stopped or
\* the monitor of that job takes it down.
CommittedIsBacked ==
    st.phase = "active" =>
        \/ nav.state = "running" /\ nav.job = st.token
        \/ mon[st.token] = "fence"

\* Once everything has settled and no start is on record, nothing is left: no
\* armed session, no Nav2 process group, no mapping job navigation started.
SettledIsQuiet ==
    /\ st.token = 0 /\ req.pc = "idle"
    /\ \A t \in Starts : /\ task[t].pc \in {"unused", "done"}
                         /\ stray[t].pc = "none" /\ mon[t] \in {"none", "done", "watch"}
    => /\ agent = 0
       /\ \A t \in Starts : proc[t] \in {"none", "gone"}
       /\ map.job \in Starts => map.state \notin Alive
=============================================================================
