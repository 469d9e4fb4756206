----------------------- MODULE NavigationStartProofs -----------------------
(***************************************************************************)
(* What the one-click navigation start promises, for any number of starts, *)
(* operator mapping jobs and processes that die.                           *)
(*                                                                         *)
(* The argument: a task that has not registered its Nav2 job yet is the    *)
(* task of the record (EarlyPart), because a record is cleared only by its *)
(* own rollback, by a stop request that has waited for the task, or by the *)
(* cleanup after the exit of the job it has registered.  So the job it     *)
(* registers is its own (JobPart), a record names only the job and the     *)
(* mapping of its own start (RecordPart), and whoever clears a record or   *)
(* ends a task that armed the gateway is followed by somebody who is still *)
(* to disarm it (ArmedPart).                                               *)
(***************************************************************************)
EXTENDS NavigationStart, TLAPS

-----------------------------------------------------------------------------
(* The inductive invariant.                                                *)

\* A task that has not registered its Nav2 job yet.
Early == {"mapping", "claim", "waitMap", "reserve", "spawn", "publish",
          "returned", "register"}

\* A monitor in the cleanup of the start it fenced.
Cleaning == {"deactivate", "unmap", "finish"}

\* Starts are used in order, and nothing belongs to one that was not used.
OrderPart ==
  /\ \A s, t \in Starts : s < t /\ task[s].pc = "unused" => task[t].pc = "unused"
  /\ \A t \in Starts : cur = t => task[t].pc \notin {"unused", "done"}
  /\ \A t \in Starts : agent = t => task[t].pc # "unused"
  /\ \A t \in Starts : st.token = t =>
       /\ task[t].pc # "unused"
       /\ \A s \in Starts : t < s => task[s].pc = "unused"

\* The record names only what its own start has started, and a committed
\* start is not fenced and its task has ended.
RecordPart ==
  /\ st.navJob # 0 => st.navJob = st.token
  /\ st.owned => st.mapJob = st.token /\ st.token # 0
  /\ st.phase = "active" => ~st.cancel /\ st.token # 0
  /\ \A t \in Starts : st.token = t /\ st.phase = "active" => task[t].pc = "done"

\* An early task is the one of the record, and a stop request waits for it.
EarlyPart == \A t \in Starts : task[t].pc \in Early =>
  /\ st.token = t /\ cur = t /\ st.navJob = 0
  /\ req.pc \in {"idle", "settle"}
  /\ req.pc = "settle" => req.await = t

\* Nobody else reserves the pipeline between a task's reservation and its
\* registration.
Reserved(r) == \/ r.pc \in {"spawn", "publish", "register"}
               \/ r.pc = "returned" /\ ~r.failed

JobPart == \A t \in Starts : Reserved(task[t]) => nav.job \in {0, t}

\* A cancellation not yet delivered is one a stop request waits for, and the
\* record such a request found is fenced.
StopPart ==
  /\ \A t \in Starts : task[t].cancelled =>
       req.pc = "settle" /\ req.await = t /\ task[t].pc # "done"
  /\ req.pc # "idle" /\ st.token # 0 => st.cancel

\* A monitor in cleanup has fenced the record of its own start.
CleaningPart == \A t \in Starts : mon[t] \in Cleaning =>
  st.token = t /\ st.navJob = t /\ st.cancel /\ st.terminal

\* Somebody is still to disarm the gateway, or the start is committed.
ArmedPart == \A t \in Starts : agent = t =>
  \/ st.token = t /\ st.phase = "active"
  \/ task[t].pc \in {"commit", "deactivate"}
  \/ mon[t] = "deactivate"
  \/ req.pc \in {"settle", "deactivate"}

IndInv == /\ TypeOK /\ OrderPart /\ RecordPart /\ EarlyPart /\ JobPart
          /\ StopPart /\ CleaningPart /\ ArmedPart

-----------------------------------------------------------------------------
(* Typed updates of the tasks, the record and the managers.                *)

LEMMA TaskFields ==
  ASSUME NEW r \in Task
  PROVE  /\ r.pc \in Unsettled \cup {"unused", "done"} /\ r.failed \in BOOLEAN
         /\ r.cancelled \in BOOLEAN /\ r.err \in {"none", "failed", "cancelled"}
         /\ r.inner \in BOOLEAN /\ r.pgid \in {0} \cup Starts
BY DEF Task

LEMMA StartsAreNumbers ==
  ASSUME NEW t \in Starts
  PROVE  t \in Nat /\ t # 0 /\ t \in {0} \cup Starts
BY BoundsAssumption DEF Starts

LEMMA TaskUpdate ==
  ASSUME task \in [Starts -> Task], NEW t \in Starts, NEW r \in Task
  PROVE  /\ [task EXCEPT ![t] = r] \in [Starts -> Task]
         /\ [task EXCEPT ![t] = r][t] = r
         /\ \A s \in Starts : s # t => [task EXCEPT ![t] = r][s] = task[s]
OBVIOUS

\* The task goes on at pc.
LEMMA GotoFacts ==
  ASSUME task \in [Starts -> Task], NEW t \in Starts, NEW pc \in Unsettled,
         task' = Goto(t, pc)
  PROVE  /\ task' \in [Starts -> Task] /\ task'[t].pc = pc
         /\ task'[t].cancelled = task[t].cancelled
         /\ task'[t].failed = task[t].failed
         /\ \A s \in Starts : s # t => task'[s] = task[s]
<1> DEFINE r == [task[t] EXCEPT !.pc = pc]
<1>1. task[t] \in Task
  OBVIOUS
<1>2. /\ r \in Task /\ r.pc = pc /\ r.cancelled = task[t].cancelled
      /\ r.failed = task[t].failed
  BY <1>1 DEF Task
<1>3. task' = [task EXCEPT ![t] = r]
  BY DEF Goto
<1> HIDE DEF r
<1> QED
  BY <1>2, <1>3, TaskUpdate

\* The thread the task awaits has failed.
FailedAt(t, pc) == [task EXCEPT ![t].pc = pc, ![t].failed = TRUE]

LEMMA FailedFacts ==
  ASSUME task \in [Starts -> Task], NEW t \in Starts, NEW pc \in Unsettled,
         task' = FailedAt(t, pc)
  PROVE  /\ task' \in [Starts -> Task] /\ task'[t].pc = pc
         /\ task'[t].cancelled = task[t].cancelled /\ task'[t].failed
         /\ \A s \in Starts : s # t => task'[s] = task[s]
<1> DEFINE r == [task[t] EXCEPT !.pc = pc, !.failed = TRUE]
<1>1. task[t] \in Task
  OBVIOUS
<1>2. r \in Task
  BY <1>1 DEF Task
<1>3. r.pc = pc /\ r.cancelled = task[t].cancelled /\ r.failed
  BY <1>1 DEF Task
<1>4. task' = [task EXCEPT ![t] = r]
  BY DEF FailedAt
<1> HIDE DEF r
<1>5. /\ task' \in [Starts -> Task] /\ task'[t] = r
      /\ \A s \in Starts : s # t => task'[s] = task[s]
  BY <1>2, <1>4, TaskUpdate
<1> QED
  BY <1>3, <1>5

\* The task is in the rollback after an exception.
LEMMA RaiseFacts ==
  ASSUME task \in [Starts -> Task], NEW t \in Starts,
         NEW how \in {"failed", "cancelled"}, NEW inner \in BOOLEAN,
         task' = Raise(t, how, inner)
  PROVE  /\ task' \in [Starts -> Task] /\ task'[t].pc = "deactivate"
         /\ task'[t].cancelled => task[t].cancelled
         /\ \A s \in Starts : s # t => task'[s] = task[s]
<1> DEFINE c == IF how = "cancelled" THEN FALSE ELSE task[t].cancelled
           r == [task[t] EXCEPT !.pc = "deactivate", !.err = how,
                                !.inner = inner, !.failed = FALSE,
                                !.cancelled = c]
<1>1. task[t] \in Task /\ "deactivate" \in Unsettled
  BY DEF Unsettled, Undo
<1>2. c \in BOOLEAN /\ (c => task[t].cancelled)
  BY <1>1, TaskFields
<1>3. task' = [task EXCEPT ![t] = r]
  BY <1>1 DEF Raise
<1> HIDE DEF c
<1>4. r \in Task
  BY <1>1, <1>2 DEF Task
<1>5. r.pc = "deactivate" /\ r.cancelled = c
  BY <1>1 DEF Task
<1> HIDE DEF r
<1>6. /\ task' \in [Starts -> Task] /\ task'[t] = r
      /\ \A s \in Starts : s # t => task'[s] = task[s]
  BY <1>3, <1>4, TaskUpdate
<1> QED
  BY <1>2, <1>5, <1>6

\* The task has ended.
LEMMA DoneFacts ==
  ASSUME task \in [Starts -> Task], NEW t \in Starts, task' = Done(t)
  PROVE  /\ task' \in [Starts -> Task] /\ task'[t].pc = "done"
         /\ ~task'[t].cancelled
         /\ \A s \in Starts : s # t => task'[s] = task[s]
<1> DEFINE r == [NewTask EXCEPT !.pc = "done"]
<1>1. r \in Task /\ r.pc = "done" /\ ~r.cancelled
  BY DEF NewTask, Task
<1>2. task' = [task EXCEPT ![t] = r]
  BY DEF Done
<1> HIDE DEF r
<1> QED
  BY <1>1, <1>2, TaskUpdate

LEMMA PipelineFields ==
  ASSUME NEW n \in Pipeline
  PROVE  /\ n.state \in Alive \cup {"idle", "failed"} /\ n.job \in {0} \cup Starts
         /\ n.token \in {0} \cup Starts /\ n.pgid \in {0} \cup Starts
         /\ n.stopRequested \in BOOLEAN
BY DEF Pipeline

\* Stopping the pipeline keeps its job or clears it.
LEMMA StopJobsFacts ==
  ASSUME nav \in Pipeline
  PROVE  /\ StopJobs \in Pipeline /\ StopJobs.job = nav.job
         /\ JobsStopped \in Pipeline /\ JobsStopped.job = 0
<1>1. StopJobs \in Pipeline /\ StopJobs.job = nav.job
  BY DEF StopJobs, Pipeline, Alive
<1>2. JobsStopped \in Pipeline /\ JobsStopped.job = 0
  BY DEF JobsStopped, Pipeline, Alive
<1> QED
  BY <1>1, <1>2

LEMMA TerminatedTyped ==
  ASSUME proc \in [Starts -> {"none", "up", "headless", "gone"}],
         NEW g \in {0} \cup Starts
  PROVE  Terminated(g) \in [Starts -> {"none", "up", "headless", "gone"}]
BY DEF Terminated

LEMMA CleanMappingFacts ==
  ASSUME map \in Mapping, NEW t
  PROVE  CleanMapping(t) \in Mapping
BY DEF CleanMapping, Mapping

LEMMA NoRecordFacts ==
  /\ NoRecord \in Record /\ NoRecord.token = 0 /\ NoRecord.phase = "idle"
  /\ ~NoRecord.cancel /\ ~NoRecord.owned /\ NoRecord.navJob = 0
  /\ ~NoRecord.terminal /\ NoRecord.mapJob = 0
BY DEF NoRecord, Record

LEMMA RecordFields ==
  ASSUME NEW r \in Record
  PROVE  /\ r.token \in {0} \cup Starts /\ r.pending \in BOOLEAN
         /\ r.cancel \in BOOLEAN /\ r.owned \in BOOLEAN /\ r.terminal \in BOOLEAN
         /\ r.mapJob \in {0} \cup MapJobs /\ r.navJob \in {0} \cup Starts
BY DEF Record

\* The types of what most steps are about.
LEMMA Types ==
  ASSUME IndInv
  PROVE  /\ st \in Record /\ task \in [Starts -> Task] /\ req \in Settle
         /\ map \in Mapping /\ nav \in Pipeline /\ stray \in [Starts -> Worker]
         /\ cur \in {0} \cup Starts /\ agent \in {0} \cup Starts
         /\ proc \in [Starts -> {"none", "up", "headless", "gone"}]
         /\ faults \in 0..MaxFaults
BY DEF IndInv, TypeOK

-----------------------------------------------------------------------------
(* Shapes of steps.                                                        *)

\* A step of no task and no stop request that leaves the record alone.
LEMMA QuietStep ==
  ASSUME IndInv, TypeOK', UNCHANGED <<st, task, cur, req>>,
         agent' \in {agent, 0}, nav'.job \in {nav.job, 0},
         \A s \in Starts : mon'[s] \in Cleaning => mon[s] \in Cleaning,
         \A s \in Starts : mon[s] = "deactivate" =>
                             mon'[s] = "deactivate" \/ agent' = 0
  PROVE  IndInv'
<1>1. \A t \in Starts : t # 0
  BY StartsAreNumbers
<1>2. OrderPart' /\ RecordPart' /\ EarlyPart'
  BY <1>1 DEF IndInv, OrderPart, RecordPart, EarlyPart
<1>3. JobPart'
  BY DEF IndInv, JobPart
<1>4. StopPart' /\ CleaningPart'
  BY DEF IndInv, StopPart, CleaningPart
<1>5. ArmedPart'
  BY <1>1 DEF IndInv, ArmedPart
<1> QED
  BY <1>2, <1>3, <1>4, <1>5 DEF IndInv

\* A step of the stop request after the task it waits for has settled.
LEMMA CleanupStep ==
  ASSUME IndInv, TypeOK', UNCHANGED <<st, task, cur, mon>>,
         agent' \in {agent, 0}, nav'.job \in {nav.job, 0},
         req.pc \notin {"idle", "settle"}, req'.pc # "idle",
         req.pc = "deactivate" => agent' = 0
  PROVE  IndInv'
<1>1. \A t \in Starts : t # 0
  BY StartsAreNumbers
<1>2. \A t \in Starts : task[t].pc \notin Early /\ ~task[t].cancelled
  BY DEF IndInv, EarlyPart, StopPart
<1>3. OrderPart' /\ RecordPart' /\ EarlyPart'
  BY <1>1, <1>2 DEF IndInv, OrderPart, RecordPart, EarlyPart
<1>4. JobPart'
  BY DEF IndInv, JobPart
<1>5. StopPart' /\ CleaningPart'
  BY <1>2 DEF IndInv, StopPart, CleaningPart
<1>6. ArmedPart'
  BY <1>1 DEF IndInv, ArmedPart
<1> QED
  BY <1>3, <1>4, <1>5, <1>6 DEF IndInv

\* A step of a task that goes on.  It may give its own record a phase, its
\* mapping job or, once it is registered, its Nav2 job; it may reserve the
\* pipeline while it is early, and arm the gateway if it commits next.
LEMMA TaskGoesOn ==
  ASSUME IndInv, TypeOK', UNCHANGED <<cur, req>>, NEW t \in Starts,
         task[t].pc \notin {"unused", "done"},
         task'[t].pc \notin {"unused", "done"},
         \A s \in Starts : s # t => task'[s] = task[s],
         task'[t].cancelled => task[t].cancelled,
         task'[t].pc \in Early => task[t].pc \in Early,
         Reserved(task'[t]) => nav'.job \in {0, t},
         nav'.job \in {nav.job, 0} \/ (task[t].pc \in Early /\ nav'.job = t),
         \A s \in Starts : mon'[s] = mon[s] \/ (mon[s] # "deactivate"
                                                /\ mon'[s] \notin Cleaning),
         \/ agent' \in {agent, 0}
         \/ agent' = t /\ task'[t].pc = "commit",
         task[t].pc \in {"commit", "deactivate"} =>
           agent' # t \/ task'[t].pc \in {"commit", "deactivate"},
         \/ st' = st
         \/ /\ st.token = t /\ st'.token = t /\ st'.phase # "active"
            /\ st'.cancel = st.cancel /\ st'.terminal = st.terminal
            /\ \/ st'.navJob = st.navJob
               \/ st'.navJob = t /\ task'[t].pc \notin Early
            /\ st'.owned => st'.mapJob = t \/ (st.owned /\ st'.mapJob = st.mapJob)
  PROVE  IndInv'
<1>1. \A s \in Starts : s # 0
  BY StartsAreNumbers
<1>2. st.token = t => st.phase # "active"
  BY DEF IndInv, RecordPart
<1>3. st'.token = st.token
  OBVIOUS
<1>4. OrderPart'
  BY <1>1, <1>3 DEF IndInv, OrderPart
<1>5. RecordPart'
  BY <1>1, <1>2, <1>3 DEF IndInv, RecordPart
<1>6. EarlyPart'
  BY <1>3 DEF IndInv, EarlyPart
<1>7. JobPart'
  <2> SUFFICES ASSUME NEW s \in Starts, s # t, Reserved(task'[s])
               PROVE  nav'.job \in {0, s}
    BY DEF JobPart
  <2>1. Reserved(task[s])
    OBVIOUS
  <2>2. nav.job \in {0, s} /\ task[s].pc \in Early
    BY <2>1 DEF IndInv, JobPart, Reserved, Early
  <2>3. task[t].pc \notin Early
    BY <2>2 DEF IndInv, EarlyPart
  <2> QED
    BY <2>2, <2>3
<1>8. StopPart'
  BY <1>3 DEF IndInv, StopPart
<1>9. CleaningPart'
  BY DEF IndInv, CleaningPart
<1>10. ArmedPart'
  BY <1>1, <1>2 DEF IndInv, ArmedPart
<1> QED
  BY <1>4, <1>5, <1>6, <1>7, <1>8, <1>9, <1>10 DEF IndInv

-----------------------------------------------------------------------------
(* The background task.                                                    *)

LEMMA StartMappingStep ==
  ASSUME IndInv, NEW t \in Starts, StartMapping(t)
  PROVE  IndInv'
<1>1. /\ task[t].pc = "mapping"
      /\ task' = Goto(t, "claim") \/ task' = FailedAt(t, "claim")
      /\ \/ map' = [map EXCEPT !.state = "starting", !.job = t]
         \/ map' = [map EXCEPT !.state = "failed", !.job = t]
         \/ map' = map
      /\ UNCHANGED <<st, cur, stray, req, nav, proc, mon, agent, faults>>
  BY DEF StartMapping, FailedAt
<1>2. task \in [Starts -> Task] /\ map \in Mapping
  BY Types
<1>3. /\ task' \in [Starts -> Task] /\ task'[t].pc = "claim"
      /\ task'[t].cancelled = task[t].cancelled
      /\ \A s \in Starts : s # t => task'[s] = task[s]
  BY <1>1, <1>2, GotoFacts, FailedFacts DEF Unsettled
<1>4. map' \in Mapping
  BY <1>1, <1>2 DEF Mapping, MapJobs, Alive
<1>5. TypeOK'
  BY <1>1, <1>3, <1>4 DEF IndInv, TypeOK
<1> QED
  BY <1>1, <1>3, <1>5, TaskGoesOn DEF Early, Reserved

\* The record with the mapping job of its start.
LEMMA ClaimedFacts ==
  ASSUME st \in Record, NEW t \in Starts, st.token = t,
         NEW phase \in {"stopping", "failed", "waiting_localization"}
  PROVE  LET y == Claimed(t, phase, t) IN
         /\ y \in Record /\ y.token = t /\ y.phase # "active"
         /\ y.cancel = st.cancel /\ y.terminal = st.terminal
         /\ y.navJob = st.navJob /\ y.mapJob = t
<1> DEFINE y == [st EXCEPT !.phase = phase, !.mapJob = t, !.owned = TRUE]
<1>1. t \in {0} \cup MapJobs
  BY DEF MapJobs
<1>2. y \in Record
  BY <1>1 DEF Record
<1>3. /\ y.token = t /\ y.phase # "active"
      /\ y.cancel = st.cancel /\ y.terminal = st.terminal
      /\ y.navJob = st.navJob /\ y.mapJob = t
  BY DEF Record
<1>4. Claimed(t, phase, t) = y
  BY DEF Claimed
<1> HIDE DEF y
<1> QED
  BY <1>2, <1>3, <1>4

LEMMA UpdateStartFacts ==
  ASSUME st \in Record, NEW t \in Starts, st.token = t,
         NEW phase \in {"starting_navigation", "activating"}
  PROVE  LET y == UpdateStart(t, phase) IN
         /\ y \in Record /\ y.token = t /\ y.phase # "active"
         /\ y.cancel = st.cancel /\ y.terminal = st.terminal
         /\ y.navJob = st.navJob /\ y.mapJob = st.mapJob /\ y.owned = st.owned
<1> DEFINE y == [st EXCEPT !.phase = phase]
<1>1. y \in Record
  BY DEF Record
<1>2. /\ y.token = t /\ y.phase # "active"
      /\ y.cancel = st.cancel /\ y.terminal = st.terminal
      /\ y.navJob = st.navJob /\ y.mapJob = st.mapJob /\ y.owned = st.owned
  BY DEF Record
<1>3. UpdateStart(t, phase) = y
  BY DEF UpdateStart
<1> HIDE DEF y
<1> QED
  BY <1>1, <1>2, <1>3

LEMMA ClaimMappingStep ==
  ASSUME IndInv, NEW t \in Starts, ClaimMapping(t)
  PROVE  IndInv'
<1> DEFINE phase == IF task[t].cancelled THEN "stopping"
                    ELSE IF task[t].failed THEN "failed"
                    ELSE "waiting_localization"
<1>1. /\ task[t].pc = "claim"
      /\ st' = st \/ st' = Claimed(t, phase, t)
      /\ UNCHANGED <<cur, stray, req, map, nav, proc, mon, agent, faults>>
  BY DEF ClaimMapping
<1>2. \/ task' = Raise(t, "cancelled", FALSE) \/ task' = Raise(t, "failed", FALSE)
      \/ task' = Goto(t, "waitMap")
  BY DEF ClaimMapping
<1>3. task \in [Starts -> Task] /\ st \in Record
  BY Types
<1>4. st.token = t
  BY <1>1 DEF IndInv, EarlyPart, Early
<1>5. phase \in {"stopping", "failed", "waiting_localization"}
  OBVIOUS
<1> HIDE DEF phase
<1>6. \/ st' = st
      \/ /\ st' \in Record /\ st'.token = t /\ st'.phase # "active"
         /\ st'.cancel = st.cancel /\ st'.terminal = st.terminal
         /\ st'.navJob = st.navJob /\ st'.mapJob = t
  BY <1>1, <1>3, <1>4, <1>5, ClaimedFacts
<1>7. /\ task' \in [Starts -> Task] /\ task'[t].pc \in {"deactivate", "waitMap"}
      /\ task'[t].cancelled => task[t].cancelled
      /\ \A s \in Starts : s # t => task'[s] = task[s]
  BY <1>2, <1>3, GotoFacts, RaiseFacts DEF Unsettled
<1>8. TypeOK'
  BY <1>1, <1>3, <1>6, <1>7 DEF IndInv, TypeOK
<1> QED
  BY <1>1, <1>4, <1>6, <1>7, <1>8, TaskGoesOn DEF Early, Reserved

LEMMA WaitMappingStep ==
  ASSUME IndInv, NEW t \in Starts, WaitMapping(t)
  PROVE  IndInv'
<1>1. /\ task[t].pc = "waitMap"
      /\ UNCHANGED <<cur, stray, req, map, nav, proc, mon, agent, faults>>
      /\ st' = st \/ st' = UpdateStart(t, "starting_navigation")
      /\ \/ task' = Raise(t, "cancelled", FALSE)
         \/ task' = Raise(t, "failed", FALSE)
         \/ task' = Goto(t, "reserve")
  BY DEF WaitMapping
<1>2. task \in [Starts -> Task] /\ st \in Record
  BY Types
<1>3. st.token = t
  BY <1>1 DEF IndInv, EarlyPart, Early
<1>4. \/ st' = st
      \/ /\ st' \in Record /\ st'.token = t /\ st'.phase # "active"
         /\ st'.cancel = st.cancel /\ st'.terminal = st.terminal
         /\ st'.navJob = st.navJob
         /\ st'.mapJob = st.mapJob /\ st'.owned = st.owned
  BY <1>1, <1>2, <1>3, UpdateStartFacts
<1>5. /\ task' \in [Starts -> Task] /\ task'[t].pc \in {"deactivate", "reserve"}
      /\ task'[t].cancelled => task[t].cancelled
      /\ \A s \in Starts : s # t => task'[s] = task[s]
  BY <1>1, <1>2, GotoFacts, RaiseFacts DEF Unsettled
<1>6. TypeOK'
  BY <1>1, <1>2, <1>4, <1>5 DEF IndInv, TypeOK
<1> QED
  BY <1>1, <1>3, <1>4, <1>5, <1>6, TaskGoesOn DEF Early, Reserved

\* A start whose worker thread fails: its process group is gone.
LEMMA StartFailedFacts ==
  ASSUME IndInv, NEW t \in Starts, StartFailed(t)
  PROVE  /\ nav' \in Pipeline /\ nav'.job = nav.job
         /\ proc' \in [Starts -> {"none", "up", "headless", "gone"}]
         /\ task' \in [Starts -> Task] /\ task'[t].pc = "returned"
         /\ task'[t].failed /\ task'[t].cancelled = task[t].cancelled
         /\ \A s \in Starts : s # t => task'[s] = task[s]
<1>1. /\ task \in [Starts -> Task] /\ nav \in Pipeline
      /\ proc \in [Starts -> {"none", "up", "headless", "gone"}]
  BY Types
<1>2. nav' \in Pipeline /\ nav'.job = nav.job
  BY <1>1 DEF StartFailed, Pipeline, Alive
<1>3. proc' \in [Starts -> {"none", "up", "headless", "gone"}]
  BY <1>1 DEF StartFailed
<1>4. task' = FailedAt(t, "returned")
  BY DEF StartFailed, FailedAt
<1> QED
  BY <1>1, <1>2, <1>3, <1>4, FailedFacts DEF Unsettled

LEMMA JobReserveStep ==
  ASSUME IndInv, NEW t \in Starts, JobReserve(t)
  PROVE  IndInv'
<1>1. /\ task[t].pc = "reserve"
      /\ UNCHANGED <<st, cur, stray, req, map, proc, mon, agent, faults>>
      /\ \/ task' = FailedAt(t, "returned") /\ nav' = nav
         \/ /\ task' = Goto(t, "spawn")
            /\ nav' = [state |-> "starting", job |-> t, token |-> t,
                       pgid |-> 0, stopRequested |-> FALSE]
  BY DEF JobReserve, FailedAt
<1>2. task \in [Starts -> Task] /\ nav \in Pipeline
  BY Types
<1>3. CASE task' = FailedAt(t, "returned") /\ nav' = nav
  <2>1. /\ task' \in [Starts -> Task] /\ task'[t].pc = "returned"
        /\ task'[t].cancelled = task[t].cancelled /\ task'[t].failed
        /\ \A s \in Starts : s # t => task'[s] = task[s]
    BY <1>2, <1>3, FailedFacts DEF Unsettled
  <2>2. TypeOK'
    BY <1>1, <1>3, <2>1 DEF IndInv, TypeOK
  <2> QED
    BY <1>1, <1>3, <2>1, <2>2, TaskGoesOn DEF Early, Reserved
<1>4. CASE /\ task' = Goto(t, "spawn")
           /\ nav' = [state |-> "starting", job |-> t, token |-> t,
                      pgid |-> 0, stopRequested |-> FALSE]
  <2>1. /\ task' \in [Starts -> Task] /\ task'[t].pc = "spawn"
        /\ task'[t].cancelled = task[t].cancelled
        /\ \A s \in Starts : s # t => task'[s] = task[s]
    BY <1>2, <1>4, GotoFacts DEF Unsettled
  <2>2. nav' \in Pipeline
    BY <1>4 DEF Pipeline, Alive
  <2>3. nav'.job = t
    BY <1>4
  <2>4. TypeOK'
    BY <1>1, <2>1, <2>2 DEF IndInv, TypeOK
  <2> QED
    BY <1>1, <2>1, <2>3, <2>4, TaskGoesOn DEF Early, Reserved
<1> QED
  BY <1>1, <1>3, <1>4

LEMMA JobSpawnStep ==
  ASSUME IndInv, NEW t \in Starts, JobSpawn(t)
  PROVE  IndInv'
<1>1. /\ task[t].pc = "spawn"
      /\ UNCHANGED <<st, cur, stray, req, map, mon, agent, faults>>
      /\ \/ /\ proc' = [proc EXCEPT ![t] = "up"]
            /\ nav' = [nav EXCEPT !.pgid = t]
            /\ task' = Goto(t, "publish")
         \/ StartFailed(t)
  BY DEF JobSpawn
<1>2. /\ task \in [Starts -> Task] /\ nav \in Pipeline
      /\ proc \in [Starts -> {"none", "up", "headless", "gone"}]
  BY Types
<1>3. nav.job \in {0, t}
  BY <1>1 DEF IndInv, JobPart, Reserved
<1>4. CASE StartFailed(t)
  <2>1. /\ nav' \in Pipeline /\ nav'.job = nav.job
        /\ proc' \in [Starts -> {"none", "up", "headless", "gone"}]
        /\ task' \in [Starts -> Task] /\ task'[t].pc = "returned"
        /\ task'[t].cancelled = task[t].cancelled
        /\ \A s \in Starts : s # t => task'[s] = task[s]
    BY <1>4, StartFailedFacts
  <2>2. TypeOK'
    BY <1>1, <2>1 DEF IndInv, TypeOK
  <2> QED
    BY <1>1, <1>3, <2>1, <2>2, TaskGoesOn DEF Early
<1>5. CASE /\ proc' = [proc EXCEPT ![t] = "up"]
           /\ nav' = [nav EXCEPT !.pgid = t]
           /\ task' = Goto(t, "publish")
  <2>1. nav' \in Pipeline /\ nav'.job = nav.job
    BY <1>2, <1>5 DEF Pipeline
  <2>2. proc' \in [Starts -> {"none", "up", "headless", "gone"}]
    BY <1>2, <1>5
  <2>3. /\ task' \in [Starts -> Task] /\ task'[t].pc = "publish"
        /\ task'[t].cancelled = task[t].cancelled
        /\ \A s \in Starts : s # t => task'[s] = task[s]
    BY <1>2, <1>5, GotoFacts DEF Unsettled
  <2>4. TypeOK'
    BY <1>1, <2>1, <2>2, <2>3 DEF IndInv, TypeOK
  <2> QED
    BY <1>1, <1>3, <2>1, <2>3, <2>4, TaskGoesOn DEF Early
<1> QED
  BY <1>1, <1>4, <1>5

LEMMA JobPublishStep ==
  ASSUME IndInv, NEW t \in Starts, JobPublish(t)
  PROVE  IndInv'
<1>1. /\ task[t].pc = "publish"
      /\ UNCHANGED <<st, cur, stray, req, map, agent, faults>>
      /\ \/ /\ nav' = [nav EXCEPT !.state = "running"]
            /\ mon' = [mon EXCEPT ![t] = "watch"]
            /\ task' = Goto(t, "returned")
            /\ proc' = proc
         \/ StartFailed(t) /\ mon' = mon
  BY DEF JobPublish
<1>2. /\ task \in [Starts -> Task] /\ nav \in Pipeline
  BY Types
<1>3. nav.job \in {0, t}
  BY <1>1 DEF IndInv, JobPart, Reserved
<1>4. CASE StartFailed(t) /\ mon' = mon
  <2>1. /\ nav' \in Pipeline /\ nav'.job = nav.job
        /\ proc' \in [Starts -> {"none", "up", "headless", "gone"}]
        /\ task' \in [Starts -> Task] /\ task'[t].pc = "returned"
        /\ task'[t].cancelled = task[t].cancelled
        /\ \A s \in Starts : s # t => task'[s] = task[s]
    BY <1>4, StartFailedFacts
  <2>2. TypeOK'
    BY <1>1, <1>4, <2>1 DEF IndInv, TypeOK
  <2> QED
    BY <1>1, <1>3, <1>4, <2>1, <2>2, TaskGoesOn DEF Early
<1>5. CASE /\ nav' = [nav EXCEPT !.state = "running"]
           /\ mon' = [mon EXCEPT ![t] = "watch"]
           /\ task' = Goto(t, "returned")
           /\ proc' = proc
  <2>1. nav' \in Pipeline /\ nav'.job = nav.job
    BY <1>2, <1>5 DEF Pipeline, Alive
  <2>2. /\ task' \in [Starts -> Task] /\ task'[t].pc = "returned"
        /\ task'[t].cancelled = task[t].cancelled
        /\ \A s \in Starts : s # t => task'[s] = task[s]
    BY <1>2, <1>5, GotoFacts DEF Unsettled
  <2>3. TypeOK'
    BY <1>1, <1>5, <2>1, <2>2 DEF IndInv, TypeOK
  <2>4. st.navJob = 0
    BY <1>1 DEF IndInv, EarlyPart, Early
  <2>5. mon[t] \notin Cleaning
    BY <2>4, StartsAreNumbers DEF IndInv, CleaningPart
  <2>6. \A s \in Starts : mon'[s] = mon[s] \/ (mon[s] # "deactivate"
                                               /\ mon'[s] \notin Cleaning)
    BY <1>5, <2>5 DEF IndInv, TypeOK, Cleaning
  <2> QED
    BY <1>1, <1>3, <2>1, <2>2, <2>3, <2>6, TaskGoesOn DEF Early
<1> QED
  BY <1>1, <1>4, <1>5

LEMMA JobReturnedStep ==
  ASSUME IndInv, NEW t \in Starts, JobReturned(t)
  PROVE  IndInv'
<1>1. /\ task[t].pc = "returned"
      /\ UNCHANGED <<st, cur, stray, req, map, nav, proc, mon, agent, faults>>
      /\ \/ task' = Raise(t, "cancelled", TRUE) \/ task' = Raise(t, "failed", TRUE)
         \/ ~task[t].failed /\ task' = Goto(t, "register")
  BY DEF JobReturned
<1>2. task \in [Starts -> Task]
  BY Types
<1>3. /\ task' \in [Starts -> Task]
      /\ \/ task'[t].pc = "deactivate"
         \/ task'[t].pc = "register" /\ ~task[t].failed
      /\ task'[t].cancelled => task[t].cancelled
      /\ \A s \in Starts : s # t => task'[s] = task[s]
  BY <1>1, <1>2, GotoFacts, RaiseFacts DEF Unsettled
<1>4. Reserved(task'[t]) => nav.job \in {0, t}
  BY <1>1, <1>3 DEF IndInv, JobPart, Reserved
<1>5. TypeOK'
  BY <1>1, <1>3 DEF IndInv, TypeOK
<1> QED
  BY <1>1, <1>3, <1>4, <1>5, TaskGoesOn DEF Early

LEMMA RegisterStep ==
  ASSUME IndInv, NEW t \in Starts, Register(t)
  PROVE  IndInv'
<1> DEFINE y == [st EXCEPT !.phase = "warming_navigation", !.navJob = nav.job]
<1>1. /\ task[t].pc = "register"
      /\ UNCHANGED <<cur, stray, req, map, nav, proc, mon, agent, faults>>
      /\ st' = st \/ (nav.job # 0 /\ st' = y)
      /\ \/ task' = Raise(t, "cancelled", FALSE)
         \/ task' = Raise(t, "failed", FALSE)
         \/ task' = Goto(t, "warm")
  BY DEF Register
<1>2. task \in [Starts -> Task] /\ st \in Record /\ nav \in Pipeline
  BY Types
<1>3. st.token = t
  BY <1>1 DEF IndInv, EarlyPart, Early
<1>4. nav.job \in {0, t} /\ nav.job \in {0} \cup Starts
  BY <1>1, <1>2, PipelineFields DEF IndInv, JobPart, Reserved
<1>5. y \in Record
  BY <1>2, <1>4 DEF Record
<1>6. /\ y.token = st.token /\ y.phase # "active" /\ y.navJob = nav.job
      /\ y.cancel = st.cancel /\ y.terminal = st.terminal
      /\ y.mapJob = st.mapJob /\ y.owned = st.owned
  BY <1>2 DEF Record
<1> HIDE DEF y
<1>7. /\ task' \in [Starts -> Task] /\ task'[t].pc \in {"deactivate", "warm"}
      /\ task'[t].cancelled => task[t].cancelled
      /\ \A s \in Starts : s # t => task'[s] = task[s]
  BY <1>1, <1>2, GotoFacts, RaiseFacts DEF Unsettled
<1>8. \/ st' = st
      \/ /\ st'.token = t /\ st'.phase # "active" /\ st'.navJob = t
         /\ st'.cancel = st.cancel /\ st'.terminal = st.terminal
         /\ st'.mapJob = st.mapJob /\ st'.owned = st.owned
  BY <1>1, <1>3, <1>4, <1>6
<1>9. TypeOK'
  BY <1>1, <1>2, <1>5, <1>7 DEF IndInv, TypeOK
<1> QED
  BY <1>1, <1>3, <1>7, <1>8, <1>9, TaskGoesOn DEF Early, Reserved

LEMMA WarmStep ==
  ASSUME IndInv, NEW t \in Starts, Warm(t)
  PROVE  IndInv'
<1>1. /\ task[t].pc = "warm"
      /\ UNCHANGED <<st, cur, stray, req, map, nav, proc, mon, agent, faults>>
      /\ \/ task' = Raise(t, "cancelled", FALSE)
         \/ task' = Raise(t, "failed", FALSE)
         \/ task' = Goto(t, "waitAgain")
  BY DEF Warm
<1>2. task \in [Starts -> Task]
  BY Types
<1>3. /\ task' \in [Starts -> Task] /\ task'[t].pc \in {"deactivate", "waitAgain"}
      /\ task'[t].cancelled => task[t].cancelled
      /\ \A s \in Starts : s # t => task'[s] = task[s]
  BY <1>1, <1>2, GotoFacts, RaiseFacts DEF Unsettled
<1>4. TypeOK'
  BY <1>1, <1>3 DEF IndInv, TypeOK
<1> QED
  BY <1>1, <1>3, <1>4, TaskGoesOn DEF Early, Reserved

LEMMA WaitAgainStep ==
  ASSUME IndInv, NEW t \in Starts, WaitAgain(t)
  PROVE  IndInv'
<1>1. /\ task[t].pc = "waitAgain"
      /\ UNCHANGED <<cur, stray, req, map, nav, proc, mon, agent, faults>>
      /\ \/ st' = st
         \/ st.token = t /\ st' = UpdateStart(t, "activating")
      /\ \/ task' = Raise(t, "cancelled", FALSE)
         \/ task' = Raise(t, "failed", FALSE)
         \/ task' = Goto(t, "activate")
  BY DEF WaitAgain, StartCancelled
<1>2. task \in [Starts -> Task] /\ st \in Record
  BY Types
<1>3. \/ st' = st
      \/ /\ st.token = t /\ st' \in Record /\ st'.token = t
         /\ st'.phase # "active"
         /\ st'.cancel = st.cancel /\ st'.terminal = st.terminal
         /\ st'.navJob = st.navJob
         /\ st'.mapJob = st.mapJob /\ st'.owned = st.owned
  BY <1>1, <1>2, UpdateStartFacts
<1>4. /\ task' \in [Starts -> Task] /\ task'[t].pc \in {"deactivate", "activate"}
      /\ task'[t].cancelled => task[t].cancelled
      /\ \A s \in Starts : s # t => task'[s] = task[s]
  <2>1. "activate" \in Unsettled
    BY DEF Unsettled
  <2>2. CASE task' = Goto(t, "activate")
    BY <1>2, <2>1, <2>2, GotoFacts
  <2>3. CASE task' # Goto(t, "activate")
    BY <1>1, <1>2, <2>3, RaiseFacts
  <2> QED
    BY <2>2, <2>3
<1>5. TypeOK'
  BY <1>1, <1>2, <1>3, <1>4 DEF IndInv, TypeOK
<1> QED
  BY <1>1, <1>3, <1>4, <1>5, TaskGoesOn DEF Early, Reserved

LEMMA ActivateStep ==
  ASSUME IndInv, NEW t \in Starts, Activate(t)
  PROVE  IndInv'
<1>1. /\ task[t].pc = "activate"
      /\ UNCHANGED <<st, cur, stray, req, map, nav, proc, mon, faults>>
      /\ agent' \in {agent, t}
      /\ task' = Goto(t, "commit") \/ task' = FailedAt(t, "commit")
  BY DEF Activate, FailedAt
<1>2. task \in [Starts -> Task]
  BY Types
<1>3. /\ task' \in [Starts -> Task] /\ task'[t].pc = "commit"
      /\ task'[t].cancelled = task[t].cancelled
      /\ \A s \in Starts : s # t => task'[s] = task[s]
  BY <1>1, <1>2, GotoFacts, FailedFacts DEF Unsettled
<1>4. TypeOK'
  BY <1>1, <1>3 DEF IndInv, TypeOK
<1> QED
  BY <1>1, <1>3, <1>4, TaskGoesOn DEF Early, Reserved

\* A task ends: it is not early, and its record stays, is committed, or is
\* cleared by its rollback.
LEMMA TaskEnds ==
  ASSUME IndInv, TypeOK', NEW t \in Starts,
         task[t].pc \in {"commit", "deactivate", "stop", "stopping", "unmap",
                         "finish"},
         task'[t].pc = "done", ~task'[t].cancelled,
         \A s \in Starts : s # t => task'[s] = task[s],
         cur' = IF cur = t THEN 0 ELSE cur,
         UNCHANGED <<req, nav, mon, agent>>,
         \/ st' = st
         \/ /\ st.token = t /\ st'.token = t /\ ~st.cancel /\ ~st'.cancel
            /\ st'.navJob = st.navJob
            /\ st'.owned => st.owned
            /\ st'.mapJob = st.mapJob
         \/ /\ st.token = t /\ ~st.terminal /\ st'.token = 0
            /\ st'.navJob = 0 /\ ~st'.owned /\ st'.phase # "active",
         agent = t /\ task[t].pc \in {"commit", "deactivate"} =>
           \/ st'.token = t /\ st'.phase = "active"
           \/ req.pc = "settle"
  PROVE  IndInv'
<1>1. \A s \in Starts : s # 0
  BY StartsAreNumbers
<1>2. task[t].pc \notin Early /\ task[t].pc # "unused" /\ task[t].pc # "done"
  BY DEF Early
<1>3. st.token = t => st.phase # "active"
  BY <1>2 DEF IndInv, RecordPart
<1>4. OrderPart'
  BY <1>1, <1>2 DEF IndInv, OrderPart
<1>5. RecordPart'
  BY <1>1, <1>2, <1>3 DEF IndInv, RecordPart
<1>6. EarlyPart'
  BY <1>1, <1>2 DEF IndInv, EarlyPart, Early
<1>7. JobPart'
  BY DEF IndInv, JobPart, Reserved
<1>8. StopPart'
  BY <1>1 DEF IndInv, StopPart
<1>9. CleaningPart'
  BY <1>1 DEF IndInv, CleaningPart
<1>10. ArmedPart'
  BY <1>1, <1>2, <1>3 DEF IndInv, ArmedPart
<1> QED
  BY <1>4, <1>5, <1>6, <1>7, <1>8, <1>9, <1>10 DEF IndInv

LEMMA CommitStep ==
  ASSUME IndInv, NEW t \in Starts, Commit(t)
  PROVE  IndInv'
<1> DEFINE ok == ~task[t].cancelled /\ ~task[t].failed /\ ~StartCancelled(t)
           y == [st EXCEPT !.phase = "active", !.pending = FALSE]
<1>1. /\ task[t].pc = "commit"
      /\ UNCHANGED <<stray, req, map, nav, proc, mon, agent, faults>>
  BY DEF Commit
<1>2. task \in [Starts -> Task] /\ st \in Record /\ cur \in {0} \cup Starts
  BY Types
<1>3. CASE ok
  <2>1. st' = y /\ task' = Done(t) /\ cur' = IF cur = t THEN 0 ELSE cur
    BY <1>3 DEF Commit
  <2>2. st.token = t /\ ~st.cancel
    BY <1>3 DEF StartCancelled
  <2>3. y \in Record
    BY <1>2 DEF Record
  <2>4. /\ y.token = st.token /\ y.phase = "active" /\ y.cancel = st.cancel
        /\ y.navJob = st.navJob /\ y.mapJob = st.mapJob /\ y.owned = st.owned
    BY <1>2 DEF Record
  <2> HIDE DEF y, ok
  <2>5. /\ task' \in [Starts -> Task] /\ task'[t].pc = "done"
        /\ ~task'[t].cancelled
        /\ \A s \in Starts : s # t => task'[s] = task[s]
    BY <1>2, <2>1, DoneFacts
  <2>6. cur' \in {0} \cup Starts
    BY <1>2, <2>1
  <2>7. TypeOK'
    BY <1>1, <2>1, <2>3, <2>5, <2>6 DEF IndInv, TypeOK
  <2>8. /\ st'.token = t /\ st'.phase = "active" /\ ~st'.cancel
        /\ st'.navJob = st.navJob /\ st'.mapJob = st.mapJob
        /\ st'.owned => st.owned
    BY <2>1, <2>2, <2>4
  <2> QED
    BY <1>1, <2>1, <2>2, <2>5, <2>7, <2>8, TaskEnds
<1>4. CASE ~ok
  <2>1. /\ st' = st /\ cur' = cur
        /\ \/ task' = Raise(t, "cancelled", TRUE) \/ task' = Raise(t, "failed", TRUE)
           \/ task' = Raise(t, "failed", FALSE)
    BY <1>4 DEF Commit
  <2>2. /\ task' \in [Starts -> Task] /\ task'[t].pc = "deactivate"
        /\ task'[t].cancelled => task[t].cancelled
        /\ \A s \in Starts : s # t => task'[s] = task[s]
    BY <1>2, <2>1, RaiseFacts
  <2>3. TypeOK'
    BY <1>1, <2>1, <2>2 DEF IndInv, TypeOK
  <2> QED
    BY <1>1, <2>1, <2>2, <2>3, TaskGoesOn DEF Early, Reserved
<1> QED
  BY <1>3, <1>4

LEMMA RollbackDeactivateStep ==
  ASSUME IndInv, NEW t \in Starts, RollbackDeactivate(t)
  PROVE  IndInv'
<1>1. /\ task[t].pc = "deactivate" /\ agent' = 0 /\ task' = Goto(t, "stop")
      /\ UNCHANGED <<st, cur, stray, req, map, nav, proc, mon, faults>>
  BY DEF RollbackDeactivate, Awaiting
<1>2. task \in [Starts -> Task]
  BY Types
<1>3. /\ task' \in [Starts -> Task] /\ task'[t].pc = "stop"
      /\ task'[t].cancelled = task[t].cancelled
      /\ \A s \in Starts : s # t => task'[s] = task[s]
  BY <1>1, <1>2, GotoFacts DEF Unsettled, Undo
<1>4. TypeOK'
  BY <1>1, <1>3 DEF IndInv, TypeOK
<1>5. agent' # t
  BY <1>1, StartsAreNumbers
<1> QED
  BY <1>1, <1>3, <1>4, <1>5, TaskGoesOn DEF Early, Reserved

\* The task after the part of its rollback that stops the pipeline.
LEMMA AfterStopFacts ==
  ASSUME IndInv, NEW t \in Starts, NEW g \in {0} \cup Starts,
         task' = [task EXCEPT ![t] = [task[t] EXCEPT
                    !.pc = AfterStop(t), !.inner = FALSE, !.pgid = g]]
  PROVE  /\ task' \in [Starts -> Task] /\ task'[t].pc \in {"deactivate", "unmap"}
         /\ task'[t].cancelled = task[t].cancelled
         /\ \A s \in Starts : s # t => task'[s] = task[s]
<1> DEFINE r == [task[t] EXCEPT !.pc = AfterStop(t), !.inner = FALSE, !.pgid = g]
<1>1. AfterStop(t) \in {"deactivate", "unmap"} /\ AfterStop(t) \in Unsettled
  BY DEF AfterStop, Unsettled, Undo
<1>2. task \in [Starts -> Task] /\ task[t] \in Task
  BY Types
<1>3. r \in Task
  BY <1>1, <1>2 DEF Task
<1>4. r.pc = AfterStop(t) /\ r.cancelled = task[t].cancelled
  BY <1>2 DEF Task
<1> HIDE DEF r
<1>5. /\ task' \in [Starts -> Task] /\ task'[t] = r
      /\ \A s \in Starts : s # t => task'[s] = task[s]
  <2>1. task' = [task EXCEPT ![t] = r]
    BY DEF r
  <2> QED
    BY <1>2, <1>3, <2>1
<1> QED
  BY <1>1, <1>4, <1>5

LEMMA RollbackStopStep ==
  ASSUME IndInv, NEW t \in Starts, RollbackStop(t)
  PROVE  IndInv'
<1>1. /\ task[t].pc = "stop" /\ nav' = StopJobs
      /\ UNCHANGED <<st, cur, stray, req, map, proc, mon, agent, faults>>
  BY DEF RollbackStop, Awaiting
<1>2. task \in [Starts -> Task] /\ nav \in Pipeline /\ task[t] \in Task
  BY Types
<1>3. nav' \in Pipeline /\ nav'.job = nav.job
  BY <1>1, <1>2, StopJobsFacts
<1>4. task[t].pgid \in {0} \cup Starts /\ nav.pgid \in {0} \cup Starts
  BY <1>2, TaskFields, PipelineFields
<1>5. CASE nav.state = "idle"
  <2>1. task' = [task EXCEPT ![t] = [task[t] EXCEPT
                   !.pc = AfterStop(t), !.inner = FALSE, !.pgid = task[t].pgid]]
    BY <1>2, <1>5 DEF RollbackStop, Task
  <2>2. /\ task' \in [Starts -> Task] /\ task'[t].pc \in {"deactivate", "unmap"}
        /\ task'[t].cancelled = task[t].cancelled
        /\ \A s \in Starts : s # t => task'[s] = task[s]
    BY <1>4, <2>1, AfterStopFacts
  <2>3. TypeOK'
    BY <1>1, <1>3, <2>2 DEF IndInv, TypeOK
  <2> QED
    BY <1>1, <1>3, <2>2, <2>3, TaskGoesOn DEF Early, Reserved
<1>6. CASE nav.state # "idle"
  <2> DEFINE r == [task[t] EXCEPT !.pc = "stopping", !.pgid = nav.pgid]
  <2>1. task' = [task EXCEPT ![t] = r]
    BY <1>6 DEF RollbackStop
  <2>2. r \in Task /\ r.pc = "stopping" /\ r.cancelled = task[t].cancelled
    BY <1>2, <1>4 DEF Task, Unsettled, Undo
  <2> HIDE DEF r
  <2>3. /\ task' \in [Starts -> Task] /\ task'[t].pc = "stopping"
        /\ task'[t].cancelled = task[t].cancelled
        /\ \A s \in Starts : s # t => task'[s] = task[s]
    BY <1>2, <2>1, <2>2
  <2>4. TypeOK'
    BY <1>1, <1>3, <2>3 DEF IndInv, TypeOK
  <2> QED
    BY <1>1, <1>3, <2>3, <2>4, TaskGoesOn DEF Early, Reserved
<1> QED
  BY <1>5, <1>6

LEMMA RollbackStoppedStep ==
  ASSUME IndInv, NEW t \in Starts, RollbackStopped(t)
  PROVE  IndInv'
<1>1. /\ task[t].pc = "stopping" /\ nav' = JobsStopped
      /\ proc' = Terminated(task[t].pgid)
      /\ UNCHANGED <<st, cur, stray, req, map, mon, agent, faults>>
  BY DEF RollbackStopped, Awaiting
<1>2. /\ task \in [Starts -> Task] /\ nav \in Pipeline /\ task[t] \in Task
      /\ proc \in [Starts -> {"none", "up", "headless", "gone"}]
  BY Types
<1>3. nav' \in Pipeline /\ nav'.job = 0
  BY <1>1, <1>2, StopJobsFacts
<1>4. proc' \in [Starts -> {"none", "up", "headless", "gone"}]
  BY <1>1, <1>2, TaskFields, TerminatedTyped
<1>5. task' = [task EXCEPT ![t] = [task[t] EXCEPT
                 !.pc = AfterStop(t), !.inner = FALSE, !.pgid = 0]]
  BY DEF RollbackStopped
<1>6. /\ task' \in [Starts -> Task] /\ task'[t].pc \in {"deactivate", "unmap"}
      /\ task'[t].cancelled = task[t].cancelled
      /\ \A s \in Starts : s # t => task'[s] = task[s]
  BY <1>5, AfterStopFacts
<1>7. TypeOK'
  BY <1>1, <1>3, <1>4, <1>6 DEF IndInv, TypeOK
<1> QED
  BY <1>1, <1>3, <1>6, <1>7, TaskGoesOn DEF Early, Reserved

LEMMA RollbackMappingStep ==
  ASSUME IndInv, NEW t \in Starts, RollbackMapping(t)
  PROVE  IndInv'
<1>1. /\ task[t].pc = "unmap" /\ map' = CleanMapping(t)
      /\ task' = Goto(t, "finish")
      /\ UNCHANGED <<st, cur, stray, req, nav, proc, mon, agent, faults>>
  BY DEF RollbackMapping, Awaiting
<1>2. task \in [Starts -> Task] /\ map \in Mapping
  BY Types
<1>3. /\ task' \in [Starts -> Task] /\ task'[t].pc = "finish"
      /\ task'[t].cancelled = task[t].cancelled
      /\ \A s \in Starts : s # t => task'[s] = task[s]
  BY <1>1, <1>2, GotoFacts DEF Unsettled, Undo
<1>4. TypeOK'
  BY <1>1, <1>2, <1>3, CleanMappingFacts DEF IndInv, TypeOK
<1> QED
  BY <1>1, <1>3, <1>4, TaskGoesOn DEF Early, Reserved

\* finish_start_failure clears the record of t, for its task only if no
\* terminal cleanup has it.
LEMMA FinishedFacts ==
  ASSUME st \in Record, NEW t \in Starts, NEW owner \in BOOLEAN
  PROVE  LET y == Finished(t, owner) IN
         /\ y \in Record
         /\ \/ y = st
            \/ /\ st.token = t /\ (st.terminal => owner)
               /\ y.token = 0 /\ y.navJob = 0 /\ ~y.owned /\ y.phase # "active"
               /\ ~y.cancel
<1> DEFINE y == [st EXCEPT !.token = 0, !.phase = "failed", !.pending = FALSE,
                           !.cancel = FALSE, !.mapJob = 0, !.owned = FALSE,
                           !.navJob = 0, !.terminal = FALSE]
<1>1. y \in Record
  BY DEF Record
<1>2. /\ y.token = 0 /\ y.navJob = 0 /\ ~y.owned /\ y.phase # "active"
      /\ ~y.cancel
  BY DEF Record
<1>3. \/ Finished(t, owner) = st
      \/ st.token = t /\ (st.terminal => owner) /\ Finished(t, owner) = y
  BY DEF Finished
<1> HIDE DEF y
<1> QED
  BY <1>1, <1>2, <1>3

LEMMA RollbackFinishStep ==
  ASSUME IndInv, NEW t \in Starts, RollbackFinish(t)
  PROVE  IndInv'
<1>1. /\ task[t].pc = "finish" /\ st' = Finished(t, FALSE) /\ task' = Done(t)
      /\ cur' = IF cur = t THEN 0 ELSE cur
      /\ UNCHANGED <<stray, req, map, nav, proc, mon, agent, faults>>
  BY DEF RollbackFinish, Awaiting
<1>2. task \in [Starts -> Task] /\ st \in Record /\ cur \in {0} \cup Starts
  BY Types
<1>3. /\ st' \in Record
      /\ \/ st' = st
         \/ /\ st.token = t /\ ~st.terminal
            /\ st'.token = 0 /\ st'.navJob = 0 /\ ~st'.owned
            /\ st'.phase # "active"
  BY <1>1, <1>2, FinishedFacts
<1>4. /\ task' \in [Starts -> Task] /\ task'[t].pc = "done"
      /\ ~task'[t].cancelled
      /\ \A s \in Starts : s # t => task'[s] = task[s]
  BY <1>1, <1>2, DoneFacts
<1>5. cur' \in {0} \cup Starts
  BY <1>1, <1>2
<1>6. TypeOK'
  BY <1>1, <1>3, <1>4, <1>5 DEF IndInv, TypeOK
<1> QED
  BY <1>1, <1>3, <1>4, <1>6, TaskEnds

LEMMA CancelRollbackStep ==
  ASSUME IndInv, NEW t \in Starts, CancelRollback(t)
  PROVE  IndInv'
<1>1. /\ task[t].pc \in Undo /\ task[t].cancelled
      /\ UNCHANGED <<st, req, map, nav, proc, mon, agent, faults>>
      /\ \/ /\ task[t].pc # "finish"
            /\ stray' = [stray EXCEPT ![t] = [pc |-> task[t].pc,
                                              pgid |-> task[t].pgid]]
         \/ stray' = stray
      /\ \/ task' = Raise(t, "cancelled", FALSE) /\ cur' = cur
         \/ task' = Done(t) /\ cur' = IF cur = t THEN 0 ELSE cur
  BY DEF CancelRollback
<1>2. /\ task \in [Starts -> Task] /\ stray \in [Starts -> Worker]
      /\ task[t] \in Task /\ cur \in {0} \cup Starts
  BY Types
<1>3. stray' \in [Starts -> Worker]
  <2>1. CASE stray' = stray
    BY <1>2, <2>1
  <2>2. CASE /\ task[t].pc # "finish"
             /\ stray' = [stray EXCEPT ![t] = [pc |-> task[t].pc,
                                               pgid |-> task[t].pgid]]
    <3>1. [pc |-> task[t].pc, pgid |-> task[t].pgid] \in Worker
      BY <1>1, <1>2, <2>2, TaskFields DEF Worker, Undo
    <3> QED
      BY <1>2, <2>2, <3>1
  <2> QED
    BY <1>1, <2>1, <2>2
<1>4. task[t].pc \in {"deactivate", "stop", "stopping", "unmap", "finish"}
  BY <1>1 DEF Undo
<1>5. CASE task' = Raise(t, "cancelled", FALSE) /\ cur' = cur
  <2>1. /\ task' \in [Starts -> Task] /\ task'[t].pc = "deactivate"
        /\ task'[t].cancelled => task[t].cancelled
        /\ \A s \in Starts : s # t => task'[s] = task[s]
    BY <1>2, <1>5, RaiseFacts
  <2>2. TypeOK'
    BY <1>1, <1>3, <1>5, <2>1 DEF IndInv, TypeOK
  <2> QED
    BY <1>1, <1>4, <1>5, <2>1, <2>2, TaskGoesOn DEF Early, Reserved
<1>6. CASE task' = Done(t) /\ cur' = IF cur = t THEN 0 ELSE cur
  <2>1. /\ task' \in [Starts -> Task] /\ task'[t].pc = "done"
        /\ ~task'[t].cancelled
        /\ \A s \in Starts : s # t => task'[s] = task[s]
    BY <1>2, <1>6, DoneFacts
  <2>2. cur' \in {0} \cup Starts
    BY <1>2, <1>6
  <2>3. TypeOK'
    BY <1>1, <1>3, <2>1, <2>2 DEF IndInv, TypeOK
  <2>4. req.pc = "settle"
    BY <1>1 DEF IndInv, StopPart
  <2> QED
    BY <1>1, <1>4, <1>6, <2>1, <2>3, <2>4, TaskEnds
<1> QED
  BY <1>1, <1>5, <1>6

-----------------------------------------------------------------------------
(* HTTP requests.                                                          *)

LEMMA StartStep ==
  ASSUME IndInv, NEW t \in Starts, Start(t)
  PROVE  IndInv'
<1> DEFINE warm == map.state = "running"
           phase == IF warm THEN "waiting_localization" ELSE "starting_localization"
           job == IF warm THEN map.job ELSE 0
           pc == IF warm THEN "waitMap" ELSE "mapping"
           y == [NoRecord EXCEPT !.token = t, !.pending = TRUE, !.phase = phase,
                                 !.mapJob = job]
           r == [task[t] EXCEPT !.pc = pc]
<1>1. /\ task[t].pc = "unused" /\ req.pc = "idle" /\ st.token = 0 /\ agent = 0
      /\ \A s \in Starts : s < t => task[s].pc # "unused"
      /\ cur' = t
      /\ UNCHANGED <<stray, req, map, nav, proc, mon, agent, faults>>
  BY DEF Start
<1>2. st' = y /\ task' = [task EXCEPT ![t] = r]
  BY DEF Start
<1>3. /\ st \in Record /\ task \in [Starts -> Task] /\ map \in Mapping
      /\ task[t] \in Task
  BY Types
<1>4. /\ phase \in {"waiting_localization", "starting_localization"}
      /\ job \in {0} \cup MapJobs /\ pc \in {"waitMap", "mapping"}
  BY <1>3 DEF Mapping
<1> HIDE DEF phase, job, pc
<1>5. y \in Record
  BY <1>4, NoRecordFacts DEF Record
<1>6. /\ y.token = t /\ y.phase # "active" /\ ~y.cancel /\ ~y.owned
      /\ y.navJob = 0
  BY <1>4, NoRecordFacts DEF Record
<1>7. r \in Task
  BY <1>3, <1>4 DEF Task, Unsettled
<1>8. r.pc = pc /\ r.cancelled = task[t].cancelled
  BY <1>3 DEF Task
<1> HIDE DEF y, r
<1>9. /\ task' \in [Starts -> Task] /\ task'[t] = r
      /\ \A s \in Starts : s # t => task'[s] = task[s]
  BY <1>2, <1>3, <1>7
<1>10. /\ task'[t].pc \in {"waitMap", "mapping"} /\ ~task'[t].cancelled
  BY <1>1, <1>4, <1>8, <1>9 DEF IndInv, StopPart
<1>11. TypeOK'
  BY <1>1, <1>2, <1>5, <1>9 DEF IndInv, TypeOK
<1>12. \A s \in Starts : s # 0 /\ s \in Nat
  BY StartsAreNumbers
<1>13. \A s \in Starts : task[s].pc \notin Early
  BY <1>1, <1>12 DEF IndInv, EarlyPart
<1>14. \A s \in Starts : t < s => task[s].pc = "unused"
  BY <1>1 DEF IndInv, OrderPart
<1>15. OrderPart'
  <2>1. \A s, u \in Starts : s < u /\ task'[s].pc = "unused" =>
                               task'[u].pc = "unused"
    BY <1>1, <1>9, <1>10, <1>12 DEF IndInv, OrderPart
  <2>2. /\ \A s \in Starts : cur' = s => task'[s].pc \notin {"unused", "done"}
        /\ \A s \in Starts : agent' = s => task'[s].pc # "unused"
    BY <1>1, <1>10, <1>12
  <2>3. \A s \in Starts : st'.token = s =>
          /\ task'[s].pc # "unused"
          /\ \A u \in Starts : s < u => task'[u].pc = "unused"
    BY <1>2, <1>6, <1>9, <1>10, <1>12, <1>14
  <2> QED
    BY <2>1, <2>2, <2>3 DEF OrderPart
<1>16. RecordPart'
  BY <1>2, <1>6 DEF RecordPart
<1>17. EarlyPart'
  BY <1>1, <1>2, <1>6, <1>9, <1>13 DEF EarlyPart
<1>18. JobPart'
  BY <1>1, <1>9, <1>10, <1>13 DEF JobPart, Reserved, Early
<1>19. StopPart'
  BY <1>1, <1>9, <1>10 DEF IndInv, StopPart
<1>20. CleaningPart'
  BY <1>1, <1>12 DEF IndInv, CleaningPart
<1>21. ArmedPart'
  BY <1>1, <1>12 DEF ArmedPart
<1> QED
  BY <1>11, <1>15, <1>16, <1>17, <1>18, <1>19, <1>20, <1>21 DEF IndInv

LEMMA StopStepInv ==
  ASSUME IndInv, Stop
  PROVE  IndInv'
<1> DEFINE y == [st EXCEPT !.phase = "stopping", !.cancel = TRUE]
           q == [pc |-> "settle", token |-> st.token, await |-> cur, pgid |-> 0]
<1>1. /\ req.pc = "idle" /\ req' = q
      /\ st' = IF st.token = 0 THEN st ELSE y
      /\ task' = IF cur = 0 THEN task ELSE [task EXCEPT ![cur].cancelled = TRUE]
      /\ UNCHANGED <<cur, stray, map, nav, proc, mon, agent, faults>>
  BY DEF Stop
<1>2. st \in Record /\ task \in [Starts -> Task] /\ cur \in {0} \cup Starts
  BY Types
<1>3. y \in Record
  BY <1>2 DEF Record
<1>4. /\ y.token = st.token /\ y.phase = "stopping" /\ y.cancel
      /\ y.owned = st.owned /\ y.mapJob = st.mapJob /\ y.navJob = st.navJob
      /\ y.terminal = st.terminal
  BY <1>2 DEF Record
<1> HIDE DEF y
<1>5. q \in Settle
  BY <1>2, RecordFields DEF Settle
<1>6. q.pc = "settle" /\ q.await = cur
  OBVIOUS
<1> HIDE DEF q
<1>7. \A s \in Starts : s # 0
  BY StartsAreNumbers
<1>8. /\ task' \in [Starts -> Task]
      /\ \A s \in Starts : /\ task'[s].pc = task[s].pc
                           /\ task'[s].failed = task[s].failed
                           /\ task'[s].cancelled => task[s].cancelled \/ cur = s
  <2>1. CASE cur = 0
    BY <1>1, <1>2, <2>1
  <2>2. CASE cur # 0
    <3> DEFINE r == [task[cur] EXCEPT !.cancelled = TRUE]
    <3>1. cur \in Starts /\ task[cur] \in Task
      BY <1>2, <2>2
    <3>2. task' = [task EXCEPT ![cur] = r]
      BY <1>1, <2>2
    <3>3. r \in Task
      BY <3>1 DEF Task
    <3>4. r.pc = task[cur].pc /\ r.failed = task[cur].failed
      BY <3>1 DEF Task
    <3> HIDE DEF r
    <3>5. /\ task' \in [Starts -> Task] /\ task'[cur] = r
          /\ \A s \in Starts : s # cur => task'[s] = task[s]
      BY <1>2, <3>1, <3>2, <3>3
    <3> QED
      BY <3>4, <3>5
  <2> QED
    BY <2>1, <2>2
<1>9. /\ st' \in Record /\ st'.token = st.token /\ st'.navJob = st.navJob
      /\ st'.owned = st.owned /\ st'.mapJob = st.mapJob
      /\ st'.terminal = st.terminal
      /\ st.token # 0 => st'.cancel /\ st'.phase # "active"
      /\ st'.phase = "active" => st.phase = "active"
      /\ st.cancel => st'.cancel
  BY <1>1, <1>2, <1>3, <1>4
<1>10. TypeOK'
  BY <1>1, <1>5, <1>8, <1>9 DEF IndInv, TypeOK
<1>11. OrderPart'
  BY <1>1, <1>8, <1>9 DEF IndInv, OrderPart
<1>12. RecordPart'
  BY <1>7, <1>8, <1>9 DEF IndInv, RecordPart
<1>13. EarlyPart'
  BY <1>1, <1>6, <1>8, <1>9 DEF IndInv, EarlyPart
<1>14. JobPart'
  BY <1>1, <1>8 DEF IndInv, JobPart, Reserved
<1>15. StopPart'
  <2>1. \A s \in Starts : ~task[s].cancelled
    BY <1>1 DEF IndInv, StopPart
  <2> QED
    BY <1>1, <1>6, <1>8, <1>9, <2>1 DEF IndInv, OrderPart, StopPart
<1>16. CleaningPart'
  BY <1>1, <1>9 DEF IndInv, CleaningPart
<1>17. ArmedPart'
  BY <1>1, <1>6 DEF ArmedPart
<1> QED
  BY <1>10, <1>11, <1>12, <1>13, <1>14, <1>15, <1>16, <1>17 DEF IndInv

LEMMA SettleFields ==
  ASSUME NEW q \in Settle
  PROVE  /\ q.token \in {0} \cup Starts /\ q.await \in {0} \cup Starts
         /\ q.pgid \in {0} \cup Starts
         /\ q.pc \in {"idle", "settle", "deactivate", "stop", "stopping",
                      "unmap", "reset"}
BY DEF Settle

\* A request that goes on keeps what it waits for.
LEMMA RequestFacts ==
  ASSUME req \in Settle, NEW g \in {0} \cup Starts,
         NEW pc \in {"deactivate", "stop", "stopping", "unmap", "reset"}
  PROVE  /\ [req EXCEPT !.pc = pc, !.pgid = g] \in Settle
         /\ [req EXCEPT !.pc = pc, !.pgid = g].pc = pc
         /\ [req EXCEPT !.pc = pc] \in Settle /\ [req EXCEPT !.pc = pc].pc = pc
BY DEF Settle

LEMMA StopSettledStep ==
  ASSUME IndInv, StopSettled
  PROVE  IndInv'
<1>1. /\ req.pc = "settle" /\ (req.await # 0 => task[req.await].pc = "done")
      /\ req' = [req EXCEPT !.pc = "deactivate"]
      /\ UNCHANGED <<st, task, cur, stray, map, nav, proc, mon, agent, faults>>
  BY DEF StopSettled
<1>2. req \in Settle /\ task \in [Starts -> Task]
  BY Types
<1>3. req' \in Settle /\ req'.pc = "deactivate"
  BY <1>1, <1>2 DEF Settle
<1>4. TypeOK'
  BY <1>1, <1>3 DEF IndInv, TypeOK
<1>5. \A s \in Starts : s # 0
  BY StartsAreNumbers
<1>6. \A s \in Starts : task[s].pc \notin Early
  BY <1>1, <1>5 DEF IndInv, EarlyPart, Early
<1>7. \A s \in Starts : ~task[s].cancelled
  BY <1>1, <1>5 DEF IndInv, StopPart
<1>8. OrderPart' /\ RecordPart' /\ EarlyPart'
  BY <1>1, <1>6 DEF IndInv, OrderPart, RecordPart, EarlyPart
<1>9. JobPart' /\ CleaningPart'
  BY <1>1 DEF IndInv, JobPart, CleaningPart
<1>10. StopPart'
  BY <1>1, <1>7 DEF IndInv, StopPart
<1>11. ArmedPart'
  BY <1>3 DEF ArmedPart
<1> QED
  BY <1>4, <1>8, <1>9, <1>10, <1>11 DEF IndInv

LEMMA StopCleanupStep ==
  ASSUME IndInv, StopDeactivate \/ StopJob \/ StopJobDone \/ StopMapping
  PROVE  IndInv'
<1>1. req \in Settle /\ nav \in Pipeline /\ map \in Mapping
  BY Types
<1>2. CASE StopDeactivate
  <2>1. /\ req.pc = "deactivate" /\ agent' = 0
        /\ req' = [req EXCEPT !.pc = "stop"]
        /\ UNCHANGED <<st, task, cur, stray, map, nav, proc, mon, faults>>
    BY <1>2 DEF StopDeactivate
  <2>2. req' \in Settle /\ req'.pc = "stop"
    BY <1>1, <2>1, RequestFacts
  <2>3. TypeOK'
    BY <2>1, <2>2 DEF IndInv, TypeOK
  <2> QED
    BY <2>1, <2>2, <2>3, CleanupStep
<1>3. CASE StopJob
  <2>1. /\ req.pc = "stop" /\ nav' = StopJobs
        /\ \/ req' = [req EXCEPT !.pc = "unmap", !.pgid = nav.pgid]
           \/ req' = [req EXCEPT !.pc = "stopping", !.pgid = nav.pgid]
        /\ UNCHANGED <<st, task, cur, stray, map, proc, mon, agent, faults>>
    BY <1>3 DEF StopJob
  <2>2. nav.pgid \in {0} \cup Starts
    BY <1>1, PipelineFields
  <2>3. req' \in Settle /\ req'.pc \in {"unmap", "stopping"}
    BY <1>1, <2>1, <2>2 DEF Settle
  <2>4. nav' \in Pipeline /\ nav'.job = nav.job
    BY <1>1, <2>1, StopJobsFacts
  <2>5. TypeOK'
    BY <2>1, <2>3, <2>4 DEF IndInv, TypeOK
  <2> QED
    BY <2>1, <2>2, <2>3, <2>4, <2>5, CleanupStep
<1>4. CASE StopJobDone
  <2>1. /\ req.pc = "stopping" /\ nav' = JobsStopped
        /\ proc' = Terminated(req.pgid)
        /\ req' = [req EXCEPT !.pc = "unmap", !.pgid = 0]
        /\ UNCHANGED <<st, task, cur, stray, map, mon, agent, faults>>
    BY <1>4 DEF StopJobDone
  <2>2. req' \in Settle /\ req'.pc = "unmap"
    BY <1>1, <2>1, RequestFacts
  <2>3. nav' \in Pipeline /\ nav'.job = 0
    BY <1>1, <2>1, StopJobsFacts
  <2>4. proc' \in [Starts -> {"none", "up", "headless", "gone"}]
    BY <1>1, <2>1, Types, SettleFields, TerminatedTyped
  <2>5. TypeOK'
    BY <2>1, <2>2, <2>3, <2>4 DEF IndInv, TypeOK
  <2> QED
    BY <2>1, <2>2, <2>3, <2>5, CleanupStep
<1>5. CASE StopMapping
  <2>1. /\ req.pc = "unmap" /\ map' \in {map, CleanMapping(req.token)}
        /\ req' = [req EXCEPT !.pc = "reset"]
        /\ UNCHANGED <<st, task, cur, stray, nav, proc, mon, agent, faults>>
    BY <1>5 DEF StopMapping
  <2>2. req' \in Settle /\ req'.pc = "reset"
    BY <1>1, <2>1, RequestFacts
  <2>3. map' \in Mapping
    BY <1>1, <2>1, CleanMappingFacts
  <2>4. TypeOK'
    BY <2>1, <2>2, <2>3 DEF IndInv, TypeOK
  <2> QED
    BY <2>1, <2>2, <2>4, CleanupStep
<1> QED
  BY <1>2, <1>3, <1>4, <1>5

LEMMA StopResetStep ==
  ASSUME IndInv, StopReset
  PROVE  IndInv'
<1>1. /\ req.pc = "reset"
      /\ st' = st \/ (~st.terminal /\ st.token # 0 /\ st' = NoRecord)
      /\ req' = [req EXCEPT !.pc = "idle", !.token = 0, !.await = 0]
      /\ UNCHANGED <<task, cur, stray, map, nav, proc, mon, agent, faults>>
  BY DEF StopReset, Reset
<1>2. req \in Settle /\ st \in Record
  BY Types
<1>3. req' \in Settle /\ req'.pc = "idle"
  BY <1>1, <1>2 DEF Settle
<1>4. TypeOK'
  BY <1>1, <1>2, <1>3, NoRecordFacts DEF IndInv, TypeOK
<1>5. \A s \in Starts : s # 0
  BY StartsAreNumbers
<1>6. \A s \in Starts : task[s].pc \notin Early /\ ~task[s].cancelled
  BY <1>1 DEF IndInv, EarlyPart, StopPart
<1>7. st.phase # "active"
  BY <1>1 DEF IndInv, StopPart, RecordPart
<1>8. OrderPart'
  BY <1>1, <1>5, NoRecordFacts DEF IndInv, OrderPart
<1>9. RecordPart'
  BY <1>1, <1>5, NoRecordFacts DEF IndInv, RecordPart
<1>10. EarlyPart' /\ StopPart'
  BY <1>1, <1>3, <1>6 DEF EarlyPart, StopPart
<1>11. JobPart'
  BY <1>1 DEF IndInv, JobPart
<1>12. CleaningPart'
  BY <1>1 DEF IndInv, CleaningPart
<1>13. ArmedPart'
  BY <1>1, <1>7 DEF IndInv, ArmedPart
<1> QED
  BY <1>4, <1>8, <1>9, <1>10, <1>11, <1>12, <1>13 DEF IndInv

\* A step of the mapping manager alone.
LEMMA MappingOnly ==
  ASSUME IndInv, map' \in Mapping, faults' \in 0..MaxFaults,
         UNCHANGED <<st, task, cur, stray, req, nav, proc, mon, agent>>
  PROVE  IndInv'
<1>1. TypeOK'
  BY DEF IndInv, TypeOK
<1> QED
  BY <1>1, QuietStep

LEMMA OperatorStep ==
  ASSUME IndInv, OperatorStart \/ OperatorStop
  PROVE  IndInv'
<1>1. map \in Mapping /\ faults \in 0..MaxFaults
  BY Types
<1>2. CASE OperatorStart
  <2>1. /\ map.jobs < MaxOperator
        /\ map' = [state |-> "starting", job |-> MaxStarts + map.jobs + 1,
                   jobs |-> map.jobs + 1]
        /\ UNCHANGED <<st, task, cur, stray, req, nav, proc, mon, agent, faults>>
    BY <1>2 DEF OperatorStart
  <2>2. map.jobs \in 0..MaxOperator
    BY <1>1 DEF Mapping
  <2>3. MaxStarts + map.jobs + 1 \in OperatorJobs /\ map.jobs + 1 \in 0..MaxOperator
    BY <2>1, <2>2, BoundsAssumption DEF OperatorJobs
  <2>4. MaxStarts + map.jobs + 1 \in {0} \cup MapJobs
    BY <2>3 DEF MapJobs
  <2>5. map' \in Mapping
    BY <2>1, <2>3, <2>4 DEF Mapping, Alive
  <2> QED
    BY <1>1, <2>1, <2>5, MappingOnly
<1>3. CASE OperatorStop
  <2>1. /\ map' = [map EXCEPT !.state = "stopped"]
        /\ UNCHANGED <<st, task, cur, stray, req, nav, proc, mon, agent, faults>>
    BY <1>3 DEF OperatorStop
  <2>2. map' \in Mapping
    BY <1>1, <2>1 DEF Mapping
  <2> QED
    BY <1>1, <2>1, <2>2, MappingOnly
<1> QED
  BY <1>2, <1>3

-----------------------------------------------------------------------------
(* The processes, their monitors and the threads left behind.              *)

LEMMA MappingProcessStep ==
  ASSUME IndInv, MappingUp \/ MappingDies
  PROVE  IndInv'
<1>1. map \in Mapping /\ faults \in 0..MaxFaults
  BY Types
<1>2. CASE MappingUp
  <2>1. /\ map' = [map EXCEPT !.state = "running"]
        /\ UNCHANGED <<st, task, cur, stray, req, nav, proc, mon, agent, faults>>
    BY <1>2 DEF MappingUp
  <2>2. map' \in Mapping
    BY <1>1, <2>1 DEF Mapping, Alive
  <2> QED
    BY <1>1, <2>1, <2>2, MappingOnly
<1>3. CASE MappingDies
  <2>1. /\ map' = [map EXCEPT !.state = "failed"] /\ faults' = faults + 1
        /\ faults < MaxFaults
        /\ UNCHANGED <<st, task, cur, stray, req, nav, proc, mon, agent>>
    BY <1>3 DEF MappingDies
  <2>2. map' \in Mapping
    BY <1>1, <2>1 DEF Mapping
  <2>3. faults' \in 0..MaxFaults
    BY <1>1, <2>1, BoundsAssumption
  <2> QED
    BY <2>1, <2>2, <2>3, MappingOnly
<1> QED
  BY <1>2, <1>3

LEMMA LauncherDiesStep ==
  ASSUME IndInv, NEW t \in Starts, LauncherDies(t)
  PROVE  IndInv'
<1>1. /\ faults < MaxFaults /\ faults' = faults + 1
      /\ proc' = [proc EXCEPT ![t] = "headless"]
      /\ UNCHANGED <<st, task, cur, stray, req, map, nav, mon, agent>>
  BY DEF LauncherDies
<1>2. faults' \in 0..MaxFaults
  BY <1>1, Types, BoundsAssumption
<1>3. proc' \in [Starts -> {"none", "up", "headless", "gone"}]
  BY <1>1, Types
<1>4. TypeOK'
  BY <1>1, <1>2, <1>3 DEF IndInv, TypeOK
<1> QED
  BY <1>1, <1>4, QuietStep

\* A thread that a cancelled rollback left behind.
LEMMA StrayStepInv ==
  ASSUME IndInv, NEW t \in Starts, StrayStep(t)
  PROVE  IndInv'
<1>1. /\ stray \in [Starts -> Worker] /\ nav \in Pipeline /\ map \in Mapping
      /\ proc \in [Starts -> {"none", "up", "headless", "gone"}]
  BY Types
<1>2. /\ UNCHANGED <<st, task, cur, req, mon, faults>>
      /\ agent' \in {agent, 0}
      /\ nav' \in {nav, StopJobs, JobsStopped}
      /\ map' \in {map, CleanMapping(t)}
      /\ proc' \in {proc, Terminated(stray[t].pgid)}
      /\ \/ stray' = [stray EXCEPT ![t] = NoWorker]
         \/ stray' = [stray EXCEPT ![t] = [pc |-> "stopping", pgid |-> nav.pgid]]
  BY DEF StrayStep
<1>3. NoWorker \in Worker
  BY DEF NoWorker, Worker
<1>4. [pc |-> "stopping", pgid |-> nav.pgid] \in Worker
  BY <1>1, PipelineFields DEF Worker
<1>5. stray' \in [Starts -> Worker]
  BY <1>1, <1>2, <1>3, <1>4
<1>6. nav' \in Pipeline /\ nav'.job \in {nav.job, 0}
  BY <1>1, <1>2, StopJobsFacts
<1>7. map' \in Mapping
  BY <1>1, <1>2, CleanMappingFacts
<1>8. stray[t].pgid \in {0} \cup Starts
  BY <1>1 DEF Worker
<1>9. proc' \in [Starts -> {"none", "up", "headless", "gone"}]
  BY <1>1, <1>2, <1>8, TerminatedTyped
<1>10. agent' \in {0} \cup Starts
  BY <1>2, Types
<1>11. TypeOK'
  BY <1>2, <1>5, <1>6, <1>7, <1>9, <1>10 DEF IndInv, TypeOK
<1> QED
  BY <1>2, <1>6, <1>11, QuietStep

\* The monitor of one job moves on.
LEMMA MonUpdate ==
  ASSUME IndInv, NEW t \in Starts,
         NEW pc \in {"watch", "fence", "deactivate", "unmap", "finish", "reap",
                     "done"},
         mon' = [mon EXCEPT ![t] = pc]
  PROVE  /\ mon' \in [Starts -> {"none", "watch", "fence", "deactivate", "unmap",
                                 "finish", "reap", "done"}]
         /\ mon'[t] = pc /\ \A s \in Starts : s # t => mon'[s] = mon[s]
BY DEF IndInv, TypeOK

LEMMA MonitorExitStep ==
  ASSUME IndInv, NEW t \in Starts, MonitorExit(t)
  PROVE  IndInv'
<1>1. /\ mon[t] = "watch"
      /\ UNCHANGED <<st, task, cur, stray, req, map, proc, agent, faults>>
      /\ \/ mon' = [mon EXCEPT ![t] = "done"] /\ nav' = nav
         \/ /\ nav' = [nav EXCEPT !.state = "failed", !.pgid = 0]
            /\ mon' = [mon EXCEPT ![t] = "fence"]
  BY DEF MonitorExit
<1>2. /\ mon' \in [Starts -> {"none", "watch", "fence", "deactivate", "unmap",
                              "finish", "reap", "done"}]
      /\ mon'[t] \in {"done", "fence"}
      /\ \A s \in Starts : s # t => mon'[s] = mon[s]
  BY <1>1, MonUpdate
<1>3. nav' \in Pipeline /\ nav'.job = nav.job
  BY <1>1, Types DEF Pipeline
<1>4. TypeOK'
  BY <1>1, <1>2, <1>3 DEF IndInv, TypeOK
<1> QED
  BY <1>1, <1>2, <1>3, <1>4, QuietStep DEF Cleaning

LEMMA TerminalFenceStep ==
  ASSUME IndInv, NEW t \in Starts, TerminalFence(t)
  PROVE  IndInv'
<1> DEFINE y == [st EXCEPT !.phase = "stopping", !.cancel = TRUE, !.terminal = TRUE]
<1>1. /\ mon[t] = "fence"
      /\ UNCHANGED <<task, cur, stray, req, map, nav, proc, agent, faults>>
      /\ \/ st' = st /\ mon' = [mon EXCEPT ![t] = "reap"]
         \/ /\ st.token # 0 /\ st.navJob = t /\ st' = y
            /\ mon' = [mon EXCEPT ![t] = "deactivate"]
  BY DEF TerminalFence
<1>2. CASE st' = st /\ mon' = [mon EXCEPT ![t] = "reap"]
  <2>1. /\ mon' \in [Starts -> {"none", "watch", "fence", "deactivate", "unmap",
                                "finish", "reap", "done"}]
        /\ mon'[t] = "reap" /\ \A s \in Starts : s # t => mon'[s] = mon[s]
    BY <1>2, MonUpdate
  <2>2. TypeOK'
    BY <1>1, <1>2, <2>1 DEF IndInv, TypeOK
  <2> QED
    BY <1>1, <1>2, <2>1, <2>2, QuietStep DEF Cleaning
<1>3. CASE /\ st.token # 0 /\ st.navJob = t /\ st' = y
           /\ mon' = [mon EXCEPT ![t] = "deactivate"]
  <2>1. /\ mon' \in [Starts -> {"none", "watch", "fence", "deactivate", "unmap",
                                "finish", "reap", "done"}]
        /\ mon'[t] = "deactivate" /\ \A s \in Starts : s # t => mon'[s] = mon[s]
    BY <1>3, MonUpdate
  <2>2. st \in Record
    BY Types
  <2>3. y \in Record
    BY <2>2 DEF Record
  <2>4. /\ y.token = st.token /\ y.phase = "stopping" /\ y.cancel /\ y.terminal
        /\ y.owned = st.owned /\ y.mapJob = st.mapJob /\ y.navJob = st.navJob
    BY <2>2 DEF Record
  <2> HIDE DEF y
  <2>5. t # 0 /\ st.token = t
    BY <1>3, StartsAreNumbers DEF IndInv, RecordPart
  <2>6. /\ st'.token = t /\ st'.phase # "active" /\ st'.cancel /\ st'.terminal
        /\ st'.owned = st.owned /\ st'.mapJob = st.mapJob /\ st'.navJob = t
    BY <1>3, <2>4, <2>5
  <2>7. TypeOK'
    BY <1>1, <1>3, <2>1, <2>3 DEF IndInv, TypeOK
  <2>8. OrderPart'
    BY <1>1, <2>5, <2>6 DEF IndInv, OrderPart
  <2>9. RecordPart'
    BY <2>5, <2>6 DEF IndInv, RecordPart
  <2>10. EarlyPart'
    <3>1. \A s \in Starts : task[s].pc \notin Early
      BY <1>3, <2>5 DEF IndInv, EarlyPart
    <3> QED
      BY <1>1, <3>1 DEF EarlyPart
  <2>11. JobPart'
    BY <1>1 DEF IndInv, JobPart
  <2>12. StopPart'
    BY <1>1, <2>6 DEF IndInv, StopPart
  <2>13. CleaningPart'
    BY <2>1, <2>5, <2>6 DEF IndInv, CleaningPart
  <2>14. ArmedPart'
    BY <1>1, <2>1, <2>5 DEF IndInv, ArmedPart
  <2> QED
    BY <2>7, <2>8, <2>9, <2>10, <2>11, <2>12, <2>13, <2>14 DEF IndInv
<1> QED
  BY <1>1, <1>2, <1>3

LEMMA TerminalCleanupStep ==
  ASSUME IndInv, NEW t \in Starts,
         TerminalDeactivate(t) \/ TerminalMapping(t) \/ MonitorReap(t)
  PROVE  IndInv'
<1>1. /\ UNCHANGED <<st, task, cur, stray, req, nav, faults>>
      /\ \/ /\ mon[t] = "deactivate" /\ agent' = 0 /\ map' = map /\ proc' = proc
            /\ mon' = [mon EXCEPT ![t] = "unmap"]
         \/ /\ mon[t] = "unmap" /\ agent' = agent /\ map' = CleanMapping(t)
            /\ proc' = proc /\ mon' = [mon EXCEPT ![t] = "finish"]
         \/ /\ mon[t] = "reap" /\ agent' = agent /\ map' = map
            /\ proc' = Terminated(t) /\ mon' = [mon EXCEPT ![t] = "done"]
  BY DEF TerminalDeactivate, TerminalMapping, MonitorReap
<1>2. /\ mon' \in [Starts -> {"none", "watch", "fence", "deactivate", "unmap",
                              "finish", "reap", "done"}]
      /\ \A s \in Starts : s # t => mon'[s] = mon[s]
  BY <1>1, MonUpdate
<1>3. \/ mon[t] = "deactivate" /\ mon'[t] = "unmap" /\ agent' = 0
      \/ mon[t] = "unmap" /\ mon'[t] = "finish"
      \/ mon[t] = "reap" /\ mon'[t] = "done"
  BY <1>1, MonUpdate
<1>4. map' \in Mapping
  BY <1>1, Types, CleanMappingFacts
<1>5. proc' \in [Starts -> {"none", "up", "headless", "gone"}]
  BY <1>1, Types, TerminatedTyped
<1>6. TypeOK'
  BY <1>1, <1>2, <1>4, <1>5 DEF IndInv, TypeOK
<1> QED
  BY <1>1, <1>2, <1>3, <1>6, QuietStep DEF Cleaning

LEMMA TerminalFinishStep ==
  ASSUME IndInv, NEW t \in Starts, TerminalFinish(t)
  PROVE  IndInv'
<1>1. /\ mon[t] = "finish" /\ st' = Finished(t, TRUE)
      /\ mon' = [mon EXCEPT ![t] = "reap"]
      /\ UNCHANGED <<task, cur, stray, req, map, nav, proc, agent, faults>>
  BY DEF TerminalFinish
<1>2. /\ mon' \in [Starts -> {"none", "watch", "fence", "deactivate", "unmap",
                              "finish", "reap", "done"}]
      /\ mon'[t] = "reap" /\ \A s \in Starts : s # t => mon'[s] = mon[s]
  BY <1>1, MonUpdate
<1>3. /\ st' \in Record
      /\ \/ st' = st
         \/ /\ st'.token = 0 /\ st'.navJob = 0 /\ ~st'.owned
            /\ st'.phase # "active"
  BY <1>1, Types, FinishedFacts
<1>4. /\ st.token = t /\ st.navJob = t /\ st.cancel /\ st.phase # "active"
  BY <1>1 DEF IndInv, CleaningPart, Cleaning, RecordPart
<1>5. TypeOK'
  BY <1>1, <1>2, <1>3 DEF IndInv, TypeOK
<1>6. \A s \in Starts : s # 0
  BY StartsAreNumbers
<1>7. OrderPart'
  BY <1>1, <1>3, <1>6 DEF IndInv, OrderPart
<1>8. RecordPart'
  BY <1>1, <1>3, <1>6 DEF IndInv, RecordPart
<1>9. EarlyPart'
  <2>1. \A s \in Starts : task[s].pc \notin Early
    BY <1>4, <1>6 DEF IndInv, EarlyPart
  <2> QED
    BY <1>1, <2>1 DEF EarlyPart
<1>10. JobPart'
  BY <1>1 DEF IndInv, JobPart
<1>11. StopPart'
  BY <1>1, <1>3 DEF IndInv, StopPart
<1>12. CleaningPart'
  BY <1>2, <1>4 DEF IndInv, CleaningPart, Cleaning
<1>13. ArmedPart'
  BY <1>1, <1>2, <1>4 DEF IndInv, ArmedPart
<1> QED
  BY <1>5, <1>7, <1>8, <1>9, <1>10, <1>11, <1>12, <1>13 DEF IndInv

-----------------------------------------------------------------------------
(* The theorems.                                                           *)

LEMMA InitInv == Init => IndInv
<1> SUFFICES ASSUME Init PROVE IndInv
  OBVIOUS
<1>1. /\ st = NoRecord /\ cur = 0 /\ agent = 0
      /\ req.pc = "idle"
  BY DEF Init
<1>2. NewTask \in Task /\ NewTask.pc = "unused" /\ ~NewTask.cancelled
  BY DEF NewTask, Task
<1>3. /\ task \in [Starts -> Task]
      /\ \A t \in Starts : task[t].pc = "unused" /\ ~task[t].cancelled
  BY <1>2 DEF Init
<1>4. NoWorker \in Worker
  BY DEF NoWorker, Worker
<1>5. stray \in [Starts -> Worker]
  BY <1>4 DEF Init
<1>6. req \in Settle
  BY DEF Init, Settle
<1>7. map \in Mapping
  BY BoundsAssumption DEF Init, Mapping
<1>8. nav \in Pipeline
  BY DEF Init, Pipeline
<1>9. faults \in 0..MaxFaults
  BY BoundsAssumption DEF Init
<1>10. \A t \in Starts : mon[t] = "none"
  BY DEF Init
<1>11. TypeOK
  BY <1>1, <1>3, <1>5, <1>6, <1>7, <1>8, <1>9, NoRecordFacts DEF Init, TypeOK
<1>12. \A t \in Starts : t # 0
  BY StartsAreNumbers
<1>13. OrderPart /\ RecordPart
  BY <1>1, <1>3, <1>12, NoRecordFacts DEF OrderPart, RecordPart
<1>14. EarlyPart /\ JobPart
  BY <1>3 DEF EarlyPart, JobPart, Early, Reserved
<1>15. StopPart /\ CleaningPart /\ ArmedPart
  BY <1>1, <1>3, <1>10, <1>12 DEF StopPart, CleaningPart, Cleaning, ArmedPart
<1> QED
  BY <1>11, <1>13, <1>14, <1>15 DEF IndInv

LEMMA NextInv == IndInv /\ [Next]_vars => IndInv'
<1> SUFFICES ASSUME IndInv, [Next]_vars PROVE IndInv'
  OBVIOUS
<1>1. ASSUME NEW t \in Starts, Start(t) PROVE IndInv'
  BY <1>1, StartStep
<1>2. ASSUME NEW t \in Starts, TaskStep(t) PROVE IndInv'
  BY <1>2, StartMappingStep, ClaimMappingStep, WaitMappingStep, JobReserveStep,
     JobSpawnStep, JobPublishStep, JobReturnedStep, RegisterStep, WarmStep,
     WaitAgainStep, ActivateStep, CommitStep, RollbackDeactivateStep,
     RollbackStopStep, RollbackStoppedStep, RollbackMappingStep,
     RollbackFinishStep, CancelRollbackStep DEF TaskStep
<1>3. ASSUME NEW t \in Starts, StrayStep(t) \/ LauncherDies(t) PROVE IndInv'
  BY <1>3, StrayStepInv, LauncherDiesStep
<1>4. ASSUME NEW t \in Starts, MonitorStep(t) PROVE IndInv'
  BY <1>4, MonitorExitStep, TerminalFenceStep, TerminalCleanupStep,
     TerminalFinishStep DEF MonitorStep
<1>5. CASE Stop
  BY <1>5, StopStepInv
<1>6. CASE StopStep
  BY <1>6, StopSettledStep, StopCleanupStep, StopResetStep DEF StopStep
<1>7. CASE OperatorStart \/ OperatorStop \/ MappingUp \/ MappingDies
  BY <1>7, OperatorStep, MappingProcessStep
<1>8. CASE UNCHANGED vars
  <2>1. UNCHANGED <<st, task, cur, stray, req, map, nav, proc, mon, agent, faults>>
    BY <1>8 DEF vars
  <2>2. TypeOK'
    BY <2>1 DEF IndInv, TypeOK
  <2> QED
    BY <2>1, <2>2, QuietStep
<1> QED
  BY <1>1, <1>2, <1>3, <1>4, <1>5, <1>6, <1>7, <1>8 DEF Next

\* The inductive invariant holds in every reachable state.
THEOREM StartInvariant == Spec => []IndInv
<1>1. Init => IndInv
  BY InitInv
<1>2. IndInv /\ [Next]_vars => IndInv'
  BY NextInv
<1> QED
  BY <1>1, <1>2, PTL DEF Spec

\* Every variable of the start, its managers and its threads keeps its type.
THEOREM StartTypeOK == Spec => []TypeOK
<1>1. IndInv => TypeOK
  BY DEF IndInv
<1> QED
  BY <1>1, StartInvariant, PTL

\* An armed gateway always has a committed start behind it, or a thread that
\* is still to disarm it, even when the activation outlives its start.
THEOREM ArmedSessionsAreOwned == Spec => []ArmedIsOwned
<1>1. IndInv => ArmedIsOwned
  BY DEF IndInv, ArmedPart, ArmedIsOwned
<1> QED
  BY <1>1, StartInvariant, PTL

\* Nobody's cleanup touches a mapping job the operator started.
LEMMA OperatorJobsSpared ==
  ASSUME IndInv, map.job \in OperatorJobs, NEW t
  PROVE  CleanMapping(t) = map
<1>1. map.job \notin Starts /\ map.job # 0
  BY BoundsAssumption DEF OperatorJobs, Starts
<1>2. st.owned => st.mapJob \in Starts
  BY Types, RecordFields DEF IndInv, RecordPart
<1> QED
  BY <1>1, <1>2 DEF CleanMapping

\* Of all steps, only the operator's own stop stops a job of the operator.
LEMMA StopsOfMapping ==
  ASSUME IndInv, [Next]_vars, map.job \in OperatorJobs, map.state \in Alive,
         map'.state = "stopped"
  PROVE  UNCHANGED <<st, task, stray, mon, req>>
<1>1. map' # map /\ map.state # "stopped"
  BY DEF Alive
<1>2. \A t : map' # CleanMapping(t)
  BY <1>1, OperatorJobsSpared
<1>3. \A s : map' # [map EXCEPT !.state = s] \/ s = "stopped"
  BY Types DEF Mapping
<1>4. ASSUME NEW t \in Starts, TaskStep(t) PROVE FALSE
  <2>1. ~StartMapping(t)
    BY <1>1 DEF StartMapping
  <2>2. ~RollbackMapping(t)
    BY <1>2 DEF RollbackMapping
  <2>3. ~(ClaimMapping(t) \/ WaitMapping(t) \/ JobReserve(t) \/ JobSpawn(t)
          \/ JobPublish(t) \/ JobReturned(t) \/ Register(t) \/ Warm(t))
    BY <1>1 DEF ClaimMapping, WaitMapping, JobReserve, JobSpawn, JobPublish,
                JobReturned, Register, Warm
  <2>4. ~(WaitAgain(t) \/ Activate(t) \/ Commit(t) \/ RollbackDeactivate(t)
          \/ RollbackStop(t) \/ RollbackStopped(t) \/ RollbackFinish(t)
          \/ CancelRollback(t))
    BY <1>1 DEF WaitAgain, Activate, Commit, RollbackDeactivate, RollbackStop,
                RollbackStopped, RollbackFinish, CancelRollback
  <2> QED
    BY <1>4, <2>1, <2>2, <2>3, <2>4 DEF TaskStep
<1>5. ASSUME NEW t \in Starts, MonitorStep(t) PROVE FALSE
  BY <1>1, <1>2, <1>5 DEF MonitorStep, MonitorExit, TerminalFence,
     TerminalDeactivate, TerminalMapping, TerminalFinish, MonitorReap
<1>6. ASSUME NEW t \in Starts, Start(t) \/ StrayStep(t) \/ LauncherDies(t)
      PROVE  FALSE
  BY <1>1, <1>2, <1>6 DEF Start, StrayStep, LauncherDies
<1>7. ~Stop /\ ~StopStep
  BY <1>1, <1>2 DEF Stop, StopStep, StopSettled, StopDeactivate, StopJob,
     StopJobDone, StopMapping, StopReset
<1>8. ~OperatorStart /\ ~MappingUp /\ ~MappingDies
  BY <1>3 DEF OperatorStart, MappingUp, MappingDies
<1>9. CASE OperatorStop
  BY <1>9 DEF OperatorStop
<1>10. CASE UNCHANGED vars
  BY <1>10 DEF vars
<1> QED
  BY <1>4, <1>5, <1>6, <1>7, <1>8, <1>9, <1>10 DEF Next

\* No rollback, stop request, terminal cleanup or thread left behind ever
\* stops a mapping job the operator started.
THEOREM OperatorMappingIsSpared == Spec => ForeignMappingSpared
<1>1. IndInv /\ [Next]_vars =>
        [map.job \in OperatorJobs /\ map.state \in Alive /\ map'.state = "stopped"
           => UNCHANGED <<st, task, stray, mon, req>>]_vars
  BY StopsOfMapping
<1> QED
  BY <1>1, StartInvariant, PTL DEF Spec, ForeignMappingSpared

\* What a step of the monitor of job t may touch.
LEMMA MonitorTouches ==
  ASSUME IndInv, [Next]_vars, NEW t \in Starts, mon'[t] # mon[t]
  PROVE  /\ st' # st => st.token = t
         /\ agent' # agent => agent <= t
         /\ map' # map => map.job = t
<1>1. mon' # mon
  OBVIOUS
<1>2. ASSUME NEW s \in Starts, MonitorStep(s)
      PROVE  /\ s = t
             /\ st' # st => st.token = s
             /\ agent' # agent => agent <= s
             /\ map' # map => map.job = s
  <2>1. s = t
    <3>1. \E pc : mon' = [mon EXCEPT ![s] = pc]
      BY <1>2 DEF MonitorStep, MonitorExit, TerminalFence, TerminalDeactivate,
                  TerminalMapping, TerminalFinish, MonitorReap
    <3>2. mon \in [Starts -> {"none", "watch", "fence", "deactivate", "unmap",
                              "finish", "reap", "done"}]
      BY DEF IndInv, TypeOK
    <3> QED
      BY <3>1, <3>2
  <2>2. CASE MonitorExit(s) \/ MonitorReap(s)
    BY <2>1, <2>2 DEF MonitorExit, MonitorReap
  <2>3. CASE TerminalFence(s)
    <3>1. UNCHANGED <<agent, map>> /\ (st' # st => st.token # 0 /\ st.navJob = s)
      BY <2>3 DEF TerminalFence
    <3>2. st.navJob = s => st.token = s
      BY StartsAreNumbers DEF IndInv, RecordPart
    <3> QED
      BY <2>1, <3>1, <3>2
  <2>4. CASE TerminalDeactivate(s)
    <3>1. /\ mon[s] = "deactivate" /\ agent' = 0 /\ UNCHANGED <<st, map>>
      BY <2>4 DEF TerminalDeactivate
    <3>2. st.token = s
      BY <3>1 DEF IndInv, CleaningPart, Cleaning
    <3>3. agent # 0 => ~(s < agent)
      BY <3>2, Types DEF IndInv, OrderPart
    <3>4. s \in Nat /\ agent \in Nat
      BY Types, StartsAreNumbers
    <3> QED
      BY <2>1, <3>1, <3>3, <3>4
  <2>5. CASE TerminalMapping(s)
    <3>1. UNCHANGED <<st, agent>> /\ map' = CleanMapping(s)
      BY <2>5 DEF TerminalMapping
    <3>2. map' # map => map.job = st.mapJob /\ st.owned /\ st.token = s
      BY <3>1 DEF CleanMapping
    <3> QED
      BY <2>1, <3>1, <3>2 DEF IndInv, RecordPart
  <2>6. CASE TerminalFinish(s)
    BY <2>1, <2>6 DEF TerminalFinish, Finished
  <2> QED
    BY <1>2, <2>2, <2>3, <2>4, <2>5, <2>6 DEF MonitorStep
<1>3. ASSUME NEW s \in Starts, TaskStep(s)
      PROVE  UNCHANGED <<st, agent, map>>
  <2>1. CASE JobPublish(s)
    BY <2>1 DEF JobPublish
  <2>2. ~(StartMapping(s) \/ ClaimMapping(s) \/ WaitMapping(s) \/ JobReserve(s)
          \/ JobSpawn(s) \/ JobReturned(s) \/ Register(s) \/ Warm(s))
    BY <1>1 DEF StartMapping, ClaimMapping, WaitMapping, JobReserve, JobSpawn,
                JobReturned, Register, Warm
  <2>3. ~(WaitAgain(s) \/ Activate(s) \/ Commit(s) \/ RollbackDeactivate(s)
          \/ RollbackStop(s) \/ RollbackStopped(s) \/ RollbackMapping(s)
          \/ RollbackFinish(s) \/ CancelRollback(s))
    BY <1>1 DEF WaitAgain, Activate, Commit, RollbackDeactivate, RollbackStop,
                RollbackStopped, RollbackMapping, RollbackFinish, CancelRollback
  <2> QED
    BY <1>3, <2>1, <2>2, <2>3 DEF TaskStep
<1>4. ASSUME NEW s \in Starts, Start(s) \/ StrayStep(s) \/ LauncherDies(s)
      PROVE  FALSE
  BY <1>1, <1>4 DEF Start, StrayStep, LauncherDies
<1>5. ~Stop /\ ~StopStep
  BY <1>1 DEF Stop, StopStep, StopSettled, StopDeactivate, StopJob, StopJobDone,
     StopMapping, StopReset
<1>6. ~(OperatorStart \/ OperatorStop \/ MappingUp \/ MappingDies)
  BY <1>1 DEF OperatorStart, OperatorStop, MappingUp, MappingDies
<1>7. ~UNCHANGED vars
  BY <1>1 DEF vars
<1> QED
  BY <1>2, <1>3, <1>4, <1>5, <1>6, <1>7 DEF Next

\* The cleanup after an unexpected exit of the Nav2 job of start t touches the
\* record and the mapping of t alone, and never disarms a start that came
\* after t.
THEOREM ReplacementIsSpared == Spec => TerminalSparesReplacement
<1>1. IndInv /\ [Next]_vars =>
        [\A t \in Starts : mon'[t] # mon[t] =>
           /\ st' # st => st.token = t
           /\ agent' # agent => agent <= t
           /\ map' # map => map.job = t]_vars
  BY MonitorTouches
<1> QED
  BY <1>1, StartInvariant, PTL DEF Spec, TerminalSparesReplacement
=============================================================================
