# Robot Scope: TLA+ models of control, navigation, missions and capture

Robot Scope is a ROS 2 dashboard for a Unitree Go2.  One Uvicorn worker (FastAPI)
serves browsers, an in-process ROS agent talks to the robot's graph, and a separate
robot-side process, the control bridge, is the only one that publishes motion
requests.  This directory holds TLA+ models of the parts of the program whose
correctness depends on the order in which things happen, the TLC configurations that
check them on small instances, and TLAPS proofs for every instance.

## 1. Inventory

| Part | State | Operations | Talks to | What is hard |
|---|---|---|---|---|
| `control.py` `ControlManager` | one lease (token, source, binding, heartbeat, sequence), the latest drive intent, readiness stamps, software stop, action window, queued outputs, slewed velocity | acquire, bind, heartbeat, submit_drive, request_action, release, emergency stop and clear, readiness notes, snapshot, tick, drain, close | WebSocket session, navigation gateway, ROS timer, control transport | every caller may expire the lease; stops are queued by one caller and drained by another; late, repeated and out-of-order client frames; timeouts at their boundary |
| `go2_bridge.py` `Go2BridgeCore`, `go2_control_bridge.py` node | owning source, last sequence of 16 sources, accepted drive, pending stop and action, action windows, observation inhibit, last acknowledgement | command, tick (50 ms), force_stop, stop_safely, process restart | control transport (signed commands in, status out), Unitree sport API | rejected commands and faults in the middle of an action, take-over by another dashboard, restart, delayed commands, watchdog |
| `ros/control_transport.py` | bridge epoch and 16 retired epochs, status sequence, hand-off (required, pending, acknowledged), readiness, inhibit request | status callback, staleness, publish, flush, shutdown | `ControlManager`, bridge, ROS publishers or UDP | lost, duplicated and delayed statuses; bridge and dashboard restarts; half-published batches |
| `control_protocol.py`, `control_datagram.py` | none / a socket | sign, verify, send, receive | transport and bridge | bounds and malformed input |
| `app.py` control socket, `ClientFrameClock` | socket binding, frame clock | connect, frame, disconnect | `ControlManager` | client time against server time, disconnect racing a frame |
| `application/fastlio_observation.py`, `observation_service.py` | session context, hold of the bridge inhibit, state of the service | start, stop, refresh, finish | transport (inhibit request and proof), bridge, systemd | late and repeated proofs, a start that times out and still takes effect, bridge restart under a running observation |
| `ros/navigation_gateway.py` | session, lease token, generation, goal and its handle, input receipts | activate, stop, goal, cancel; response, feedback, result and velocity callbacks; reconciliation in the control tick | `ControlManager`, Nav2, ROS agent | two locks; callbacks of an older goal or session; a lease lost behind the gateway's back |
| `application/navigation_coordinator.py`, `navigation_jobs.py`, `navigation_runtime.py` | startup record with token, background task, Nav2 pipeline and process group, monitor threads | start, stop, rollback, activation, terminal cleanup, close | mapping jobs, gateway, processes | start racing stop, threads that outlive a cancelled task, process death at any moment |
| `mapping_jobs.py` | job, process, output | start, stop, compare-and-stop, save | navigation coordinator (shared FAST-LIO) | two owners of one manager |
| `application/mission_coordinator.py`, `operational_navigation.py` | missions, fence, stop requests, monitor task, stored document | start, pause, resume, skip, retry, abort, confirmation, close, recovery | navigation coordinator and gateway | goals that end while being cancelled, lost acknowledgements, failed saves, restart |
| `application/lifecycle_coordinator.py`, `control_bridge_lifecycle.py`, `service_lifecycle.py`, `application/runtime.py` | service states, operation lock | start, stop, restart, shutdown | managed processes | partial start, order of shutdown |
| `saved_maps.py`, `map_annotations.py`, `pcd_editing/store.py` | files and their manifests | publish, edit, delete | file system | crash between two file operations, concurrent revisions |
| `dataset_capture.py` | session state, camera tokens, bounded queue, sampler and writer threads, sample directories, manifest | start, stop, close, sample, write, finalise, recover | cameras, file system | full queue, failing start racing the writer, crash between rename, fsync and manifest |
| `relocalization/`, `localization_health.py` | attempt, deadline, candidate | start, cancel, result | navigation | late result |
| `slam_broker.py`, `slam_sessions.py`, `slam_ros_runtime.py` | session, process | start, stop, poll | native SLAM | process exit racing stop |
| `expansion_services/` | job table | start, cancel, poll | subprocesses | late exit |
| `route_planner/` | none | plan, optimise | mission coordinator | algorithmic correctness |
| model registry, cameras, point clouds, diagnostics, run review, obstacle fusion, front end | - | - | - | I/O, numerics or presentation |

`PROJECT.json` has one entry per part with its status, the map from definitions to
source lines, and the list of hazards with the properties that watch over them.

What makes the system correct, from the operator's input to the robot's legs and back to the disk:

1. at most one holder; a drive is on its way only while a live lease holds the deadman;
2. every way of losing a lease leaves a stop behind the last drive, whichever call
   notices the loss;
3. nothing of an earlier holder (intent, binding, velocity, end reason) leaks into the
   next one, and no older input overtakes a newer one;
4. the velocity that is slewed is the one that was sent;
5. silence stops the robot within a known time, on both sides of the link;
6. on the robot side no Move interrupts an action, a moving robot is always known to
   move, and a take-over ends the previous holder's motion;
7. across the link, a dashboard drives only after the bridge process it addresses has
   acknowledged a stop of that dashboard;
8. an observation that reports the bridge as held is running beside an inhibited bridge,
   and one that loses the inhibit is invalidated;
9. autonomous motion has an active goal of the running session; a goal nobody wants any
   more is cancelled, however late its acceptance arrives; an ended goal stays ended;
10. an armed navigation session has somebody who will disarm it, cleaning up after one
    start touches nothing of another or of the operator, and a stop always returns;
11. a mission keeps its fence while a goal of it may be running, counts only visits that
    were reached (but for finding 4), and never comes back from the dead;
12. after a crash a data set has no sample its manifest does not account for but the
    last, a completed one lacks nothing, and no camera stays open.

## 2. Modules

| Module | Models | State | Actions |
|---|---|---|---|
| `ControlManager` | `control.py`, class `ControlManager` | `mgr`, the object as one record; `issued`, the token counter; `wire`, the last output drained and the last drive ever drained (history) | one per public method: `AcquireLease`, `AcquireAutonomousLease`, `BindLease`, heartbeat, `submit_drive`, `request_action`, release, software stop and its clearing, the readiness notes, `Snapshot`, `DrainOutputs`, `Tick`, `Close`; `Elapse` is time |
| `ControlLease` | the promise of `ControlManager` to its callers | `holder`, `newest`, `granted` | `Grant`, `Drive`, `Still`, `Revoke` |
| `Go2BridgeCore` | `go2_bridge.py`, class `Go2BridgeCore`, with the callbacks of the node in `go2_control_bridge.py` | `core`, the object; `closing`, of the node; `robot` (external): what the requests received so far make the robot do | `Receive`, `TransportFault`, `Tick`, `StopSafely`, `Restart`, `Elapse` |
| `ControlLink` | `ros/control_transport.py`, class `ControlTransport`; the control calls of `ros_agent.py`; the part of the bridge they rely on | `dash`, one transport per dashboard process with what it sees of its manager; `bridge`, the running process; `statuses`, all published so far; `dash[d].sent`, all envelopes published so far | `ReceiveStatus`, `RejectStatus`, `Acquire`, `ApiStop`, `TickBegin`, `PublishBatch`, `Shutdown`; `ReceiveCommand`, `Watchdog`, `Restart` of the bridge |
| `ObservationInhibit` | `application/fastlio_observation.py` with the inhibit of `control_transport.py` and `go2_bridge.py` | `hold`, `dash` (transport); `br` (bridge core); `ses` (session); `svc` (the service, external); `cmds`, `sts`, all datagrams so far | `SessionStart`, `HoldArrives`, `HoldFails`, `DispatchStart`, `SessionStop`, `Refresh`, `RefreshFails`, `Finish`; `ReceiveStatus`, `RetiredStatus`, `GoStale`; lease and drive; `BridgeAccept`, watchdog, status, stop and start of the bridge; `ServiceUp`, `ServiceDown` |
| `NavigationGateway` | `ros/navigation_gateway.py`, class `NavigationRosGateway`, with the control tick of `ros_agent.py` | `gw`, the object; `mgr`, the lease as it sees it; `inp`, input receipts; `srv`, Nav2's goals (external); `tail`, `held`, `owed`: what callbacks and operations still have to do between two critical sections | the requests (`Activate`, `StopNavigation`, `SendGoal`, `CancelGoal`, `SetInitialPose`, ...), the callbacks (`GoalResponse`, `GoalFeedback`, `GoalResult`, `Velocity`, inputs), `ControlTick`, the manual operator |
| `NavigationStart` | `application/navigation_coordinator.py` with `navigation_jobs.py` and the part of `mapping_jobs.py` they share | `st`, the startup record; `task`, `stray`, `req`, `mon`: where each task, left-behind worker thread, stop request and monitor is; `map`, `nav`, `proc`: pipelines and processes; `agent`: the armed session | one action per uninterrupted stretch of `_start_runtime` (`StartMapping` ... `Commit`), of its rollback, of `stop`, of the terminal cleanup; `CancelRollback`, `StrayStep`; the operator's mapping; processes that die |
| `MissionCoordinator` | `application/mission_coordinator.py`, class `MissionCoordinator` | `ms`, `active`, `stops`, `mon`: the object; `op`, `queue`: the asyncio lock; `nav`: the goal as the navigation view shows it (external); `disk`; `reached`, `broken` (histories) | the six requests, `Close`, the dispatch (`Dispatch` with the context guard, preflight, send and its three outcomes), the cancellation, callers that are cancelled (`CallerCancelled`, `StopAbandoned`), the monitor and its exception handler, `Crash` with recovery |
| `DatasetCapture` | `dataset_capture.py`, the capture service | `state`, `saved`, `stop`, `tokens`, `queue`, ...: the object; `main`, `sampler`, `writer`: its threads; `cameras` (external); `disk` with what is durable; `accepted` (history) | the start in steps with a failure of each, `Stop`, `Close`, the sampler's and the writer's steps, `Crash`, `Recover`, `CleanTemps` |
| `ControlManagerProofs`, `ControlLinkProofs`, `Go2BridgeCoreProofs`, `ObservationInhibitProofs`, `NavigationGatewayProofs`, `NavigationStartProofs`, `MissionCoordinatorProofs`, `DatasetCaptureProofs` | theorems about the module each is named after | - | - |
| `MC_*` | instances for TLC | - | - |

**Methods are operators.**  A method of an object is an operator from the record before
the call to the record after it.  A method that calls others is the composition of their
operators, in the order of the code, so a lease that expires inside `acquire_lease` or
`snapshot` expires inside that action, and a call that raises keeps the effects it had
before raising.

**Time.**  The code compares differences of stamps with timeouts.  A stamp is kept as its
age, capped where nothing can tell two ages apart any more; a deadline is kept as what
remains of it.  `Elapse` adds one unit.  `TickPeriod` limits how far time may run ahead
of the timer; with a large value nothing at all is assumed about the timer.
`ControlLink` has no clock: every timeout there is a free choice, which covers every
timing the code can meet.

**Values.**  Velocity is one signed axis (the three axes go through the same code
separately).  Tokens are numbered, since the code only compares them for equality and
never issues one twice.  Bridge epochs are numbered in the order of the processes; the
code compares them for equality only.  Signatures, JSON and texts are left out: a
command in the model is one that some dashboard signed, or `valid = FALSE`.

**The network** of `ControlLink` is a set of everything ever sent, so a message may be
lost, overtaken, or delivered again at any time.  `PublishBatch` is separate from
`TickBegin` and `ApiStop` because draining the manager and publishing are two steps
under `operation_lock`; that the lock is held across both is what `TerminalStopIsLast`
is about.  A publication may fail after any number of outputs (`Counts`).

**The robot** of `Go2BridgeCore` is external.  It is a history of the requests it got:
the velocity of the last Move, the action in progress, and whether a Move reached it
inside an action's safety window.

**Locks and awaits.**  In the models with several threads an action is what runs
without anybody else being able to look: one critical section, or one stretch of a
coroutine from an await to the next.  Where the code holds a lock across an await the
model keeps the holder (`held` in `NavigationGateway`, `op` in `MissionCoordinator`,
`req` in `NavigationStart`).  `asyncio.to_thread` cannot be interrupted: when a task is
cancelled in such an await its thread goes on as a `stray` of its own, which is what the
two findings about `NavigationStart` come from.

**Composition.**  `ControlLink` composes transports with a bridge; `ObservationInhibit`
session, transport, bridge and service; `NavigationStart` coordinator, both job managers
and the gateway's arming; `NavigationGateway` reduces the manager to the abstract
`ControlLease` (who holds it, does it move), which `ControlManager` is proved to
implement; `MissionCoordinator` sees of the gateway one goal at a time that ends
once, by itself or by a cancel, which is what `GoalNeverRevives` and `NoOrphanGoal` say
of the gateway.

**The disk** of `DatasetCapture` keeps, beside what a reader sees, what has been fsynced: a
crash may lose a rename or a replacement whose directory was not yet synced.
In `MissionCoordinator` a save replaces the document as a whole or fails.

## 3. Runs

| Run | Configuration | Shows |
|---|---|---|
| `manager` | `MC_ControlManager` | a stop behind the last drive of every lost lease (`DriveHasOwner`), drives younger than command timeout plus one timer period (`WatchdogBound`), bounded slew (`RampBounded`), silence ends lease and drive (`SilenceStops`), and `KeepsPromise`: the manager implements `ControlLease` |
| `bridge` | `MC_Go2BridgeCore` | no Move interrupts an action; motion is tracked and owned; the robot moves only on inputs younger than timeout plus one period, transit included; silence stops it, with or without readiness |
| `link_safety` | `MC_ControlLink` | hand-off before readiness, no drive of an ended lease, terminal stops are last, a failed publication leaves no gap in a lease, epochs go forward; in both transport modes |
| `link_first_sight` | `MC_ControlLinkReorder` | violation: finding 1 |
| `inhibit` | `MC_ObservationInhibit` | a hold reported as held is an inhibited bridge (`HeldIsInhibited`), a release receipt is true for good (`ReceiptIsTrue`), an observation that lost its inhibit is invalidated (`LostInhibitInvalidates`) |
| `gateway` | `MC_NavigationGateway` | motion has an active goal, no goal is left running that nobody wants (`NoOrphanGoal`), ended goals stay ended, a session without its lease is closed (`LostLeaseCloses`) |
| `navstart` | `MC_NavigationStart` | an armed session has an owner that will disarm it (`ArmedIsOwned`); cleanup spares the operator's mapping and a replacement; stop returns (`StopSettles`); a dead Nav2 job disarms (`FailedJobDisarms`) |
| `navstart_stale`, `navstart_leak` | `MC_NavigationStartStale`, `...Leak` | violations: findings 2 and 3 |
| `mission` | `MC_MissionCoordinator` | the fence outlives every goal (`FenceCoversGoal`), a visit counts only when it was reached or its departure was broken off (`CompletedIsExplained`), ended runs stay ended, the stored document can always be loaded, the end of a goal is noticed |
| `mission_undriven` | `MC_MissionUndriven` | violation: finding 4 |
| `dataset` | `MC_DatasetCapture` | what a crash leaves can be recovered, a completed session is drained, no camera demand leaks, every stop is carried through |

**Bounds.**  *Manager and bridge*: two leases are enough to see a stale token, an intent of an
earlier lease, and a hand-over inside a call; two client sequence numbers give
late and repeated frames; timeouts differ from each other (1, 2, 3) so that each can be
the first to expire and boundary values are reached; a queue of two outputs
holds a stop behind an action; two sources give take-over, and commands
carry ages up to one unit over the timeout.  *Link*: two bridge processes give one
replacement with everything of the first still in flight, four envelopes give
hand-off, drive, stop and one repetition, and `Counts = {0, 1, 3}` lets a batch of up
to three outputs fail before, within or not at all; the theorems cover any number of
dashboards.  *Inhibit*: one token, one restart, one lease with one drive and three
statuses per process, which is admission, acknowledgement and release.
*Gateway*: two sessions and two goals, so that every callback can be one of a
predecessor, and one adverse change of the environment.  *Start*: two starts, one
mapping job of the operator, one process that dies; a third start adds no pair of
threads that two do not have.  *Mission*: two missions contend for the
fence, two visits with a confirmation before and after the second, three requests (a
running mission, one that waits in the lock's queue, one more), two goals, one
fault (a failed save, a lost session or localization, a foreign goal, a guard that
raises, a cancelled caller), one restart; 1.5 million states.  `mission_undriven` has one
mission, both visits of which are confirmed after arrival, and four requests.  *Dataset*: a queue of two, three bundles, two sessions, two crashes (one
during recovery) and two faults.

**Deadlock** is checked for manager, bridge, gateway, start and inhibit.  The link, mission
and dataset runs switch it off: once every process has shut down or the bounds are used
up, the model may stop.

**Fairness** is what the code's scheduling gives and nothing more.

* Manager and bridge: weak fairness of the tick and of time.  The tick is a 50 ms ROS
  timer with a callback group of its own.  Clients, network and readiness get none.
* Gateway: weak fairness of an operation that already holds the lock and of what a
  goal response still has to do; strong fairness of the control tick, of closing
  after an invalid sample and of the stop a result owes, because each of them waits
  for `operation_lock`, which is free again and again.
* Start: weak fairness of each task, worker and monitor thread and of the stop request
  that holds the lock.  Processes need not die, nor operators ask.
* Inhibit: the waiting request steps (each has a timeout) and the periodic `Refresh`,
  strongly: it runs every second, and a query of systemd does not fail for ever.
* Mission: the monitor's wake-up, the fair asyncio lock, and its holder (every await
  has a timeout).  Goals need not end.
* Dataset: the request, a sampler that has seen its stop, and the writer.

**The assumption `HeardFirst`.**  `link_safety` assumes that a bridge process is replaced
only after the dashboard has heard of it.  `EpochForward` needs it, and
`link_first_sight` shows what happens without it.  The theorems do not need it.

**Findings.**  In none of them does the robot drive without an owner.

1. `status_callback` remembers the epochs it has seen replaced.  A dashboard that first
   hears of the running bridge and then gets a delayed status of the previous one has
   seen nothing replaced: it takes the old epoch, retires the live one, and rejects every
   later status of the running bridge.  The comment at `control_transport.py:1262` says
   that such a status must not roll the epoch back.  The dashboard cannot arm in that
   state.
2. `rollback_start` stops whatever job the navigation manager has, in a thread that
   outlives the task.  A stop request during a rollback, followed by a second
   start, lets the late thread take the second start's Nav2 down; the record stays
   active.  `docs/ARCHITECTURE_PHASE6.md:166` excludes this.
3. The second critical section of `NavigationJobManager.stop` is fenced by nothing, so the
   same late thread may make the manager forget the process group of a newer
   start, which then nobody ends.  The docstring of `NavigationCoordinator.stop` says that
   every side effect is cleaned before it returns.
4. `_finish_arrival` counts a visit, advances the index and clears the token before it awaits
   the dispatch of the next visit.  The dispatch may end with nothing decided: the context
   guard raises before the `try`, or the caller is cancelled in the preflight, which
   `except Exception` does not catch.  The mission is then running at the next visit, in the
   phase of the last one, without token and monitor.  A pause keeps the phase, and a
   resume without a token passes the comparison of two absent tokens and counts a
   visit nobody drove to as completed.
   `tests/test_mission_coordinator.py:186` is called
   `test_waypoints_advance_only_after_terminal_success`.  The robot does not move;
   the record of the mission is wrong.  `CompletedWasReached` is the rule of the tests and
   is violated; `CompletedIsExplained` says that a departure that was broken off (the
   history `broken`) is the only exception, and holds.

Every property of a passing run has a mutant in `PROJECT.json`: a plausible mistake in
one definition that makes TLC find the property violated.

**Seen while modelling**, behaviour a maintainer should know:

* Gateway: a goal whose `get_result_async` fails stays running in Nav2 behind a closed
  gate (`unwatched`); its velocities are refused.
* Inhibit: a lost or refused hold command leaves the hold releasing until the bridge
  service is stopped; a dispatched start without visible effect, and a service
  that ends by itself, keep the hold by design (`docs/C0_INTEGRATED_OFFLINE_RESULTS.md:24`).
  The late adoption of an unseen epoch (finding 1) happens here too; it invalidates a
  hold and confirms none.
* Mission: a restart marks a paused mission as interrupted, and no operation resumes it.
  `docs/COCKPIT_WORKSPACE.md:225` says that it stays resumable; the test
  `test_paused_restart_is_interrupted_and_not_resumable` sides with the code, so the
  document is out of date.
* Mission: start, resume, skip and retry discard an older stop request of the same
  mission that still waits for the lock.  A save that fails before the send leaves a
  running mission without goal and monitor (pause recovers it).  A skip or pause whose
  cancellation is not confirmed leaves a state that only abort leads out of.  A retry
  does not cancel a monitor that is in its exception handler, which then fails the
  retried run closed.  An aborted draft whose save failed is ready again after a
  restart.
* Dataset: after the startup deadline a single missing, repeated or stale frame
  ends a running capture as completed.  When the fsync after a rename fails, the
  sample stays on disk uncounted, in a failed session.  The cleanup of temporary
  directories at boot inspects a bounded number of entries.  A start that fails and
  gives up waiting for the writer may leave a manifest that says completed while the
  service says failed.

## 4. Proofs

All theorems are about the specifications the runs check, for every value of the
constants that satisfies the named assumption of the module (`ConstantsAssumption` of the
manager, `BridgeAssumption`, `LinkAssumption`, `MissionAssumption`, `DatasetAssumption`,
`BoundsAssumption` of the inhibit, the gateway and the start), so for any number of sources,
sessions, dashboards, leases, goals, starts, missions, sequence numbers, processes, faults
and restarts and any timeouts.  The assumptions say that the bounds are natural
numbers and the sets what they are meant to be, and order three pairs of the code's
constants, each as the code's own limits do (`LeaseHeartbeat <= LeaseBind`: at most 2.0 s
and at least 2.5 s; `FirstElapsed <= MaxElapsed`: 0.02 s and 0.25 s, of the manager;
`CommandTimeout <= SourceTimeout`: at most 0.2 s and at least 0.5 s, of the bridge).  The
two command timeouts of the manager are configured independently and may be in either
order.  Each assumption is evaluated by the run of its module.  Every invariant below was checked by TLC, on the instance of the run or a larger
one, before it was proved.

**The manager.**  `ControlManagerProofs` proves `Spec => []IndInv`, with
`IndInv == ManagerInv(mgr, issued, wire)` the conjunction of one part per concern.
None of the invariants is inductive alone.  `DriveHasOwner` needs the manager's
velocity flags to be true (`SpeedPart`): a stop is suppressed when `_stop_emitted` says
that one was sent, so the flag must not be wrong.  `SpeedPart` needs to know
that the queue never ends in a drive (`OwnerPart`).  `DrivesInOrder` needs that the
wire is not ahead of the live lease or of its intent (`OrderPart`), which needs that an
intent belongs to the live lease (`IntentPart`).  Every helper method has a lemma that
says which parts it establishes and which fields it leaves alone; the lemma of a public
method composes them.

The second half of `ControlManagerProofs` proves the action properties from `IndInv`: `DrivesInOrder`,
`HandoverStartsStill`, `RampBounded` (with `ClockInv`: the age of the last tick never
exceeds the cap the code puts on it).  `WatchdogBound` has an induction of its own
(`WatchdogInv`: the drive on the wire is younger than its timeout plus the time since
the last tick) under the premise `TickPeriod <= MaxElapsed`, beyond which the code
itself stops counting.  `ManagerKeepsItsPromise` proves the refinement: the initial
state maps to the initial state of `ControlLease`, and each step to one of its steps or
to a stutter.

**The link.**  `ControlLinkProofs` proves an invariant with a part for each transport and one
for the bridge.  The argument for the hand-off: a pending stop is numbered after the last
lapse (`Local`); a status of the running process that acknowledges a stop is true of
it (`BridgeInv`), whenever it arrives; so a dashboard synchronised with the running
process has had a stop accepted after its last lapse (`Known`), and readiness implies
synchronisation (`ReadyPart`).  A drive waiting between drain and publication was drained
under the same conditions, and the lock keeps the epoch from changing meanwhile (`Held`).
It follows, for any number of dashboards and processes, that readiness and
drives come after the hand-off, and that no drive outlives the bridge process of its lease.

**The numbering of the link.**  The second invariant of `ControlLinkProofs`, `LedgerInv`,
carries the three properties the hand-off does not explain.  A stop carries the lease it
ends, and in every place an output may be (queue, waiting batch, network) that lease is
over, while a drive that waits is of the live lease (`Fits`); a drive published next is
therefore of a later lease than every stop before it, which is `TerminalStopIsLast`.  This
is where the operation lock is needed: between drain and publication nobody ends the lease.
`EndedLeaseStaysEnded` follows because the highest lease the bridge knows to have ended
was ended by a stop that it has accepted, whose number it has therefore passed
(`EndedPart`).  `LeaseHasNoGap` is part of the ledger of a dashboard (`Gapless`): a
publication that fails takes the lease with it.  A third invariant, `EpochInv`, gives
`EpochForward` under two premises the theorem states: `HeardFirst`, and no more bridge
processes than a dashboard remembers plus one.  Both are needed: `link_first_sight` drops the
first, and with `RetiredMemory = 1` and three processes TLC finds a delayed status of
the first, forgotten process that is taken (the code remembers 16).

**The bridge.**  `Go2BridgeCoreProofs`: whatever a command, a fault or lost readiness does to
the object, either a stop is pending afterwards or nothing that the robot's motion depends on
has changed (`Effect`).  So what the object believes of the robot (`Follows`), that no drive
is held inside a window, under an inhibit or before an action (`Windows`), that a held drive
is the owner's (`Owned`) and that the input behind a motion is in time (`Timely`) only
have to survive the tick, which sends a pending stop before anything else.

**The inhibit.**  `ObservationInhibitProofs`: commands of one epoch are taken in the order of
their numbers, a token is held by one command and freed by a later one (`CommandsPart`),
also when the transport falls back to an epoch it has not seen replaced.
So a bridge that reported a token in its epoch has it until a free was sent
(`StatusPart`), which gives `HeldIsInhibited`; and the hold of a token whose release is
acknowledged lies behind the number of the acknowledgement (`AckPart`), or belongs to a
process that is gone, which gives `ReceiptIsTrue`.

**The gateway.**  `NavigationGatewayProofs`: only the current goal carries the current
generation (`GoalsPart`), so a late callback finds the goal it belongs to or changes
nothing, and what an operation has read in its first critical section is good enough in its
second (`HeldPart`), because the callbacks in between leave a stop or a cancel behind.
`GoalNeverRevives` is proved action by action from the same invariant.

**The start.**  `NavigationStartProofs`: a task that has not registered its Nav2 job is the
task of the record (`EarlyPart`), so the job it registers is its own (`JobPart`) and a
record names only what its own start has started (`RecordPart`).  Whoever clears a record
or ends a task that armed the gateway is followed by somebody who still disarms it
(`ArmedPart`).  The two action properties follow from what a monitor in its cleanup has
fenced (`CleaningPart`).

**The missions.**  `MissionCoordinatorProofs`: the owner of the fence is the one mission in
an active state (`FencePart`), and an operation past its admission is the owner's
(`OpPart`).  A goal that may move the robot is the one its mission has recorded, or the
mission is marked uncertain (`GoalPart`).  Goals are numbered, so a recorded goal is the
one of the present visit (`NavPart`), and a mission that waits at a visit has reached it or
came to it by a departure that was broken off (`SteadyPart`): the exits of the dispatch that
no handler sees leave exactly the missions recorded in `broken`, so that
`CompletionIsEarned` names every way the code has of counting a visit.  There is one monitor task, asleep, in line or holding the lock
(`TaskPart`).  What is true of the records is true of the stored copies (`DiskPart`), which a
restart brings back.

**What the proofs changed.**  Four places of the models did not survive the attempt.
`TerminalSparesReplacement` said that a terminal cleanup disarms only the session of its own
start; with two processes that die, the cleanup of a second start may also disarm what the late
thread of the first had armed, as the code intends, and the property now says "its own or
an earlier one".  A monitor of a mission that is replaced while it waits for the
lock stayed in the queue of the model; the code's check of `_generation` ends it, and
now it leaves (this takes a start and two retries, one more than the run's
goals allow).  In the gateway and the mission coordinator some `CASE` guards overlapped and
TLC's choice of the first was the code's order; they are disjoint now.

**The capture service.**  `DatasetCaptureProofs` proves `Spec => []IndInv` for any number of
samples, sessions, crashes and faults and any queue size, with one lemma per action.  No
property is inductive alone.  `CrashIsRecoverable` speaks of four numbers on the disk,
and how far they may be apart depends on where the writer is (`CountPart`).  The request
thread may write a manifest beside a running writer, when the sampler could not be
started; then no sampler ever ran, the queue holds at most the sentinel and every count is
zero (`StartPart`).  What a crash leaves belongs to no session of the new process
until the next start (`IdlePart`).  `CompletedIsDrained` needs the whereabouts
of every accepted bundle, in the queue, in the writer's hand or saved
(`DrainPart`), and that only a writer without an error finalises (`StatePart`);
`InactiveHoldsNoCamera` needs that the service knows the cameras it holds
(`CameraPart`).  TLC has checked each part on the instance of the run.

| Theorem | Module | Property |
|---|---|---|
| `TypeCorrect` | `ControlManagerProofs` | `TypeOK` |
| `StopsBehindEveryDrive` | | `DriveHasOwner` |
| `IntentsDieWithTheirLease` | | `IntentOfLiveLease` |
| `HoldsExcludeLeases` | | `HoldExcludesLease` |
| `VelocityIsTrue` | | `VelocityIsLastSent` |
| `ReasonsOfDeadLeases` | | `EndReasonOfDeadLease` |
| `DrivesStayInOrder` | `ControlManagerProofs` | `DrivesInOrder` |
| `HandoversStartStill` | | `HandoverStartsStill` |
| `RampsAreBounded` | | `RampBounded` |
| `WatchdogHolds` | | `WatchdogBound` |
| `ManagerKeepsItsPromise` | | `KeepsPromise` |
| `LinkTypeOK` | `ControlLinkProofs` | `TypeOK` |
| `LinkLeaseOfThisBridge` | | `LeaseOfThisBridge` |
| `LinkHandoffBeforeReady` | | `HandoffBeforeReady` |
| `LinkDriveAfterHandoff` | | `DriveAfterHandoff` |
| `TerminalStopsAreLast` | | `TerminalStopIsLast` |
| `EndedLeasesStayEnded` | | `EndedLeaseStaysEnded` |
| `LeasesHaveNoGap` | | `LeaseHasNoGap` |
| `EpochsGoForward` | | `EpochForward`, under its two premises |
| `BridgeTypeOK` | `Go2BridgeCoreProofs` | `TypeOK` |
| `ActionsAreNotInterrupted` | | `ActionNotInterrupted` |
| `MotionIsOwned` | | `MotionOwned` |
| `MotionIsTracked` | | `MotionTracked` |
| `BridgeWatchdogHolds` | | `BridgeWatchdogBound` |
| `InhibitTypeOK` | `ObservationInhibitProofs` | `TypeOK` |
| `HeldMeansInhibited` | | `HeldIsInhibited` |
| `ReceiptsAreTrue` | | `ReceiptIsTrue` |
| `GatewayTypeOK` | `NavigationGatewayProofs` | `TypeOK` |
| `MotionAlwaysHasGoal` | | `MotionHasActiveGoal` |
| `NoGoalIsOrphaned` | | `NoOrphanGoal` |
| `GoalsStayEnded` | | `GoalNeverRevives` |
| `StartTypeOK` | `NavigationStartProofs` | `TypeOK` |
| `ArmedSessionsAreOwned` | | `ArmedIsOwned` |
| `OperatorMappingIsSpared` | | `ForeignMappingSpared` |
| `ReplacementIsSpared` | | `TerminalSparesReplacement` |
| `MissionTypeOK` | `MissionCoordinatorProofs` | `TypeOK` |
| `StoredDocumentIsLoadable` | | `StoredIsLoadable` |
| `FenceOutlivesGoal` | | `FenceCoversGoal` |
| `CompletionIsEarned` | | `CompletedIsExplained` |
| `EndedMissionsStayEnded` | | `EndedStaysEnded` |
| `DatasetTypeOK` | `DatasetCaptureProofs` | `TypeOK` |
| `CrashesAreRecoverable` | | `CrashIsRecoverable` |
| `RecoveryIsExact` | | `InterruptedIsExact` |
| `CompletedSessionsAreDrained` | | `CompletedIsDrained` |
| `InactiveServiceHoldsNoCamera` | | `InactiveHoldsNoCamera` |

The properties of `IntentsDieWithTheirLease`, `HoldsExcludeLeases`, `VelocityIsTrue`,
`ReasonsOfDeadLeases`, `DrivesStayInOrder`, `HandoversStartStill`,
`LinkLeaseOfThisBridge`, `LinkDriveAfterHandoff`, `RecoveryIsExact` and of the type
theorems of manager, link, bridge and capture service are proved for every instance and are
in no run.  Bridge, inhibit, gateway, start, missions and capture service also have their
inductive invariant as a theorem (`BridgeInvariant`, `InhibitInvariant`, ...).

**Only model-checked:** the liveness properties (`SilenceStops` of manager and bridge,
`LostInhibitInvalidates`, `LostLeaseCloses`, `StopSettles`, `FailedJobDisarms`,
`GoalEndIsNoticed`, `StopEnds`), because liveness under fairness is out of the prover's
reach.  Every safety property of a passing run is a theorem.

## 5. What is not modelled, and the plan

The repository has about 130 000 lines.  The models cover the code in which several
threads, processes or messages meet on the way to the robot's motion, and one representative
of durable storage.  The rest is left out for these reasons:

* *one request, one lock, no interleaving*: saved maps, annotations, PCD editing, the
  model registry, run review, expansion jobs, lifecycle wrappers around `systemctl`.
  Their correctness is validation, geometry and file formats, which unit tests reach; the way
  they publish files is the one `DatasetCapture` models;
* *numerics*: relocalisation, localisation health, route planner costs, point
  clouds, obstacle fusion.  Their verdicts enter the models as free choices;
* *cryptography and encodings*: the signed protocol; a command in a model is one
  that was signed, or invalid;
* *external or generated*: native SLAM, Nav2, Unitree's API, the front end, acceptance and
  probe scripts, vendored packages.

Left out of modelled parts: manual-seed sessions, `clear_costmaps` and metrology
(gateway); localisation-only and manual-seed starts, `settle_startup`, `close` and the
helper process `navigation_runtime.py` (start); the native two-leg owner, the operator
test gate, and the admission and planner of context-pinned routes (mission); gallery and export (dataset); handoff
receipts, input selection and a start beside a bridge that is not running (observation);
evidence recorders and status payload (bridge); the timing of the hand-off
(`control_transport.py:1330`: only the newest of several synchronising stops counts, and
nothing in the code bounds a round trip).

Plan, in this order:

1. The control WebSocket with its client frame clock, composed with `ControlManager`.
2. Refinements: the lease that `NavigationGateway` and `ControlLink` assume of the manager as
   an instance of `ControlLease`.
