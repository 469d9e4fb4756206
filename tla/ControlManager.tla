--------------------------- MODULE ControlManager ---------------------------
(***************************************************************************)
(* The dashboard's control lease state machine, class ControlManager of    *)
(* src/robot_dashboard/control.py.  It owns at most one control lease,     *)
(* keeps the latest drive intent of the lease's holder, and turns it into  *)
(* output envelopes (drive, stop, action) that the ROS transport drains    *)
(* and publishes.                                                          *)
(*                                                                         *)
(* The object is one record, mgr.  Every method is an operator from the    *)
(* record before the call to the record after it, so a method that calls   *)
(* another one is written as the composition of the two, and a call that   *)
(* raises still shows the side effects it had before raising.              *)
(*                                                                         *)
(* Time.  The code only ever compares "now - stamp" with a timeout and     *)
(* "until - now" with zero.  A stamp is therefore its age, which stops     *)
(* growing at the largest timeout it is compared with, and a deadline is   *)
(* the time that remains.  The action Elapse lets one time unit pass.      *)
(* "None" readiness stamps are stamps that are already stale.              *)
(*                                                                         *)
(* Velocity is one signed axis: the three axes are treated alike by the    *)
(* code and never interact.  Texts, the public snapshot and the unused     *)
(* queue _actions (nothing ever appends to it) are left out.               *)
(***************************************************************************)
EXTENDS Integers, Sequences

CONSTANTS
    HumanSources,      \* INPUT_SOURCES: the sources a browser may name
    Sessions,          \* WebSocket session identifiers used as bindings
    LeaseBind,         \* _lease_bind_s
    LeaseHeartbeat,    \* _lease_heartbeat_s
    CommandTimeout,    \* _command_timeout_s
    NavCommandTimeout, \* _navigation_command_timeout_s
    BridgeStale,       \* _bridge_stale_s
    LowstateStale,     \* _lowstate_stale_s
    GuardTimes,        \* the values of ACTION_GUARD_S
    VLimit,            \* velocity limit, in slew units
    SlewRate,          \* velocity change allowed per time unit
    FirstElapsed,      \* elapsed time assumed by the first tick (0.02 s)
    MaxElapsed,        \* cap on the elapsed time of one tick (0.25 s)
    TickPeriod,        \* the ROS timer ticks at least this often; a value
                       \* above MaxElapsed assumes nothing about the timer
    MaxLeases,         \* bound: leases ever granted
    MaxSeq,            \* bound: client sequence numbers
    MaxOutputs         \* bound: undrained outputs

NAVIGATION == "navigation"   \* INTERNAL_NAVIGATION_SOURCE
NoSource   == "none"
NoBinding  == "unbound"
NoReason   == "none"        \* the empty _lease_end_reason

ASSUME ConstantsAssumption ==
    /\ HumanSources \subseteq STRING
    /\ NAVIGATION \notin HumanSources /\ NoSource \notin HumanSources
    /\ Sessions \subseteq STRING /\ NoBinding \notin Sessions
    /\ LeaseBind \in Nat /\ LeaseHeartbeat \in Nat
    /\ LeaseHeartbeat <= LeaseBind
    /\ CommandTimeout \in Nat /\ NavCommandTimeout \in Nat
    /\ BridgeStale \in Nat /\ LowstateStale \in Nat
    /\ GuardTimes \subseteq Nat \ {0}
    /\ VLimit \in Nat /\ SlewRate \in Nat
    /\ FirstElapsed \in Nat /\ MaxElapsed \in Nat /\ FirstElapsed <= MaxElapsed
    /\ TickPeriod \in Nat
    /\ MaxLeases \in Nat /\ MaxSeq \in Nat /\ MaxOutputs \in Nat

VARIABLES
    mgr,     \* the ControlManager object
    issued,  \* number of tokens the token factory has returned so far
    wire     \* history: the last output drained for publication, with the
             \* token and sequence number of the last drive ever drained

vars == <<mgr, issued, wire>>

-----------------------------------------------------------------------------
(* Data.                                                                   *)

Sources == HumanSources \cup {NAVIGATION}
Velocity == (-VLimit)..VLimit

\* Reasons that _emit_stop may record as the end of a lease.
EndReasons == {"command_timeout", "lease_expired", "lease_released",
               "readiness_stale", "bridge_not_ready", "lowstate_not_ready",
               "readiness_lost", "emergency_stop", "manager_closed"}

\* _lease; None is the record with token 0.  age is now - heartbeat_at.
NoLease == [token |-> 0, source |-> NoSource, binding |-> NoBinding,
            age |-> 0, seq |-> -1]
Lease == [token : Nat, source : Sources \cup {NoSource},
          binding : Sessions \cup {NoBinding}, age : Nat, seq : Nat \cup {-1}]

\* _drive; None is the record with seq -1.  token is the lease under which
\* the intent was accepted (history, never read by the code).
NoDrive == [seq |-> -1, token |-> 0, source |-> NoSource, age |-> 0,
            deadman |-> FALSE, velocity |-> 0]
Drive == [seq : Nat \cup {-1}, token : Nat, source : Sources \cup {NoSource},
          age : Nat, deadman : BOOLEAN, velocity : Velocity]

\* An output envelope.  token and age belong to the intent (history).
Output == [type : {"none", "stop", "drive", "action"}, velocity : Velocity,
           source : Sources \cup {NoSource}, age : Nat, token : Nat,
           seq : Nat \cup {-1}]
StillOutput(type) == [type |-> type, velocity |-> 0, source |-> NoSource,
                      age |-> 0, token |-> 0, seq |-> -1]

Manager == [enabled : BOOLEAN, closed : BOOLEAN, lease : Lease,
            leaseEndReason : EndReasons \cup {NoReason},
            bridgeAge : Nat, lowstateAge : Nat, estop : BOOLEAN,
            guard : Nat, drive : Drive, outputs : Seq(Output),
            velocity : Velocity, motionActive : BOOLEAN,
            stopEmitted : BOOLEAN, sinceTick : Nat \cup {-1}]

\* __init__: _enabled comes from the profile and the environment, and the
\* process may start with the software stop latched.
Init ==
    /\ \E enabled, startStopped \in BOOLEAN :
         mgr = [enabled |-> enabled, closed |-> FALSE, lease |-> NoLease,
                leaseEndReason |-> NoReason, bridgeAge |-> BridgeStale,
                lowstateAge |-> LowstateStale, estop |-> startStopped,
                guard |-> 0, drive |-> NoDrive, outputs |-> <<>>,
                velocity |-> 0, motionActive |-> FALSE,
                stopEmitted |-> TRUE, sinceTick |-> -1]
    /\ issued = 0
    /\ wire = StillOutput("none")

-----------------------------------------------------------------------------
(* The private helpers, as operators on the object.                        *)

HasLease(m) == m.lease.token # 0
HasDrive(m) == m.drive.seq # -1
Configured(m) == m.enabled /\ ~m.closed

\* _ready_at.
Ready(m) == /\ Configured(m)
            /\ m.bridgeAge < BridgeStale
            /\ m.lowstateAge < LowstateStale
            /\ m.guard = 0

\* _emit_stop.
EmitStop(m, reason, force) ==
    [m EXCEPT !.leaseEndReason =
                  IF ~HasLease(m) /\ @ = NoReason /\ reason \in EndReasons
                  THEN reason ELSE @,
              !.velocity = 0,
              !.motionActive = FALSE,
              !.outputs = IF force \/ ~m.stopEmitted
                          THEN Append(@, StillOutput("stop")) ELSE @,
              !.stopEmitted = TRUE]

\* _lease = None; _drive = None; _emit_stop(reason, force=True).
Revoke(m, reason) ==
    EmitStop([m EXCEPT !.lease = NoLease, !.drive = NoDrive], reason, TRUE)

\* _fail_closed.
FailClosed(m, reason) ==
    IF HasLease(m) \/ m.motionActive THEN Revoke(m, reason) ELSE m

LeaseTimeout(m) == IF m.lease.binding = NoBinding THEN LeaseBind
                                                  ELSE LeaseHeartbeat

\* Mutant of LeaseExpired: a lease that was never bound does not expire.
LeaseExpiredOnlyIfBound(m) ==
    /\ HasLease(m) /\ m.lease.binding # NoBinding
    /\ m.lease.age >= LeaseHeartbeat

LeaseExpired(m) == HasLease(m) /\ m.lease.age >= LeaseTimeout(m)

\* _expire_if_needed.
ExpireIfNeeded(m) ==
    IF LeaseExpired(m) THEN Revoke(m, "lease_expired") ELSE m

\* _command_timeout_for_source.
TimeoutOf(source) == IF source = NAVIGATION THEN NavCommandTimeout
                                            ELSE CommandTimeout

\* The age beyond which no command differs from an older one; the settings
\* bound the two timeouts independently of each other.
LongestTimeout == IF CommandTimeout > NavCommandTimeout THEN CommandTimeout
                                                        ELSE NavCommandTimeout

\* Mutant of CommandExpired: off by one at the timeout.
CommandExpiredLate(m) == /\ HasLease(m) /\ HasDrive(m) /\ m.drive.deadman
                         /\ m.drive.age > TimeoutOf(m.drive.source)

CommandExpired(m) == /\ HasLease(m) /\ HasDrive(m) /\ m.drive.deadman
                     /\ m.drive.age >= TimeoutOf(m.drive.source)

\* Mutant of ExpireCommandIfNeeded: the stop is not forced.
ExpireCommandQuietly(m) ==
    IF CommandExpired(m)
    THEN EmitStop([m EXCEPT !.lease = NoLease, !.drive = NoDrive],
                  "command_timeout", FALSE)
    ELSE m

\* _expire_command_if_needed.
ExpireCommandIfNeeded(m) ==
    IF CommandExpired(m) THEN Revoke(m, "command_timeout") ELSE m

\* The two expiry checks every authenticated call starts with.
Expire(m) == ExpireCommandIfNeeded(ExpireIfNeeded(m))

\* _require_lease up to its readiness check: the token, and the binding when
\* the caller passes one.
Authentic(m, token, binding) ==
    /\ Configured(m)
    /\ HasLease(m) /\ m.lease.token = token
    /\ binding # NoBinding => m.lease.binding = binding

\* _require_lease: the object after the call, whether or not it raises.
RequireLease(m, token, binding) ==
    LET x == Expire(m)
    IN  IF Authentic(x, token, binding) /\ ~Ready(x)
        THEN FailClosed(x, "readiness_stale") ELSE x

\* _require_lease returns the lease instead of raising.
LeaseUsable(m, token, binding) ==
    LET x == Expire(m) IN Authentic(x, token, binding) /\ Ready(x)

\* Mutant of Slew: no limit at all.
SlewIgnored(current, target, delta) == target

\* _slew.
Slew(current, target, delta) ==
    LET upper == IF target < current + delta THEN target ELSE current + delta
    IN  IF upper > current - delta THEN upper ELSE current - delta

-----------------------------------------------------------------------------
(* The public methods, as operators on the object.                         *)

DoNoteBridge(m, ready) ==
    IF ready THEN [m EXCEPT !.bridgeAge = 0]
    ELSE FailClosed([m EXCEPT !.bridgeAge = BridgeStale], "bridge_not_ready")

DoNoteLowstate(m, fresh) ==
    IF fresh THEN [m EXCEPT !.lowstateAge = 0]
    ELSE FailClosed([m EXCEPT !.lowstateAge = LowstateStale],
                    "lowstate_not_ready")

DoSetReadiness(m, bridge, lowstate) ==
    LET x == [m EXCEPT !.bridgeAge = IF bridge THEN 0 ELSE BridgeStale,
                       !.lowstateAge = IF lowstate THEN 0 ELSE LowstateStale]
    IN  IF bridge /\ lowstate THEN x ELSE FailClosed(x, "readiness_lost")

\* Mutant of MayAcquire: a lease that is alive is replaced.
MayAcquireSteals(m, source, allowNavigation) ==
    LET x == ExpireIfNeeded(m)
    IN  /\ Configured(m) /\ ~x.estop /\ Ready(x)
        /\ source \in HumanSources \/ (allowNavigation /\ source = NAVIGATION)

\* _acquire_lease: the checks it makes after expiring the old lease.
MayAcquire(m, source, allowNavigation) ==
    LET x == ExpireIfNeeded(m)
    IN  /\ Configured(m) /\ ~x.estop /\ Ready(x)
        /\ source \in HumanSources \/ (allowNavigation /\ source = NAVIGATION)
        /\ ~HasLease(x)

DoAcquireLease(m, source, allowNavigation, token) ==
    IF MayAcquire(m, source, allowNavigation)
    THEN [ExpireIfNeeded(m) EXCEPT
             !.lease = [token |-> token, source |-> source,
                        binding |-> NoBinding, age |-> 0, seq |-> -1],
             !.leaseEndReason = NoReason]
    ELSE IF Configured(m) THEN ExpireIfNeeded(m) ELSE m

DoBindLease(m, token, binding) ==
    LET x == RequireLease(m, token, NoBinding)
    IN  IF LeaseUsable(m, token, NoBinding) /\ x.lease.binding = NoBinding
        THEN [x EXCEPT !.lease.binding = binding, !.lease.age = 0] ELSE x

DoHeartbeat(m, token, binding, seq) ==
    LET x == RequireLease(m, token, binding)
    IN  IF LeaseUsable(m, token, binding) /\ seq > x.lease.seq
        THEN [x EXCEPT !.lease.seq = seq, !.lease.age = 0] ELSE x

\* submit_drive.  valid is FALSE for a frame that fails the payload checks.
DoSubmitDrive(m, token, binding, seq, intent, valid) ==
    LET x == RequireLease(m, token, binding)
        y == [x EXCEPT !.lease.seq = seq,
                       !.drive = [seq |-> seq, token |-> token,
                                  source |-> x.lease.source,
                                  age |-> intent.age,
                                  deadman |-> intent.deadman,
                                  velocity |-> intent.velocity]]
    IN  IF m.estop THEN m
        ELSE IF /\ LeaseUsable(m, token, binding) /\ valid
                /\ intent.age <= TimeoutOf(x.lease.source)
                /\ seq > x.lease.seq
             THEN IF intent.deadman THEN y
                                    ELSE EmitStop(y, "deadman_released", TRUE)
             ELSE x

\* request_action.  valid covers the allow list and the confirmation.
DoRequestAction(m, token, binding, seq, guard, valid) ==
    LET x == RequireLease(m, token, binding)
        y == EmitStop([x EXCEPT !.lease.seq = seq, !.drive = NoDrive],
                      "action_prepare", TRUE)
    IN  IF m.estop THEN m
        ELSE IF /\ LeaseUsable(m, token, binding) /\ valid
                /\ ~x.motionActive /\ ~x.drive.deadman
                /\ seq > x.lease.seq
             THEN [y EXCEPT !.outputs = Append(@, StillOutput("action")),
                            !.lease = NoLease, !.guard = guard]
             ELSE x

\* release_lease does not ask for readiness.
DoReleaseLease(m, token, binding) ==
    LET x == Expire(m)
    IN  IF Authentic(x, token, binding) THEN Revoke(x, "lease_released") ELSE x

DoEmergencyStop(m) ==
    Revoke([m EXCEPT !.estop = TRUE, !.guard = 0], "emergency_stop")

DoClearEmergencyStop(m, confirm) ==
    IF m.estop /\ confirm /\ Ready(m)
    THEN [m EXCEPT !.estop = FALSE, !.lease = NoLease, !.drive = NoDrive]
    ELSE m

DoClose(m) ==
    [Revoke([m EXCEPT !.guard = 0], "manager_closed") EXCEPT !.closed = TRUE]

\* The tail of tick: the slewed velocity of the live intent is put out.
Emit(m, elapsed) ==
    LET v == Slew(m.velocity, m.drive.velocity, SlewRate * elapsed)
    IN  [m EXCEPT !.velocity = v, !.motionActive = (v # 0),
                  !.stopEmitted = (v = 0),
                  !.outputs = Append(@, [type |-> "drive", velocity |-> v,
                                         source |-> m.drive.source,
                                         age |-> m.drive.age,
                                         token |-> m.drive.token,
                                         seq |-> m.drive.seq])]

\* tick, before it drains.
DoTick(m) ==
    LET elapsed == IF m.sinceTick = -1 THEN FirstElapsed ELSE m.sinceTick
        x == [m EXCEPT !.sinceTick = 0]
    IN  IF LeaseExpired(x) THEN ExpireIfNeeded(x)
        ELSE IF HasLease(x) /\ ~Ready(x) THEN FailClosed(x, "readiness_stale")
        ELSE IF x.estop THEN EmitStop(x, "emergency_stop", FALSE)
        ELSE IF ~HasLease(x) \/ ~HasDrive(x) THEN x
        ELSE IF ~x.drive.deadman THEN EmitStop(x, "deadman_released", FALSE)
        ELSE IF CommandExpired(x) THEN ExpireCommandIfNeeded(x)
        ELSE Emit(x, elapsed)

\* drain_outputs, and what the publication of the batch leaves on the wire.
Drained(m) == [m EXCEPT !.outputs = <<>>]
Published(w, outputs) ==
    IF outputs = <<>> THEN w
    ELSE LET o == outputs[Len(outputs)]
         IN  IF o.type = "drive" THEN o
             ELSE [o EXCEPT !.token = w.token, !.seq = w.seq]

\* One unit of time passes.
Older(age, limit) == IF age < limit THEN age + 1 ELSE age
Aged(m) ==
    [m EXCEPT !.lease.age = IF HasLease(m) THEN Older(@, LeaseBind) ELSE @,
              !.drive.age = IF HasDrive(m) THEN Older(@, LongestTimeout)
                                           ELSE @,
              !.bridgeAge = Older(@, BridgeStale),
              !.lowstateAge = Older(@, LowstateStale),
              !.guard = IF @ > 0 THEN @ - 1 ELSE 0,
              !.sinceTick = IF @ = -1 THEN @ ELSE Older(@, MaxElapsed)]

-----------------------------------------------------------------------------
(* Actions: one per public method.  A caller may present any token that    *)
(* was ever issued, any session and any sequence number.  Methods that may *)
(* queue outputs are bounded by MaxOutputs; tick drains what it queues.    *)

Tokens == 1..issued
Seqs == 0..MaxSeq
Room == Len(mgr.outputs) < MaxOutputs
Call(next) == Room /\ mgr' = next /\ UNCHANGED <<issued, wire>>

NoteBridge(ready) == ~mgr.closed /\ Call(DoNoteBridge(mgr, ready))

NoteLowstate(fresh) == ~mgr.closed /\ Call(DoNoteLowstate(mgr, fresh))

SetReadiness(bridge, lowstate) ==
    ~mgr.closed /\ Call(DoSetReadiness(mgr, bridge, lowstate))

AcquireLease(source, allowNavigation) ==
    /\ Room /\ issued < MaxLeases
    /\ mgr' = DoAcquireLease(mgr, source, allowNavigation, issued + 1)
    /\ issued' = IF MayAcquire(mgr, source, allowNavigation) THEN issued + 1
                                                             ELSE issued
    /\ UNCHANGED wire

BindLease(token, binding) == Call(DoBindLease(mgr, token, binding))

Heartbeat(token, binding, seq) == Call(DoHeartbeat(mgr, token, binding, seq))

SubmitDrive(token, binding, seq, intent, valid) ==
    Call(DoSubmitDrive(mgr, token, binding, seq, intent, valid))

RequestAction(token, binding, seq, guard, valid) ==
    Call(DoRequestAction(mgr, token, binding, seq, guard, valid))

ReleaseLease(token, binding) == Call(DoReleaseLease(mgr, token, binding))

EmergencyStop == ~mgr.closed /\ Call(DoEmergencyStop(mgr))

ClearEmergencyStop(confirm) ==
    Configured(mgr) /\ Call(DoClearEmergencyStop(mgr, confirm))

\* snapshot expires the lease and the command, and leaves the stop queued.
Snapshot == Call(Expire(mgr))

DrainOutputs ==
    /\ mgr' = Drained(mgr)
    /\ wire' = Published(wire, mgr.outputs)
    /\ UNCHANGED issued

Tick ==
    /\ ~mgr.closed
    /\ LET x == DoTick(mgr)
       IN  mgr' = Drained(x) /\ wire' = Published(wire, x.outputs)
    /\ UNCHANGED issued

Close == ~mgr.closed /\ Call(DoClose(mgr))

Elapse ==
    /\ mgr.closed \/ mgr.sinceTick < TickPeriod
    /\ mgr' = Aged(mgr)
    /\ wire' = [wire EXCEPT !.age = IF wire.type = "drive"
                                    THEN Older(@, LongestTimeout + MaxElapsed)
                                    ELSE @]
    /\ UNCHANGED issued

Intents == [velocity : Velocity, deadman : BOOLEAN, age : 0..LongestTimeout]

\* The calls of lease holders and of operators.
Client ==
    \/ \E source \in Sources, nav \in BOOLEAN : AcquireLease(source, nav)
    \/ \E token \in Tokens, binding \in Sessions : BindLease(token, binding)
    \/ \E token \in Tokens, binding \in Sessions, seq \in Seqs :
          \/ Heartbeat(token, binding, seq)
          \/ \E intent \in Intents, valid \in BOOLEAN :
                SubmitDrive(token, binding, seq, intent, valid)
          \/ \E guard \in GuardTimes, valid \in BOOLEAN :
                RequestAction(token, binding, seq, guard, valid)
    \/ \E token \in Tokens, binding \in Sessions \cup {NoBinding} :
          ReleaseLease(token, binding)
    \/ EmergencyStop
    \/ \E confirm \in BOOLEAN : ClearEmergencyStop(confirm)

\* The calls of the ROS side and the passing of time.
Background ==
    \/ \E ready \in BOOLEAN : NoteBridge(ready) \/ NoteLowstate(ready)
    \/ \E bridge, lowstate \in BOOLEAN : SetReadiness(bridge, lowstate)
    \/ Snapshot \/ DrainOutputs \/ Tick \/ Close \/ Elapse

Next == Client \/ Background

Spec == Init /\ [][Next]_vars

\* The ROS timer keeps ticking and time does not stop.
FairSpec == Spec /\ WF_vars(Tick) /\ WF_vars(Elapse)

-----------------------------------------------------------------------------
(* Properties.                                                             *)

\* The newest command: the last queued output, or the last one drained.
LastCommand(m, w) == IF m.outputs = <<>> THEN w ELSE m.outputs[Len(m.outputs)]

\* The object, the token counter and the published command are well formed.
TypeOK == mgr \in Manager /\ issued \in Nat /\ wire \in Output

\* The newest command is a drive only while a live lease exists whose latest
\* intent holds the deadman.  However the lease is lost (expiry, timeout,
\* release, action, readiness loss, software stop, close) and whichever call
\* notices it, a stop has been queued behind the last drive, also behind a
\* drive of zero velocity, which _stop_emitted counts as stopped.
DriveHasOwner ==
    LastCommand(mgr, wire).type = "drive" =>
        HasLease(mgr) /\ HasDrive(mgr) /\ mgr.drive.deadman

\* A stored intent was accepted under the lease that is alive now: an intent
\* never survives into the lease of the next holder.
IntentOfLiveLease ==
    HasDrive(mgr) => /\ HasLease(mgr)
                     /\ mgr.drive.token = mgr.lease.token
                     /\ mgr.drive.source = mgr.lease.source
                     /\ mgr.drive.seq <= mgr.lease.seq

\* While the software stop is latched, an action's safety window is open, the
\* manager is closed or control is disabled, nobody holds a lease.
HoldExcludesLease ==
    mgr.estop \/ mgr.guard > 0 \/ ~Configured(mgr) => ~HasLease(mgr)

\* The manager's own idea of the robot's speed is that of the newest command,
\* so the slew limit always starts from what was really sent and the
\* suppression of repeated stops never swallows the first one.
VelocityIsLastSent ==
    /\ mgr.velocity = LastCommand(mgr, wire).velocity
    /\ mgr.motionActive = (mgr.velocity # 0)
    /\ mgr.stopEmitted = ~mgr.motionActive

\* A cause of revocation is never attributed to a lease that is still alive
\* (_lease_end_reason is reset by the next acquisition).
EndReasonOfDeadLease == mgr.leaseEndReason # NoReason => ~HasLease(mgr)

\* With a timer that ticks every TickPeriod, a drive is on the wire for less
\* than its source's command timeout plus one period after the operator's
\* input it stands for, client latency included.
WatchdogBound ==
    wire.type = "drive" /\ ~mgr.closed =>
        wire.age < TimeoutOf(wire.source) + TickPeriod

\* Published drives never go back: not to an earlier lease, and not to an
\* older input of the same lease, whatever tokens and numbers callers present.
DrivesInOrder ==
    [][ /\ wire'.token >= wire.token
        /\ wire'.token = wire.token => wire'.seq >= wire.seq ]_vars

\* A tick changes the commanded velocity by at most one slew step from the
\* newest command before it, across lease changes and stops.
RampBounded ==
    [][ Tick /\ wire'.type = "drive" =>
          LET step == wire'.velocity - LastCommand(mgr, wire).velocity
          IN  -(SlewRate * MaxElapsed) <= step /\ step <= SlewRate * MaxElapsed
      ]_vars

\* A lease that replaces another one, possibly inside the same call, starts
\* unbound and still, with no intent of its predecessor.
HandoverStartsStill ==
    [][ HasLease(mgr)' /\ mgr'.lease.token # mgr.lease.token =>
          /\ mgr'.lease.binding = NoBinding /\ ~HasDrive(mgr)'
          /\ LastCommand(mgr, wire)'.type # "drive" ]_vars

\* The lease whose drive is the newest command, 0 when that is not a drive.
NewestDrive(m, w) ==
    IF LastCommand(m, w).type = "drive" THEN LastCommand(m, w).token ELSE 0

Promise == INSTANCE ControlLease WITH holder  <- mgr.lease.token,
                                      newest  <- NewestDrive(mgr, wire),
                                      granted <- issued

\* The manager, with all its queues and timeouts, does nothing but grant one
\* lease after the other, let its holder drive, and end lease and motion
\* together.
KeepsPromise == Promise!Spec

\* If clients fall silent for good, the lease ends and the newest command is
\* no longer a drive, without anybody's help: ticks and time suffice.
SilenceStops ==
    <>[][Background]_vars =>
        <>[](~HasLease(mgr) /\ LastCommand(mgr, wire).type # "drive")
=============================================================================
