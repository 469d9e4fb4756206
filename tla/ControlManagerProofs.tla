------------------------ MODULE ControlManagerProofs ------------------------
(***************************************************************************)
(* Proofs about ControlManager, for every value of its constants.          *)
(*                                                                         *)
(* The invariant is a predicate of the object m, the token counter n and   *)
(* the published command w, so that every private helper of the code gets  *)
(* a lemma of its own: what holds before the call holds after it.  The     *)
(* second half proves, from that invariant, what a step may never do and   *)
(* how old a published drive may become.                                   *)
(***************************************************************************)
EXTENDS ControlManager, TLAPS

-----------------------------------------------------------------------------
(* The inductive invariant.                                                *)

Typed(m, n, w) == m \in Manager /\ n \in Nat /\ w \in Output

\* Without a lease there is no intent; an intent is the live lease's.
IntentPart(m) ==
    /\ ~HasDrive(m) => ~m.drive.deadman
    /\ HasDrive(m) => /\ HasLease(m)
                      /\ m.drive.token = m.lease.token
                      /\ m.drive.source = m.lease.source
                      /\ m.drive.seq <= m.lease.seq

HoldPart(m) == m.estop \/ m.guard > 0 \/ ~Configured(m) => ~HasLease(m)

SpeedPart(m, w) ==
    /\ m.velocity = LastCommand(m, w).velocity
    /\ m.motionActive = (m.velocity # 0)
    /\ m.stopEmitted = ~m.motionActive

\* Queued outputs are stops and actions: a drive is drained by its own tick.
OwnerPart(m, w) ==
    /\ LastCommand(m, w).type = "drive" =>
          HasLease(m) /\ HasDrive(m) /\ m.drive.deadman
    /\ LastCommand(m, w).type # "drive" => LastCommand(m, w).velocity = 0
    /\ m.outputs # <<>> => m.outputs[Len(m.outputs)].type # "drive"

ReasonPart(m) == m.leaseEndReason # NoReason => ~HasLease(m)

\* What was published is not ahead of what the live lease may publish.
OrderPart(m, n, w) ==
    /\ m.lease.token <= n /\ w.token <= n
    /\ HasLease(m) => w.token <= m.lease.token
    /\ HasLease(m) /\ w.token = m.lease.token => w.seq <= m.lease.seq
    /\ HasDrive(m) /\ w.token = m.lease.token => w.seq <= m.drive.seq

ManagerInv(m, n, w) ==
    /\ Typed(m, n, w)
    /\ IntentPart(m)
    /\ HoldPart(m)
    /\ SpeedPart(m, w)
    /\ OwnerPart(m, w)
    /\ ReasonPart(m)
    /\ OrderPart(m, n, w)

IndInv == ManagerInv(mgr, issued, wire)

-----------------------------------------------------------------------------
(* Facts about the data.                                                   *)

\* The null records are well typed.
LEMMA NullTypes ==
    /\ NoLease \in Lease /\ NoLease.token = 0
    /\ NoDrive \in Drive /\ NoDrive.seq = -1 /\ ~NoDrive.deadman
    /\ 0 \in Velocity
    /\ \A type \in {"none", "stop", "drive", "action"} :
          StillOutput(type) \in Output
  BY ConstantsAssumption DEF NoLease, Lease, NoDrive, Drive, Velocity,
     StillOutput, Output, NoSource, NoBinding, Sources

\* The types of the numbers inside the records.
LEMMA FieldTypes ==
    /\ \A m \in Manager :
          /\ m.lease \in Lease /\ m.drive \in Drive
          /\ m.outputs \in Seq(Output)
          /\ m.lease.token \in Nat /\ m.lease.seq \in Int
          /\ m.drive.token \in Nat /\ m.drive.seq \in Int
          /\ m.drive.velocity \in Velocity /\ m.velocity \in Velocity
    /\ \A w \in Output : w.token \in Nat /\ w.seq \in Int
    /\ Velocity \subseteq Int
  <1>1. \A l \in Lease : l.token \in Nat /\ l.seq \in Int
    BY DEF Lease
  <1>2. \A d \in Drive : /\ d.token \in Nat /\ d.seq \in Int
                         /\ d.velocity \in Velocity
    BY DEF Drive
  <1>3. \A w \in Output : w.token \in Nat /\ w.seq \in Int
    BY DEF Output
  <1>4. \A m \in Manager : /\ m.lease \in Lease /\ m.drive \in Drive
                           /\ m.outputs \in Seq(Output)
                           /\ m.velocity \in Velocity
    BY DEF Manager
  <1>5. Velocity \subseteq Int
    BY ConstantsAssumption DEF Velocity
  <1> QED
    BY <1>1, <1>2, <1>3, <1>4, <1>5

\* Appending keeps the queue a sequence of outputs and makes o its last.
LEMMA AppendFacts ==
    ASSUME NEW q \in Seq(Output), NEW o \in Output
    PROVE  /\ Append(q, o) \in Seq(Output)
           /\ Append(q, o) # <<>>
           /\ Append(q, o)[Len(Append(q, o))] = o
  OBVIOUS

-----------------------------------------------------------------------------
(* The private helpers.                                                    *)

\* What _emit_stop resets and what it leaves alone.
StopFields(m, e) ==
    /\ e \in Manager
    /\ e.lease = m.lease /\ e.drive = m.drive /\ e.estop = m.estop
    /\ e.guard = m.guard /\ e.enabled = m.enabled
    /\ e.closed = m.closed /\ e.sinceTick = m.sinceTick
    /\ e.velocity = 0 /\ e.motionActive = FALSE /\ e.stopEmitted = TRUE
    /\ HasLease(m) => e.leaseEndReason = m.leaseEndReason
    /\ m.outputs # <<>> => e.outputs # <<>>

LEMMA EmitStopFacts ==
    ASSUME NEW m \in Manager, NEW reason
    PROVE  /\ StopFields(m, EmitStop(m, reason, TRUE))
           /\ StopFields(m, EmitStop(m, reason, FALSE))
           /\ EmitStop(m, reason, TRUE).outputs =
                 Append(m.outputs, StillOutput("stop"))
           /\ EmitStop(m, reason, FALSE).outputs =
                 IF m.stopEmitted THEN m.outputs
                 ELSE Append(m.outputs, StillOutput("stop"))
  <1>1. Append(m.outputs, StillOutput("stop")) \in Seq(Output)
    BY NullTypes, AppendFacts DEF Manager
  <1> DEFINE t == EmitStop(m, reason, TRUE)
             f == EmitStop(m, reason, FALSE)
  <1>2. t \in Manager /\ f \in Manager
    <2> DEFINE r == IF ~HasLease(m) /\ m.leaseEndReason = NoReason
                       /\ reason \in EndReasons
                    THEN reason ELSE m.leaseEndReason
               q == Append(m.outputs, StillOutput("stop"))
               p == IF m.stopEmitted THEN m.outputs ELSE q
    <2>1. r \in EndReasons \cup {NoReason} /\ q \in Seq(Output)
          /\ p \in Seq(Output)
      BY <1>1 DEF Manager
    <2>2. /\ t = [m EXCEPT !.leaseEndReason = r, !.velocity = 0,
                           !.motionActive = FALSE, !.outputs = q,
                           !.stopEmitted = TRUE]
          /\ f = [m EXCEPT !.leaseEndReason = r, !.velocity = 0,
                           !.motionActive = FALSE, !.outputs = p,
                           !.stopEmitted = TRUE]
      BY DEF EmitStop, Manager
    <2> HIDE DEF r, q, p, t, f
    <2> QED
      BY <2>1, <2>2, NullTypes DEF Manager
  <1>3. ASSUME NEW e \in {t, f}
        PROVE  /\ e.lease = m.lease /\ e.drive = m.drive /\ e.estop = m.estop
               /\ e.guard = m.guard /\ e.enabled = m.enabled
               /\ e.closed = m.closed /\ e.sinceTick = m.sinceTick
               /\ e.velocity = 0 /\ e.motionActive = FALSE
               /\ e.stopEmitted = TRUE
               /\ HasLease(m) => e.leaseEndReason = m.leaseEndReason
    BY <1>3 DEF EmitStop, Manager
  <1>4. /\ t.outputs = Append(m.outputs, StillOutput("stop"))
        /\ f.outputs = IF m.stopEmitted THEN m.outputs
                       ELSE Append(m.outputs, StillOutput("stop"))
    BY DEF EmitStop, Manager
  <1>5. \A e \in {t, f} : m.outputs # <<>> => e.outputs # <<>>
    <2>1. Append(m.outputs, StillOutput("stop")) # <<>>
      BY NullTypes, FieldTypes, AppendFacts
    <2> QED
      BY <1>4, <2>1
  <1> QED
    BY <1>2, <1>3, <1>4, <1>5 DEF StopFields

\* Whatever state the object is in, revoking the lease establishes the
\* whole invariant: nothing is held and a stop is the newest command.
LEMMA RevokeInv ==
    ASSUME NEW m, NEW n, NEW w, NEW reason,
           Typed(m, n, w), w.token <= n
    PROVE  ManagerInv(Revoke(m, reason), n, w) /\ ~HasLease(Revoke(m, reason))
  <1> DEFINE x == [m EXCEPT !.lease = NoLease, !.drive = NoDrive]
             r == Revoke(m, reason)
  <1>1. /\ x \in Manager /\ x.lease = NoLease /\ x.drive = NoDrive
    BY NullTypes DEF Typed, Manager
  <1>2. r = EmitStop(x, reason, TRUE)
    BY DEF Revoke
  <1> HIDE DEF x, r
  <1>3. /\ r \in Manager /\ r.lease = NoLease /\ r.drive = NoDrive
        /\ r.velocity = 0 /\ r.motionActive = FALSE /\ r.stopEmitted = TRUE
        /\ r.outputs = Append(x.outputs, StillOutput("stop"))
    <2>1. /\ StopFields(x, EmitStop(x, reason, TRUE))
          /\ EmitStop(x, reason, TRUE).outputs =
                Append(x.outputs, StillOutput("stop"))
      BY <1>1, EmitStopFacts
    <2>2. StopFields(x, r) /\ r.outputs = Append(x.outputs, StillOutput("stop"))
      BY <1>2, <2>1
    <2> QED
      BY <1>1, <2>2 DEF StopFields
  <1>4. LastCommand(r, w) = StillOutput("stop") /\ r.outputs # <<>>
    <2>1. x.outputs \in Seq(Output) /\ StillOutput("stop") \in Output
      BY <1>1, NullTypes DEF Manager
    <2> QED
      BY <1>3, <2>1, AppendFacts DEF LastCommand
  <1>5. StillOutput("stop").type = "stop" /\ StillOutput("stop").velocity = 0
    BY DEF StillOutput
  <1>6. ~HasLease(r) /\ ~HasDrive(r) /\ ~r.drive.deadman /\ r.lease.token = 0
    BY <1>3, NullTypes DEF HasLease, HasDrive
  <1>7. IntentPart(r) /\ HoldPart(r) /\ ReasonPart(r)
    BY <1>6 DEF IntentPart, HoldPart, ReasonPart
  <1>8. SpeedPart(r, w)
    BY <1>3, <1>4, <1>5 DEF SpeedPart
  <1>9. OwnerPart(r, w)
    BY <1>3, <1>4, <1>5, AppendFacts DEF OwnerPart, LastCommand
  <1>10. OrderPart(r, n, w)
    BY <1>6 DEF OrderPart, Typed
  <1> QED
    BY <1>3, <1>6, <1>7, <1>8, <1>9, <1>10 DEF ManagerInv, Typed, r

LEMMA FailClosedInv ==
    ASSUME NEW m, NEW n, NEW w, NEW reason,
           ManagerInv(m, n, w)
    PROVE  ManagerInv(FailClosed(m, reason), n, w)
  <1>1. ManagerInv(Revoke(m, reason), n, w)
    BY RevokeInv DEF ManagerInv, OrderPart
  <1> QED
    BY <1>1 DEF FailClosed

LEMMA ExpireInv ==
    ASSUME NEW m, NEW n, NEW w, ManagerInv(m, n, w)
    PROVE  /\ ManagerInv(ExpireIfNeeded(m), n, w)
           /\ ManagerInv(ExpireCommandIfNeeded(m), n, w)
  <1>1. Typed(m, n, w) /\ w.token <= n
    BY DEF ManagerInv, OrderPart
  <1>2. /\ ManagerInv(Revoke(m, "lease_expired"), n, w)
        /\ ManagerInv(Revoke(m, "command_timeout"), n, w)
    BY <1>1, RevokeInv
  <1> QED
    BY <1>2 DEF ExpireIfNeeded, ExpireCommandIfNeeded

\* The invariant does not depend on ages, bindings and readiness, allows the
\* lease's sequence number to grow and an action window to close.
SameCommand(m, x) ==
    /\ x.enabled = m.enabled /\ x.closed = m.closed /\ x.estop = m.estop
    /\ x.lease.token = m.lease.token /\ x.lease.source = m.lease.source
    /\ x.lease.seq >= m.lease.seq
    /\ x.leaseEndReason = m.leaseEndReason
    /\ x.guard > 0 => m.guard > 0
    /\ x.drive.seq = m.drive.seq /\ x.drive.token = m.drive.token
    /\ x.drive.source = m.drive.source /\ x.drive.deadman = m.drive.deadman
    /\ x.outputs = m.outputs /\ x.velocity = m.velocity
    /\ x.motionActive = m.motionActive /\ x.stopEmitted = m.stopEmitted

LEMMA FrameInv ==
    ASSUME NEW m, NEW n, NEW w, NEW x \in Manager, NEW v \in Output,
           ManagerInv(m, n, w), SameCommand(m, x),
           v.type = w.type, v.velocity = w.velocity,
           v.token = w.token, v.seq = w.seq
    PROVE  ManagerInv(x, n, v)
  <1>1. /\ (HasLease(x) <=> HasLease(m)) /\ (HasDrive(x) <=> HasDrive(m))
        /\ (Configured(x) <=> Configured(m))
    BY DEF SameCommand, HasLease, HasDrive, Configured
  <1>2. /\ LastCommand(x, v).type = LastCommand(m, w).type
        /\ LastCommand(x, v).velocity = LastCommand(m, w).velocity
    BY DEF SameCommand, LastCommand
  <1>3. Typed(x, n, v)
    BY DEF ManagerInv, Typed
  <1>4. IntentPart(x)
    <2>1. /\ m.lease.seq \in Int /\ x.lease.seq \in Int /\ m.drive.seq \in Int
      BY FieldTypes DEF ManagerInv, Typed
    <2>2. ~HasDrive(x) => ~x.drive.deadman
      BY <1>1 DEF ManagerInv, IntentPart, SameCommand
    <2>3. HasDrive(x) => /\ HasLease(x)
                         /\ x.drive.token = x.lease.token
                         /\ x.drive.source = x.lease.source
      BY <1>1 DEF ManagerInv, IntentPart, SameCommand
    <2>4. HasDrive(x) => x.drive.seq <= x.lease.seq
      <3>1. HasDrive(x) => m.drive.seq <= m.lease.seq
        BY <1>1 DEF ManagerInv, IntentPart
      <3>2. x.lease.seq >= m.lease.seq /\ x.drive.seq = m.drive.seq
        BY DEF SameCommand
      <3> QED
        BY <2>1, <3>1, <3>2
    <2> QED
      BY <2>2, <2>3, <2>4 DEF IntentPart
  <1>5. HoldPart(x)
    BY <1>1 DEF ManagerInv, HoldPart, SameCommand
  <1>6. SpeedPart(x, v)
    BY <1>2 DEF ManagerInv, SpeedPart, SameCommand
  <1>7. OwnerPart(x, v)
    BY <1>1, <1>2 DEF ManagerInv, OwnerPart, SameCommand
  <1>8. ReasonPart(x)
    BY <1>1 DEF ManagerInv, ReasonPart, SameCommand
  <1>9. OrderPart(x, n, v)
    <2>1. /\ m.lease.seq \in Int /\ x.lease.seq \in Int /\ w.seq \in Int
      BY FieldTypes DEF ManagerInv, Typed
    <2>2. /\ x.lease.token = m.lease.token /\ x.lease.seq >= m.lease.seq
          /\ x.drive.seq = m.drive.seq
      BY DEF SameCommand
    <2>3. OrderPart(m, n, w)
      BY DEF ManagerInv
    <2> QED
      BY <1>1, <2>1, <2>2, <2>3 DEF OrderPart
  <1> QED
    BY <1>3, <1>4, <1>5, <1>6, <1>7, <1>8, <1>9 DEF ManagerInv

\* _require_lease keeps the invariant, and a lease it returns is the caller's.
LEMMA RequireLeaseInv ==
    ASSUME NEW m, NEW n, NEW w, NEW token, NEW binding, ManagerInv(m, n, w)
    PROVE  /\ ManagerInv(Expire(m), n, w)
           /\ ManagerInv(RequireLease(m, token, binding), n, w)
  <1>1. ManagerInv(Expire(m), n, w)
    BY ExpireInv DEF Expire
  <1>2. ManagerInv(FailClosed(Expire(m), "readiness_stale"), n, w)
    BY <1>1, FailClosedInv
  <1> QED
    BY <1>1, <1>2 DEF RequireLease

LEMMA UsableFacts ==
    ASSUME NEW m, NEW token, NEW binding, LeaseUsable(m, token, binding),
           NEW x, x = RequireLease(m, token, binding)
    PROVE  HasLease(x) /\ x.lease.token = token /\ Ready(x)
  BY DEF LeaseUsable, RequireLease, Authentic

-----------------------------------------------------------------------------
(* The public methods.                                                     *)

LEMMA ReadinessInv ==
    ASSUME NEW m, NEW n, NEW w, ManagerInv(m, n, w),
           NEW b \in BOOLEAN, NEW l \in BOOLEAN
    PROVE  /\ ManagerInv(DoNoteBridge(m, b), n, w)
           /\ ManagerInv(DoNoteLowstate(m, l), n, w)
           /\ ManagerInv(DoSetReadiness(m, b, l), n, w)
  <1>1. m \in Manager /\ w \in Output /\ m.lease.seq \in Int
    BY FieldTypes DEF ManagerInv, Typed
  <1>2. ASSUME NEW a \in Nat, NEW c \in Nat
        PROVE  /\ ManagerInv([m EXCEPT !.bridgeAge = a], n, w)
               /\ ManagerInv([m EXCEPT !.lowstateAge = c], n, w)
               /\ ManagerInv([m EXCEPT !.bridgeAge = a,
                                       !.lowstateAge = c], n, w)
    <2>1. ASSUME NEW x \in { [m EXCEPT !.bridgeAge = a],
                             [m EXCEPT !.lowstateAge = c],
                             [m EXCEPT !.bridgeAge = a, !.lowstateAge = c] }
          PROVE  x \in Manager /\ SameCommand(m, x)
      <3>1. x \in Manager
        BY <1>1, <1>2, <2>1 DEF Manager
      <3>2. /\ x.enabled = m.enabled /\ x.closed = m.closed
            /\ x.estop = m.estop /\ x.lease = m.lease /\ x.drive = m.drive
            /\ x.leaseEndReason = m.leaseEndReason /\ x.guard = m.guard
            /\ x.outputs = m.outputs /\ x.velocity = m.velocity
            /\ x.motionActive = m.motionActive
            /\ x.stopEmitted = m.stopEmitted
        BY <1>1, <2>1 DEF Manager
      <3> QED
        BY <1>1, <3>1, <3>2 DEF SameCommand
    <2> QED
      BY <1>1, <2>1, FrameInv
  <1>3. BridgeStale \in Nat /\ LowstateStale \in Nat /\ 0 \in Nat
    BY ConstantsAssumption
  <1>4. ManagerInv(DoNoteBridge(m, b), n, w)
    BY <1>2, <1>3, FailClosedInv DEF DoNoteBridge
  <1>5. ManagerInv(DoNoteLowstate(m, l), n, w)
    BY <1>2, <1>3, FailClosedInv DEF DoNoteLowstate
  <1>6. ManagerInv(DoSetReadiness(m, b, l), n, w)
    <2> DEFINE x == [m EXCEPT !.bridgeAge = IF b THEN 0 ELSE BridgeStale,
                              !.lowstateAge = IF l THEN 0 ELSE LowstateStale]
    <2>1. ManagerInv(x, n, w)
      BY <1>2, <1>3
    <2>2. ManagerInv(FailClosed(x, "readiness_lost"), n, w)
      BY <2>1, FailClosedInv
    <2> QED
      BY <2>1, <2>2 DEF DoSetReadiness
  <1> QED
    BY <1>4, <1>5, <1>6

LEMMA AcquireInv ==
    ASSUME NEW m, NEW n, NEW w, ManagerInv(m, n, w),
           NEW source \in Sources, NEW nav \in BOOLEAN
    PROVE  IF MayAcquire(m, source, nav)
           THEN ManagerInv(DoAcquireLease(m, source, nav, n + 1), n + 1, w)
           ELSE ManagerInv(DoAcquireLease(m, source, nav, n + 1), n, w)
  <1> DEFINE x == ExpireIfNeeded(m)
             lease == [token |-> n + 1, source |-> source,
                       binding |-> NoBinding, age |-> 0, seq |-> -1]
             y == [x EXCEPT !.lease = lease, !.leaseEndReason = NoReason]
  <1>1. ManagerInv(x, n, w)
    BY ExpireInv
  <1>2. CASE ~MayAcquire(m, source, nav)
    BY <1>1, <1>2 DEF DoAcquireLease
  <1>3. CASE MayAcquire(m, source, nav)
    <2>1. /\ ~HasLease(x) /\ ~x.estop /\ Ready(x)
      BY <1>3 DEF MayAcquire
    <2>2. DoAcquireLease(m, source, nav, n + 1) = y
      BY <1>3 DEF DoAcquireLease
    <2> HIDE DEF x
    <2>3. /\ x \in Manager /\ n \in Nat /\ w \in Output
      BY <1>1 DEF ManagerInv, Typed
    <2>a. /\ lease \in Lease /\ lease.token = n + 1 /\ lease.seq = -1
          /\ lease.source = source
      BY <2>3 DEF Lease
    <2> HIDE DEF lease
    <2>b. y \in Manager
      BY <2>3, <2>a DEF Manager
    <2>4. /\ y.lease = lease /\ y.leaseEndReason = NoReason
          /\ y.drive = x.drive /\ y.outputs = x.outputs
          /\ y.velocity = x.velocity /\ y.motionActive = x.motionActive
          /\ y.stopEmitted = x.stopEmitted /\ y.estop = x.estop
          /\ y.guard = x.guard /\ y.enabled = x.enabled
          /\ y.closed = x.closed
      BY <2>3 DEF Manager
    <2> HIDE DEF y
    <2>5. HasLease(y) /\ ~HasDrive(y) /\ ~HasDrive(x)
      <3>1. HasLease(y)
        BY <2>3, <2>4, <2>a DEF HasLease
      <3>2. ~HasDrive(x)
        BY <1>1, <2>1 DEF ManagerInv, IntentPart
      <3> QED
        BY <2>4, <3>1, <3>2 DEF HasDrive
    <2>6. IntentPart(y)
      BY <1>1, <2>4, <2>5 DEF IntentPart, ManagerInv
    <2>7. HoldPart(y)
      <3>1. ~(y.guard > 0)
        BY <2>1, <2>4 DEF Ready
      <3>2. ~y.estop /\ Configured(y)
        BY <2>1, <2>4, Zenon DEF Ready, Configured
      <3> QED
        BY <3>1, <3>2 DEF HoldPart
    <2>8. LastCommand(y, w) = LastCommand(x, w)
      BY <2>4 DEF LastCommand
    <2>9. SpeedPart(y, w)
      BY <1>1, <2>4, <2>8 DEF SpeedPart, ManagerInv
    <2>10. OwnerPart(y, w)
      BY <1>1, <2>4, <2>5, <2>8 DEF OwnerPart, ManagerInv
    <2>11. OrderPart(y, n + 1, w)
      <3>1. w.token \in Nat /\ w.token <= n
        BY <1>1, <2>3, FieldTypes DEF ManagerInv, OrderPart
      <3> QED
        BY <2>3, <2>a, <2>4, <2>5, <3>1 DEF OrderPart
    <2> QED
      BY <1>3, <2>2, <2>3, <2>b, <2>4, <2>6, <2>7, <2>9, <2>10, <2>11
      DEF ManagerInv, Typed, ReasonPart
  <1> QED
    BY <1>2, <1>3

\* y differs from x in its lease only.
OnlyLease(x, y) ==
    /\ y.enabled = x.enabled /\ y.closed = x.closed /\ y.estop = x.estop
    /\ y.drive = x.drive /\ y.leaseEndReason = x.leaseEndReason
    /\ y.guard = x.guard /\ y.outputs = x.outputs /\ y.velocity = x.velocity
    /\ y.motionActive = x.motionActive /\ y.stopEmitted = x.stopEmitted

LEMMA BindInv ==
    ASSUME NEW m, NEW n, NEW w, ManagerInv(m, n, w),
           NEW token, NEW binding \in Sessions
    PROVE  ManagerInv(DoBindLease(m, token, binding), n, w)
  <1> DEFINE x == RequireLease(m, token, NoBinding)
             y == [x EXCEPT !.lease.binding = binding, !.lease.age = 0]
  <1>1. ManagerInv(x, n, w)
    BY RequireLeaseInv
  <1>2. ManagerInv(y, n, w)
    <2> HIDE DEF x
    <2>1. x \in Manager /\ w \in Output /\ x.lease \in Lease
      BY <1>1, FieldTypes DEF ManagerInv, Typed
    <2>2. y \in Manager
      BY <2>1 DEF Manager, Lease
    <2>3. SameCommand(x, y)
      <3>1. /\ y.lease.token = x.lease.token /\ y.lease.source = x.lease.source
            /\ y.lease.seq = x.lease.seq
        BY <2>1 DEF Manager, Lease
      <3>2. OnlyLease(x, y)
        BY <2>1 DEF Manager, OnlyLease
      <3>3. x.lease.seq \in Int
        BY <2>1, FieldTypes
      <3> QED
        BY <3>1, <3>2, <3>3 DEF SameCommand, OnlyLease
    <2> QED
      BY <1>1, <2>1, <2>2, <2>3, FrameInv
  <1> QED
    BY <1>1, <1>2 DEF DoBindLease

LEMMA HeartbeatInv ==
    ASSUME NEW m, NEW n, NEW w, ManagerInv(m, n, w),
           NEW token, NEW binding, NEW seq \in Nat
    PROVE  ManagerInv(DoHeartbeat(m, token, binding, seq), n, w)
  <1> DEFINE x == RequireLease(m, token, binding)
             y == [x EXCEPT !.lease.seq = seq, !.lease.age = 0]
  <1>1. ManagerInv(x, n, w)
    BY RequireLeaseInv
  <1>2. ASSUME seq > x.lease.seq PROVE ManagerInv(y, n, w)
    <2> HIDE DEF x
    <2>1. x \in Manager /\ w \in Output /\ x.lease \in Lease
      BY <1>1, FieldTypes DEF ManagerInv, Typed
    <2>2. y \in Manager
      BY <2>1 DEF Manager, Lease
    <2>3. x.lease.seq \in Int /\ y.lease.seq = seq
      BY <2>1, FieldTypes DEF Manager, Lease
    <2>4. SameCommand(x, y)
      <3>1. /\ y.lease.token = x.lease.token /\ y.lease.source = x.lease.source
        BY <2>1 DEF Manager, Lease
      <3>2. OnlyLease(x, y)
        BY <2>1 DEF Manager, OnlyLease
      <3> QED
        BY <1>2, <2>3, <3>1, <3>2 DEF SameCommand, OnlyLease
    <2> QED
      BY <1>1, <2>1, <2>2, <2>4, FrameInv
  <1> QED
    BY <1>1, <1>2 DEF DoHeartbeat

\* A stop emitted while the lease lives on: the intent may have been replaced
\* by one that does not contradict what was published.
LEMMA LiveStopInv ==
    ASSUME NEW y \in Manager, NEW n \in Nat, NEW w \in Output, NEW reason,
           IntentPart(y), HoldPart(y), ReasonPart(y), OrderPart(y, n, w),
           HasLease(y)
    PROVE  ManagerInv(EmitStop(y, reason, TRUE), n, w)
  <1> DEFINE e == EmitStop(y, reason, TRUE)
  <1>1. StopFields(y, e) /\ e.outputs = Append(y.outputs, StillOutput("stop"))
    BY EmitStopFacts
  <1> HIDE DEF e
  <1>2. LastCommand(e, w) = StillOutput("stop")
        /\ e.outputs # <<>> /\ e.outputs[Len(e.outputs)] = StillOutput("stop")
    <2>1. y.outputs \in Seq(Output) /\ StillOutput("stop") \in Output
      BY FieldTypes, NullTypes
    <2> QED
      BY <1>1, <2>1, AppendFacts DEF LastCommand
  <1>3. StillOutput("stop").type = "stop" /\ StillOutput("stop").velocity = 0
    BY DEF StillOutput
  <1>4. /\ e \in Manager /\ e.lease = y.lease /\ e.drive = y.drive
        /\ e.estop = y.estop /\ e.guard = y.guard /\ e.enabled = y.enabled
        /\ e.closed = y.closed /\ e.leaseEndReason = y.leaseEndReason
        /\ e.velocity = 0 /\ e.motionActive = FALSE /\ e.stopEmitted = TRUE
    BY <1>1 DEF StopFields
  <1>5. IntentPart(e)
    BY <1>4 DEF IntentPart, HasLease, HasDrive
  <1>6. HoldPart(e)
    BY <1>4 DEF HoldPart, HasLease, Configured
  <1>7. SpeedPart(e, w)
    BY <1>2, <1>3, <1>4 DEF SpeedPart
  <1>8. OwnerPart(e, w)
    BY <1>2, <1>3 DEF OwnerPart
  <1>9. ReasonPart(e)
    BY <1>4 DEF ReasonPart, HasLease
  <1>10. OrderPart(e, n, w)
    BY <1>4 DEF OrderPart, HasLease, HasDrive
  <1> QED
    BY <1>4, <1>5, <1>6, <1>7, <1>8, <1>9, <1>10 DEF ManagerInv, Typed, e

LEMMA SubmitDriveInv ==
    ASSUME NEW m, NEW n, NEW w, ManagerInv(m, n, w),
           NEW token \in Nat, NEW binding, NEW seq \in Nat,
           NEW intent \in Intents, NEW valid \in BOOLEAN
    PROVE  ManagerInv(DoSubmitDrive(m, token, binding, seq, intent, valid),
                      n, w)
  <1> DEFINE x == RequireLease(m, token, binding)
             d == [seq |-> seq, token |-> token, source |-> x.lease.source,
                   age |-> intent.age, deadman |-> intent.deadman,
                   velocity |-> intent.velocity]
             y == [x EXCEPT !.lease.seq = seq, !.drive = d]
  <1>1. ManagerInv(x, n, w)
    BY RequireLeaseInv
  <1>2. ASSUME HasLease(x), x.lease.token = token, seq > x.lease.seq
        PROVE  /\ intent.deadman => ManagerInv(y, n, w)
               /\ ManagerInv(EmitStop(y, "deadman_released", TRUE), n, w)
    <2> HIDE DEF x
    <2>1. /\ x \in Manager /\ n \in Nat /\ w \in Output /\ x.lease \in Lease
          /\ x.lease.seq \in Int /\ w.seq \in Int /\ w.token \in Nat
      BY <1>1, FieldTypes DEF ManagerInv, Typed
    <2>2. /\ d \in Drive /\ d.seq = seq /\ d.token = token
          /\ d.source = x.lease.source /\ d.deadman = intent.deadman
      BY <2>1, ConstantsAssumption DEF Drive, Lease, Intents
    <2> HIDE DEF d
    <2>3. y \in Manager
      BY <2>1, <2>2 DEF Manager, Lease
    <2>4. /\ y.lease.token = x.lease.token /\ y.lease.source = x.lease.source
          /\ y.lease.seq = seq
      BY <2>1 DEF Manager, Lease
    <2>5. /\ y.drive = d /\ y.estop = x.estop /\ y.guard = x.guard
          /\ y.enabled = x.enabled /\ y.closed = x.closed
          /\ y.leaseEndReason = x.leaseEndReason /\ y.outputs = x.outputs
          /\ y.velocity = x.velocity /\ y.motionActive = x.motionActive
          /\ y.stopEmitted = x.stopEmitted
      BY <2>1 DEF Manager
    <2> HIDE DEF y
    <2>6. HasLease(y) /\ HasDrive(y)
      BY <1>2, <2>2, <2>4, <2>5 DEF HasLease, HasDrive
    <2>7. IntentPart(y)
      BY <1>2, <2>2, <2>4, <2>5, <2>6 DEF IntentPart
    <2>8. HoldPart(y)
      <3>1. HoldPart(x)
        BY <1>1 DEF ManagerInv
      <3>2. ~(y.guard > 0) /\ ~y.estop /\ Configured(y)
        BY <1>2, <2>5, <3>1 DEF HoldPart, Configured
      <3> QED
        BY <3>2 DEF HoldPart
    <2>9. ReasonPart(y)
      BY <1>1, <1>2, <2>5 DEF ManagerInv, ReasonPart
    <2>10. OrderPart(y, n, w)
      <3>1. OrderPart(x, n, w)
        BY <1>1 DEF ManagerInv
      <3> QED
        BY <1>2, <2>1, <2>2, <2>4, <2>5, <2>6, <3>1 DEF OrderPart
    <2>11. ASSUME intent.deadman PROVE ManagerInv(y, n, w)
      <3>1. LastCommand(y, w) = LastCommand(x, w)
        BY <2>5 DEF LastCommand
      <3>2. SpeedPart(y, w)
        BY <1>1, <2>5, <3>1 DEF ManagerInv, SpeedPart
      <3>3. OwnerPart(y, w)
        BY <1>1, <2>2, <2>5, <2>6, <2>11, <3>1 DEF ManagerInv, OwnerPart
      <3> QED
        BY <2>1, <2>3, <2>7, <2>8, <2>9, <2>10, <3>2, <3>3
        DEF ManagerInv, Typed
    <2>12. ManagerInv(EmitStop(y, "deadman_released", TRUE), n, w)
      BY <2>1, <2>3, <2>6, <2>7, <2>8, <2>9, <2>10, LiveStopInv
    <2> QED
      BY <2>11, <2>12
  <1>3. LeaseUsable(m, token, binding) =>
            HasLease(x) /\ x.lease.token = token
    BY UsableFacts
  <1> QED
    BY <1>1, <1>2, <1>3 DEF DoSubmitDrive

LEMMA ReleaseInv ==
    ASSUME NEW m, NEW n, NEW w, ManagerInv(m, n, w), NEW token, NEW binding
    PROVE  ManagerInv(DoReleaseLease(m, token, binding), n, w)
  <1>1. ManagerInv(Expire(m), n, w)
    BY RequireLeaseInv
  <1>2. ManagerInv(Revoke(Expire(m), "lease_released"), n, w)
    BY <1>1, RevokeInv DEF ManagerInv, OrderPart
  <1> QED
    BY <1>1, <1>2 DEF DoReleaseLease

LEMMA EmergencyStopInv ==
    ASSUME NEW m, NEW n, NEW w, ManagerInv(m, n, w)
    PROVE  ManagerInv(DoEmergencyStop(m), n, w)
  <1> DEFINE x == [m EXCEPT !.estop = TRUE, !.guard = 0]
  <1>1. Typed(x, n, w) /\ w.token <= n
    BY DEF ManagerInv, Typed, Manager, OrderPart
  <1> QED
    BY <1>1, RevokeInv DEF DoEmergencyStop

\* Without a lease, and with a still output as the newest command, only the
\* type and the order of what was published are left to show.
LEMMA NothingHeldInv ==
    ASSUME NEW y \in Manager, NEW n \in Nat, NEW w \in Output, w.token <= n,
           ~HasLease(y), ~HasDrive(y), ~y.drive.deadman,
           y.velocity = 0, y.motionActive = FALSE, y.stopEmitted = TRUE,
           LastCommand(y, w).type # "drive", LastCommand(y, w).velocity = 0
    PROVE  ManagerInv(y, n, w)
  <1>1. y.lease.token = 0
    BY DEF HasLease
  <1>2. IntentPart(y) /\ HoldPart(y) /\ ReasonPart(y)
    BY DEF IntentPart, HoldPart, ReasonPart
  <1>3. SpeedPart(y, w)
    BY DEF SpeedPart
  <1>4. OwnerPart(y, w)
    BY DEF OwnerPart, LastCommand
  <1>5. OrderPart(y, n, w)
    BY <1>1 DEF OrderPart, HasLease
  <1> QED
    BY <1>2, <1>3, <1>4, <1>5 DEF ManagerInv, Typed

LEMMA RequestActionInv ==
    ASSUME NEW m, NEW n, NEW w, ManagerInv(m, n, w),
           NEW token \in Nat, NEW binding, NEW seq \in Nat,
           NEW guard \in Nat, NEW valid \in BOOLEAN
    PROVE  ManagerInv(DoRequestAction(m, token, binding, seq, guard, valid),
                      n, w)
  <1> DEFINE x == RequireLease(m, token, binding)
             p == [x EXCEPT !.lease.seq = seq, !.drive = NoDrive]
             y == EmitStop(p, "action_prepare", TRUE)
             z == [y EXCEPT !.outputs = Append(@, StillOutput("action")),
                            !.lease = NoLease, !.guard = guard]
  <1>1. ManagerInv(x, n, w)
    BY RequireLeaseInv
  <1>2. ManagerInv(z, n, w)
    <2> HIDE DEF x
    <2>1. /\ x \in Manager /\ n \in Nat /\ w \in Output /\ x.lease \in Lease
          /\ w.token <= n
      BY <1>1, FieldTypes DEF ManagerInv, Typed, OrderPart
    <2>2. p \in Manager /\ p.drive = NoDrive
      BY <2>1, NullTypes DEF Manager, Lease
    <2> HIDE DEF p
    <2>3. StopFields(p, y)
      BY <2>2, EmitStopFacts
    <2> HIDE DEF y
    <2>4. /\ y \in Manager /\ y.drive = NoDrive /\ y.velocity = 0
          /\ y.motionActive = FALSE /\ y.stopEmitted = TRUE
          /\ y.outputs \in Seq(Output)
      BY <2>2, <2>3, FieldTypes DEF StopFields
    <2>5. StillOutput("action") \in Output
      BY NullTypes
    <2>6. Append(y.outputs, StillOutput("action")) \in Seq(Output)
      BY <2>4, <2>5, AppendFacts
    <2>7. z \in Manager
      BY <2>4, <2>6, NullTypes DEF Manager
    <2>8. /\ z.drive = NoDrive /\ z.lease = NoLease /\ z.velocity = 0
          /\ z.motionActive = FALSE /\ z.stopEmitted = TRUE
          /\ z.outputs = Append(y.outputs, StillOutput("action"))
      BY <2>4 DEF Manager
    <2> HIDE DEF z
    <2>9. LastCommand(z, w) = StillOutput("action")
      BY <2>4, <2>5, <2>8, AppendFacts DEF LastCommand
    <2>10. StillOutput("action").type # "drive"
           /\ StillOutput("action").velocity = 0
      BY DEF StillOutput
    <2>11. ~HasLease(z) /\ ~HasDrive(z) /\ ~z.drive.deadman
      BY <2>8, NullTypes DEF HasLease, HasDrive
    <2> QED
      BY <2>1, <2>7, <2>8, <2>9, <2>10, <2>11, NothingHeldInv
  <1> QED
    BY <1>1, <1>2 DEF DoRequestAction

LEMMA ClearInv ==
    ASSUME NEW m, NEW n, NEW w, ManagerInv(m, n, w), NEW confirm \in BOOLEAN
    PROVE  ManagerInv(DoClearEmergencyStop(m, confirm), n, w)
  <1> DEFINE y == [m EXCEPT !.estop = FALSE, !.lease = NoLease,
                            !.drive = NoDrive]
  <1>1. ASSUME m.estop PROVE ManagerInv(y, n, w)
    <2>1. /\ m \in Manager /\ n \in Nat /\ w \in Output /\ w.token <= n
          /\ m.velocity \in Velocity
      BY FieldTypes DEF ManagerInv, Typed, OrderPart
    <2>2. ~HasLease(m)
      BY <1>1 DEF ManagerInv, HoldPart
    <2>3. y \in Manager
      BY <2>1, NullTypes DEF Manager
    <2>4. /\ y.lease = NoLease /\ y.drive = NoDrive /\ y.outputs = m.outputs
          /\ y.velocity = m.velocity /\ y.motionActive = m.motionActive
          /\ y.stopEmitted = m.stopEmitted
      BY <2>1 DEF Manager
    <2> HIDE DEF y
    <2>5. LastCommand(y, w) = LastCommand(m, w)
      BY <2>4 DEF LastCommand
    <2>6. LastCommand(m, w).type # "drive" /\ LastCommand(m, w).velocity = 0
      BY <2>2 DEF ManagerInv, OwnerPart
    <2>7. m.velocity = 0
      BY <2>6 DEF ManagerInv, SpeedPart
    <2>8. m.motionActive = FALSE /\ m.stopEmitted = TRUE
      <3>1. /\ m.motionActive = (m.velocity # 0)
            /\ m.stopEmitted = ~m.motionActive
        BY DEF ManagerInv, SpeedPart
      <3> QED
        BY <2>7, <3>1
    <2>9. ~HasLease(y) /\ ~HasDrive(y) /\ ~y.drive.deadman
      BY <2>4, NullTypes DEF HasLease, HasDrive
    <2> QED
      BY <2>1, <2>3, <2>4, <2>5, <2>6, <2>7, <2>8, <2>9, NothingHeldInv
  <1> QED
    BY <1>1 DEF DoClearEmergencyStop

\* y differs from r in its closed flag only, ages aside.
OnlyClosed(r, y) ==
    /\ y.lease = r.lease /\ y.drive = r.drive /\ y.estop = r.estop
    /\ y.guard = r.guard /\ y.leaseEndReason = r.leaseEndReason
    /\ y.outputs = r.outputs /\ y.velocity = r.velocity
    /\ y.motionActive = r.motionActive /\ y.stopEmitted = r.stopEmitted

LEMMA CloseInv ==
    ASSUME NEW m, NEW n, NEW w, ManagerInv(m, n, w)
    PROVE  ManagerInv(DoClose(m), n, w)
  <1> DEFINE x == [m EXCEPT !.guard = 0]
             r == Revoke(x, "manager_closed")
             y == [r EXCEPT !.closed = TRUE]
  <1>1. Typed(x, n, w) /\ w.token <= n
    BY DEF ManagerInv, Typed, Manager, OrderPart
  <1> HIDE DEF x
  <1>2. ManagerInv(r, n, w)
    BY <1>1, RevokeInv
  <1>3. ~HasLease(r)
    BY <1>1, RevokeInv
  <1> HIDE DEF r
  <1>4. /\ r \in Manager /\ n \in Nat /\ w \in Output
    BY <1>2 DEF ManagerInv, Typed
  <1>5. y \in Manager
    BY <1>4 DEF Manager
  <1>6. OnlyClosed(r, y)
    BY <1>4 DEF Manager, OnlyClosed
  <1>7. LastCommand(y, w) = LastCommand(r, w)
    BY <1>6 DEF OnlyClosed, LastCommand
  <1> HIDE DEF y
  <1>8. ~HasLease(y) /\ (HasDrive(y) <=> HasDrive(r))
    BY <1>3, <1>6 DEF OnlyClosed, HasLease, HasDrive
  <1>9. IntentPart(y) /\ HoldPart(y) /\ ReasonPart(y)
    BY <1>2, <1>3, <1>6, <1>8
    DEF ManagerInv, IntentPart, HoldPart, ReasonPart, OnlyClosed
  <1>10. SpeedPart(y, w)
    BY <1>2, <1>6, <1>7 DEF ManagerInv, SpeedPart, OnlyClosed
  <1>11. OwnerPart(y, w)
    BY <1>2, <1>3, <1>6, <1>7 DEF ManagerInv, OwnerPart, OnlyClosed
  <1>12. OrderPart(y, n, w)
    BY <1>2, <1>6 DEF ManagerInv, OrderPart, OnlyClosed, HasLease, HasDrive
  <1> QED
    BY <1>4, <1>5, <1>9, <1>10, <1>11, <1>12
    DEF ManagerInv, Typed, DoClose, y, r, x

\* What is on the wire after the queue was published: the newest command,
\* with the record of the last published drive as it was.
LEMMA PublishedFacts ==
    ASSUME NEW m, NEW n, NEW w, ManagerInv(m, n, w)
    PROVE  /\ Published(w, m.outputs) \in Output
           /\ Published(w, m.outputs).type = LastCommand(m, w).type
           /\ Published(w, m.outputs).velocity = LastCommand(m, w).velocity
           /\ Published(w, m.outputs).token = w.token
           /\ Published(w, m.outputs).seq = w.seq
  <1> DEFINE v == Published(w, m.outputs)
             l == LastCommand(m, w)
  <1>1. w \in Output /\ m.outputs \in Seq(Output)
    BY FieldTypes DEF ManagerInv, Typed
  <1>2. CASE m.outputs = <<>>
    BY <1>1, <1>2 DEF Published, LastCommand
  <1>3. CASE m.outputs # <<>>
    <2> DEFINE o == m.outputs[Len(m.outputs)]
    <2>1. o \in Output
      BY <1>1, <1>3
    <2>2. o.type # "drive"
      BY <1>3 DEF ManagerInv, OwnerPart
    <2>3. l = o /\ v = [o EXCEPT !.token = w.token, !.seq = w.seq]
      BY <1>3, <2>2 DEF LastCommand, Published
    <2> HIDE DEF o, l, v
    <2>4. /\ v \in Output /\ v.type = l.type /\ v.velocity = l.velocity
          /\ v.token = w.token /\ v.seq = w.seq
      BY <1>1, <2>1, <2>3 DEF Output
    <2> QED
      BY <2>4 DEF v, l
  <1> QED
    BY <1>2, <1>3

\* Publishing the queue keeps the invariant.
LEMMA DrainInv ==
    ASSUME NEW m, NEW n, NEW w, ManagerInv(m, n, w)
    PROVE  ManagerInv(Drained(m), n, Published(w, m.outputs))
  <1> DEFINE x == Drained(m)
             v == Published(w, m.outputs)
             l == LastCommand(m, w)
  <1>1. m \in Manager /\ n \in Nat /\ w \in Output /\ m.outputs \in Seq(Output)
    BY FieldTypes DEF ManagerInv, Typed
  <1>2. x \in Manager /\ x.outputs = <<>> /\ x.lease = m.lease
        /\ x.enabled = m.enabled /\ x.closed = m.closed
        /\ x.drive = m.drive /\ x.estop = m.estop /\ x.guard = m.guard
        /\ x.leaseEndReason = m.leaseEndReason /\ x.velocity = m.velocity
        /\ x.motionActive = m.motionActive /\ x.stopEmitted = m.stopEmitted
    <2>1. <<>> \in Seq(Output)
      OBVIOUS
    <2>2. ASSUME NEW q \in Seq(Output), NEW y, y = [m EXCEPT !.outputs = q]
          PROVE  /\ y \in Manager /\ y.outputs = q /\ y.lease = m.lease
                 /\ y.enabled = m.enabled /\ y.closed = m.closed
                 /\ y.drive = m.drive /\ y.estop = m.estop
                 /\ y.guard = m.guard /\ y.velocity = m.velocity
                 /\ y.leaseEndReason = m.leaseEndReason
                 /\ y.motionActive = m.motionActive
                 /\ y.stopEmitted = m.stopEmitted
      <3>1. y \in Manager
        BY <1>1, <2>2 DEF Manager
      <3> QED
        BY <1>1, <2>2, <3>1 DEF Manager
    <2> QED
      BY <2>1, <2>2 DEF Drained
  <1>3. /\ v \in Output /\ v.type = l.type /\ v.velocity = l.velocity
        /\ v.token = w.token /\ v.seq = w.seq
    BY PublishedFacts
  <1> HIDE DEF x, v, l
  <1>4. LastCommand(x, v) = v
    BY <1>2 DEF LastCommand
  <1>5. /\ (HasLease(x) <=> HasLease(m)) /\ (HasDrive(x) <=> HasDrive(m))
        /\ (Configured(x) <=> Configured(m))
    BY <1>2 DEF HasLease, HasDrive, Configured
  <1>6. IntentPart(x) /\ HoldPart(x) /\ ReasonPart(x)
    BY <1>2, <1>5 DEF ManagerInv, IntentPart, HoldPart, ReasonPart
  <1>7. SpeedPart(x, v)
    BY <1>2, <1>3, <1>4 DEF ManagerInv, SpeedPart, l
  <1>8. OwnerPart(x, v)
    BY <1>2, <1>3, <1>4, <1>5 DEF ManagerInv, OwnerPart, l
  <1>9. OrderPart(x, n, v)
    BY <1>2, <1>3, <1>5 DEF ManagerInv, OrderPart
  <1> QED
    BY <1>1, <1>2, <1>3, <1>6, <1>7, <1>8, <1>9 DEF ManagerInv, Typed, x, v

\* One slew step stays between the current and the target velocity, and is
\* no longer than delta.
LEMMA SlewFacts ==
    ASSUME NEW current \in Velocity, NEW target \in Velocity,
           NEW delta \in Nat
    PROVE  /\ Slew(current, target, delta) \in Velocity
           /\ Slew(current, target, delta) - current <= delta
           /\ current - Slew(current, target, delta) <= delta
  <1>1. current \in Int /\ target \in Int /\ VLimit \in Nat
    BY FieldTypes, ConstantsAssumption
  <1> QED
    BY <1>1 DEF Slew, Velocity

\* When the newest command is no drive the manager believes the robot still,
\* and a stop that is not forced is not queued again.
LEMMA StillFacts ==
    ASSUME NEW x, NEW n, NEW w, ManagerInv(x, n, w),
           LastCommand(x, w).type # "drive"
    PROVE  /\ x \in Manager
           /\ x.velocity = 0 /\ x.motionActive = FALSE /\ x.stopEmitted = TRUE
           /\ LastCommand(x, w).velocity = 0
  <1>1. x \in Manager
    BY DEF ManagerInv, Typed
  <1>2. LastCommand(x, w).velocity = 0
    BY DEF ManagerInv, OwnerPart
  <1>3. x.velocity = 0
    BY <1>2 DEF ManagerInv, SpeedPart
  <1>4. x.motionActive = FALSE /\ x.stopEmitted = TRUE
    <2>1. /\ x.motionActive = (x.velocity # 0)
          /\ x.stopEmitted = ~x.motionActive
      BY DEF ManagerInv, SpeedPart
    <2> QED
      BY <1>3, <2>1
  <1> QED
    BY <1>1, <1>2, <1>3, <1>4

\* Every branch of tick that puts out no drive keeps the invariant.
LEMMA TickStopInv ==
    ASSUME NEW x, NEW n, NEW w, ManagerInv(x, n, w)
    PROVE  /\ ManagerInv(ExpireIfNeeded(x), n, w)
           /\ ManagerInv(FailClosed(x, "readiness_stale"), n, w)
           /\ x.estop => ManagerInv(EmitStop(x, "emergency_stop", FALSE), n, w)
           /\ HasDrive(x) /\ ~x.drive.deadman =>
                 ManagerInv(EmitStop(x, "deadman_released", FALSE), n, w)
           /\ ManagerInv(ExpireCommandIfNeeded(x), n, w)
  <1>1. /\ x \in Manager /\ n \in Nat /\ w \in Output /\ w.token <= n
        /\ x.lease.seq \in Int
    BY FieldTypes DEF ManagerInv, Typed, OrderPart
  <1>2. ASSUME x.estop
        PROVE  ManagerInv(EmitStop(x, "emergency_stop", FALSE), n, w)
    <2> DEFINE e == EmitStop(x, "emergency_stop", FALSE)
    <2>1. ~HasLease(x)
      BY <1>2 DEF ManagerInv, HoldPart
    <2>2. ~HasDrive(x) /\ ~x.drive.deadman
      BY <2>1 DEF ManagerInv, IntentPart
    <2>3. LastCommand(x, w).type # "drive"
      BY <2>1 DEF ManagerInv, OwnerPart
    <2>0. x.stopEmitted = TRUE /\ LastCommand(x, w).velocity = 0
      BY <2>3, StillFacts
    <2>4. StopFields(x, e) /\ e.outputs = x.outputs
      BY <1>1, <2>0, EmitStopFacts
    <2> HIDE DEF e
    <2>5. LastCommand(e, w) = LastCommand(x, w)
      BY <2>4 DEF LastCommand
    <2>6. /\ e \in Manager /\ e.lease = x.lease /\ e.drive = x.drive
          /\ e.velocity = 0 /\ e.motionActive = FALSE /\ e.stopEmitted = TRUE
      BY <2>4 DEF StopFields
    <2>7. ~HasLease(e) /\ ~HasDrive(e) /\ ~e.drive.deadman
      BY <2>1, <2>2, <2>6 DEF HasLease, HasDrive
    <2>8. ManagerInv(e, n, w)
      BY <1>1, <2>3, <2>0, <2>5, <2>6, <2>7, NothingHeldInv
    <2> QED
      BY <2>8 DEF e
  <1>3. ASSUME HasDrive(x), ~x.drive.deadman
        PROVE  ManagerInv(EmitStop(x, "deadman_released", FALSE), n, w)
    <2> DEFINE e == EmitStop(x, "deadman_released", FALSE)
    <2>1. HasLease(x)
      BY <1>3 DEF ManagerInv, IntentPart
    <2>2. LastCommand(x, w).type # "drive"
      BY <1>3 DEF ManagerInv, OwnerPart
    <2>0. x.velocity = 0 /\ x.motionActive = FALSE /\ x.stopEmitted = TRUE
      BY <2>2, StillFacts
    <2>3. StopFields(x, e) /\ e.outputs = x.outputs
      BY <1>1, <2>0, EmitStopFacts
    <2> HIDE DEF e
    <2>4. e \in Manager /\ SameCommand(x, e)
      <3>1. /\ e \in Manager
            /\ e.lease = x.lease /\ e.drive = x.drive /\ e.estop = x.estop
            /\ e.guard = x.guard /\ e.enabled = x.enabled
            /\ e.closed = x.closed /\ e.leaseEndReason = x.leaseEndReason
            /\ e.velocity = 0 /\ e.motionActive = FALSE
            /\ e.stopEmitted = TRUE
        BY <2>1, <2>3 DEF StopFields
      <3>2. e.motionActive = x.motionActive /\ e.stopEmitted = x.stopEmitted
            /\ e.velocity = x.velocity
        BY <2>0, <3>1 
      <3>3. e.lease.seq >= x.lease.seq
        BY <1>1, <3>1
      <3> QED
        BY <2>3, <3>1, <3>2, <3>3 DEF SameCommand
    <2>5. ManagerInv(e, n, w)
      BY <1>1, <2>4, FrameInv
    <2> QED
      BY <2>5 DEF e
  <1> QED
    BY <1>2, <1>3, ExpireInv, FailClosedInv

\* What the tail of tick publishes is the live intent's drive.
LEMMA EmitInv ==
    ASSUME NEW x, NEW n, NEW w, ManagerInv(x, n, w), NEW elapsed \in Nat,
           HasLease(x), HasDrive(x), x.drive.deadman
    PROVE  LET e == Emit(x, elapsed)
           IN  ManagerInv(Drained(e), n, Published(w, e.outputs))
  <1> DEFINE delta == SlewRate * elapsed
             v == Slew(x.velocity, x.drive.velocity, delta)
             o == [type |-> "drive", velocity |-> v,
                   source |-> x.drive.source, age |-> x.drive.age,
                   token |-> x.drive.token, seq |-> x.drive.seq]
             e == Emit(x, elapsed)
             y == Drained(e)
  <1>1. /\ x \in Manager /\ n \in Nat /\ w \in Output /\ x.drive \in Drive
        /\ x.outputs \in Seq(Output)
        /\ x.velocity \in Velocity /\ x.drive.velocity \in Velocity
        /\ x.lease.token \in Nat /\ x.drive.token \in Nat
        /\ x.lease.seq \in Int /\ x.drive.seq \in Int
    BY FieldTypes DEF ManagerInv, Typed
  <1>2. delta \in Nat
    BY ConstantsAssumption
  <1> HIDE DEF delta
  <1>3. v \in Velocity
    BY <1>1, <1>2, SlewFacts
  <1>4. e = [x EXCEPT !.velocity = v, !.motionActive = (v # 0),
                      !.stopEmitted = (v = 0),
                      !.outputs = Append(x.outputs, o)]
    BY <1>1 DEF Emit, Manager, delta
  <1> HIDE DEF v, e
  <1>5. o \in Output
    BY <1>1, <1>3 DEF Output, Drive
  <1>6. o.type = "drive" /\ o.velocity = v /\ o.token = x.drive.token
        /\ o.seq = x.drive.seq
    OBVIOUS
  <1> HIDE DEF o
  <1>7. /\ Append(x.outputs, o) \in Seq(Output)
        /\ Append(x.outputs, o) # <<>>
        /\ Append(x.outputs, o)[Len(Append(x.outputs, o))] = o
    BY <1>1, <1>5, AppendFacts
  <1>8. e.outputs = Append(x.outputs, o)
    BY <1>1, <1>4 DEF Manager
  <1>9. Published(w, e.outputs) = o
    BY <1>6, <1>7, <1>8 DEF Published
  <1>10. y = [x EXCEPT !.velocity = v, !.motionActive = (v # 0),
                       !.stopEmitted = (v = 0), !.outputs = <<>>]
    BY <1>1, <1>4 DEF Drained, Manager
  <1> HIDE DEF y
  <1>11. /\ y \in Manager
    <2>1. <<>> \in Seq(Output)
      OBVIOUS
    <2>2. (v # 0) \in BOOLEAN /\ (v = 0) \in BOOLEAN
      OBVIOUS
    <2> QED
      BY <1>1, <1>3, <1>10, <2>1, <2>2 DEF Manager
  <1>12. /\ y.lease = x.lease /\ y.drive = x.drive /\ y.estop = x.estop
         /\ y.guard = x.guard /\ y.enabled = x.enabled
         /\ y.closed = x.closed /\ y.leaseEndReason = x.leaseEndReason
         /\ y.outputs = <<>> /\ y.velocity = v
    BY <1>1, <1>10 DEF Manager
  <1>13. /\ y.motionActive = (v # 0) /\ y.stopEmitted = (v = 0)
    BY <1>1, <1>10 DEF Manager
  <1>14. LastCommand(y, o) = o
    BY <1>12 DEF LastCommand
  <1>15. HasLease(y) /\ HasDrive(y) /\ y.drive.deadman
         /\ (Configured(y) <=> Configured(x))
    BY <1>12 DEF HasLease, HasDrive, Configured
  <1>16. IntentPart(y) /\ HoldPart(y) /\ ReasonPart(y)
    BY <1>12, <1>15 DEF ManagerInv, IntentPart, HoldPart, ReasonPart
  <1>17. SpeedPart(y, o)
    BY <1>6, <1>12, <1>13, <1>14 DEF SpeedPart
  <1>18. OwnerPart(y, o)
    BY <1>6, <1>12, <1>14, <1>15 DEF OwnerPart
  <1>19. OrderPart(y, n, o)
    <2>1. x.drive.token = x.lease.token /\ x.drive.seq <= x.lease.seq
      BY DEF ManagerInv, IntentPart
    <2>2. x.lease.token <= n
      BY DEF ManagerInv, OrderPart
    <2> QED
      BY <1>1, <1>6, <1>12, <2>1, <2>2 DEF OrderPart
  <1>20. ManagerInv(y, n, o)
    BY <1>1, <1>5, <1>11, <1>16, <1>17, <1>18, <1>19 DEF ManagerInv, Typed
  <1> QED
    BY <1>9, <1>20 DEF y, e

\* A tick either leaves no drive as the newest command, or puts out the drive
\* of a live, fresh intent whose holder keeps the deadman pressed.
TickStart(m) == [m EXCEPT !.sinceTick = 0]
TickElapsed(m) == IF m.sinceTick = -1 THEN FirstElapsed ELSE m.sinceTick

TickStops(m, n, w) ==
    ManagerInv(DoTick(m), n, w) /\ LastCommand(DoTick(m), w).type # "drive"

TickDrives(m) ==
    LET x == TickStart(m)
    IN  /\ HasLease(x) /\ HasDrive(x) /\ x.drive.deadman
        /\ ~CommandExpired(x)
        /\ DoTick(m) = Emit(x, TickElapsed(m))

LEMMA TickStartInv ==
    ASSUME NEW m, NEW n, NEW w, ManagerInv(m, n, w)
    PROVE  ManagerInv(TickStart(m), n, w)
  <1> DEFINE x == TickStart(m)
  <1>1. m \in Manager /\ w \in Output /\ m.lease.seq \in Int
    BY FieldTypes DEF ManagerInv, Typed
  <1>2. x \in Manager
    BY <1>1 DEF TickStart, Manager
  <1>3. /\ x.enabled = m.enabled /\ x.closed = m.closed
        /\ x.estop = m.estop /\ x.lease = m.lease /\ x.drive = m.drive
        /\ x.leaseEndReason = m.leaseEndReason /\ x.guard = m.guard
        /\ x.outputs = m.outputs /\ x.velocity = m.velocity
        /\ x.motionActive = m.motionActive
        /\ x.stopEmitted = m.stopEmitted
    BY <1>1 DEF TickStart, Manager
  <1> HIDE DEF x
  <1>4. SameCommand(m, x)
    BY <1>1, <1>3 DEF SameCommand
  <1> QED
    BY <1>1, <1>2, <1>4, FrameInv DEF x

LEMMA TickCases ==
    ASSUME NEW m, NEW n, NEW w, ManagerInv(m, n, w)
    PROVE  TickStops(m, n, w) \/ TickDrives(m)
  <1> DEFINE x == TickStart(m)
  <1>1. ManagerInv(x, n, w)
    BY TickStartInv
  <1>2. Typed(x, n, w) /\ w.token <= n
    BY <1>1 DEF ManagerInv, OrderPart
  <1>3. DoTick(m) =
          IF LeaseExpired(x) THEN ExpireIfNeeded(x)
          ELSE IF HasLease(x) /\ ~Ready(x) THEN FailClosed(x, "readiness_stale")
          ELSE IF x.estop THEN EmitStop(x, "emergency_stop", FALSE)
          ELSE IF ~HasLease(x) \/ ~HasDrive(x) THEN x
          ELSE IF ~x.drive.deadman
               THEN EmitStop(x, "deadman_released", FALSE)
          ELSE IF CommandExpired(x) THEN ExpireCommandIfNeeded(x)
          ELSE Emit(x, TickElapsed(m))
    BY DEF DoTick, TickStart, TickElapsed
  <1>4. ASSUME NEW y, ManagerInv(y, n, w),
               ~HasLease(y) \/ ~HasDrive(y) \/ ~y.drive.deadman
        PROVE  LastCommand(y, w).type # "drive"
    BY <1>4 DEF ManagerInv, OwnerPart
  <1>5. /\ ~HasLease(Revoke(x, "lease_expired"))
        /\ ~HasLease(Revoke(x, "readiness_stale"))
        /\ ~HasLease(Revoke(x, "command_timeout"))
    BY <1>2, RevokeInv
  <1>6. CASE LeaseExpired(x)
    <2>1. DoTick(m) = ExpireIfNeeded(x)
      BY <1>3, <1>6
    <2>2. ManagerInv(DoTick(m), n, w)
      BY <1>1, <2>1, ExpireInv
    <2>3. ~HasLease(DoTick(m))
      BY <1>5, <1>6, <2>1 DEF ExpireIfNeeded
    <2> QED
      BY <1>4, <2>2, <2>3 DEF TickStops
  <1>7. CASE ~LeaseExpired(x) /\ HasLease(x) /\ ~Ready(x)
    <2>1. DoTick(m) = FailClosed(x, "readiness_stale")
      BY <1>3, <1>7
    <2>2. ManagerInv(DoTick(m), n, w)
      BY <1>1, <2>1, FailClosedInv
    <2>3. ~HasLease(DoTick(m))
      BY <1>5, <1>7, <2>1 DEF FailClosed
    <2> QED
      BY <1>4, <2>2, <2>3 DEF TickStops
  <1>8. CASE ~LeaseExpired(x) /\ ~(HasLease(x) /\ ~Ready(x)) /\ x.estop
    <2>1. DoTick(m) = EmitStop(x, "emergency_stop", FALSE)
      BY <1>3, <1>8
    <2>2. ManagerInv(DoTick(m), n, w)
      BY <1>1, <1>8, <2>1, TickStopInv
    <2>3. ~HasLease(DoTick(m))
      <3>1. ~HasLease(x)
        BY <1>1, <1>8 DEF ManagerInv, HoldPart
      <3>2. StopFields(x, DoTick(m))
        BY <1>2, <2>1, EmitStopFacts DEF Typed
      <3> QED
        BY <3>1, <3>2 DEF StopFields, HasLease
    <2> QED
      BY <1>4, <2>2, <2>3 DEF TickStops
  <1>9. CASE /\ ~LeaseExpired(x) /\ ~(HasLease(x) /\ ~Ready(x)) /\ ~x.estop
             /\ ~HasLease(x) \/ ~HasDrive(x)
    <2>1. DoTick(m) = x
      BY <1>3, <1>9
    <2> QED
      BY <1>1, <1>4, <1>9, <2>1 DEF TickStops
  <1>10. CASE /\ ~LeaseExpired(x) /\ ~(HasLease(x) /\ ~Ready(x)) /\ ~x.estop
              /\ HasLease(x) /\ HasDrive(x) /\ ~x.drive.deadman
    <2>1. DoTick(m) = EmitStop(x, "deadman_released", FALSE)
      BY <1>3, <1>10
    <2>2. ManagerInv(DoTick(m), n, w)
      BY <1>1, <1>10, <2>1, TickStopInv
    <2>3. ~DoTick(m).drive.deadman
      <3>1. StopFields(x, DoTick(m))
        BY <1>2, <2>1, EmitStopFacts DEF Typed
      <3> QED
        BY <1>10, <3>1 DEF StopFields
    <2> QED
      BY <1>4, <2>2, <2>3 DEF TickStops
  <1>11. CASE /\ ~LeaseExpired(x) /\ ~(HasLease(x) /\ ~Ready(x)) /\ ~x.estop
              /\ HasLease(x) /\ HasDrive(x) /\ x.drive.deadman
              /\ CommandExpired(x)
    <2>1. DoTick(m) = ExpireCommandIfNeeded(x)
      BY <1>3, <1>11
    <2>2. ManagerInv(DoTick(m), n, w)
      BY <1>1, <2>1, ExpireInv
    <2>3. ~HasLease(DoTick(m))
      BY <1>5, <1>11, <2>1 DEF ExpireCommandIfNeeded
    <2> QED
      BY <1>4, <2>2, <2>3 DEF TickStops
  <1>12. CASE /\ ~LeaseExpired(x) /\ ~(HasLease(x) /\ ~Ready(x)) /\ ~x.estop
              /\ HasLease(x) /\ HasDrive(x) /\ x.drive.deadman
              /\ ~CommandExpired(x)
    BY <1>3, <1>12 DEF TickDrives
  <1> QED
    BY <1>6, <1>7, <1>8, <1>9, <1>10, <1>11, <1>12

LEMMA TickInv ==
    ASSUME NEW m, NEW n, NEW w, ManagerInv(m, n, w)
    PROVE  ManagerInv(Drained(DoTick(m)), n, Published(w, DoTick(m).outputs))
  <1>1. CASE TickStops(m, n, w)
    BY <1>1, DrainInv DEF TickStops
  <1>2. CASE TickDrives(m)
    <2>1. ManagerInv(TickStart(m), n, w)
      BY TickStartInv
    <2>2. TickElapsed(m) \in Nat
      BY ConstantsAssumption DEF TickElapsed, ManagerInv, Typed, Manager
    <2> QED
      BY <1>2, <2>1, <2>2, EmitInv DEF TickDrives
  <1> QED
    BY <1>1, <1>2, TickCases

\* The passing of time changes ages only.
LEMMA OlderNat ==
    ASSUME NEW age \in Nat, NEW limit \in Nat
    PROVE  Older(age, limit) \in Nat
  BY DEF Older

LEMMA LongestTimeoutNat == LongestTimeout \in Nat
  BY ConstantsAssumption DEF LongestTimeout

AgedWire(w) == [w EXCEPT !.age = IF w.type = "drive"
                                 THEN Older(@, LongestTimeout + MaxElapsed)
                                 ELSE @]

LEMMA AgedWireFacts ==
    ASSUME NEW w \in Output
    PROVE  /\ AgedWire(w) \in Output
           /\ AgedWire(w).type = w.type /\ AgedWire(w).velocity = w.velocity
           /\ AgedWire(w).token = w.token /\ AgedWire(w).seq = w.seq
           /\ AgedWire(w).source = w.source
  <1>1. LongestTimeout + MaxElapsed \in Nat /\ w.age \in Nat
    BY LongestTimeoutNat, ConstantsAssumption DEF Output
  <1>2. Older(w.age, LongestTimeout + MaxElapsed) \in Nat
    BY <1>1, OlderNat
  <1> QED
    BY <1>1, <1>2 DEF AgedWire, Output

LEMMA AgedInv ==
    ASSUME NEW m, NEW n, NEW w, ManagerInv(m, n, w)
    PROVE  ManagerInv(Aged(m), n, AgedWire(w))
  <1> DEFINE x == Aged(m)
             la == IF HasLease(m) THEN Older(m.lease.age, LeaseBind)
                                  ELSE m.lease.age
             da == IF HasDrive(m) THEN Older(m.drive.age, LongestTimeout)
                                  ELSE m.drive.age
             ba == Older(m.bridgeAge, BridgeStale)
             wa == Older(m.lowstateAge, LowstateStale)
             g == IF m.guard > 0 THEN m.guard - 1 ELSE 0
             s == IF m.sinceTick = -1 THEN m.sinceTick
                                      ELSE Older(m.sinceTick, MaxElapsed)
             l == [m.lease EXCEPT !.age = la]
             d == [m.drive EXCEPT !.age = da]
  <1>1. /\ m \in Manager /\ w \in Output /\ m.lease \in Lease
        /\ m.drive \in Drive /\ m.lease.seq \in Int
    BY FieldTypes DEF ManagerInv, Typed
  <1>2. /\ m.lease.age \in Nat /\ m.drive.age \in Nat
    BY <1>1 DEF Lease, Drive
  <1>3. /\ m.bridgeAge \in Nat /\ m.lowstateAge \in Nat /\ m.guard \in Nat
        /\ m.sinceTick \in Nat \cup {-1}
    BY <1>1 DEF Manager
  <1>4. la \in Nat /\ da \in Nat /\ ba \in Nat /\ wa \in Nat
    BY <1>2, <1>3, OlderNat, LongestTimeoutNat, ConstantsAssumption
  <1>5. g \in Nat /\ (g > 0 => m.guard > 0) /\ s \in Nat \cup {-1}
    <2>1. g \in Nat /\ (g > 0 => m.guard > 0)
      BY <1>3
    <2>2. s \in Nat \cup {-1}
      BY <1>3, ConstantsAssumption DEF Older
    <2> QED
      BY <2>1, <2>2
  <1>6. x = [m EXCEPT !.lease = l, !.drive = d, !.bridgeAge = ba,
                      !.lowstateAge = wa, !.guard = g, !.sinceTick = s]
    BY <1>1 DEF Aged, Manager, Lease, Drive
  <1> HIDE DEF la, da, ba, wa, g, s, x
  <1>7. l \in Lease /\ l.token = m.lease.token /\ l.source = m.lease.source
        /\ l.seq = m.lease.seq
    BY <1>1, <1>4 DEF Lease
  <1>8. d \in Drive /\ d.seq = m.drive.seq /\ d.token = m.drive.token
        /\ d.source = m.drive.source /\ d.deadman = m.drive.deadman
    BY <1>1, <1>4 DEF Drive
  <1> HIDE DEF l, d
  <1>9. x \in Manager
    BY <1>1, <1>4, <1>5, <1>6, <1>7, <1>8 DEF Manager
  <1>10. /\ x.lease = l /\ x.drive = d /\ x.guard = g
         /\ x.enabled = m.enabled /\ x.closed = m.closed /\ x.estop = m.estop
         /\ x.leaseEndReason = m.leaseEndReason
         /\ x.outputs = m.outputs /\ x.velocity = m.velocity
         /\ x.motionActive = m.motionActive /\ x.stopEmitted = m.stopEmitted
    BY <1>1, <1>6 DEF Manager
  <1>11. SameCommand(m, x)
    BY <1>1, <1>5, <1>7, <1>8, <1>10 DEF SameCommand
  <1>12. ManagerInv(x, n, AgedWire(w))
    BY <1>1, <1>9, <1>11, AgedWireFacts, FrameInv
  <1> QED
    BY <1>12 DEF x

-----------------------------------------------------------------------------
(* The invariant is inductive.                                             *)

LEMMA InitInv == Init => IndInv
  <1> SUFFICES ASSUME Init PROVE IndInv
    OBVIOUS
  <1>1. PICK enabled \in BOOLEAN, stopped \in BOOLEAN :
          mgr = [enabled |-> enabled, closed |-> FALSE, lease |-> NoLease,
                leaseEndReason |-> NoReason, bridgeAge |-> BridgeStale,
                lowstateAge |-> LowstateStale, estop |-> stopped,
                guard |-> 0, drive |-> NoDrive, outputs |-> <<>>,
                velocity |-> 0, motionActive |-> FALSE,
                stopEmitted |-> TRUE, sinceTick |-> -1]
    BY DEF Init
  <1>2. issued = 0 /\ wire = StillOutput("none")
    BY DEF Init
  <1>3. mgr \in Manager
    <2>1. <<>> \in Seq(Output)
      OBVIOUS
    <2> QED
      BY <1>1, <2>1, NullTypes, ConstantsAssumption DEF Manager
  <1>4. /\ mgr.lease = NoLease /\ mgr.drive = NoDrive /\ mgr.outputs = <<>>
        /\ mgr.velocity = 0 /\ mgr.motionActive = FALSE
        /\ mgr.stopEmitted = TRUE
    BY <1>1
  <1>5. /\ wire \in Output /\ wire.type # "drive" /\ wire.velocity = 0
        /\ wire.token <= issued /\ issued \in Nat
    BY <1>2, NullTypes DEF StillOutput
  <1>6. LastCommand(mgr, wire) = wire
    BY <1>4 DEF LastCommand
  <1>7. ~HasLease(mgr) /\ ~HasDrive(mgr) /\ ~mgr.drive.deadman
    BY <1>4, NullTypes DEF HasLease, HasDrive
  <1> QED
    BY <1>3, <1>4, <1>5, <1>6, <1>7, NothingHeldInv DEF IndInv

LEMMA ClientInv == IndInv /\ Client => IndInv'
  <1> SUFFICES ASSUME IndInv, Client PROVE IndInv'
    OBVIOUS
  <1> USE DEF Call
  <1>0. ManagerInv(mgr, issued, wire) /\ Tokens \subseteq Nat /\ Seqs \subseteq Nat
    <2>1. issued \in Nat /\ MaxSeq \in Nat
      BY ConstantsAssumption DEF IndInv, ManagerInv, Typed
    <2> QED
      BY <2>1 DEF IndInv, Tokens, Seqs
  <1>1. ASSUME NEW source \in Sources, NEW nav \in BOOLEAN,
               AcquireLease(source, nav)
        PROVE  IndInv'
    BY <1>0, <1>1, AcquireInv DEF AcquireLease, IndInv
  <1>2. ASSUME NEW token \in Tokens, NEW binding \in Sessions,
               BindLease(token, binding)
        PROVE  IndInv'
    BY <1>0, <1>2, BindInv DEF BindLease, IndInv
  <1>3. ASSUME NEW token \in Tokens, NEW binding \in Sessions,
               NEW seq \in Seqs, Heartbeat(token, binding, seq)
        PROVE  IndInv'
    BY <1>0, <1>3, HeartbeatInv DEF Heartbeat, IndInv
  <1>4. ASSUME NEW token \in Tokens, NEW binding \in Sessions,
               NEW seq \in Seqs, NEW intent \in Intents, NEW valid \in BOOLEAN,
               SubmitDrive(token, binding, seq, intent, valid)
        PROVE  IndInv'
    BY <1>0, <1>4, SubmitDriveInv DEF SubmitDrive, IndInv
  <1>5. ASSUME NEW token \in Tokens, NEW binding \in Sessions,
               NEW seq \in Seqs, NEW guard \in GuardTimes, NEW valid \in BOOLEAN,
               RequestAction(token, binding, seq, guard, valid)
        PROVE  IndInv'
    BY <1>0, <1>5, RequestActionInv, ConstantsAssumption
    DEF RequestAction, IndInv
  <1>6. ASSUME NEW token \in Tokens, NEW binding \in Sessions \cup {NoBinding},
               ReleaseLease(token, binding)
        PROVE  IndInv'
    BY <1>0, <1>6, ReleaseInv DEF ReleaseLease, IndInv
  <1>7. CASE EmergencyStop
    BY <1>0, <1>7, EmergencyStopInv DEF EmergencyStop, IndInv
  <1>8. ASSUME NEW confirm \in BOOLEAN, ClearEmergencyStop(confirm)
        PROVE  IndInv'
    BY <1>0, <1>8, ClearInv DEF ClearEmergencyStop, IndInv
  <1> QED
    BY <1>1, <1>2, <1>3, <1>4, <1>5, <1>6, <1>7, <1>8 DEF Client

LEMMA BackgroundInv == IndInv /\ Background => IndInv'
  <1> SUFFICES ASSUME IndInv, Background PROVE IndInv'
    OBVIOUS
  <1> USE DEF Call
  <1>0. ManagerInv(mgr, issued, wire)
    BY DEF IndInv
  <1>1. ASSUME NEW ready \in BOOLEAN, NoteBridge(ready) \/ NoteLowstate(ready)
        PROVE  IndInv'
    BY <1>0, <1>1, ReadinessInv DEF NoteBridge, NoteLowstate, IndInv
  <1>2. ASSUME NEW bridge \in BOOLEAN, NEW lowstate \in BOOLEAN,
               SetReadiness(bridge, lowstate)
        PROVE  IndInv'
    BY <1>0, <1>2, ReadinessInv DEF SetReadiness, IndInv
  <1>3. CASE Snapshot
    BY <1>0, <1>3, RequireLeaseInv DEF Snapshot, IndInv
  <1>4. CASE DrainOutputs
    BY <1>0, <1>4, DrainInv DEF DrainOutputs, IndInv
  <1>5. CASE Tick
    BY <1>0, <1>5, TickInv DEF Tick, IndInv
  <1>6. CASE Close
    BY <1>0, <1>6, CloseInv DEF Close, IndInv
  <1>7. CASE Elapse
    BY <1>0, <1>7, AgedInv DEF Elapse, AgedWire, IndInv
  <1> QED
    BY <1>1, <1>2, <1>3, <1>4, <1>5, <1>6, <1>7 DEF Background

LEMMA Inductive == Spec => []IndInv
  <1>1. IndInv /\ UNCHANGED vars => IndInv'
    BY DEF IndInv, vars
  <1>2. IndInv /\ [Next]_vars => IndInv'
    BY <1>1, ClientInv, BackgroundInv DEF Next
  <1> QED
    BY <1>2, InitInv, PTL DEF Spec

-----------------------------------------------------------------------------
(* What the invariant gives.                                               *)

\* The manager, the token counter and the published command stay well typed,
\* in particular slewing never leaves the velocity limits.
THEOREM TypeCorrect == Spec => []TypeOK
  <1>1. IndInv => TypeOK
    BY DEF IndInv, ManagerInv, Typed, TypeOK
  <1> QED
    BY <1>1, Inductive, PTL

\* However a lease is lost and whichever call notices it, the newest command
\* is then no longer a drive.
THEOREM StopsBehindEveryDrive == Spec => []DriveHasOwner
  <1>1. IndInv => DriveHasOwner
    BY DEF IndInv, ManagerInv, OwnerPart, DriveHasOwner
  <1> QED
    BY <1>1, Inductive, PTL

\* No intent survives into the lease of the next holder.
THEOREM IntentsDieWithTheirLease == Spec => []IntentOfLiveLease
  <1>1. IndInv => IntentOfLiveLease
    BY DEF IndInv, ManagerInv, IntentPart, IntentOfLiveLease
  <1> QED
    BY <1>1, Inductive, PTL

\* Nobody holds a lease while the software stop is latched, an action's window
\* is open, or control is disabled or closed.
THEOREM HoldsExcludeLeases == Spec => []HoldExcludesLease
  <1>1. IndInv => HoldExcludesLease
    BY DEF IndInv, ManagerInv, HoldPart, HoldExcludesLease
  <1> QED
    BY <1>1, Inductive, PTL

\* The manager's velocity, and its two flags about motion, are those of the
\* newest command.
THEOREM VelocityIsTrue == Spec => []VelocityIsLastSent
  <1>1. IndInv => VelocityIsLastSent
    BY DEF IndInv, ManagerInv, SpeedPart, VelocityIsLastSent
  <1> QED
    BY <1>1, Inductive, PTL

\* A recorded end reason belongs to a lease that is gone.
THEOREM ReasonsOfDeadLeases == Spec => []EndReasonOfDeadLease
  <1>1. IndInv => EndReasonOfDeadLease
    BY DEF IndInv, ManagerInv, ReasonPart, EndReasonOfDeadLease
  <1> QED
    BY <1>1, Inductive, PTL

-----------------------------------------------------------------------------
(* No method but tick touches the tick clock, none but close and no method *)
(* at all reopens the manager, only an acquisition makes a new lease, and  *)
(* only a drain or a tick empties the queue.                               *)

Keeps(m, x) ==
    /\ x \in Manager
    /\ x.sinceTick = m.sinceTick
    /\ m.closed => x.closed
    /\ x.lease.token \in {m.lease.token, 0}
    /\ m.outputs # <<>> => x.outputs # <<>>

LEMMA KeepsTrans ==
    ASSUME NEW m, NEW x, NEW y, Keeps(m, x), Keeps(x, y)
    PROVE  Keeps(m, y)
  BY DEF Keeps

LEMMA KeepsStop ==
    ASSUME NEW m \in Manager, NEW reason
    PROVE  /\ Keeps(m, m)
           /\ Keeps(m, EmitStop(m, reason, TRUE))
           /\ Keeps(m, Revoke(m, reason))
           /\ Keeps(m, FailClosed(m, reason))
  <1> DEFINE x == [m EXCEPT !.lease = NoLease, !.drive = NoDrive]
  <1>1. Keeps(m, m)
    BY DEF Keeps
  <1>2. ASSUME NEW y \in Manager PROVE Keeps(y, EmitStop(y, reason, TRUE))
    <2>1. StopFields(y, EmitStop(y, reason, TRUE))
      BY <1>2, EmitStopFacts
    <2> QED
      BY <2>1 DEF StopFields, Keeps
  <1>3. Keeps(m, x)
    <2>1. x \in Manager
      BY NullTypes DEF Manager
    <2>2. /\ x.sinceTick = m.sinceTick /\ x.closed = m.closed
          /\ x.lease = NoLease /\ x.outputs = m.outputs
      BY DEF Manager
    <2> QED
      BY <2>1, <2>2, NullTypes DEF Keeps
  <1>4. x \in Manager
    BY <1>3 DEF Keeps
  <1> HIDE DEF x
  <1>5. Keeps(m, EmitStop(x, reason, TRUE))
    BY <1>2, <1>3, <1>4, KeepsTrans
  <1>6. Keeps(m, Revoke(m, reason))
    BY <1>5 DEF Revoke, x
  <1> QED
    BY <1>1, <1>2, <1>6 DEF FailClosed

LEMMA KeepsRequire ==
    ASSUME NEW m \in Manager, NEW token, NEW binding
    PROVE  /\ Keeps(m, ExpireIfNeeded(m))
           /\ Keeps(m, Expire(m))
           /\ Keeps(m, RequireLease(m, token, binding))
  <1>1. ASSUME NEW y \in Manager
        PROVE  Keeps(y, ExpireIfNeeded(y)) /\ Keeps(y, ExpireCommandIfNeeded(y))
    BY <1>1, KeepsStop DEF ExpireIfNeeded, ExpireCommandIfNeeded
  <1>2. Keeps(m, ExpireIfNeeded(m)) /\ ExpireIfNeeded(m) \in Manager
    BY <1>1 DEF Keeps
  <1>3. Keeps(m, Expire(m)) /\ Expire(m) \in Manager
    BY <1>1, <1>2, KeepsTrans DEF Expire, Keeps
  <1>4. Keeps(m, FailClosed(Expire(m), "readiness_stale"))
    BY <1>3, KeepsStop, KeepsTrans
  <1> QED
    BY <1>2, <1>3, <1>4 DEF RequireLease

LEMMA KeepsReadiness ==
    ASSUME NEW m \in Manager, NEW b \in BOOLEAN, NEW l \in BOOLEAN
    PROVE  /\ Keeps(m, DoNoteBridge(m, b)) /\ Keeps(m, DoNoteLowstate(m, l))
           /\ Keeps(m, DoSetReadiness(m, b, l))
  <1>1. ASSUME NEW a \in Nat, NEW c \in Nat,
               NEW x \in { [m EXCEPT !.bridgeAge = a],
                           [m EXCEPT !.lowstateAge = c],
                           [m EXCEPT !.bridgeAge = a, !.lowstateAge = c] },
               NEW reason
        PROVE  Keeps(m, x) /\ Keeps(m, FailClosed(x, reason))
    <2>1. x \in Manager
      <3>1. \A y \in Manager : /\ [y EXCEPT !.bridgeAge = a] \in Manager
                               /\ [y EXCEPT !.lowstateAge = c] \in Manager
        BY <1>1 DEF Manager
      <3>2. [m EXCEPT !.bridgeAge = a, !.lowstateAge = c]
              = [[m EXCEPT !.bridgeAge = a] EXCEPT !.lowstateAge = c]
        BY DEF Manager
      <3> QED
        BY <1>1, <3>1, <3>2
    <2>2. /\ x.sinceTick = m.sinceTick /\ x.closed = m.closed
          /\ x.lease = m.lease /\ x.outputs = m.outputs
      BY <1>1 DEF Manager
    <2>3. Keeps(m, x)
      BY <2>1, <2>2 DEF Keeps
    <2> QED
      BY <2>1, <2>3, KeepsStop, KeepsTrans
  <1>2. BridgeStale \in Nat /\ LowstateStale \in Nat /\ 0 \in Nat
    BY ConstantsAssumption
  <1>3. Keeps(m, DoNoteBridge(m, b))
    BY <1>1, <1>2 DEF DoNoteBridge
  <1>4. Keeps(m, DoNoteLowstate(m, l))
    BY <1>1, <1>2 DEF DoNoteLowstate
  <1>5. Keeps(m, DoSetReadiness(m, b, l))
    <2> DEFINE a == IF b THEN 0 ELSE BridgeStale
               c == IF l THEN 0 ELSE LowstateStale
               x == [m EXCEPT !.bridgeAge = a, !.lowstateAge = c]
    <2>1. a \in Nat /\ c \in Nat
      BY <1>2
    <2> HIDE DEF a, c
    <2>2. Keeps(m, x) /\ Keeps(m, FailClosed(x, "readiness_lost"))
      BY <1>1, <2>1
    <2> QED
      BY <2>2 DEF DoSetReadiness, a, c
  <1> QED
    BY <1>3, <1>4, <1>5

\* A change of the lease that leaves its token alone.
LEMMA KeepsLeaseChange ==
    ASSUME NEW x \in Manager, NEW l \in Lease, l.token = x.lease.token
    PROVE  Keeps(x, [x EXCEPT !.lease = l])
  <1> DEFINE y == [x EXCEPT !.lease = l]
  <1>1. y \in Manager
    BY DEF Manager
  <1>2. /\ y.sinceTick = x.sinceTick /\ y.closed = x.closed
        /\ y.lease = l /\ y.outputs = x.outputs
    BY DEF Manager
  <1> QED
    BY <1>1, <1>2 DEF Keeps

LEMMA KeepsSession ==
    ASSUME NEW m \in Manager, NEW token, NEW binding \in Sessions,
           NEW seq \in Nat
    PROVE  /\ Keeps(m, DoBindLease(m, token, binding))
           /\ Keeps(m, DoHeartbeat(m, token, binding, seq))
  <1>1. ASSUME NEW x \in Manager, Keeps(m, x)
        PROVE  /\ Keeps(m, [x EXCEPT !.lease.binding = binding,
                                     !.lease.age = 0])
               /\ Keeps(m, [x EXCEPT !.lease.seq = seq, !.lease.age = 0])
    <2>1. x.lease \in Lease
      BY FieldTypes
    <2> DEFINE b == [x.lease EXCEPT !.binding = binding, !.age = 0]
               s == [x.lease EXCEPT !.seq = seq, !.age = 0]
    <2>2. /\ b \in Lease /\ b.token = x.lease.token
          /\ s \in Lease /\ s.token = x.lease.token
      BY <2>1 DEF Lease
    <2>3. /\ [x EXCEPT !.lease.binding = binding, !.lease.age = 0] =
                [x EXCEPT !.lease = b]
          /\ [x EXCEPT !.lease.seq = seq, !.lease.age = 0] =
                [x EXCEPT !.lease = s]
      BY <2>1 DEF Manager
    <2> HIDE DEF b, s
    <2>4. Keeps(x, [x EXCEPT !.lease = b]) /\ Keeps(x, [x EXCEPT !.lease = s])
      BY <2>2, KeepsLeaseChange
    <2> QED
      BY <1>1, <2>3, <2>4, KeepsTrans
  <1>2. ASSUME NEW c
        PROVE  /\ Keeps(m, RequireLease(m, token, c))
               /\ RequireLease(m, token, c) \in Manager
    BY KeepsRequire DEF Keeps
  <1>3. Keeps(m, DoBindLease(m, token, binding))
    BY <1>1, <1>2 DEF DoBindLease
  <1>4. Keeps(m, DoHeartbeat(m, token, binding, seq))
    BY <1>1, <1>2 DEF DoHeartbeat
  <1> QED
    BY <1>3, <1>4

LEMMA KeepsDrive ==
    ASSUME NEW m \in Manager, NEW token \in Nat, NEW binding, NEW seq \in Nat,
           NEW intent \in Intents, NEW valid \in BOOLEAN
    PROVE  Keeps(m, DoSubmitDrive(m, token, binding, seq, intent, valid))
  <1> DEFINE x == RequireLease(m, token, binding)
             d == [seq |-> seq, token |-> token, source |-> x.lease.source,
                   age |-> intent.age, deadman |-> intent.deadman,
                   velocity |-> intent.velocity]
             y == [x EXCEPT !.lease.seq = seq, !.drive = d]
  <1>1. Keeps(m, x) /\ x \in Manager /\ Keeps(m, m)
    BY KeepsRequire, KeepsStop DEF Keeps
  <1>2. Keeps(m, y) /\ Keeps(m, EmitStop(y, "deadman_released", TRUE))
    <2> HIDE DEF x
    <2>1. x.lease \in Lease
      BY <1>1, FieldTypes
    <2>2. d \in Drive
      BY <2>1, ConstantsAssumption DEF Drive, Lease, Intents
    <2> HIDE DEF d
    <2>3. y \in Manager
      BY <1>1, <2>1, <2>2 DEF Manager, Lease
    <2>4. y.lease.token = x.lease.token
      BY <1>1, <2>1 DEF Manager, Lease
    <2>5. /\ y.sinceTick = x.sinceTick /\ y.closed = x.closed
          /\ y.outputs = x.outputs
      BY <1>1 DEF Manager
    <2> HIDE DEF y
    <2>6. Keeps(x, y)
      BY <2>3, <2>4, <2>5 DEF Keeps
    <2> QED
      BY <1>1, <2>3, <2>6, KeepsStop, KeepsTrans
  <1> QED
    BY <1>1, <1>2 DEF DoSubmitDrive

LEMMA KeepsAction ==
    ASSUME NEW m \in Manager, NEW token, NEW binding, NEW seq \in Nat,
           NEW guard \in Nat, NEW valid \in BOOLEAN
    PROVE  Keeps(m, DoRequestAction(m, token, binding, seq, guard, valid))
  <1> DEFINE x == RequireLease(m, token, binding)
             p == [x EXCEPT !.lease.seq = seq, !.drive = NoDrive]
             y == EmitStop(p, "action_prepare", TRUE)
             z == [y EXCEPT !.outputs = Append(@, StillOutput("action")),
                            !.lease = NoLease, !.guard = guard]
  <1>1. Keeps(m, x) /\ x \in Manager /\ Keeps(m, m)
    BY KeepsRequire, KeepsStop DEF Keeps
  <1>2. Keeps(m, z)
    <2> HIDE DEF x
    <2>1. p \in Manager
      <3>1. x.lease \in Lease
        BY <1>1, FieldTypes
      <3>2. [x.lease EXCEPT !.seq = seq] \in Lease
        BY <3>1 DEF Lease
      <3>3. p = [x EXCEPT !.lease = [x.lease EXCEPT !.seq = seq],
                          !.drive = NoDrive]
        BY <1>1 DEF Manager
      <3> HIDE DEF p
      <3> QED
        BY <1>1, <3>2, <3>3, NullTypes DEF Manager
    <2>2. p.sinceTick = x.sinceTick /\ p.closed = x.closed
      BY <1>1 DEF Manager
    <2> HIDE DEF p
    <2>4. Keeps(p, y)
      BY <2>1, KeepsStop
    <2> HIDE DEF y
    <2>5. y \in Manager /\ y.sinceTick = x.sinceTick /\ (x.closed => y.closed)
      BY <2>2, <2>4 DEF Keeps
    <2>6. /\ Append(y.outputs, StillOutput("action")) \in Seq(Output)
          /\ Append(y.outputs, StillOutput("action")) # <<>>
      BY <2>5, FieldTypes, NullTypes, AppendFacts
    <2>7. z \in Manager
      BY <2>5, <2>6, NullTypes DEF Manager
    <2>8. /\ z.sinceTick = y.sinceTick /\ z.closed = y.closed
          /\ z.lease = NoLease
          /\ z.outputs = Append(y.outputs, StillOutput("action"))
      BY <2>5 DEF Manager
    <2> HIDE DEF z
    <2>9. z.outputs # <<>>
      BY <2>6, <2>8
    <2> QED
      BY <1>1, <2>5, <2>7, <2>8, <2>9, NullTypes DEF Keeps
  <1> QED
    BY <1>1, <1>2 DEF DoRequestAction

LEMMA KeepsOperator ==
    ASSUME NEW m \in Manager, NEW token, NEW binding, NEW confirm \in BOOLEAN
    PROVE  /\ Keeps(m, DoReleaseLease(m, token, binding))
           /\ Keeps(m, DoEmergencyStop(m))
           /\ Keeps(m, DoClearEmergencyStop(m, confirm))
           /\ Keeps(m, DoClose(m))
  <1>1. Keeps(m, Expire(m)) /\ Expire(m) \in Manager
    BY KeepsRequire DEF Keeps
  <1>2. Keeps(m, DoReleaseLease(m, token, binding))
    BY <1>1, KeepsStop, KeepsTrans DEF DoReleaseLease
  <1>3. ASSUME NEW x \in { [m EXCEPT !.estop = TRUE, !.guard = 0],
                           [m EXCEPT !.guard = 0] }, NEW reason
        PROVE  Keeps(m, Revoke(x, reason))
    <2>1. x \in Manager
      <3>1. CASE x = [m EXCEPT !.estop = TRUE, !.guard = 0]
        BY <3>1 DEF Manager
      <3>2. CASE x = [m EXCEPT !.guard = 0]
        BY <3>2 DEF Manager
      <3> QED
        BY <1>3, <3>1, <3>2
    <2>2. /\ x.sinceTick = m.sinceTick /\ x.closed = m.closed
          /\ x.lease = m.lease /\ x.outputs = m.outputs
      BY <1>3 DEF Manager
    <2>3. Keeps(m, x)
      BY <2>1, <2>2 DEF Keeps
    <2> QED
      BY <2>1, <2>3, KeepsStop, KeepsTrans
  <1>4. Keeps(m, DoEmergencyStop(m))
    BY <1>3 DEF DoEmergencyStop
  <1>5. Keeps(m, DoClearEmergencyStop(m, confirm))
    <2> DEFINE y == [m EXCEPT !.estop = FALSE, !.lease = NoLease,
                              !.drive = NoDrive]
    <2>1. y \in Manager
      BY NullTypes DEF Manager
    <2>2. /\ y.sinceTick = m.sinceTick /\ y.closed = m.closed
          /\ y.lease = NoLease /\ y.outputs = m.outputs
      BY DEF Manager
    <2>3. Keeps(m, y)
      BY <2>1, <2>2, NullTypes DEF Keeps
    <2> QED
      BY <2>3, KeepsStop DEF DoClearEmergencyStop
  <1>6. Keeps(m, DoClose(m))
    <2> DEFINE r == Revoke([m EXCEPT !.guard = 0], "manager_closed")
               y == [r EXCEPT !.closed = TRUE]
    <2>1. Keeps(m, r) /\ r \in Manager
      BY <1>3 DEF Keeps
    <2> HIDE DEF r
    <2>2. y \in Manager
      BY <2>1 DEF Manager
    <2>3. /\ y.sinceTick = r.sinceTick /\ y.closed = TRUE
          /\ y.lease = r.lease /\ y.outputs = r.outputs
      BY <2>1 DEF Manager
    <2>4. Keeps(r, y)
      BY <2>2, <2>3 DEF Keeps
    <2> QED
      BY <2>1, <2>4, KeepsTrans DEF DoClose, r
  <1> QED
    BY <1>2, <1>4, <1>5, <1>6

\* Every call that is not an acquisition, a drain, a tick or the passing of
\* time keeps the clock, the closed flag and the lease's identity.
LEMMA CallKeeps ==
    ASSUME IndInv,
           \/ Snapshot \/ Close \/ EmergencyStop
           \/ \E token \in Tokens, binding \in Sessions :
                BindLease(token, binding)
           \/ \E token \in Tokens, binding \in Sessions, seq \in Seqs :
                \/ Heartbeat(token, binding, seq)
                \/ \E intent \in Intents, valid \in BOOLEAN :
                      SubmitDrive(token, binding, seq, intent, valid)
                \/ \E guard \in GuardTimes, valid \in BOOLEAN :
                      RequestAction(token, binding, seq, guard, valid)
           \/ \E token \in Tokens, binding \in Sessions \cup {NoBinding} :
                ReleaseLease(token, binding)
           \/ \E confirm \in BOOLEAN : ClearEmergencyStop(confirm)
           \/ \E ready \in BOOLEAN : NoteBridge(ready) \/ NoteLowstate(ready)
           \/ \E bridge, lowstate \in BOOLEAN : SetReadiness(bridge, lowstate)
    PROVE  Keeps(mgr, mgr') /\ UNCHANGED <<issued, wire>>
  <1> USE DEF Call
  <1>0. mgr \in Manager /\ Tokens \subseteq Nat /\ Seqs \subseteq Nat
    <2>1. issued \in Nat /\ MaxSeq \in Nat
      BY ConstantsAssumption DEF IndInv, ManagerInv, Typed
    <2> QED
      BY <2>1 DEF IndInv, ManagerInv, Typed, Tokens, Seqs
  <1>1. CASE Snapshot
    BY <1>0, <1>1, KeepsRequire DEF Snapshot
  <1>2. CASE Close \/ EmergencyStop
    BY <1>0, <1>2, KeepsOperator DEF Close, EmergencyStop
  <1>3. ASSUME NEW token \in Tokens, NEW binding \in Sessions,
               BindLease(token, binding)
        PROVE  Keeps(mgr, mgr') /\ UNCHANGED <<issued, wire>>
    <2>1. 0 \in Nat
      OBVIOUS
    <2> QED
      BY <1>0, <1>3, <2>1, KeepsSession DEF BindLease
  <1>4. ASSUME NEW token \in Tokens, NEW binding \in Sessions,
               NEW seq \in Seqs, Heartbeat(token, binding, seq)
        PROVE  Keeps(mgr, mgr') /\ UNCHANGED <<issued, wire>>
    BY <1>0, <1>4, KeepsSession DEF Heartbeat
  <1>5. ASSUME NEW token \in Tokens, NEW binding \in Sessions,
               NEW seq \in Seqs, NEW intent \in Intents, NEW valid \in BOOLEAN,
               SubmitDrive(token, binding, seq, intent, valid)
        PROVE  Keeps(mgr, mgr') /\ UNCHANGED <<issued, wire>>
    BY <1>0, <1>5, KeepsDrive DEF SubmitDrive
  <1>6. ASSUME NEW token \in Tokens, NEW binding \in Sessions,
               NEW seq \in Seqs, NEW guard \in GuardTimes, NEW valid \in BOOLEAN,
               RequestAction(token, binding, seq, guard, valid)
        PROVE  Keeps(mgr, mgr') /\ UNCHANGED <<issued, wire>>
    BY <1>0, <1>6, KeepsAction, ConstantsAssumption DEF RequestAction
  <1>7. ASSUME NEW token \in Tokens, NEW binding \in Sessions \cup {NoBinding},
               ReleaseLease(token, binding)
        PROVE  Keeps(mgr, mgr') /\ UNCHANGED <<issued, wire>>
    BY <1>0, <1>7, KeepsOperator DEF ReleaseLease
  <1>8. ASSUME NEW confirm \in BOOLEAN, ClearEmergencyStop(confirm)
        PROVE  Keeps(mgr, mgr') /\ UNCHANGED <<issued, wire>>
    BY <1>0, <1>8, KeepsOperator DEF ClearEmergencyStop
  <1>9. ASSUME NEW ready \in BOOLEAN, NoteBridge(ready) \/ NoteLowstate(ready)
        PROVE  Keeps(mgr, mgr') /\ UNCHANGED <<issued, wire>>
    BY <1>0, <1>9, KeepsReadiness DEF NoteBridge, NoteLowstate
  <1>10. ASSUME NEW bridge \in BOOLEAN, NEW lowstate \in BOOLEAN,
                SetReadiness(bridge, lowstate)
         PROVE  Keeps(mgr, mgr') /\ UNCHANGED <<issued, wire>>
    BY <1>0, <1>10, KeepsReadiness DEF SetReadiness
  <1> QED
    BY <1>1, <1>2, <1>3, <1>4, <1>5, <1>6, <1>7, <1>8, <1>9, <1>10

\* A step is a call that keeps, an acquisition, a drain, a tick, or time.
LEMMA StepCases ==
    ASSUME IndInv, Next
    PROVE  \/ Keeps(mgr, mgr') /\ UNCHANGED <<issued, wire>>
           \/ \E source \in Sources, nav \in BOOLEAN : AcquireLease(source, nav)
           \/ DrainOutputs
           \/ Tick
           \/ Elapse
  BY CallKeeps DEF Next, Client, Background

\* A granted lease is new and unbound; a refused one changes nothing but
\* what the expiry changes.
LEMMA AcquireFacts ==
    ASSUME IndInv, NEW source \in Sources, NEW nav \in BOOLEAN,
           AcquireLease(source, nav)
    PROVE  /\ wire' = wire
           /\ mgr'.sinceTick = mgr.sinceTick
           /\ mgr.closed => mgr'.closed
           /\ \/ Keeps(mgr, mgr') /\ issued' = issued
              \/ /\ mgr'.lease.binding = NoBinding /\ ~HasDrive(mgr')
                 /\ mgr'.lease.token = issued + 1 /\ issued' = issued + 1
  <1> DEFINE x == ExpireIfNeeded(mgr)
             l == [token |-> issued + 1, source |-> source,
                   binding |-> NoBinding, age |-> 0, seq |-> -1]
             y == [x EXCEPT !.lease = l, !.leaseEndReason = NoReason]
  <1>1. mgr \in Manager /\ Keeps(mgr, mgr)
    BY KeepsStop DEF IndInv, ManagerInv, Typed
  <1>2. Keeps(mgr, x) /\ x \in Manager
    BY <1>1, KeepsRequire DEF Keeps
  <1>3. IntentPart(x)
    BY ExpireInv DEF IndInv, ManagerInv
  <1>4. wire' = wire /\ mgr' = DoAcquireLease(mgr, source, nav, issued + 1)
    BY DEF AcquireLease
  <1>5. CASE MayAcquire(mgr, source, nav)
    <2>1. mgr' = y /\ ~HasLease(x)
      BY <1>4, <1>5 DEF DoAcquireLease, MayAcquire
    <2> HIDE DEF x
    <2>2. /\ y.lease = l /\ y.sinceTick = x.sinceTick /\ y.closed = x.closed
          /\ y.drive = x.drive
      BY <1>2 DEF Manager
    <2>3. ~HasDrive(x)
      BY <1>3, <2>1 DEF IntentPart
    <2> HIDE DEF y
    <2>4. /\ mgr'.sinceTick = mgr.sinceTick /\ (mgr.closed => mgr'.closed)
          /\ mgr'.lease = l /\ mgr'.drive = x.drive
      BY <1>2, <2>1, <2>2 DEF Keeps
    <2>5. mgr'.lease.binding = NoBinding /\ ~HasDrive(mgr')
      BY <2>3, <2>4 DEF HasDrive
    <2>6. mgr'.lease.token = issued + 1 /\ issued' = issued + 1
      BY <1>5, <2>4 DEF AcquireLease
    <2> QED
      BY <1>4, <2>4, <2>5, <2>6
  <1>6. CASE ~MayAcquire(mgr, source, nav)
    <2>1. (mgr' = x \/ mgr' = mgr) /\ issued' = issued
      BY <1>4, <1>6 DEF DoAcquireLease, AcquireLease
    <2> QED
      BY <1>1, <1>2, <1>4, <2>1 DEF Keeps
  <1> QED
    BY <1>5, <1>6

-----------------------------------------------------------------------------
(* Ticks.                                                                  *)

LEMMA KeepsTick ==
    ASSUME NEW m, NEW n, NEW w, ManagerInv(m, n, w)
    PROVE  Keeps(TickStart(m), DoTick(m))
  <1> DEFINE x == TickStart(m)
             v == Slew(x.velocity, x.drive.velocity, SlewRate * TickElapsed(m))
  <1>1. x \in Manager /\ ManagerInv(x, n, w)
    BY TickStartInv DEF ManagerInv, Typed
  <1>2. TickElapsed(m) \in Nat
    BY ConstantsAssumption DEF TickElapsed, ManagerInv, Typed, Manager
  <1>3. Keeps(x, x) /\ Keeps(x, FailClosed(x, "readiness_stale"))
        /\ Keeps(x, ExpireIfNeeded(x)) /\ Keeps(x, ExpireCommandIfNeeded(x))
    <2> HIDE DEF x
    <2> QED
      BY <1>1, KeepsStop DEF ExpireIfNeeded, ExpireCommandIfNeeded
  <1>4. ASSUME NEW reason PROVE Keeps(x, EmitStop(x, reason, FALSE))
    <2> HIDE DEF x
    <2>1. StopFields(x, EmitStop(x, reason, FALSE))
      BY <1>1, EmitStopFacts
    <2> QED
      BY <2>1 DEF StopFields, Keeps
  <1>5. ASSUME HasLease(x), HasDrive(x), x.drive.deadman
        PROVE  Keeps(x, Emit(x, TickElapsed(m)))
    <2> DEFINE delta == SlewRate * TickElapsed(m)
               o == [type |-> "drive", velocity |-> v,
                     source |-> x.drive.source, age |-> x.drive.age,
                     token |-> x.drive.token, seq |-> x.drive.seq]
               e == Emit(x, TickElapsed(m))
    <2> HIDE DEF x
    <2>1. /\ x.velocity \in Velocity /\ x.drive.velocity \in Velocity
          /\ x.drive \in Drive /\ x.outputs \in Seq(Output)
      BY <1>1, FieldTypes
    <2>2. delta \in Nat
      BY <1>2, ConstantsAssumption
    <2>3. v \in Velocity
      BY <2>1, <2>2, SlewFacts
    <2>4. e = [x EXCEPT !.velocity = v, !.motionActive = (v # 0),
                        !.stopEmitted = (v = 0),
                        !.outputs = Append(x.outputs, o)]
      BY <1>1 DEF Emit, Manager
    <2> HIDE DEF v, e
    <2>5. o \in Output
      BY <2>1, <2>3 DEF Output, Drive
    <2> HIDE DEF o
    <2>6. Append(x.outputs, o) \in Seq(Output)
      BY <2>1, <2>5, AppendFacts
    <2>7. e \in Manager
      <3>1. (v # 0) \in BOOLEAN /\ (v = 0) \in BOOLEAN
        OBVIOUS
      <3> QED
        BY <1>1, <2>3, <2>4, <2>6, <3>1 DEF Manager
    <2>8. /\ e.sinceTick = x.sinceTick /\ e.closed = x.closed
          /\ e.lease = x.lease /\ e.outputs # <<>>
      BY <1>1, <2>1, <2>4, <2>5, AppendFacts DEF Manager
    <2>9. Keeps(x, e)
      BY <2>7, <2>8 DEF Keeps
    <2> QED
      BY <2>9 DEF e
  <1>6. DoTick(m) \in
          { ExpireIfNeeded(x), FailClosed(x, "readiness_stale"),
            EmitStop(x, "emergency_stop", FALSE), x,
            EmitStop(x, "deadman_released", FALSE), ExpireCommandIfNeeded(x) }
        \/ /\ DoTick(m) = Emit(x, TickElapsed(m))
           /\ HasLease(x) /\ HasDrive(x) /\ x.drive.deadman
    BY DEF DoTick, TickStart, TickElapsed
  <1> HIDE DEF x
  <1> QED
    BY <1>3, <1>4, <1>5, <1>6 DEF x

\* What a tick leaves on the wire.
TickKeepsQuiet ==
    wire'.type # "drive" /\ wire'.token = wire.token /\ wire'.seq = wire.seq

TickPutsDrive ==
    /\ HasLease(mgr) /\ HasDrive(mgr)
    /\ wire'.type = "drive"
    /\ wire'.token = mgr.drive.token /\ wire'.seq = mgr.drive.seq
    /\ wire'.source = mgr.drive.source /\ wire'.age = mgr.drive.age
    /\ mgr.drive.age < TimeoutOf(mgr.drive.source)
    /\ wire'.velocity =
          Slew(mgr.velocity, mgr.drive.velocity, SlewRate * TickElapsed(mgr))

LEMMA TickWire ==
    ASSUME IndInv, Tick
    PROVE  /\ TickKeepsQuiet \/ TickPutsDrive
           /\ mgr'.sinceTick = 0 /\ (mgr.closed => mgr'.closed)
           /\ mgr'.lease.token \in {mgr.lease.token, 0}
  <1> DEFINE x == TickStart(mgr)
             y == DoTick(mgr)
  <1>0. ManagerInv(mgr, issued, wire)
    BY DEF IndInv
  <1>1. mgr' = Drained(y) /\ wire' = Published(wire, y.outputs)
    BY DEF Tick
  <1>2. mgr \in Manager /\ mgr.drive \in Drive
    BY <1>0, FieldTypes DEF ManagerInv, Typed
  <1>3. /\ x.sinceTick = 0 /\ x.closed = mgr.closed /\ x.lease = mgr.lease
        /\ x.drive = mgr.drive /\ x.velocity = mgr.velocity /\ x \in Manager
        /\ x.outputs = mgr.outputs
    BY <1>2 DEF TickStart, Manager
  <1>4. Keeps(x, y)
    BY <1>0, KeepsTick
  <1>5. ASSUME TickStops(mgr, issued, wire) PROVE TickKeepsQuiet
    <2>1. ManagerInv(y, issued, wire) /\ LastCommand(y, wire).type # "drive"
      BY <1>5 DEF TickStops
    <2>2. TickKeepsQuiet
      BY <1>1, <2>1, PublishedFacts DEF TickKeepsQuiet
    <2> QED
      BY <2>2
  <1>6. ASSUME TickDrives(mgr) PROVE TickPutsDrive
    <2> DEFINE v == Slew(x.velocity, x.drive.velocity,
                         SlewRate * TickElapsed(mgr))
               o == [type |-> "drive", velocity |-> v,
                     source |-> x.drive.source, age |-> x.drive.age,
                     token |-> x.drive.token, seq |-> x.drive.seq]
    <2>1. /\ HasLease(x) /\ HasDrive(x) /\ x.drive.deadman
          /\ ~CommandExpired(x) /\ y = Emit(x, TickElapsed(mgr))
      BY <1>6 DEF TickDrives
    <2> HIDE DEF x, y
    <2>2. y.outputs = Append(x.outputs, o)
      BY <1>3, <2>1 DEF Emit, Manager
    <2>3. x.outputs \in Seq(Output)
      BY <1>3, FieldTypes
    <2>5. o.type = "drive"
      OBVIOUS
    <2> HIDE DEF o
    <2>4. Append(x.outputs, o) # <<>>
          /\ Append(x.outputs, o)[Len(Append(x.outputs, o))] = o
      BY <2>3
    <2>6. wire' = o
      BY <1>1, <2>2, <2>4, <2>5 DEF Published
    <2>7. ~(x.drive.age >= TimeoutOf(x.drive.source))
      BY <2>1 DEF CommandExpired
    <2>8. mgr.drive.age < TimeoutOf(mgr.drive.source)
      <3>1. mgr.drive.age \in Nat
        BY <1>2 DEF Drive
      <3>2. TimeoutOf(mgr.drive.source) \in Nat
        BY ConstantsAssumption DEF TimeoutOf
      <3> QED
        BY <1>3, <2>7, <3>1, <3>2
    <2>9. HasLease(mgr) /\ HasDrive(mgr)
      BY <1>3, <2>1 DEF HasLease, HasDrive
    <2>10. TickPutsDrive
      BY <1>3, <2>6, <2>8, <2>9 DEF TickPutsDrive, o, v
    <2> QED
      BY <2>10
  <1>7. TickKeepsQuiet \/ TickPutsDrive
    BY <1>0, <1>5, <1>6, TickCases
  <1>8. /\ mgr'.sinceTick = 0 /\ (mgr.closed => mgr'.closed)
        /\ mgr'.lease.token \in {mgr.lease.token, 0}
    <2> HIDE DEF x, y
    <2>1. y \in Manager
      BY <1>4 DEF Keeps
    <2>2. /\ Drained(y).sinceTick = y.sinceTick
          /\ Drained(y).closed = y.closed /\ Drained(y).lease = y.lease
      BY <2>1 DEF Drained, Manager
    <2> QED
      BY <1>1, <1>3, <1>4, <2>2 DEF Keeps
  <1> QED
    BY <1>7, <1>8

-----------------------------------------------------------------------------
(* The theorems.                                                           *)

\* Published drives never go back to an earlier lease or to an older input of
\* the same lease, whatever tokens and numbers the callers of the manager
\* present.
THEOREM DrivesStayInOrder == Spec => DrivesInOrder
  <1> DEFINE A == /\ wire'.token >= wire.token
                  /\ wire'.token = wire.token => wire'.seq >= wire.seq
  <1>1. ASSUME IndInv, Next PROVE A
    <2>0. ManagerInv(mgr, issued, wire)
      BY <1>1 DEF IndInv
    <2>1. wire \in Output /\ wire.token \in Nat /\ wire.seq \in Int
      BY <2>0, FieldTypes DEF ManagerInv, Typed
    <2>2. ASSUME wire'.token = wire.token, wire'.seq = wire.seq PROVE A
      BY <2>1, <2>2
    <2>3. ASSUME wire' = wire PROVE A
      BY <2>2, <2>3
    <2>4. ASSUME NEW source \in Sources, NEW nav \in BOOLEAN,
                 AcquireLease(source, nav) PROVE A
      BY <2>3, <2>4 DEF AcquireLease
    <2>5. CASE DrainOutputs
      BY <2>0, <2>2, <2>5, PublishedFacts DEF DrainOutputs
    <2>6. CASE Elapse
      BY <2>1, <2>2, <2>6, AgedWireFacts DEF Elapse, AgedWire
    <2>7. CASE Tick
      <3>1. CASE TickKeepsQuiet
        BY <2>2, <3>1 DEF TickKeepsQuiet
      <3>2. CASE TickPutsDrive
        <4>1. mgr.drive.token = mgr.lease.token
          BY <2>0, <3>2 DEF ManagerInv, IntentPart, TickPutsDrive
        <4>2. /\ wire.token <= mgr.lease.token
              /\ wire.token = mgr.lease.token => wire.seq <= mgr.drive.seq
          BY <2>0, <3>2 DEF ManagerInv, OrderPart, TickPutsDrive
        <4>3. mgr.drive.seq \in Int /\ mgr.lease.token \in Nat
          BY <2>0, FieldTypes DEF ManagerInv, Typed
        <4> QED
          BY <2>1, <3>2, <4>1, <4>2, <4>3 DEF TickPutsDrive
      <3> QED
        BY <1>1, <2>7, <3>1, <3>2, TickWire
    <2> QED
      BY <1>1, <2>3, <2>4, <2>5, <2>6, <2>7, StepCases
  <1>2. IndInv /\ [Next]_vars => [A]_vars
    BY <1>1
  <1> QED
    BY <1>2, Inductive, PTL DEF Spec, DrivesInOrder

\* A lease that replaces another one, possibly inside the same call, starts
\* unbound and still, with no intent of its predecessor.
THEOREM HandoversStartStill == Spec => HandoverStartsStill
  <1> DEFINE A == HasLease(mgr)' /\ mgr'.lease.token # mgr.lease.token =>
                    /\ mgr'.lease.binding = NoBinding /\ ~HasDrive(mgr)'
                    /\ LastCommand(mgr, wire)'.type # "drive"
  <1>1. ASSUME IndInv, IndInv', Next PROVE A
    <2>1. ASSUME mgr'.lease.token \in {mgr.lease.token, 0} PROVE A
      BY <2>1 DEF HasLease
    <2>2. ASSUME mgr'.lease.binding = NoBinding, ~HasDrive(mgr') PROVE A
      <3>1. LastCommand(mgr, wire)'.type # "drive"
        BY <1>1, <2>2 DEF IndInv, ManagerInv, OwnerPart
      <3> QED
        BY <2>2, <3>1
    <2>3. CASE Keeps(mgr, mgr')
      BY <2>1, <2>3 DEF Keeps
    <2>4. ASSUME NEW source \in Sources, NEW nav \in BOOLEAN,
                 AcquireLease(source, nav) PROVE A
      BY <1>1, <2>2, <2>3, <2>4, AcquireFacts
    <2>5. CASE DrainOutputs
      <3>1. mgr \in Manager
        BY <1>1 DEF IndInv, ManagerInv, Typed
      <3>2. mgr'.lease = mgr.lease
        BY <2>5, <3>1 DEF DrainOutputs, Drained, Manager
      <3> QED
        BY <2>1, <3>2
    <2>6. CASE Elapse
      <3>1. mgr \in Manager /\ mgr.lease \in Lease
        BY <1>1, FieldTypes DEF IndInv, ManagerInv, Typed
      <3>2. mgr'.lease.token = mgr.lease.token
        BY <2>6, <3>1 DEF Elapse, Aged, Manager, Lease
      <3> QED
        BY <2>1, <3>2
    <2>7. CASE Tick
      BY <1>1, <2>1, <2>7, TickWire
    <2> QED
      BY <1>1, <2>3, <2>4, <2>5, <2>6, <2>7, StepCases
  <1>2. IndInv /\ IndInv' /\ [Next]_vars => [A]_vars
    BY <1>1
  <1> QED
    BY <1>2, Inductive, PTL DEF Spec, HandoverStartsStill

-----------------------------------------------------------------------------
(* The refinement: ControlManager implements ControlLease.                 *)

\* When a drive is the newest command it is the live lease's.
TokenPart(m, w) ==
    m.outputs = <<>> /\ w.type = "drive" => w.token = m.lease.token

LEMMA NewestFacts ==
    ASSUME NEW m, NEW w, OwnerPart(m, w), TokenPart(m, w)
    PROVE  /\ NewestDrive(m, w) \in {0, m.lease.token}
           /\ m.lease.token = 0 => NewestDrive(m, w) = 0
           /\ ~HasDrive(m) => NewestDrive(m, w) = 0
  <1>1. LastCommand(m, w).type = "drive" =>
          m.outputs = <<>> /\ HasLease(m) /\ HasDrive(m)
    BY DEF OwnerPart, LastCommand
  <1>2. m.outputs = <<>> => LastCommand(m, w) = w
    BY DEF LastCommand
  <1> QED
    BY <1>1, <1>2 DEF NewestDrive, TokenPart, HasLease

\* The newest drive stays the live lease's.
LEMMA TokenStep ==
    ASSUME IndInv, IndInv', TokenPart(mgr, wire), Next
    PROVE  TokenPart(mgr, wire)'
  <1>0. ManagerInv(mgr, issued, wire) /\ ManagerInv(mgr, issued, wire)'
    BY DEF IndInv
  <1>1. OwnerPart(mgr, wire)'
    BY <1>0 DEF ManagerInv
  <1>2. mgr'.outputs = <<>> /\ wire'.type = "drive" => HasLease(mgr')
    BY <1>1 DEF OwnerPart, LastCommand
  <1>3. CASE Keeps(mgr, mgr') /\ UNCHANGED <<issued, wire>>
    BY <1>2, <1>3 DEF Keeps, TokenPart, HasLease
  <1>4. ASSUME NEW source \in Sources, NEW nav \in BOOLEAN,
               AcquireLease(source, nav)
        PROVE  TokenPart(mgr, wire)'
    <2>1. CASE Keeps(mgr, mgr') /\ issued' = issued
      BY <1>3, <1>4, <2>1, AcquireFacts
    <2>2. CASE ~HasDrive(mgr')
      <3>1. ~(mgr'.outputs = <<>> /\ wire'.type = "drive")
        BY <1>1, <2>2 DEF OwnerPart, LastCommand
      <3> QED
        BY <3>1 DEF TokenPart
    <2> QED
      BY <1>4, <2>1, <2>2, AcquireFacts
  <1>5. CASE DrainOutputs
    <2>1. mgr \in Manager
      BY <1>0 DEF ManagerInv, Typed
    <2>2. mgr'.lease = mgr.lease /\ wire' = Published(wire, mgr.outputs)
      BY <1>5, <2>1 DEF DrainOutputs, Drained, Manager
    <2>3. CASE mgr.outputs = <<>>
      BY <2>2, <2>3 DEF Published, TokenPart
    <2>4. CASE mgr.outputs # <<>>
      <3>1. mgr.outputs[Len(mgr.outputs)].type # "drive"
        BY <1>0, <2>4 DEF ManagerInv, OwnerPart
      <3>2. LastCommand(mgr, wire).type # "drive"
        BY <2>4, <3>1 DEF LastCommand
      <3>3. wire'.type # "drive"
        BY <1>0, <2>2, <3>2, PublishedFacts
      <3> QED
        BY <3>3 DEF TokenPart
    <2> QED
      BY <2>3, <2>4
  <1>6. CASE Tick
    <2>1. CASE TickKeepsQuiet
      BY <2>1 DEF TickKeepsQuiet, TokenPart
    <2>2. CASE TickPutsDrive
      <3>1. wire'.token = mgr.lease.token
        BY <1>0, <2>2 DEF ManagerInv, IntentPart, TickPutsDrive
      <3>2. mgr'.lease.token \in {mgr.lease.token, 0}
        BY <1>6, TickWire
      <3> QED
        BY <1>2, <3>1, <3>2 DEF TokenPart, HasLease
    <2> QED
      BY <1>6, <2>1, <2>2, TickWire
  <1>7. CASE Elapse
    <2>1. mgr \in Manager /\ mgr.lease \in Lease /\ wire \in Output
      BY <1>0, FieldTypes DEF ManagerInv, Typed
    <2>2. mgr'.lease.token = mgr.lease.token /\ mgr'.outputs = mgr.outputs
      BY <1>7, <2>1 DEF Elapse, Aged, Manager, Lease
    <2>3. wire'.type = wire.type /\ wire'.token = wire.token
      BY <1>7, <2>1 DEF Elapse, Output
    <2> QED
      BY <2>2, <2>3 DEF TokenPart
  <1> QED
    BY <1>3, <1>4, <1>5, <1>6, <1>7, StepCases

\* What a step does to the lease: nothing, its end, or a new one.
LEMMA LeaseStep ==
    ASSUME IndInv, Next
    PROVE  \/ /\ mgr'.lease.token \in {mgr.lease.token, 0}
              /\ issued' = issued
           \/ /\ mgr'.lease.token = issued + 1 /\ issued' = issued + 1
              /\ ~HasDrive(mgr')
  <1>1. CASE Keeps(mgr, mgr') /\ UNCHANGED <<issued, wire>>
    BY <1>1 DEF Keeps
  <1>2. ASSUME NEW source \in Sources, NEW nav \in BOOLEAN,
               AcquireLease(source, nav)
        PROVE  \/ mgr'.lease.token \in {mgr.lease.token, 0} /\ issued' = issued
               \/ /\ mgr'.lease.token = issued + 1 /\ issued' = issued + 1
                  /\ ~HasDrive(mgr')
    BY <1>2, AcquireFacts DEF Keeps
  <1>3. mgr \in Manager /\ mgr.lease \in Lease
    BY FieldTypes DEF IndInv, ManagerInv, Typed
  <1>4. CASE DrainOutputs
    BY <1>3, <1>4 DEF DrainOutputs, Drained, Manager
  <1>5. CASE Tick
    <2>1. issued' = issued
      BY <1>5 DEF Tick
    <2> QED
      BY <1>5, <2>1, TickWire
  <1>6. CASE Elapse
    <2>1. mgr'.lease.token = mgr.lease.token
      BY <1>3, <1>6 DEF Elapse, Aged, Manager, Lease
    <2>2. issued' = issued
      BY <1>6 DEF Elapse
    <2> QED
      BY <2>1, <2>2
  <1> QED
    BY <1>1, <1>2, <1>4, <1>5, <1>6, StepCases

\* The control manager implements the abstract lease: whatever its callers
\* do, its behaviour is one of ControlLease, in which one holder follows the
\* other and every lease ends together with its motion.
THEOREM ManagerKeepsItsPromise == Spec => KeepsPromise
  <1> DEFINE Inv == IndInv /\ TokenPart(mgr, wire)
  <1>1. Init => Promise!Init /\ TokenPart(mgr, wire)
    BY NullTypes DEF Init, Promise!Init, NewestDrive, LastCommand, StillOutput,
       TokenPart
  <1>2. ASSUME Inv, Inv', [Next]_vars PROVE [Promise!Next]_(Promise!lease)
    <2>1. CASE UNCHANGED vars
      <3>1. UNCHANGED Promise!lease
        BY <2>1 DEF vars, Promise!lease, NewestDrive, LastCommand
      <3> QED
        BY <3>1
    <2>2. CASE Next
      <3> DEFINE t == mgr.lease.token
                 n == NewestDrive(mgr, wire)
      <3>1. n' \in {0, t'} /\ (t' = 0 => n' = 0) /\ (~HasDrive(mgr') => n' = 0)
        <4>1. OwnerPart(mgr', wire') /\ TokenPart(mgr', wire')
          BY <1>2 DEF IndInv, ManagerInv
        <4> QED
          BY <4>1, NewestFacts
      <3>3. CASE t' = issued + 1 /\ issued' = issued + 1 /\ ~HasDrive(mgr')
        <4>1. Promise!Grant
          BY <3>1, <3>3 DEF Promise!Grant
        <4> QED
          BY <4>1 DEF Promise!Next
      <3>4. CASE t' = t /\ issued' = issued
        <4>1. CASE n' = 0
          BY <3>4, <4>1 DEF Promise!Next, Promise!Still
        <4>2. CASE n' = t /\ t # 0
          BY <3>4, <4>2 DEF Promise!Next, Promise!Drive
        <4> QED
          BY <3>1, <3>4, <4>1, <4>2
      <3>5. CASE t' = 0 /\ t # 0 /\ issued' = issued
        BY <3>1, <3>5 DEF Promise!Next, Promise!Revoke
      <3> QED
        BY <1>2, <2>2, <3>3, <3>4, <3>5, LeaseStep
    <2> QED
      BY <1>2, <2>1, <2>2
  <1>3. IndInv /\ IndInv' /\ TokenPart(mgr, wire) /\ [Next]_vars
          => TokenPart(mgr, wire)'
    <2>1. CASE UNCHANGED vars
      BY <2>1 DEF vars, TokenPart
    <2> QED
      BY <2>1, TokenStep
  <1>4. IndInv /\ IndInv' /\ TokenPart(mgr, wire) /\ TokenPart(mgr, wire)'
          /\ [Next]_vars => [Promise!Next]_(Promise!lease)
    BY <1>2
  <1> QED
    BY <1>1, <1>3, <1>4, Inductive, PTL DEF Spec, KeepsPromise, Promise!Spec

\* The time the next tick may integrate over never exceeds its cap.
ClockInv == mgr.sinceTick <= MaxElapsed

\* How the clock of the manager moves when time passes.
LEMMA ElapseClock ==
    ASSUME IndInv, Elapse
    PROVE  /\ mgr'.closed = mgr.closed
           /\ mgr'.sinceTick = IF mgr.sinceTick = -1 THEN -1
                               ELSE IF mgr.sinceTick < MaxElapsed
                                    THEN mgr.sinceTick + 1 ELSE mgr.sinceTick
  <1>1. mgr \in Manager /\ mgr' = Aged(mgr)
    BY DEF IndInv, ManagerInv, Typed, Elapse
  <1> QED
    BY <1>1 DEF Aged, Older, Manager

\* Draining leaves the clock alone.
LEMMA DrainClock ==
    ASSUME IndInv, DrainOutputs
    PROVE  mgr'.sinceTick = mgr.sinceTick /\ mgr'.closed = mgr.closed
  <1>1. mgr \in Manager /\ mgr' = Drained(mgr)
    BY DEF IndInv, ManagerInv, Typed, DrainOutputs
  <1> QED
    BY <1>1 DEF Drained, Manager

LEMMA ClockStays == Spec => []ClockInv
  <1>1. Init => ClockInv
    <2>1. -1 <= MaxElapsed
      BY ConstantsAssumption
    <2> QED
      BY <2>1 DEF Init, ClockInv
  <1>2. ASSUME IndInv, ClockInv, Next PROVE ClockInv'
    <2>0. mgr.sinceTick \in Int /\ MaxElapsed \in Nat
      BY <1>2, ConstantsAssumption DEF IndInv, ManagerInv, Typed, Manager
    <2>1. ASSUME mgr'.sinceTick = mgr.sinceTick PROVE ClockInv'
      BY <1>2, <2>1 DEF ClockInv
    <2>2. CASE Keeps(mgr, mgr')
      BY <2>1, <2>2 DEF Keeps
    <2>3. ASSUME NEW source \in Sources, NEW nav \in BOOLEAN,
                 AcquireLease(source, nav) PROVE ClockInv'
      BY <1>2, <2>1, <2>3, AcquireFacts
    <2>4. CASE DrainOutputs
      BY <1>2, <2>1, <2>4, DrainClock
    <2>5. CASE Tick
      BY <1>2, <2>0, <2>5, TickWire DEF ClockInv
    <2>6. CASE Elapse
      BY <1>2, <2>0, <2>6, ElapseClock DEF ClockInv
    <2> QED
      BY <1>2, <2>2, <2>3, <2>4, <2>5, <2>6, StepCases
  <1>3. ClockInv /\ UNCHANGED vars => ClockInv'
    BY DEF ClockInv, vars
  <1>4. IndInv /\ ClockInv /\ [Next]_vars => ClockInv'
    BY <1>2, <1>3
  <1> QED
    BY <1>1, <1>4, Inductive, PTL DEF Spec

\* A longer time allows a longer slew step.
LEMMA ScaleMonotone ==
    ASSUME NEW a \in Nat, NEW b \in Nat, NEW c \in Nat, b <= c
    PROVE  a * b <= a * c
  <1>1. PICK d \in Nat : c = b + d
    <2>1. c - b \in Nat /\ c = b + (c - b)
      OBVIOUS
    <2> QED
      BY <2>1
  <1>2. a * c = a * b + a * d /\ a * d \in Nat /\ a * b \in Nat
    BY <1>1
  <1> QED
    BY <1>2

\* A tick changes the commanded velocity by at most one slew step from the
\* newest command before it, across lease changes and stops.
THEOREM RampsAreBounded == Spec => RampBounded
  <1> DEFINE A ==
        Tick /\ wire'.type = "drive" =>
          LET step == wire'.velocity - LastCommand(mgr, wire).velocity
          IN  -(SlewRate * MaxElapsed) <= step /\ step <= SlewRate * MaxElapsed
  <1>1. ASSUME IndInv, ClockInv, Tick, wire'.type = "drive"
        PROVE  LET step == wire'.velocity - LastCommand(mgr, wire).velocity
               IN  /\ -(SlewRate * MaxElapsed) <= step
                   /\ step <= SlewRate * MaxElapsed
    <2> DEFINE delta == SlewRate * TickElapsed(mgr)
               cap == SlewRate * MaxElapsed
               v == Slew(mgr.velocity, mgr.drive.velocity, delta)
    <2>0. ManagerInv(mgr, issued, wire)
      BY <1>1 DEF IndInv
    <2>1. /\ mgr.velocity \in Velocity /\ mgr.drive.velocity \in Velocity
          /\ Velocity \subseteq Int
      BY <2>0, FieldTypes DEF ManagerInv, Typed
    <2>2. LastCommand(mgr, wire).velocity = mgr.velocity
      BY <2>0 DEF ManagerInv, SpeedPart
    <2>3. wire'.velocity = v
      BY <1>1, TickWire DEF TickKeepsQuiet, TickPutsDrive
    <2>4. TickElapsed(mgr) \in Nat /\ TickElapsed(mgr) <= MaxElapsed
      BY <1>1, <2>0, ConstantsAssumption
      DEF TickElapsed, ClockInv, ManagerInv, Typed, Manager
    <2>5. delta \in Nat /\ cap \in Nat /\ delta <= cap
      BY <2>4, ScaleMonotone, ConstantsAssumption
    <2> HIDE DEF delta
    <2>6. v \in Velocity /\ v - mgr.velocity <= delta
          /\ mgr.velocity - v <= delta
      BY <2>1, <2>5, SlewFacts
    <2> HIDE DEF v, cap
    <2>7. -cap <= v - mgr.velocity /\ v - mgr.velocity <= cap
      <3>1. v \in Int /\ mgr.velocity \in Int
        BY <2>1, <2>6
      <3>2. ASSUME NEW a \in Int, NEW b \in Int, NEW c \in Nat, NEW d \in Nat,
                   a - b <= d, b - a <= d, d <= c
            PROVE  -c <= a - b /\ a - b <= c
        BY <3>2
      <3> QED
        BY <2>5, <2>6, <3>1, <3>2
    <2> QED
      BY <2>2, <2>3, <2>7 DEF cap
  <1>2. IndInv /\ ClockInv /\ [Next]_vars => [A]_vars
    BY <1>1
  <1> QED
    BY <1>2, Inductive, ClockStays, PTL DEF Spec, RampBounded

\* The watchdog's induction: the drive on the wire is younger than its
\* timeout plus the time since the last tick, which is at most one period.
WatchdogInv ==
    ~mgr.closed =>
        /\ mgr.sinceTick <= TickPeriod
        /\ wire.type = "drive" =>
              /\ mgr.sinceTick # -1
              /\ wire.age < TimeoutOf(wire.source) + mgr.sinceTick

\* With a timer that ticks at least every TickPeriod, no longer than the cap
\* MaxElapsed on the time of one tick, a drive is on the wire for less than
\* its source's command timeout plus one period.
THEOREM WatchdogHolds ==
    ASSUME TickPeriod <= MaxElapsed
    PROVE  Spec => []WatchdogBound
  <1>1. Init => WatchdogInv
    <2>1. -1 <= TickPeriod
      BY ConstantsAssumption
    <2> QED
      BY <2>1 DEF Init, WatchdogInv, StillOutput
  <1>2. ASSUME IndInv, WatchdogInv, Next PROVE WatchdogInv'
    <2>0. /\ mgr.sinceTick \in Nat \cup {-1} /\ MaxElapsed \in Nat
          /\ TickPeriod \in Nat /\ wire \in Output /\ wire.age \in Nat
          /\ TimeoutOf(wire.source) \in Nat /\ LongestTimeout \in Nat
      BY <1>2, LongestTimeoutNat, ConstantsAssumption
      DEF IndInv, ManagerInv, Typed, Manager, Output, TimeoutOf
    <2>1. ASSUME mgr'.sinceTick = mgr.sinceTick, mgr.closed => mgr'.closed,
                 wire' = wire
          PROVE  WatchdogInv'
      BY <1>2, <2>1 DEF WatchdogInv
    <2>2. CASE Keeps(mgr, mgr') /\ UNCHANGED <<issued, wire>>
      BY <2>1, <2>2 DEF Keeps
    <2>3. ASSUME NEW source \in Sources, NEW nav \in BOOLEAN,
                 AcquireLease(source, nav) PROVE WatchdogInv'
      BY <1>2, <2>1, <2>3, AcquireFacts
    <2>4. CASE DrainOutputs
      <3>1. mgr'.sinceTick = mgr.sinceTick /\ mgr'.closed = mgr.closed
        BY <1>2, <2>4, DrainClock
      <3>2. wire' = Published(wire, mgr.outputs)
        BY <2>4 DEF DrainOutputs
      <3>3. CASE mgr.outputs = <<>>
        BY <2>1, <3>1, <3>2, <3>3 DEF Published
      <3>4. CASE mgr.outputs # <<>>
        <4>1. LastCommand(mgr, wire).type # "drive"
          BY <1>2, <3>4 DEF IndInv, ManagerInv, OwnerPart, LastCommand
        <4>2. wire'.type # "drive"
          BY <1>2, <3>2, <4>1, PublishedFacts DEF IndInv
        <4> QED
          BY <1>2, <3>1, <4>2 DEF WatchdogInv
      <3> QED
        BY <3>3, <3>4
    <2>5. CASE Tick
      <3>1. mgr'.sinceTick = 0
        BY <1>2, <2>5, TickWire
      <3>2. CASE TickKeepsQuiet
        BY <2>0, <3>1, <3>2 DEF TickKeepsQuiet, WatchdogInv
      <3>3. CASE TickPutsDrive
        <4>1. mgr.drive.age \in Nat /\ TimeoutOf(mgr.drive.source) \in Nat
          <5>1. mgr.drive \in Drive
            BY <1>2, FieldTypes DEF IndInv, ManagerInv, Typed
          <5> QED
            BY <5>1, ConstantsAssumption DEF Drive, TimeoutOf
        <4>2. wire'.age < TimeoutOf(wire'.source) + mgr'.sinceTick
          BY <3>1, <3>3, <4>1 DEF TickPutsDrive
        <4> QED
          BY <2>0, <3>1, <4>2 DEF WatchdogInv, TimeoutOf
      <3> QED
        BY <1>2, <2>5, <3>2, <3>3, TickWire
    <2>6. CASE Elapse
      <3> SUFFICES ASSUME ~mgr'.closed PROVE WatchdogInv'
        BY DEF WatchdogInv
      <3>1. /\ mgr'.closed = mgr.closed
            /\ mgr'.sinceTick = IF mgr.sinceTick = -1 THEN -1
                                ELSE IF mgr.sinceTick < MaxElapsed
                                     THEN mgr.sinceTick + 1 ELSE mgr.sinceTick
        BY <1>2, <2>6, ElapseClock
      <3>2. mgr.sinceTick < TickPeriod
        BY <2>6, <3>1 DEF Elapse
      <3>3. /\ mgr'.sinceTick <= TickPeriod
            /\ mgr.sinceTick # -1 => mgr'.sinceTick = mgr.sinceTick + 1
            /\ mgr.sinceTick = -1 => mgr'.sinceTick = -1
        BY <2>0, <3>1, <3>2
      <3>4. /\ wire'.type = wire.type /\ wire'.source = wire.source
            /\ wire'.age <= wire.age + 1 /\ wire'.age \in Nat
        <4>1. wire' = AgedWire(wire)
          BY <2>6 DEF Elapse, AgedWire
        <4>2. wire'.type = wire.type /\ wire'.source = wire.source
          BY <2>0, <4>1, AgedWireFacts
        <4>3. wire'.age = IF wire.type = "drive"
                          THEN Older(wire.age, LongestTimeout + MaxElapsed)
                          ELSE wire.age
          BY <2>0, <4>1 DEF AgedWire, Output
        <4> QED
          BY <2>0, <4>2, <4>3 DEF Older
      <3>5. wire'.type = "drive" =>
              /\ mgr'.sinceTick # -1
              /\ wire'.age < TimeoutOf(wire'.source) + mgr'.sinceTick
        <4> SUFFICES ASSUME wire'.type = "drive"
                     PROVE  /\ mgr'.sinceTick # -1
                            /\ wire'.age < TimeoutOf(wire'.source)
                                              + mgr'.sinceTick
          OBVIOUS
        <4>1. /\ mgr.sinceTick # -1
              /\ wire.age < TimeoutOf(wire.source) + mgr.sinceTick
          BY <1>2, <3>1, <3>4 DEF WatchdogInv
        <4>2. TimeoutOf(wire'.source) = TimeoutOf(wire.source)
          BY <3>4
        <4> QED
          BY <2>0, <3>3, <3>4, <4>1, <4>2
      <3> QED
        BY <3>3, <3>5 DEF WatchdogInv, TimeoutOf
    <2> QED
      BY <1>2, <2>2, <2>3, <2>4, <2>5, <2>6, StepCases
  <1>3. WatchdogInv /\ UNCHANGED vars => WatchdogInv'
    BY DEF WatchdogInv, vars
  <1>4. IndInv /\ WatchdogInv /\ [Next]_vars => WatchdogInv'
    BY <1>2, <1>3
  <1>5. IndInv /\ WatchdogInv => WatchdogBound
    <2> SUFFICES ASSUME IndInv, WatchdogInv, wire.type = "drive", ~mgr.closed
                 PROVE  wire.age < TimeoutOf(wire.source) + TickPeriod
      BY DEF WatchdogBound
    <2>1. /\ mgr.sinceTick <= TickPeriod
          /\ wire.age < TimeoutOf(wire.source) + mgr.sinceTick
      BY DEF WatchdogInv
    <2>2. /\ mgr.sinceTick \in Int /\ TickPeriod \in Nat /\ wire.age \in Nat
          /\ TimeoutOf(wire.source) \in Nat
      BY ConstantsAssumption
      DEF IndInv, ManagerInv, Typed, Manager, Output, TimeoutOf
    <2> QED
      BY <2>1, <2>2
  <1> QED
    BY <1>1, <1>4, <1>5, Inductive, PTL DEF Spec
=============================================================================
