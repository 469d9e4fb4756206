----------------------------- MODULE ControlLink -----------------------------
(***************************************************************************)
(* The link between dashboard processes and the control bridge: class      *)
(* ControlTransport of src/robot_dashboard/ros/control_transport.py, the   *)
(* control calls of src/robot_dashboard/ros_agent.py that go through it,   *)
(* and the part of the bridge they rely on (sequence numbers, ownership,   *)
(* acknowledgement, the held drive; Go2BridgeCore has the rest).           *)
(*                                                                         *)
(* The network is a set: a status or a command may be lost, delayed,       *)
(* reordered and delivered again at any later time.  The limits on the age *)
(* of a message, the status timeout, the command watchdog and the bridge's *)
(* ownership timeout only shorten this, so each of them is a free choice   *)
(* here and no property below depends on them.                             *)
(*                                                                         *)
(* ControlManager is reduced to what the transport sees of it: whether it  *)
(* is ready, the lease that is alive, and the queued outputs.  Leases are  *)
(* numbered, and an output carries the lease it belongs to (history).      *)
(* The observation inhibit is left out: none is requested here.            *)
(*                                                                         *)
(* A dashboard process has a source id of its own, so a restarted          *)
(* dashboard is another member of Dashboards, one that has heard nothing.  *)
(***************************************************************************)
EXTENDS Integers, Sequences

CONSTANTS
    Dashboards,     \* source_id of the dashboard processes
    Modes,          \* transport modes: TRUE is UDP, FALSE is ROS
    RetiredMemory,  \* _retired_bridge_epochs keeps this many (16)
    HeardFirst,     \* TRUE: a bridge process is only replaced once every
                    \* dashboard has heard of it
    Counts,         \* how many outputs of a batch may be published before
                    \* publishing fails; a batch holds no more than three
    MaxEpoch,       \* bound: bridge processes
    MaxSeq,         \* bound: envelopes of one dashboard
    MaxLeases       \* bound: leases of one dashboard

NoDash == "nobody"

ASSUME LinkAssumption ==
    /\ NoDash \notin Dashboards
    /\ Modes \subseteq BOOLEAN /\ HeardFirst \in BOOLEAN
    /\ RetiredMemory \in Nat \ {0} /\ Counts \subseteq Nat
    /\ MaxEpoch \in Nat \ {0} /\ MaxSeq \in Nat /\ MaxLeases \in Nat

VARIABLES
    datagram,  \* transport_mode of every process is UDP
    dash,      \* the ControlTransport of each dashboard, with its manager
    bridge,    \* the running bridge process
    statuses   \* every status a bridge process has published

vars == <<datagram, dash, bridge, statuses>>

-----------------------------------------------------------------------------
(* Data.  Epochs are numbered in the order the bridge processes start;     *)
(* the code only compares them for equality.  Epoch 0 is the empty string. *)

\* An output of the manager.  lease is the lease a drive belongs to or a stop
\* ends (0: none), granted the bridge process known when it was granted.
Outputs == [type : {"stop", "drive", "action"}, lease : Nat, granted : Nat]
Out(type, x) == [type |-> type, lease |-> x.lease, granted |-> x.granted]

\* bridge_envelope: an output addressed to one bridge process.
Envelopes == [type : {"stop", "drive", "action"}, lease : Nat, granted : Nat,
              source : Dashboards, seq : Nat, epoch : Nat]
Envelope(x, out, i) ==
    [type |-> out.type, lease |-> out.lease, granted |-> out.granted,
     source |-> x.id, seq |-> x.seq + i, epoch |-> x.epoch]

\* _last_command_ack, and a status as far as the transport reads it.
NoAck == [source |-> NoDash, seq |-> -1, type |-> "none"]
Acks == [source : Dashboards \cup {NoDash}, seq : Nat \cup {-1},
         type : {"none", "stop", "drive", "action"}]
Statuses == [epoch : Nat, ack : Acks, observer : BOOLEAN]

\* _datagram_sync_pending.
NoPending == [epoch |-> 0, seq |-> -1]

\* lock is the holder of operation_lock across the drain and the publication
\* of a batch.  History: sent is every envelope published so far, lapse the
\* sequence number at which the last hand-off became due, since the sequence
\* number at which the lease was granted.
Threads == {"timer", "api"}
Dash == [id : Dashboards, epoch : Nat, retired : Seq(Nat), seq : Nat \cup {-1},
         received : BOOLEAN, syncEpoch : Nat, syncRequired : BOOLEAN,
         pending : [epoch : Nat, seq : Nat \cup {-1}], down : BOOLEAN,
         ready : BOOLEAN, lease : Nat, leases : Nat, granted : Nat,
         since : Nat \cup {-1},
         queue : Seq(Outputs), batch : [Threads -> Seq(Outputs)],
         lock : Threads \cup {"free"}, sent : SUBSET Envelopes,
         lapse : Nat \cup {-1}]

\* __init__.
DashInit(d) ==
    [id |-> d, epoch |-> 0, retired |-> <<>>, seq |-> -1, received |-> FALSE,
     syncEpoch |-> 0, syncRequired |-> datagram, pending |-> NoPending,
     down |-> FALSE, ready |-> FALSE, lease |-> 0, leases |-> 0, granted |-> 0,
     since |-> -1, queue |-> <<>>, batch |-> [t \in Threads |-> <<>>], lock |-> "free",
     sent |-> {}, lapse |-> -1]

\* The held drive; NoDrive when the bridge holds none.
NoDrive == [source |-> NoDash, lease |-> 0, granted |-> 0]

\* stops and ended (history): the highest sequence number of a stop accepted
\* from each dashboard, and the highest lease such a stop has ended.
Bridge == [epoch : Nat, observer : BOOLEAN, source : Dashboards \cup {NoDash},
           lastSeq : [Dashboards -> Nat \cup {-1}], ack : Acks,
           drive : [source : Dashboards \cup {NoDash}, lease : Nat,
                    granted : Nat],
           stops : [Dashboards -> Nat \cup {-1}], ended : [Dashboards -> Nat]]

\* A bridge process that has just started.
BridgeInit(epoch, observer) ==
    [epoch |-> epoch, observer |-> observer, source |-> NoDash,
     lastSeq |-> [d \in Dashboards |-> -1], ack |-> NoAck, drive |-> NoDrive,
     stops |-> [d \in Dashboards |-> -1], ended |-> [d \in Dashboards |-> 0]]

\* The status a bridge in state b publishes.
StatusOf(b) == [epoch |-> b.epoch, ack |-> b.ack, observer |-> b.observer]

Init ==
    /\ datagram \in Modes
    /\ dash = [d \in Dashboards |-> DashInit(d)]
    /\ bridge = BridgeInit(1, FALSE)
    /\ statuses = {StatusOf(bridge)}

-----------------------------------------------------------------------------
(* The transport, as operators on the object.                              *)

\* The manager without its lease.
Unleased(x) == [x EXCEPT !.lease = 0, !.granted = 0, !.since = -1]

\* The manager loses readiness: a live lease is revoked and a stop queued.
NotReady(x) ==
    [Unleased(x) EXCEPT
        !.ready = FALSE,
        !.queue = IF x.lease # 0 THEN Append(@, Out("stop", x)) ELSE @]

\* Mutant of Publish: a failure in the middle leaves the manager ready.
PublishIgnoresFailure(x, outs, n) ==
    IF outs = <<>> \/ x.down \/ x.epoch = 0 THEN x
    ELSE [x EXCEPT !.seq = @ + Len(outs),
                   !.sent = @ \cup {Envelope(x, outs[i], i) :
                                      i \in 1..(IF n < Len(outs) THEN n
                                                ELSE Len(outs))}]

\* _publish_outputs_result: publishing fails after n outputs, or succeeds
\* when there are no more than n.  The output that fails uses up a number,
\* the rest of the batch is dropped, and the stop the manager then queues is
\* left to the next flush.
Publish(x, outs, n) ==
    IF outs = <<>> \/ x.down \/ x.epoch = 0 THEN x
    ELSE LET good == IF n < Len(outs) THEN n ELSE Len(outs)
             used == IF good = Len(outs) THEN good ELSE good + 1
             y == [x EXCEPT !.seq = @ + used,
                            !.sent = @ \cup {Envelope(x, outs[i], i) :
                                               i \in 1..good}]
         IN  IF good = Len(outs) THEN y ELSE NotReady(y)

\* _publish_outputs_result returns TRUE for a non-empty batch.
Published(x, outs, n) == ~x.down /\ x.epoch # 0 /\ n >= Len(outs)

\* flush_outputs.
Flush(x, n) == Publish([x EXCEPT !.queue = <<>>], x.queue, n)

\* set_readiness.
SetReadiness(x, ready, n) ==
    Flush(IF ready THEN [x EXCEPT !.ready = TRUE] ELSE NotReady(x), n)

\* The part set_unready and update_staleness_locked have in common.
Lapse(x) ==
    LET y == [x EXCEPT !.received = FALSE]
    IN  IF datagram THEN [y EXCEPT !.syncRequired = TRUE, !.syncEpoch = 0,
                                   !.pending = NoPending, !.lapse = x.seq]
                    ELSE y

SetUnready(x, n) == SetReadiness(Lapse(x), FALSE, n)

\* update_staleness_locked.
UpdateStaleness(x, stale, n) ==
    IF ~stale THEN x
    ELSE SetReadiness(IF x.received THEN Lapse(x) ELSE x, FALSE, n)

Member(s, e) == \E i \in DOMAIN s : s[i] = e

\* Mutant of Retired: retired epochs are not looked at.
RetiredNever(x, epoch) == FALSE

\* status_callback rejects an epoch that this dashboard has seen replaced.
Retired(x, epoch) ==
    x.epoch # 0 /\ epoch # x.epoch /\ Member(x.retired, epoch)

\* The list slice [-16:].
LastOf(s, k) == IF Len(s) <= k THEN s ELSE SubSeq(s, Len(s) - k + 1, Len(s))

\* status_callback: a new epoch retires the old one, makes a hand-off due,
\* and revokes the lease with a stop addressed to the new process.
TakeEpoch(x, epoch, n) ==
    IF x.epoch = 0 \/ x.epoch = epoch
    THEN [x EXCEPT !.epoch = epoch, !.received = TRUE]
    ELSE SetReadiness(
           [x EXCEPT !.retired = IF Member(@, x.epoch) THEN @
                                 ELSE LastOf(Append(@, x.epoch), RetiredMemory),
                     !.syncEpoch = 0, !.syncRequired = TRUE,
                     !.pending = NoPending, !.lapse = x.seq,
                     !.epoch = epoch, !.received = TRUE],
           FALSE, n)

\* Mutant of Acknowledges: any stop of this dashboard will do.
AcknowledgesAnyStop(x, status) ==
    x.pending # NoPending /\ status.ack.source = x.id
    /\ status.ack.type = "stop"

\* The status acknowledges exactly the pending stop.
Acknowledges(x, status) ==
    /\ x.pending # NoPending /\ x.pending.epoch = status.epoch
    /\ status.ack = [source |-> x.id, seq |-> x.pending.seq, type |-> "stop"]

Synchronized(x, epoch) == ~x.syncRequired /\ x.syncEpoch = epoch

NoteAck(x, status) ==
    IF Acknowledges(x, status)
    THEN [x EXCEPT !.syncEpoch = status.epoch, !.syncRequired = FALSE,
                   !.pending = NoPending]
    ELSE x

\* The synchronising stop; due is FALSE while the last one is younger than
\* half a second.
SendHandoff(x, epoch, due, n) ==
    IF ~(x.pending = NoPending \/ x.pending.epoch # epoch \/ due) THEN x
    ELSE LET outs == <<[type |-> "stop", lease |-> 0, granted |-> 0]>>
             y == Publish(x, outs, n)
         IN  [y EXCEPT !.syncRequired = TRUE,
                       !.pending = IF Published(x, outs, n)
                                   THEN [epoch |-> epoch, seq |-> y.seq]
                                   ELSE NoPending]

\* status_callback with an authentic status.  healthy says that the bridge
\* and LowState are both ready in it.
StatusCallback(x, status, healthy, due, n, k) ==
    IF Retired(x, status.epoch) THEN SetUnready(x, n)
    ELSE LET y == TakeEpoch(x, status.epoch, n)
             z == NoteAck(y, status)
         IN  IF status.observer THEN SetReadiness(y, FALSE, n)
             ELSE IF ~datagram THEN SetReadiness(y, healthy, n)
             ELSE IF Synchronized(z, status.epoch)
             THEN SetReadiness(z, healthy, n)
             ELSE SendHandoff(SetReadiness(z, FALSE, n), status.epoch, due, k)

-----------------------------------------------------------------------------
(* Actions of a dashboard.  Every one of them runs under operation_lock.   *)

Free(x) == x.lock = "free"

TickMayStart(x) == Free(x)

\* Room for the envelopes one action can send.
Room(x) == x.seq + Len(x.queue) + 2 <= MaxSeq

Set(d, next) == /\ dash' = [dash EXCEPT ![d] = next]
                /\ UNCHANGED <<datagram, bridge, statuses>>

\* An authentic status arrives.
ReceiveStatus(d, status) ==
    \E healthy, due \in BOOLEAN, n, k \in Counts :
        /\ Free(dash[d]) /\ Room(dash[d]) /\ ~dash[d].down
        /\ Set(d, StatusCallback(dash[d], status, healthy, due, n, k))

\* A status or a datagram that is rejected, or a socket error.
RejectStatus(d) ==
    \E n \in Counts : /\ Free(dash[d]) /\ Room(dash[d]) /\ ~dash[d].down
                      /\ Set(d, SetUnready(dash[d], n))

\* control_acquire.
Acquire(d) ==
    /\ Free(dash[d]) /\ Room(dash[d]) /\ ~dash[d].down
    /\ dash[d].leases < MaxLeases
    /\ dash[d].ready /\ dash[d].lease = 0
    /\ \E n \in Counts :
         Set(d, Flush([dash[d] EXCEPT !.lease = dash[d].leases + 1,
                                      !.leases = @ + 1,
                                      !.granted = dash[d].epoch,
                                      !.since = dash[d].seq], n))

\* Mutant of Drain: the queue is drained outside the operation lock.
DrainUnlocked(x, thread, outs) ==
    [x EXCEPT !.queue = <<>>, !.batch[thread] = x.queue \o outs]

\* The batch of a thread that has drained the manager's queue and holds the
\* operation lock until it has published it.
Drain(x, thread, outs) ==
    [x EXCEPT !.queue = <<>>, !.batch[thread] = x.queue \o outs,
              !.lock = IF x.queue \o outs = <<>> THEN @ ELSE thread]

\* control_release, control_estop, a control_drive without deadman and
\* control_action end in a stop, and control_action in an action behind it.
\* A drive without deadman keeps the lease.
ApiStop(d, keep, action) ==
    LET x == dash[d]
        stop == IF keep THEN [type |-> "stop", lease |-> 0, granted |-> 0]
                        ELSE Out("stop", x)
    IN  /\ Free(x) /\ Room(x) /\ ~x.down
        /\ keep => x.lease # 0 /\ ~action
        /\ action => x.lease # 0
        /\ Set(d, Drain(IF keep THEN x ELSE Unleased(x), "api",
                        IF action THEN <<stop, Out("action", x)>>
                                  ELSE <<stop>>))

\* _control_tick up to its publication: staleness, then the manager's tick,
\* in which a lease may end, drive or stay quiet.
TickBegin(d) ==
    /\ TickMayStart(dash[d]) /\ Room(dash[d]) /\ ~dash[d].down
    /\ \E stale \in BOOLEAN, n \in Counts, outcome \in {"end", "drive", "quiet"} :
         /\ ~dash[d].received => stale
         /\ LET x == UpdateStaleness(dash[d], stale, n)
            IN  /\ outcome # "quiet" => x.lease # 0
                /\ Set(d, CASE outcome = "end" ->
                                 Drain(Unleased(x), "timer",
                                       <<Out("stop", x)>>)
                            [] outcome = "drive" ->
                                 Drain(x, "timer", <<Out("drive", x)>>)
                            [] OTHER -> Drain(x, "timer", <<>>))

\* The publication of a drained batch, and the release of the lock.
PublishBatch(d, thread) ==
    /\ dash[d].batch[thread] # <<>>
    /\ \E n \in Counts :
         Set(d, [Publish(dash[d], dash[d].batch[thread], n) EXCEPT
                   !.batch[thread] = <<>>,
                   !.lock = IF @ = thread THEN "free" ELSE @])

\* shutdown: the manager is closed and its last stop published.
Shutdown(d) ==
    /\ Free(dash[d]) /\ Room(dash[d]) /\ ~dash[d].down
    /\ \E n \in Counts :
         LET x == [Unleased(dash[d]) EXCEPT !.ready = FALSE, !.queue = <<>>]
         IN  Set(d, [Publish(x, dash[d].queue \o <<Out("stop", dash[d])>>, n)
                       EXCEPT !.down = TRUE, !.queue = <<>>])

-----------------------------------------------------------------------------
(* Actions of the bridge.                                                  *)

\* Mutant of MayClaim: sequence numbers are not compared.
MayClaimReplayed(b, cmd, idle) ==
    /\ cmd.epoch = b.epoch
    /\ cmd.type = "stop" \/ b.source \in {NoDash, cmd.source} \/ idle

\* _accept_source; idle says that the owner has been silent for too long.
MayClaim(b, cmd, idle) ==
    /\ cmd.epoch = b.epoch
    /\ cmd.seq > b.lastSeq[cmd.source]
    /\ cmd.type = "stop" \/ b.source \in {NoDash, cmd.source} \/ idle

\* accept of an admissible command.
Accept(b, cmd) ==
    [b EXCEPT !.source = cmd.source, !.lastSeq[cmd.source] = cmd.seq,
              !.ack = [source |-> cmd.source, seq |-> cmd.seq,
                       type |-> cmd.type],
              !.drive = IF cmd.type = "drive"
                        THEN [source |-> cmd.source, lease |-> cmd.lease,
                              granted |-> cmd.granted] ELSE NoDrive,
              !.stops[cmd.source] = IF cmd.type = "stop" THEN cmd.seq ELSE @,
              !.ended[cmd.source] = IF cmd.type = "stop" /\ cmd.lease > @
                                    THEN cmd.lease ELSE @]

\* The bridge receives a command; it answers a rejection by a forced stop.
ReceiveCommand(cmd) ==
    /\ ~bridge.observer
    /\ \E idle \in BOOLEAN :
         bridge' = IF MayClaim(bridge, cmd, idle) THEN Accept(bridge, cmd)
                   ELSE [bridge EXCEPT !.drive = NoDrive]
    /\ statuses' = statuses \cup {StatusOf(bridge')}
    /\ UNCHANGED <<datagram, dash>>

\* The watchdog, a fault or lost readiness ends the held drive.
Watchdog ==
    /\ bridge.drive # NoDrive
    /\ bridge' = [bridge EXCEPT !.drive = NoDrive]
    /\ UNCHANGED <<datagram, dash, statuses>>

\* The bridge process is replaced, perhaps by a motion observer.
Restart(observer) ==
    /\ bridge.epoch < MaxEpoch
    /\ HeardFirst => \A d \in Dashboards : dash[d].epoch = bridge.epoch
    /\ bridge' = BridgeInit(bridge.epoch + 1, observer)
    /\ statuses' = statuses \cup {StatusOf(bridge')}
    /\ UNCHANGED <<datagram, dash>>

DashboardStep(d) ==
    \/ \E status \in statuses : ReceiveStatus(d, status)
    \/ RejectStatus(d)
    \/ Acquire(d)
    \/ \E keep, action \in BOOLEAN : ApiStop(d, keep, action)
    \/ TickBegin(d)
    \/ \E thread \in Threads : PublishBatch(d, thread)
    \/ Shutdown(d)

BridgeStep ==
    \/ \E d \in Dashboards : \E cmd \in dash[d].sent : ReceiveCommand(cmd)
    \/ Watchdog
    \/ \E observer \in BOOLEAN : Restart(observer)

Next == BridgeStep \/ \E d \in Dashboards : DashboardStep(d)

Spec == Init /\ [][Next]_vars

-----------------------------------------------------------------------------
(* Properties.                                                             *)

\* Transports, bridge and network are well formed, and a drained batch is
\* only ever in the hands of the thread that holds the operation lock.
TypeOK == /\ datagram \in BOOLEAN
          /\ dash \in [Dashboards -> Dash]
          /\ \A d \in Dashboards, t \in Threads :
               dash[d].batch[t] # <<>> => dash[d].lock = t
          /\ bridge \in Bridge
          /\ statuses \subseteq Statuses

\* Over UDP, a dashboard is ready only if the bridge process it addresses has
\* accepted a stop that this dashboard sent after its connection last lapsed:
\* an acknowledgement that is late, repeated, or from before the lapse, or
\* that belongs to another process or dashboard, does not make it ready.
HandoffBeforeReady ==
    datagram =>
        \A d \in Dashboards :
            dash[d].ready /\ dash[d].epoch = bridge.epoch =>
                bridge.stops[d] > dash[d].lapse

\* Over UDP, the bridge holds a drive only of a dashboard that has taken the
\* bridge over with a stop before, in the life of this bridge process.
DriveAfterHandoff ==
    datagram /\ bridge.drive # NoDrive => bridge.stops[bridge.drive.source] >= 0

\* A lease does not survive the bridge process it was granted under: the
\* drive the bridge holds belongs to a lease granted after the dashboard had
\* heard of this very process.
LeaseOfThisBridge ==
    bridge.drive # NoDrive => bridge.drive.granted = bridge.epoch

\* Once the bridge has accepted the stop that ended a lease, no drive of that
\* lease or of an earlier one moves the robot, however late it arrives.
EndedLeaseStaysEnded ==
    bridge.drive # NoDrive =>
        bridge.drive.lease > bridge.ended[bridge.drive.source]

\* The terminal stop of a lease is numbered after all of its drives: a timer
\* tick that has drained a drive cannot publish it behind the stop of a
\* release that completed in between.
TerminalStopIsLast ==
    \A d \in Dashboards : \A stop, drive \in dash[d].sent :
        stop.type = "stop" /\ drive.type = "drive" /\ stop.lease >= drive.lease
            => drive.seq < stop.seq

\* A live lease has lost none of its outputs: when publishing fails, also in
\* the middle of a batch and also for the stop of a released deadman, the
\* lease is gone and the operator has to arm again.
LeaseHasNoGap ==
    \A d \in Dashboards : dash[d].lease # 0 =>
        \A i \in (dash[d].since + 1)..dash[d].seq :
            \E cmd \in dash[d].sent : cmd.seq = i

\* The epoch a dashboard addresses never goes back to an earlier process.
EpochForward ==
    [][\A d \in Dashboards : dash'[d].epoch >= dash[d].epoch]_vars
=============================================================================
