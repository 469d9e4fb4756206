---------------------------- MODULE Go2BridgeCore ----------------------------
(***************************************************************************)
(* The robot-side motion watchdog: class Go2BridgeCore of                  *)
(* src/robot_dashboard/go2_bridge.py inside the ROS node Go2ControlBridge  *)
(* of src/robot_dashboard/go2_control_bridge.py.  It accepts signed        *)
(* commands of dashboard processes, and on every tick of a 50 ms timer     *)
(* decides which Unitree sport requests (StopMove, Move, an action) to     *)
(* publish.  The node runs every callback under one lock, so receiving a   *)
(* command, a tick and the shutdown are atomic.                            *)
(*                                                                         *)
(* The object is one record, core; every method is an operator from the    *)
(* record before the call to the record after it.  Stamps are ages that    *)
(* stop growing one unit above the timeout they are compared with,         *)
(* deadlines are the time that remains.  Velocity is one signed axis.      *)
(*                                                                         *)
(* The robot is external: it is modelled from the requests the bridge      *)
(* sends it, and keeps the last motion it was asked to make.               *)
(***************************************************************************)
EXTENDS Integers, Sequences, FiniteSets

CONSTANTS
    SourceIds,       \* source_id of the dashboard processes
    Tokens,          \* observation inhibit tokens
    CommandTimeout,  \* command_timeout_s (0.20 s)
    SourceTimeout,   \* source_timeout_s (2.0 s)
    StopHeartbeat,   \* idle StopMove period (0.50 s)
    ActionDelay,     \* delay between StopMove and the action (0.10 s)
    ActionGuard,     \* window in which a drive in flight is dropped (0.25 s)
    HoldTimes,       \* the values of SAFE_ACTION_GUARD_S
    VMax,            \* velocity limit
    SourceMemory,    \* sources whose last sequence is remembered (16)
    TickPeriod,      \* the node's timer ticks at least this often
    MaxTick,         \* bound: time since the last tick that is told apart
    MaxSeq           \* bound: command sequence numbers

NoSource == "none"
NoToken  == "none"

ASSUME BridgeAssumption ==
    /\ SourceIds \subseteq STRING /\ NoSource \notin SourceIds
    /\ Tokens \subseteq STRING /\ NoToken \notin Tokens
    /\ CommandTimeout \in Nat /\ SourceTimeout \in Nat /\ StopHeartbeat \in Nat
    /\ CommandTimeout <= SourceTimeout
    /\ ActionDelay \in Nat /\ ActionGuard \in Nat
    /\ HoldTimes \subseteq Nat /\ VMax \in Nat /\ SourceMemory \in Nat \ {0}
    /\ TickPeriod \in Nat /\ MaxTick \in Nat /\ MaxSeq \in Nat

VARIABLES
    core,     \* the Go2BridgeCore object
    closing,  \* _closing of the node
    robot     \* external: the robot, as the requests it received leave it

vars == <<core, closing, robot>>

-----------------------------------------------------------------------------
(* Data.                                                                   *)

Velocity == (-VMax)..VMax
Commands == {"drive", "stop", "action"}

\* _last_command_ack and _observation_inhibit, with None as a record.
NoAck == [source |-> NoSource, seq |-> -1, type |-> "none"]
Ack == [source : SourceIds \cup {NoSource}, seq : Nat \cup {-1},
        type : Commands \cup {"none"}]
NoInhibit == [token |-> NoToken, source |-> NoSource, violated |-> FALSE]
Inhibit == [token : Tokens \cup {NoToken}, source : SourceIds \cup {NoSource},
            violated : BOOLEAN]

\* lastSeq and order together are the dictionary _last_seq_by_source and its
\* insertion order.  due is the delay left of _pending_action.  intent is the
\* source of the accepted drive (history, never read by the code).
Core == [source : SourceIds \cup {NoSource},
         lastSeq : [SourceIds -> Nat \cup {-1}], order : Seq(SourceIds),
         recvAge : Nat, ack : Ack, driveAge : Nat, target : Velocity,
         deadman : BOOLEAN, moving : BOOLEAN, pendingStop : BOOLEAN,
         pendingAction : BOOLEAN, due : Nat, guard : Nat, hold : Nat,
         stopAge : Nat, inhibit : Inhibit, intent : SourceIds \cup {NoSource},
         sinceTick : Nat]

\* Mutant of CoreInit: a new process does not begin with a stop.
CoreInitWithoutStop ==
    [source |-> NoSource, lastSeq |-> [s \in SourceIds |-> -1],
     order |-> <<>>, recvAge |-> SourceTimeout + 1, ack |-> NoAck,
     driveAge |-> CommandTimeout + 1, target |-> 0, deadman |-> FALSE,
     moving |-> FALSE, pendingStop |-> FALSE, pendingAction |-> FALSE,
     due |-> 0, guard |-> 0, hold |-> 0, stopAge |-> 0,
     inhibit |-> NoInhibit, intent |-> NoSource, sinceTick |-> 0]

\* __init__ of a bridge process.
CoreInit == [source |-> NoSource, lastSeq |-> [s \in SourceIds |-> -1],
             order |-> <<>>, recvAge |-> SourceTimeout + 1, ack |-> NoAck,
             driveAge |-> CommandTimeout + 1, target |-> 0, deadman |-> FALSE,
             moving |-> FALSE, pendingStop |-> TRUE, pendingAction |-> FALSE,
             due |-> 0, guard |-> 0, hold |-> 0, stopAge |-> StopHeartbeat,
             inhibit |-> NoInhibit, intent |-> NoSource, sinceTick |-> 0]

\* Sport requests: API_STOP_MOVE, API_MOVE with a velocity, an action.
StopMove == [api |-> "stop", velocity |-> 0]
Move(v) == [api |-> "move", velocity |-> v]
Action == [api |-> "action", velocity |-> 0]

-----------------------------------------------------------------------------
(* The methods, as operators on the object.                                *)

Inhibited(c) == c.inhibit.token # NoToken

\* Mutant of ForceStop: the state is reset but no stop is requested.
ForceStopSilently(c) ==
    [c EXCEPT !.inhibit.violated = @ \/ Inhibited(c),
              !.target = 0, !.deadman = FALSE, !.moving = FALSE,
              !.pendingAction = FALSE, !.due = 0, !.guard = 0, !.hold = 0]

\* force_stop.
ForceStop(c) ==
    [c EXCEPT !.inhibit.violated = @ \/ Inhibited(c),
              !.target = 0, !.deadman = FALSE, !.moving = FALSE,
              !.pendingAction = FALSE, !.due = 0, !.pendingStop = TRUE,
              !.guard = 0, !.hold = 0]

\* _accept_source: a source's sequence numbers increase, and only a stop may
\* take the bridge over from a source that was heard recently.
MayClaim(c, cmd) ==
    /\ cmd.seq > c.lastSeq[cmd.source]
    /\ \/ cmd.type = "stop"
       \/ c.source \in {NoSource, cmd.source}
       \/ c.recvAge > SourceTimeout

\* The dictionary update: the oldest entry makes room when there are more
\* than SourceMemory, unless it is the entry just written.
Claim(c, cmd) ==
    LET order == IF \E i \in DOMAIN c.order : c.order[i] = cmd.source
                 THEN c.order ELSE Append(c.order, cmd.source)
        evict == Len(order) > SourceMemory /\ Head(order) # cmd.source
        seqs  == [c.lastSeq EXCEPT ![cmd.source] = cmd.seq]
    IN  [c EXCEPT !.lastSeq = IF evict THEN [seqs EXCEPT ![Head(order)] = -1]
                                       ELSE seqs,
                  !.order = IF evict THEN Tail(order) ELSE order,
                  !.source = cmd.source, !.recvAge = 0]

\* _record_command_ack.
Acknowledge(c, cmd) ==
    [c EXCEPT !.ack = [source |-> cmd.source, seq |-> cmd.seq,
                       type |-> cmd.type]]

\* Mutant of AcceptInhibit: a refused request does not stop the robot.
AcceptInhibitLeniently(c, cmd) ==
    IF cmd.valid /\ cmd.enabled /\ ~Inhibited(c) /\ ~c.deadman /\ ~c.moving
       /\ c.target = 0 /\ ~c.pendingAction /\ c.guard = 0 /\ c.hold = 0
    THEN [c EXCEPT !.inhibit = [token |-> cmd.token, violated |-> FALSE,
                                source |-> cmd.source]]
    ELSE c

\* The tail of accept.  The node answers every rejection with force_stop, so
\* a branch that raises is the object at that point, forced to stop.
AcceptInhibit(c, cmd) ==
    IF /\ cmd.valid
       /\ Inhibited(c) => c.inhibit.token = cmd.token
                          /\ c.inhibit.source = cmd.source
       /\ IF cmd.enabled
          THEN /\ ~Inhibited(c)
               /\ ~c.deadman /\ ~c.moving /\ c.target = 0
               /\ ~c.pendingAction /\ c.guard = 0 /\ c.hold = 0
          ELSE Inhibited(c)
    THEN [c EXCEPT !.inhibit = IF cmd.enabled
                               THEN [token |-> cmd.token, violated |-> FALSE,
                                     source |-> cmd.source]
                               ELSE NoInhibit]
    ELSE ForceStop(c)

AcceptAction(c, cmd) ==
    IF Inhibited(c) \/ c.hold > 0 \/ ~cmd.valid THEN ForceStop(c)
    ELSE Acknowledge([c EXCEPT !.target = 0, !.deadman = FALSE,
                               !.pendingStop = TRUE, !.pendingAction = TRUE,
                               !.due = ActionDelay, !.hold = cmd.hold,
                               !.guard = ActionGuard], cmd)

Clamp(v) == IF v > VMax THEN VMax ELSE IF v < -VMax THEN -VMax ELSE v

AcceptDrive(c, cmd) ==
    IF Inhibited(c) THEN ForceStop(c)
    ELSE IF c.guard > 0 \/ c.hold > 0 THEN c
    ELSE IF ~cmd.valid THEN ForceStop(c)
    ELSE IF ~cmd.deadman THEN Acknowledge(ForceStop(c), cmd)
    ELSE Acknowledge([c EXCEPT !.target = Clamp(cmd.velocity),
                               !.deadman = TRUE, !.driveAge = cmd.age,
                               !.pendingAction = FALSE, !.due = 0,
                               !.guard = 0, !.intent = cmd.source], cmd)

\* accept, before and after the source is accepted.
Admissible(c, cmd) ==
    /\ cmd.sameEpoch
    /\ cmd.type # "stop" => cmd.age <= CommandTimeout
    /\ MayClaim(c, cmd)

\* _accept_command of the node: accept, or force_stop when it raises.
Accept(c, cmd) ==
    IF ~Admissible(c, cmd) THEN ForceStop(c)
    ELSE LET x == Claim(c, cmd)
         IN  CASE cmd.type = "observation_inhibit" -> AcceptInhibit(x, cmd)
               [] cmd.type = "stop"   -> Acknowledge(ForceStop(x), cmd)
               [] cmd.type = "action" -> AcceptAction(x, cmd)
               [] cmd.type = "drive"  -> AcceptDrive(x, cmd)

\* tick: the object and the requests, in the order the code builds them.
\* First, readiness loss stops an accepted drive or a running action.
LoseReadiness(c, ready) ==
    LET x == [c EXCEPT !.inhibit.violated = @ \/ (Inhibited(c) /\ ~ready)]
    IN  IF ~ready /\ (x.deadman \/ x.target # 0 \/ x.hold > 0)
        THEN ForceStop(x) ELSE x

SendPendingStop(c) ==
    [core |-> IF c.pendingStop
              THEN [c EXCEPT !.pendingStop = FALSE, !.stopAge = 0] ELSE c,
     requests |-> IF c.pendingStop THEN <<StopMove>> ELSE <<>>]

\* Mutant of Fresh: only the source has to be alive.
FreshBySourceOnly(c) == c.deadman /\ c.recvAge <= SourceTimeout

\* Mutant of Fresh: the deadman alone keeps the robot moving.
FreshByDeadman(c) == c.deadman

Fresh(c) == /\ c.deadman
            /\ c.driveAge <= CommandTimeout
            /\ c.recvAge <= SourceTimeout

\* The part of tick after the pending action: hold, Move or watchdog.
DriveOrWatch(c, requests, ready) ==
    IF c.hold > 0 THEN [core |-> c, requests |-> requests]
    ELSE IF ready /\ Fresh(c)
    THEN [core |-> [c EXCEPT !.moving = (c.target # 0)],
          requests |-> Append(requests, Move(c.target))]
    ELSE IF c.moving \/ c.stopAge >= StopHeartbeat
    THEN [core |-> [c EXCEPT !.moving = FALSE, !.deadman = FALSE,
                             !.target = 0, !.stopAge = 0],
          requests |-> Append(requests, StopMove)]
    ELSE [core |-> c, requests |-> requests]

DoTick(c, ready) ==
    LET s == SendPendingStop(LoseReadiness([c EXCEPT !.sinceTick = 0], ready))
        x == s.core
    IN  IF x.pendingAction /\ ~ready
        THEN DriveOrWatch(ForceStop(x), s.requests, ready)
        ELSE IF x.pendingAction /\ x.due = 0
        THEN [core |-> [x EXCEPT !.pendingAction = FALSE],
              requests |-> Append(s.requests, Action)]
        ELSE DriveOrWatch(x, s.requests, ready)

Older(age, limit) == IF age < limit THEN age + 1 ELSE age
Less(left) == IF left > 0 THEN left - 1 ELSE 0
Aged(c) ==
    [c EXCEPT !.recvAge = Older(@, SourceTimeout + 1),
              !.driveAge = Older(@, CommandTimeout + 1),
              !.stopAge = Older(@, StopHeartbeat),
              !.due = Less(@), !.guard = Less(@), !.hold = Less(@),
              !.sinceTick = Older(@, MaxTick)]

-----------------------------------------------------------------------------
(* The robot (external).  api is the last request; acting is what is left  *)
(* of the running action's window; driveAge is the age of the input behind *)
(* the last Move, and own tells whether the bridge process that runs now   *)
(* sent it; clash records a Move that arrived while an action ran.         *)

Robot == [api : {"none", "stop", "move", "action"}, velocity : Velocity,
          acting : Nat, driveAge : Nat, own : BOOLEAN, clash : BOOLEAN]
RobotInit == [api |-> "none", velocity |-> 0, acting |-> 0, driveAge |-> 0,
              own |-> FALSE, clash |-> FALSE]

\* The robot after one request published by the bridge in state c.
Perform(r, request, c) ==
    [api |-> request.api, velocity |-> request.velocity,
     acting |-> CASE request.api = "action" -> c.hold
                  [] request.api = "stop" -> 0
                  [] OTHER -> r.acting,
     driveAge |-> IF request.api = "move" THEN c.driveAge ELSE 0,
     own |-> request.api = "move",
     clash |-> r.clash \/ (request.api = "move" /\ r.acting > 0)]

\* A tick publishes at most two requests.
PerformAll(r, requests, c) ==
    CASE Len(requests) = 0 -> r
      [] Len(requests) = 1 -> Perform(r, requests[1], c)
      [] OTHER -> Perform(Perform(r, requests[1], c), requests[2], c)

-----------------------------------------------------------------------------
(* Actions.                                                                *)

\* Every field a dashboard can put into a command.  sameEpoch is FALSE for a
\* command signed for an earlier bridge process; age is transport_age_s.
CommandsFrom(source) ==
    [type : {"stop"}, source : {source}, seq : 0..MaxSeq,
     sameEpoch : BOOLEAN, age : {0, CommandTimeout + 1}]
    \cup
    [type : {"drive"}, source : {source}, seq : 0..MaxSeq,
     sameEpoch : BOOLEAN, age : 0..(CommandTimeout + 1), valid : BOOLEAN,
     deadman : BOOLEAN, velocity : {0, 1, VMax + 1}]
    \cup
    [type : {"action"}, source : {source}, seq : 0..MaxSeq,
     sameEpoch : {TRUE}, age : {0}, valid : BOOLEAN, hold : HoldTimes]
    \cup
    [type : {"observation_inhibit"}, source : {source}, seq : 0..MaxSeq,
     sameEpoch : {TRUE}, age : {0}, valid : BOOLEAN, token : Tokens,
     enabled : BOOLEAN]

Init == /\ core = CoreInit
        /\ closing = FALSE
        /\ robot = RobotInit

\* _command_callback.
Receive(cmd) ==
    /\ ~closing
    /\ core' = Accept(core, cmd)
    /\ UNCHANGED <<closing, robot>>

\* A datagram that cannot be read or decoded, a broken command socket, or a
\* status that cannot be sent.
TransportFault ==
    /\ ~closing
    /\ core' = ForceStop(core)
    /\ UNCHANGED <<closing, robot>>

\* _tick; ready is what LowState and the ROS graph say at this moment.
Tick(ready) ==
    /\ ~closing
    /\ LET t == DoTick(core, ready)
       IN  /\ core' = t.core
           /\ robot' = PerformAll(robot, t.requests, t.core)
    /\ UNCHANGED closing

\* stop_safely: three StopMove requests under the lock, then nothing.
StopSafely ==
    /\ ~closing
    /\ closing' = TRUE
    /\ core' = ForceStop(core)
    /\ robot' = Perform(robot, StopMove, core')

\* The bridge process is gone without stop_safely and a new one starts.
Restart ==
    /\ core' = CoreInit
    /\ closing' = FALSE
    /\ robot' = [robot EXCEPT !.own = FALSE]

Elapse ==
    /\ closing \/ core.sinceTick < TickPeriod
    /\ core' = Aged(core)
    /\ robot' = [robot EXCEPT !.acting = Less(@),
                              !.driveAge = IF robot.api = "move"
                                 THEN Older(@, CommandTimeout + MaxTick + 1)
                                 ELSE @]
    /\ UNCHANGED closing

Dashboards == \E source \in SourceIds : \E cmd \in CommandsFrom(source) :
                  Receive(cmd)
Ticks == \E ready \in BOOLEAN : Tick(ready)
Background == TransportFault \/ Ticks \/ StopSafely \/ Elapse

Next == Dashboards \/ Background \/ Restart

Spec == Init /\ [][Next]_vars

\* The 50 ms timer keeps firing and time does not stop.
FairSpec == Spec /\ WF_vars(Ticks) /\ WF_vars(Elapse)

-----------------------------------------------------------------------------
(* Properties.                                                             *)

\* The object and the robot are well formed.
TypeOK == /\ core \in Core
          /\ closing \in BOOLEAN
          /\ robot \in Robot

\* No Move reaches the robot while an action it was asked for is inside its
\* safety window, unless a StopMove came in between: not after a rejected
\* command or a transport fault cleared the window early, not after the
\* bridge process was replaced in the middle of the action.
ActionNotInterrupted == ~robot.clash

\* The held drive came from the source that owns the bridge now: taking the
\* bridge over, even by a command that is then rejected, ends the drive.
MotionOwned == core.deadman => core.intent = core.source

\* A robot told to move is known to be moving, or a StopMove is pending; so
\* the watchdog, which looks at _moving only, never forgets a moving robot.
MotionTracked == robot.velocity # 0 => core.moving \/ core.pendingStop

\* With a timer that ticks every TickPeriod a bridge process never leaves the
\* robot moving on an input older than the command timeout plus one period,
\* transport delay included.  What its predecessor left behind when it died is
\* stopped by its first tick.
BridgeWatchdogBound ==
    robot.velocity # 0 /\ robot.own =>
        robot.driveAge <= CommandTimeout + TickPeriod

\* If the dashboards fall silent for good the robot is stopped, whatever the
\* readiness of LowState and the ROS graph.
SilenceStops == <>[][Background]_vars => <>[](robot.velocity = 0)
=============================================================================
