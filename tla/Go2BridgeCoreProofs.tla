------------------------ MODULE Go2BridgeCoreProofs ------------------------
(***************************************************************************)
(* What the robot-side bridge promises, for any number of dashboards and   *)
(* commands and for all timeouts, delays and velocity limits.              *)
(*                                                                         *)
(* The argument rests on one observation (Effect): whatever a command, a   *)
(* fault or a lost readiness does to the object, either a stop is pending  *)
(* afterwards, or nothing the robot's motion depends on has changed.  A    *)
(* tick sends a pending stop before anything else.  So what the object     *)
(* believes of the robot (Follows) only has to survive the tick itself.    *)
(***************************************************************************)
EXTENDS Go2BridgeCore, TLAPS

-----------------------------------------------------------------------------
(* The inductive invariant.                                                *)

\* No drive is held inside a window, under an inhibit or before an action.
Windows(c) ==
  c.guard > 0 \/ c.hold > 0 \/ Inhibited(c) \/ c.pendingAction => ~c.deadman

\* A held drive belongs to the source that owns the bridge.
Owned(c) == c.deadman => c.intent = c.source

\* What the object knows of the robot.
Follows(c, r) ==
  /\ r.velocity # 0 => c.moving \/ c.pendingStop
  /\ r.velocity # 0 /\ (c.hold > 0 \/ c.pendingAction) => c.pendingStop
  /\ r.acting <= c.hold \/ c.pendingStop
  /\ ~r.clash

\* The input behind the robot's motion is no older than the command timeout
\* plus the time since the last tick.  Time since the last tick is counted up
\* to MaxTick only, so that a longer period is covered by the cap on the age.
Timely(c, r, closed) ==
  /\ closed => r.velocity = 0
  /\ ~closed => c.sinceTick <= TickPeriod
  /\ c.sinceTick <= MaxTick
  /\ r.velocity # 0 /\ r.own =>
       \/ r.driveAge <= CommandTimeout + c.sinceTick
       \/ /\ MaxTick < TickPeriod
          /\ r.driveAge <= CommandTimeout + MaxTick + 1

IndInv == /\ TypeOK
          /\ Windows(core) /\ Owned(core)
          /\ Follows(core, robot)
          /\ Timely(core, robot, closing)

\* A call either leaves a stop pending or touches nothing the robot's motion
\* depends on; it never touches the clock of the ticks.
Effect(c, y) ==
  /\ y.sinceTick = c.sinceTick
  /\ \/ y.pendingStop
     \/ /\ y.pendingStop = c.pendingStop /\ y.moving = c.moving
        /\ y.hold = c.hold /\ (y.pendingAction => c.pendingAction)

-----------------------------------------------------------------------------
(* The methods: what each returns.                                         *)

LEMMA CoreFields ==
  ASSUME NEW c \in Core
  PROVE  /\ c.source \in SourceIds \cup {NoSource}
         /\ c.lastSeq \in [SourceIds -> Nat \cup {-1}] /\ c.order \in Seq(SourceIds)
         /\ c.recvAge \in Nat /\ c.ack \in Ack /\ c.driveAge \in Nat
         /\ c.target \in Velocity /\ c.deadman \in BOOLEAN /\ c.moving \in BOOLEAN
         /\ c.pendingStop \in BOOLEAN /\ c.pendingAction \in BOOLEAN
         /\ c.due \in Nat /\ c.guard \in Nat /\ c.hold \in Nat /\ c.stopAge \in Nat
         /\ c.inhibit \in Inhibit /\ c.intent \in SourceIds \cup {NoSource}
         /\ c.sinceTick \in Nat
BY DEF Core

LEMMA ZeroVelocity == 0 \in Velocity /\ \A v \in Velocity : v \in Int
BY BridgeAssumption DEF Velocity

LEMMA Violation ==
  ASSUME NEW i \in Inhibit, NEW b \in BOOLEAN
  PROVE  /\ [i EXCEPT !.violated = b] \in Inhibit
         /\ [i EXCEPT !.violated = b].token = i.token
BY DEF Inhibit

\* force_stop ends every motion and asks for a stop; it forgets neither the
\* source nor the inhibit.
LEMMA ForceStopFacts ==
  ASSUME NEW c \in Core
  PROVE  /\ ForceStop(c) \in Core
         /\ ForceStop(c).pendingStop /\ ~ForceStop(c).deadman
         /\ ~ForceStop(c).pendingAction /\ ~ForceStop(c).moving
         /\ ForceStop(c).hold = 0 /\ ForceStop(c).guard = 0
         /\ ForceStop(c).sinceTick = c.sinceTick
         /\ ForceStop(c).driveAge = c.driveAge
<1> DEFINE b == c.inhibit.violated \/ Inhibited(c)
           i == [c.inhibit EXCEPT !.violated = b]
<1>1. b \in BOOLEAN
  BY CoreFields DEF Inhibited, Inhibit
<1>2. i \in Inhibit
  BY <1>1, Violation, CoreFields
<1> DEFINE z == [c EXCEPT !.inhibit = i, !.target = 0, !.deadman = FALSE,
                          !.moving = FALSE, !.pendingAction = FALSE,
                          !.due = 0, !.pendingStop = TRUE, !.guard = 0,
                          !.hold = 0]
<1>3. ForceStop(c) = z
  BY DEF ForceStop
<1> HIDE DEF i
<1>4. z \in Core
  BY <1>2, ZeroVelocity DEF Core
<1>5. QED BY <1>3, <1>4 DEF Core

\* Every command carries its source and a number; only a drive or a stop has
\* an age worth the name, only a drive a velocity, only an action a window.
LEMMA CommandFields ==
  ASSUME NEW src \in SourceIds, NEW cmd \in CommandsFrom(src)
  PROVE  /\ cmd.source \in SourceIds /\ cmd.seq \in Nat
         /\ cmd.type \in Commands \cup {"observation_inhibit"}
         /\ cmd.type = "drive" => cmd.age \in Nat /\ cmd.velocity \in Int
         /\ cmd.type = "action" => cmd.hold \in Nat
         /\ cmd.type = "observation_inhibit" => cmd.token \in Tokens
<1> USE BridgeAssumption DEF Commands
<1>1. CASE cmd \in [type : {"stop"}, source : {src}, seq : 0..MaxSeq,
                    sameEpoch : BOOLEAN, age : {0, CommandTimeout + 1}]
  BY <1>1
<1>2. CASE cmd \in [type : {"drive"}, source : {src}, seq : 0..MaxSeq,
                    sameEpoch : BOOLEAN, age : 0..(CommandTimeout + 1),
                    valid : BOOLEAN, deadman : BOOLEAN,
                    velocity : {0, 1, VMax + 1}]
  BY <1>2
<1>3. CASE cmd \in [type : {"action"}, source : {src}, seq : 0..MaxSeq,
                    sameEpoch : {TRUE}, age : {0}, valid : BOOLEAN,
                    hold : HoldTimes]
  <2>1. cmd.hold \in HoldTimes
    BY <1>3
  <2>2. cmd.source \in SourceIds /\ cmd.seq \in Nat /\ cmd.type = "action"
    BY <1>3
  <2>3. QED BY <2>1, <2>2
<1>4. CASE cmd \in [type : {"observation_inhibit"}, source : {src},
                    seq : 0..MaxSeq, sameEpoch : {TRUE}, age : {0},
                    valid : BOOLEAN, token : Tokens, enabled : BOOLEAN]
  BY <1>4
<1>5. QED BY <1>1, <1>2, <1>3, <1>4 DEF CommandsFrom

\* A source is remembered; nothing but source, lastSeq, order and recvAge changes.
LEMMA ClaimFacts ==
  ASSUME NEW c \in Core, NEW src \in SourceIds, NEW cmd \in CommandsFrom(src)
  PROVE  /\ Claim(c, cmd) \in Core
         /\ Claim(c, cmd).source = cmd.source
         /\ \E q, n : Claim(c, cmd) = [c EXCEPT !.lastSeq = n, !.order = q,
                                          !.source = cmd.source, !.recvAge = 0]
<1> DEFINE order == IF \E i \in DOMAIN c.order : c.order[i] = cmd.source
                    THEN c.order ELSE Append(c.order, cmd.source)
           evict == Len(order) > SourceMemory /\ Head(order) # cmd.source
           seqs  == [c.lastSeq EXCEPT ![cmd.source] = cmd.seq]
           n     == IF evict THEN [seqs EXCEPT ![Head(order)] = -1] ELSE seqs
           q     == IF evict THEN Tail(order) ELSE order
<1>1. cmd.source \in SourceIds /\ cmd.seq \in Nat
  BY CommandFields
<1>2. order \in Seq(SourceIds)
  BY <1>1, CoreFields
<1>3. seqs \in [SourceIds -> Nat \cup {-1}]
  BY <1>1, CoreFields
<1>4. evict => order # <<>>
  BY BridgeAssumption
<1> HIDE DEF order, seqs
<1>5. evict => Head(order) \in SourceIds /\ Tail(order) \in Seq(SourceIds)
  BY <1>2, <1>4
<1>6. n \in [SourceIds -> Nat \cup {-1}] /\ q \in Seq(SourceIds)
  BY <1>2, <1>3, <1>5
<1> DEFINE z == [c EXCEPT !.lastSeq = n, !.order = q, !.source = cmd.source,
                          !.recvAge = 0]
<1>7. Claim(c, cmd) = z
  BY DEF Claim, order, seqs
<1> HIDE DEF n, q
<1>8. z \in Core
  BY <1>1, <1>6 DEF Core
<1>9. Claim(c, cmd).source = cmd.source
  BY <1>7 DEF Core
<1>10. QED BY <1>7, <1>8, <1>9

LEMMA ClaimKeeps ==
  ASSUME NEW c \in Core, NEW src \in SourceIds, NEW cmd \in CommandsFrom(src)
  PROVE  LET x == Claim(c, cmd)
         IN  /\ x.driveAge = c.driveAge /\ x.target = c.target
             /\ x.deadman = c.deadman /\ x.moving = c.moving
             /\ x.pendingStop = c.pendingStop /\ x.pendingAction = c.pendingAction
             /\ x.guard = c.guard /\ x.hold = c.hold /\ x.inhibit = c.inhibit
             /\ x.intent = c.intent /\ x.sinceTick = c.sinceTick
<1>1. PICK q, n : Claim(c, cmd) = [c EXCEPT !.lastSeq = n, !.order = q,
                                            !.source = cmd.source, !.recvAge = 0]
  BY ClaimFacts
<1>2. QED BY <1>1 DEF Core

LEMMA AcknowledgeFacts ==
  ASSUME NEW c \in Core, NEW src \in SourceIds, NEW cmd \in CommandsFrom(src),
         cmd.type \in Commands
  PROVE  LET x == Acknowledge(c, cmd)
         IN  /\ x \in Core /\ x.source = c.source /\ x.intent = c.intent
             /\ x.deadman = c.deadman /\ x.moving = c.moving
             /\ x.pendingStop = c.pendingStop /\ x.pendingAction = c.pendingAction
             /\ x.guard = c.guard /\ x.hold = c.hold /\ x.inhibit = c.inhibit
             /\ x.sinceTick = c.sinceTick
<1> DEFINE a == [source |-> cmd.source, seq |-> cmd.seq, type |-> cmd.type]
<1>1. cmd.source \in SourceIds /\ cmd.seq \in Nat
  BY CommandFields
<1>2. a \in Ack
  BY <1>1 DEF Ack
<1>3. Acknowledge(c, cmd) = [c EXCEPT !.ack = a]
  BY DEF Acknowledge
<1> HIDE DEF a
<1>4. Acknowledge(c, cmd) \in Core
  BY <1>2, <1>3 DEF Core
<1>5. QED BY <1>3, <1>4 DEF Core

LEMMA ClampFacts == ASSUME NEW v \in Int PROVE Clamp(v) \in Velocity
BY BridgeAssumption DEF Clamp, Velocity

\* observation_inhibit is granted to an idle bridge or ended by its holder.
LEMMA AcceptInhibitFacts ==
  ASSUME NEW x \in Core, Windows(x), NEW src \in SourceIds,
         NEW cmd \in CommandsFrom(src), cmd.type = "observation_inhibit"
  PROVE  LET y == AcceptInhibit(x, cmd)
         IN  y \in Core /\ Windows(y) /\ Owned(y) /\ Effect(x, y)
<1> DEFINE y == AcceptInhibit(x, cmd)
           i == IF cmd.enabled THEN [token |-> cmd.token, violated |-> FALSE,
                                     source |-> cmd.source]
                ELSE NoInhibit
<1>1. CASE y = ForceStop(x)
  BY <1>1, ForceStopFacts DEF Windows, Owned, Effect
<1>2. CASE ~x.deadman /\ y = [x EXCEPT !.inhibit = i]
  <2>1. i \in Inhibit
    BY CommandFields DEF Inhibit, NoInhibit
  <2> HIDE DEF i
  <2>2. y \in Core
    BY <1>2, <2>1 DEF Core
  <2>3. QED BY <1>2, <2>2 DEF Core, Windows, Owned, Effect
<1>3. QED BY <1>1, <1>2 DEF AcceptInhibit, Windows

LEMMA AcceptActionFacts ==
  ASSUME NEW x \in Core, NEW src \in SourceIds,
         NEW cmd \in CommandsFrom(src), cmd.type = "action"
  PROVE  LET y == AcceptAction(x, cmd)
         IN  y \in Core /\ Windows(y) /\ Owned(y) /\ Effect(x, y)
<1> DEFINE y == AcceptAction(x, cmd)
           z == [x EXCEPT !.target = 0, !.deadman = FALSE, !.pendingStop = TRUE,
                          !.pendingAction = TRUE, !.due = ActionDelay,
                          !.hold = cmd.hold, !.guard = ActionGuard]
<1>1. CASE y = ForceStop(x)
  BY <1>1, ForceStopFacts DEF Windows, Owned, Effect
<1>2. CASE y = Acknowledge(z, cmd)
  <2>1. z \in Core
    BY CommandFields, ZeroVelocity, BridgeAssumption DEF Core
  <2>2. ~z.deadman /\ z.pendingStop /\ z.sinceTick = x.sinceTick
    BY DEF Core
  <2> HIDE DEF z
  <2>3. QED BY <1>2, <2>1, <2>2, AcknowledgeFacts
            DEF Windows, Owned, Effect, Commands
<1>3. QED BY <1>1, <1>2 DEF AcceptAction

\* A drive is taken outside every window, or ends motion, or is dropped.
LEMMA AcceptDriveFacts ==
  ASSUME NEW x \in Core, Windows(x), NEW src \in SourceIds,
         NEW cmd \in CommandsFrom(src), cmd.type = "drive",
         x.source = cmd.source
  PROVE  LET y == AcceptDrive(x, cmd)
         IN  y \in Core /\ Windows(y) /\ Owned(y) /\ Effect(x, y)
<1> DEFINE y == AcceptDrive(x, cmd)
           z == [x EXCEPT !.target = Clamp(cmd.velocity), !.deadman = TRUE,
                          !.driveAge = cmd.age, !.pendingAction = FALSE,
                          !.due = 0, !.guard = 0, !.intent = cmd.source]
<1>1. CASE y = ForceStop(x)
  BY <1>1, ForceStopFacts DEF Windows, Owned, Effect
<1>2. CASE y = x /\ (x.guard > 0 \/ x.hold > 0)
  BY <1>2 DEF Windows, Owned, Effect
<1>3. CASE y = Acknowledge(ForceStop(x), cmd)
  BY <1>3, ForceStopFacts, AcknowledgeFacts DEF Windows, Owned, Effect, Commands
<1>4. CASE /\ y = Acknowledge(z, cmd)
           /\ ~(x.guard > 0 \/ x.hold > 0) /\ ~Inhibited(x)
  <2>1. z \in Core
    BY CommandFields, ClampFacts DEF Core
  <2>2. /\ z.intent = cmd.source /\ z.source = x.source /\ z.hold = x.hold
        /\ z.guard = 0 /\ ~z.pendingAction /\ z.moving = x.moving
        /\ z.pendingStop = x.pendingStop /\ z.sinceTick = x.sinceTick
        /\ z.inhibit = x.inhibit
    BY DEF Core
  <2> HIDE DEF z
  <2>3. QED BY <1>4, <2>1, <2>2, AcknowledgeFacts
            DEF Windows, Owned, Effect, Commands, Inhibited
<1>5. QED BY <1>1, <1>2, <1>3, <1>4 DEF AcceptDrive

\* A command of any kind, admitted or not.
LEMMA AcceptFacts ==
  ASSUME NEW c \in Core, Windows(c), Owned(c), NEW src \in SourceIds,
         NEW cmd \in CommandsFrom(src)
  PROVE  LET y == Accept(c, cmd)
         IN  y \in Core /\ Windows(y) /\ Owned(y) /\ Effect(c, y)
<1> DEFINE y == Accept(c, cmd)
           x == Claim(c, cmd)
<1>1. CASE ~Admissible(c, cmd)
  <2>1. y = ForceStop(c)
    BY <1>1 DEF Accept
  <2>2. QED BY <2>1, ForceStopFacts DEF Windows, Owned, Effect
<1>2. CASE Admissible(c, cmd)
  <2>1. x \in Core /\ Windows(x) /\ x.source = cmd.source
    <3>1. x \in Core /\ x.source = cmd.source
      BY ClaimFacts
    <3>2. Windows(x)
      BY ClaimKeeps DEF Windows, Inhibited
    <3>3. QED BY <3>1, <3>2
  <2>2. \A z : Effect(x, z) => Effect(c, z)
    BY ClaimKeeps DEF Effect
  <2>3. y = CASE cmd.type = "observation_inhibit" -> AcceptInhibit(x, cmd)
              [] cmd.type = "stop"   -> Acknowledge(ForceStop(x), cmd)
              [] cmd.type = "action" -> AcceptAction(x, cmd)
              [] cmd.type = "drive"  -> AcceptDrive(x, cmd)
    BY <1>2 DEF Accept
  <2> HIDE DEF x, y
  <2>4. SUFFICES y \in Core /\ Windows(y) /\ Owned(y) /\ Effect(x, y)
    BY <2>2 DEF y
  <2>5. CASE cmd.type = "observation_inhibit"
    BY <2>1, <2>3, <2>5, AcceptInhibitFacts
  <2>6. CASE cmd.type = "stop"
    <3>1. y = Acknowledge(ForceStop(x), cmd)
      BY <2>3, <2>6
    <3>2. QED BY <2>1, <2>6, <3>1, ForceStopFacts, AcknowledgeFacts
              DEF Windows, Owned, Effect, Commands
  <2>7. CASE cmd.type = "action"
    BY <2>1, <2>3, <2>7, AcceptActionFacts
  <2>8. CASE cmd.type = "drive"
    BY <2>1, <2>3, <2>8, AcceptDriveFacts
  <2>9. QED BY <2>5, <2>6, <2>7, <2>8, CommandFields DEF Commands
<1>3. QED BY <1>1, <1>2

-----------------------------------------------------------------------------
(* The tick.                                                               *)

LEMMA EffectFollows ==
  ASSUME NEW c \in Core, NEW y \in Core, NEW r \in Robot,
         Follows(c, r), Effect(c, y)
  PROVE  Follows(y, r)
BY CoreFields DEF Follows, Effect

LEMMA LoseReadinessFacts ==
  ASSUME NEW c \in Core, Windows(c), Owned(c), NEW ready \in BOOLEAN
  PROVE  LET y == LoseReadiness(c, ready)
         IN  y \in Core /\ Windows(y) /\ Owned(y) /\ Effect(c, y)
<1> DEFINE y == LoseReadiness(c, ready)
           b == c.inhibit.violated \/ (Inhibited(c) /\ ~ready)
           i == [c.inhibit EXCEPT !.violated = b]
           x == [c EXCEPT !.inhibit = i]
<1>1. b \in BOOLEAN
  BY CoreFields DEF Inhibited, Inhibit
<1>2. i \in Inhibit /\ i.token = c.inhibit.token
  BY <1>1, Violation, CoreFields
<1>3. y = IF ~ready /\ (x.deadman \/ x.target # 0 \/ x.hold > 0)
          THEN ForceStop(x) ELSE x
  BY DEF LoseReadiness
<1> HIDE DEF i, y
<1>4. x \in Core
  BY <1>2 DEF Core
<1>5. /\ x.source = c.source /\ x.intent = c.intent /\ x.hold = c.hold
      /\ x.guard = c.guard /\ x.pendingAction = c.pendingAction
      /\ x.moving = c.moving /\ x.pendingStop = c.pendingStop
      /\ x.sinceTick = c.sinceTick /\ x.deadman = c.deadman /\ x.inhibit = i
  BY DEF Core
<1> HIDE DEF x
<1>6. SUFFICES y \in Core /\ Windows(y) /\ Owned(y) /\ Effect(c, y)
  BY DEF y
<1>7. CASE y = x
  BY <1>2, <1>4, <1>5, <1>7 DEF Windows, Owned, Effect, Inhibited
<1>8. CASE y = ForceStop(x)
  BY <1>4, <1>5, <1>8, ForceStopFacts DEF Windows, Owned, Effect
<1>9. QED BY <1>3, <1>7, <1>8

LEMMA PerformFacts ==
  ASSUME NEW r \in Robot, NEW y \in Core, NEW v \in Velocity
  PROVE  /\ Perform(r, StopMove, y) \in Robot /\ Perform(r, Action, y) \in Robot
         /\ Perform(r, Move(v), y) \in Robot
         /\ LET p == Perform(r, StopMove, y)
            IN  p.velocity = 0 /\ p.acting = 0 /\ (p.clash => r.clash)
         /\ LET p == Perform(r, Action, y)
            IN  p.velocity = 0 /\ p.acting = y.hold /\ (p.clash => r.clash)
         /\ LET p == Perform(r, Move(v), y)
            IN  /\ p.velocity = v /\ p.acting = r.acting
                /\ p.driveAge = y.driveAge
                /\ p.clash => r.clash \/ r.acting > 0
BY CoreFields, ZeroVelocity DEF Perform, StopMove, Action, Move, Robot

\* What the bridge sends after an optional first stop.
LEMMA PerformOnly ==
  ASSUME NEW r, NEW y, NEW q, NEW reqs, reqs = <<>>
  PROVE  /\ PerformAll(r, reqs, y) = r
         /\ PerformAll(r, Append(reqs, q), y) = Perform(r, q, y)
<1>1. Append(<<>>, q) = <<q>>
  OBVIOUS
<1>2. PerformAll(r, <<>>, y) = r /\ PerformAll(r, <<q>>, y) = Perform(r, q, y)
  BY DEF PerformAll
<1>3. QED BY <1>1, <1>2

LEMMA PerformAfterStop ==
  ASSUME NEW r, NEW y, NEW q, NEW reqs, reqs = <<StopMove>>
  PROVE  /\ PerformAll(r, reqs, y) = Perform(r, StopMove, y)
         /\ PerformAll(r, Append(reqs, q), y)
              = Perform(Perform(r, StopMove, y), q, y)
<1> DEFINE w == Append(reqs, q)
<1>1. reqs \in Seq({StopMove, q}) /\ Len(reqs) = 1 /\ reqs[1] = StopMove
  OBVIOUS
<1>2. Len(w) = 2 /\ w[1] = StopMove /\ w[2] = q
  BY <1>1
<1> HIDE DEF w
<1>3. PerformAll(r, w, y) = Perform(Perform(r, StopMove, y), q, y)
  BY <1>2 DEF PerformAll
<1>4. PerformAll(r, reqs, y) = Perform(r, StopMove, y)
  BY <1>1 DEF PerformAll
<1>5. QED BY <1>3, <1>4 DEF w

\* What a tick leaves: a robot that moves does so on an input in time.
Settled(y, r) ==
  /\ y \in Core /\ r \in Robot /\ Windows(y) /\ Owned(y) /\ Follows(y, r)
  /\ y.sinceTick = 0
  /\ r.velocity # 0 => r.driveAge <= CommandTimeout

LEMMA DriveOrWatchFacts ==
  ASSUME NEW x \in Core, NEW r \in Robot, NEW ready \in BOOLEAN, NEW reqs,
         Windows(x), Owned(x), x.sinceTick = 0, ~r.clash,
         r.velocity # 0 => x.moving /\ x.hold = 0 /\ ~x.pendingAction,
         r.acting <= x.hold \/ (x.pendingStop /\ ~ready)
  PROVE  LET d == DriveOrWatch(x, reqs, ready)
         IN  \/ d.requests = reqs /\ Settled(d.core, r)
             \/ \E q : /\ d.requests = Append(reqs, q)
                       /\ Settled(d.core, Perform(r, q, d.core))
<1> DEFINE d == DriveOrWatch(x, reqs, ready)
<1>1. CASE x.hold > 0
  <2>1. d = [core |-> x, requests |-> reqs]
    BY <1>1 DEF DriveOrWatch
  <2>2. Settled(x, r)
    BY <1>1, CoreFields DEF Settled, Follows
  <2>3. QED BY <2>1, <2>2
<1>2. CASE ~(x.hold > 0) /\ ready /\ Fresh(x)
  <2> DEFINE y == [x EXCEPT !.moving = (x.target # 0)]
             p == Perform(r, Move(x.target), y)
  <2>1. d = [core |-> y, requests |-> Append(reqs, Move(x.target))]
    BY <1>2 DEF DriveOrWatch
  <2>2. y \in Core
    BY DEF Core
  <2>3. /\ (x.target # 0 => y.moving) /\ y.hold = x.hold /\ y.deadman = x.deadman
        /\ y.guard = x.guard /\ y.inhibit = x.inhibit /\ y.intent = x.intent
        /\ y.source = x.source /\ y.pendingAction = x.pendingAction
        /\ y.pendingStop = x.pendingStop /\ y.driveAge = x.driveAge
        /\ y.sinceTick = x.sinceTick
    BY DEF Core
  <2>4. /\ p \in Robot /\ p.velocity = x.target /\ p.acting = r.acting
        /\ p.driveAge = y.driveAge /\ (p.clash => r.clash \/ r.acting > 0)
    <3>1. x.target \in Velocity
      BY CoreFields
    <3> HIDE DEF y
    <3>2. LET z == Perform(r, Move(x.target), y)
          IN  /\ z \in Robot /\ z.velocity = x.target /\ z.acting = r.acting
              /\ z.driveAge = y.driveAge
              /\ z.clash => r.clash \/ r.acting > 0
      BY <2>2, <3>1, CoreFields DEF Perform, Move, Robot
    <3>3. QED BY <3>2
  <2> HIDE DEF y, p
  <2>5. r.acting = 0 /\ x.hold = 0
    <3>1. r.acting \in Nat /\ x.hold \in Nat
      BY CoreFields DEF Robot
    <3>2. QED BY <1>2, <3>1
  <2>6. ~p.clash
    BY <2>4, <2>5
  <2>7. Windows(y) /\ Owned(y)
    BY <2>3 DEF Windows, Owned, Inhibited
  <2>8. ~y.pendingAction /\ y.driveAge <= CommandTimeout
    BY <1>2, <2>3 DEF Windows, Fresh
  <2>9. Follows(y, p)
    BY <2>3, <2>4, <2>5, <2>6, <2>8 DEF Follows
  <2>10. Settled(y, p)
    BY <2>2, <2>3, <2>4, <2>7, <2>8, <2>9 DEF Settled
  <2>11. QED BY <2>1, <2>10 DEF p
<1>3. CASE ~(x.hold > 0) /\ ~(ready /\ Fresh(x))
  <2>1. CASE x.moving \/ x.stopAge >= StopHeartbeat
    <3> DEFINE y == [x EXCEPT !.moving = FALSE, !.deadman = FALSE, !.target = 0,
                              !.stopAge = 0]
               p == Perform(r, StopMove, y)
    <3>1. d = [core |-> y, requests |-> Append(reqs, StopMove)]
      BY <1>3, <2>1 DEF DriveOrWatch
    <3>2. y \in Core
      BY ZeroVelocity DEF Core
    <3>3. ~y.deadman /\ y.hold = x.hold /\ y.sinceTick = x.sinceTick
      BY DEF Core
    <3>4. p \in Robot /\ p.velocity = 0 /\ p.acting = 0 /\ (p.clash => r.clash)
      BY <3>2, PerformFacts, ZeroVelocity
    <3> HIDE DEF y, p
    <3>5. Settled(y, p)
      BY <3>2, <3>3, <3>4, CoreFields DEF Settled, Windows, Owned, Follows
    <3>6. QED BY <3>1, <3>5 DEF p
  <2>2. CASE ~(x.moving \/ x.stopAge >= StopHeartbeat)
    <3>1. d = [core |-> x, requests |-> reqs]
      BY <1>3, <2>2 DEF DriveOrWatch
    <3>2. Settled(x, r)
      BY <2>2 DEF Settled, Follows
    <3>3. QED BY <3>1, <3>2
  <2>3. QED BY <2>1, <2>2
<1>4. QED BY <1>1, <1>2, <1>3

\* tick, with the robot as the published requests leave it.
LEMMA TickFacts ==
  ASSUME NEW c \in Core, NEW r \in Robot, NEW ready \in BOOLEAN,
         Windows(c), Owned(c), Follows(c, r)
  PROVE  LET t == DoTick(c, ready)
         IN  Settled(t.core, PerformAll(r, t.requests, t.core))
<1> DEFINE a == [c EXCEPT !.sinceTick = 0]
           b == LoseReadiness(a, ready)
           x == IF b.pendingStop
                THEN [b EXCEPT !.pendingStop = FALSE, !.stopAge = 0] ELSE b
           reqs == IF b.pendingStop THEN <<StopMove>> ELSE <<>>
           r1 == IF b.pendingStop THEN Perform(r, StopMove, x) ELSE r
           t == DoTick(c, ready)
<1>1. a \in Core /\ Windows(a) /\ Owned(a) /\ Follows(a, r) /\ a.sinceTick = 0
  <2>1. a \in Core /\ a.sinceTick = 0
    BY DEF Core
  <2>2. /\ a.guard = c.guard /\ a.hold = c.hold /\ a.inhibit = c.inhibit
        /\ a.pendingAction = c.pendingAction /\ a.deadman = c.deadman
        /\ a.intent = c.intent /\ a.source = c.source /\ a.moving = c.moving
        /\ a.pendingStop = c.pendingStop
    BY DEF Core
  <2>3. QED BY <2>1, <2>2 DEF Windows, Owned, Follows, Inhibited
<1> HIDE DEF a
<1>2. /\ b \in Core /\ Windows(b) /\ Owned(b) /\ Follows(b, r)
      /\ b.sinceTick = 0
  <2>1. b \in Core /\ Windows(b) /\ Owned(b) /\ Effect(a, b)
    BY <1>1, LoseReadinessFacts
  <2>2. QED BY <1>1, <2>1, EffectFollows DEF Effect
<1>3. t = IF x.pendingAction /\ ~ready
          THEN DriveOrWatch(ForceStop(x), reqs, ready)
          ELSE IF x.pendingAction /\ x.due = 0
          THEN [core |-> [x EXCEPT !.pendingAction = FALSE],
                requests |-> Append(reqs, Action)]
          ELSE DriveOrWatch(x, reqs, ready)
  BY DEF DoTick, SendPendingStop, a
<1> HIDE DEF b, t
<1>4. x \in Core /\ Windows(x) /\ Owned(x) /\ x.sinceTick = 0 /\ ~x.pendingStop
  <2>1. CASE b.pendingStop
    <3> DEFINE z == [b EXCEPT !.pendingStop = FALSE, !.stopAge = 0]
    <3>1. z \in Core
      BY <1>2 DEF Core
    <3>2. /\ ~z.pendingStop /\ z.guard = b.guard /\ z.hold = b.hold
          /\ z.inhibit = b.inhibit /\ z.pendingAction = b.pendingAction
          /\ z.deadman = b.deadman /\ z.intent = b.intent
          /\ z.source = b.source /\ z.sinceTick = b.sinceTick
      BY <1>2 DEF Core
    <3> HIDE DEF z
    <3>3. x = z
      BY <2>1 DEF z
    <3>4. QED BY <1>2, <3>1, <3>2, <3>3 DEF Windows, Owned, Inhibited
  <2>2. CASE ~b.pendingStop
    BY <1>2, <2>2
  <2>3. QED BY <1>2, <2>1, <2>2, CoreFields
<1>5. r1 \in Robot /\ Follows(x, r1)
  <2>1. CASE b.pendingStop
    <3>1. r1 = Perform(r, StopMove, x)
      BY <2>1
    <3>2. /\ r1 \in Robot /\ r1.velocity = 0 /\ r1.acting = 0
          /\ r1.clash => r.clash
      BY <1>4, <3>1, PerformFacts, ZeroVelocity
    <3>3. QED BY <1>2, <1>4, <3>2, CoreFields DEF Follows
  <2>2. CASE ~b.pendingStop
    BY <1>2, <2>2
  <2>3. QED BY <1>2, <2>1, <2>2, CoreFields
<1>6. \A y, q : /\ PerformAll(r, reqs, y) = r1
                /\ PerformAll(r, Append(reqs, q), y) = Perform(r1, q, y)
  <2> TAKE y, q
  <2>1. b.pendingStop \in BOOLEAN
    BY <1>2, CoreFields
  <2>2. Perform(r, StopMove, x) = Perform(r, StopMove, y)
    BY DEF Perform, StopMove
  <2>3. CASE b.pendingStop
    <3>1. reqs = <<StopMove>> /\ r1 = Perform(r, StopMove, y)
      BY <2>2, <2>3
    <3> HIDE DEF reqs, r1
    <3>2. QED BY <3>1, PerformAfterStop
  <2>4. CASE ~b.pendingStop
    <3>1. reqs = <<>> /\ r1 = r
      BY <2>4
    <3> HIDE DEF reqs, r1
    <3>2. /\ PerformAll(r, reqs, y) = r
          /\ PerformAll(r, Append(reqs, q), y) = Perform(r, q, y)
      BY <3>1, PerformOnly, Zenon
    <3>3. QED BY <3>1, <3>2, Zenon
  <2>5. QED BY <2>1, <2>3, <2>4
<1> HIDE DEF x, r1, reqs
<1>7. /\ ~r1.clash /\ r1.acting <= x.hold
      /\ r1.velocity # 0 => x.moving /\ x.hold = 0 /\ ~x.pendingAction
  BY <1>4, <1>5, CoreFields DEF Follows
<1>8. SUFFICES Settled(t.core, PerformAll(r, t.requests, t.core))
  BY DEF t
<1>9. CASE x.pendingAction /\ ~ready
  <2> DEFINE f == ForceStop(x)
  <2>1. /\ f \in Core /\ f.pendingStop /\ ~f.deadman /\ f.hold = 0
        /\ f.sinceTick = 0
    BY <1>4, ForceStopFacts
  <2>2. Windows(f) /\ Owned(f)
    BY <2>1 DEF Windows, Owned
  <2>3. r1.velocity = 0
    BY <1>7, <1>9
  <2>4. t = DriveOrWatch(f, reqs, ready)
    BY <1>3, <1>9
  <2> HIDE DEF f
  <2>5. \/ t.requests = reqs /\ Settled(t.core, r1)
        \/ \E q : /\ t.requests = Append(reqs, q)
                  /\ Settled(t.core, Perform(r1, q, t.core))
    BY <1>5, <1>7, <1>9, <2>1, <2>2, <2>3, <2>4, DriveOrWatchFacts
  <2>6. QED BY <1>6, <2>5
<1>10. CASE ~(x.pendingAction /\ ~ready) /\ x.pendingAction /\ x.due = 0
  <2> DEFINE y == [x EXCEPT !.pendingAction = FALSE]
             p == Perform(r1, Action, y)
  <2>1. t = [core |-> y, requests |-> Append(reqs, Action)]
    BY <1>3, <1>10
  <2>2. y \in Core
    BY <1>4 DEF Core
  <2>3. /\ y.guard = x.guard /\ y.hold = x.hold /\ y.inhibit = x.inhibit
        /\ y.deadman = x.deadman /\ y.sinceTick = x.sinceTick
        /\ ~y.pendingAction
    BY <1>4 DEF Core
  <2>4. p \in Robot /\ p.velocity = 0 /\ p.acting = y.hold /\ (p.clash => r1.clash)
    BY <1>5, <2>2, PerformFacts, ZeroVelocity
  <2>5. ~x.deadman
    BY <1>4, <1>10 DEF Windows
  <2> HIDE DEF y, p
  <2>6. Settled(y, p)
    BY <1>4, <1>7, <2>2, <2>3, <2>4, <2>5, CoreFields
    DEF Settled, Windows, Owned, Follows
  <2>7. QED BY <1>6, <2>1, <2>6 DEF p
<1>11. CASE ~(x.pendingAction /\ ~ready) /\ ~(x.pendingAction /\ x.due = 0)
  <2>1. t = DriveOrWatch(x, reqs, ready)
    BY <1>3, <1>11
  <2>2. \/ t.requests = reqs /\ Settled(t.core, r1)
        \/ \E q : /\ t.requests = Append(reqs, q)
                  /\ Settled(t.core, Perform(r1, q, t.core))
    BY <1>4, <1>5, <1>7, <2>1, DriveOrWatchFacts
  <2>3. QED BY <1>6, <2>2
<1>12. QED BY <1>9, <1>10, <1>11

-----------------------------------------------------------------------------
(* The steps.                                                              *)

LEMMA InitIndInv == Init => IndInv
<1> SUFFICES ASSUME Init PROVE IndInv
  OBVIOUS
<1>1. core \in Core
  BY BridgeAssumption, ZeroVelocity
  DEF Init, CoreInit, Core, Ack, NoAck, Inhibit, NoInhibit
<1>2. robot \in Robot
  BY ZeroVelocity DEF Init, RobotInit, Robot
<1>3. ~core.deadman /\ core.pendingStop /\ core.sinceTick = 0
  BY DEF Init, CoreInit
<1>4. robot.velocity = 0 /\ ~robot.clash /\ closing = FALSE
  BY DEF Init, RobotInit
<1>5. Windows(core) /\ Owned(core) /\ Follows(core, robot)
  BY <1>3, <1>4 DEF Windows, Owned, Follows
<1>6. Timely(core, robot, closing)
  BY <1>3, <1>4, BridgeAssumption DEF Timely
<1>7. QED BY <1>1, <1>2, <1>4, <1>5, <1>6 DEF IndInv, TypeOK

\* A command or a fault: the robot hears nothing until the next tick.
LEMMA EffectIndInv ==
  ASSUME IndInv, ~closing, core' \in Core, Windows(core'), Owned(core'),
         Effect(core, core'), UNCHANGED <<closing, robot>>
  PROVE  IndInv'
<1>1. Follows(core', robot)
  BY EffectFollows DEF IndInv, TypeOK
<1>2. Timely(core', robot, closing)
  BY DEF IndInv, Timely, Effect
<1>3. QED BY <1>1, <1>2
          DEF IndInv, TypeOK, Windows, Owned, Follows, Timely, Inhibited

LEMMA ReceiveIndInv ==
  ASSUME IndInv, NEW src \in SourceIds, NEW cmd \in CommandsFrom(src), Receive(cmd)
  PROVE  IndInv'
BY AcceptFacts, EffectIndInv DEF Receive, IndInv, TypeOK

LEMMA TransportFaultIndInv == IndInv /\ TransportFault => IndInv'
<1> SUFFICES ASSUME IndInv, TransportFault PROVE IndInv'
  OBVIOUS
<1>1. core \in Core /\ core' = ForceStop(core)
  BY DEF IndInv, TypeOK, TransportFault
<1>2. /\ core' \in Core /\ Windows(core') /\ Owned(core')
      /\ Effect(core, core')
  BY <1>1, ForceStopFacts DEF Windows, Owned, Effect
<1>3. QED BY <1>2, EffectIndInv DEF TransportFault

LEMMA TickIndInv ==
  ASSUME IndInv, NEW ready \in BOOLEAN, Tick(ready)
  PROVE  IndInv'
<1>1. Settled(core', robot')
  BY TickFacts DEF Tick, IndInv, TypeOK
<1>2. ~closing' /\ closing' \in BOOLEAN
  BY DEF Tick, IndInv, TypeOK
<1>3. QED BY <1>1, <1>2, BridgeAssumption
          DEF Settled, IndInv, TypeOK, Windows, Owned, Follows, Timely, Inhibited,
              Robot

LEMMA StopSafelyIndInv == IndInv /\ StopSafely => IndInv'
<1> SUFFICES ASSUME IndInv, StopSafely PROVE IndInv'
  OBVIOUS
<1>1. core \in Core /\ robot \in Robot /\ core' = ForceStop(core)
  BY DEF IndInv, TypeOK, StopSafely
<1>2. /\ core' \in Core /\ core'.pendingStop /\ ~core'.deadman
      /\ core'.sinceTick = core.sinceTick
  BY <1>1, ForceStopFacts
<1>3. /\ robot' \in Robot /\ robot'.velocity = 0
      /\ robot'.clash => robot.clash
  BY <1>1, <1>2, PerformFacts, ZeroVelocity DEF StopSafely
<1>4. QED BY <1>2, <1>3
          DEF StopSafely, IndInv, TypeOK, Windows, Owned, Follows, Timely

LEMMA RestartIndInv == IndInv /\ Restart => IndInv'
<1> SUFFICES ASSUME IndInv, Restart PROVE IndInv'
  OBVIOUS
<1>1. core' \in Core
  BY BridgeAssumption, ZeroVelocity
  DEF Restart, CoreInit, Core, Ack, NoAck, Inhibit, NoInhibit
<1>2. /\ core'.pendingStop /\ ~core'.deadman /\ core'.sinceTick = 0
  BY DEF Restart, CoreInit
<1>3. robot' \in Robot /\ ~robot'.own /\ (robot'.clash => robot.clash)
  BY DEF Restart, IndInv, TypeOK, Robot
<1>4. closing' = FALSE /\ ~robot.clash
  BY DEF Restart, IndInv, Follows
<1>5. Windows(core)' /\ Owned(core)' /\ Follows(core, robot)'
  BY <1>2, <1>3, <1>4 DEF Windows, Owned, Follows
<1>6. Timely(core, robot, closing)'
  BY <1>2, <1>3, <1>4, BridgeAssumption DEF Timely
<1>7. QED BY <1>1, <1>3, <1>4, <1>5, <1>6 DEF IndInv, TypeOK

LEMMA ElapseIndInv == IndInv /\ Elapse => IndInv'
<1> SUFFICES ASSUME IndInv, Elapse PROVE IndInv'
  OBVIOUS
<1>1. core \in Core /\ robot \in Robot
  BY DEF IndInv, TypeOK
<1>2. \A n \in Nat : Less(n) \in Nat /\ (Less(n) > 0 => n > 0)
  BY DEF Less
<1>3. \A n, m \in Nat : n <= m => Less(n) <= Less(m)
  BY DEF Less
<1>4. \A n, m \in Nat : /\ Older(n, m) \in Nat
                        /\ n <= m => Older(n, m) <= m
                        /\ Older(n, m) <= n + 1
                        /\ n < m => Older(n, m) = n + 1
                        /\ n >= m => Older(n, m) = n
  BY DEF Older
<1> DEFINE cap == CommandTimeout + MaxTick + 1
<1>5. /\ SourceTimeout + 1 \in Nat /\ CommandTimeout + 1 \in Nat /\ cap \in Nat
      /\ StopHeartbeat \in Nat /\ MaxTick \in Nat /\ TickPeriod \in Nat
      /\ CommandTimeout \in Nat
  BY BridgeAssumption
<1> HIDE DEF cap
<1>6. core' \in Core
  <2>1. Older(core.recvAge, SourceTimeout + 1) \in Nat
    BY <1>1, <1>4, <1>5, CoreFields
  <2>2. Older(core.driveAge, CommandTimeout + 1) \in Nat
    BY <1>1, <1>4, <1>5, CoreFields
  <2>3. Older(core.stopAge, StopHeartbeat) \in Nat
    BY <1>1, <1>4, <1>5, CoreFields
  <2>4. Older(core.sinceTick, MaxTick) \in Nat
    BY <1>1, <1>4, <1>5, CoreFields
  <2>5. Less(core.due) \in Nat /\ Less(core.guard) \in Nat /\ Less(core.hold) \in Nat
    BY <1>1, <1>2, CoreFields
  <2>6. Aged(core) \in Core
    BY <1>1, <2>1, <2>2, <2>3, <2>4, <2>5 DEF Aged, Core
  <2>7. QED BY <2>6 DEF Elapse
<1>7. /\ core'.guard = Less(core.guard) /\ core'.hold = Less(core.hold)
      /\ core'.inhibit = core.inhibit /\ core'.deadman = core.deadman
      /\ core'.pendingAction = core.pendingAction
      /\ core'.pendingStop = core.pendingStop /\ core'.moving = core.moving
      /\ core'.intent = core.intent /\ core'.source = core.source
      /\ core'.sinceTick = Older(core.sinceTick, MaxTick)
  BY <1>1 DEF Elapse, Aged, Core
<1>8. /\ robot'.velocity = robot.velocity /\ robot'.acting = Less(robot.acting)
      /\ robot'.own = robot.own /\ robot'.clash = robot.clash
      /\ \/ robot'.driveAge = robot.driveAge
         \/ robot'.driveAge = Older(robot.driveAge, cap)
  BY <1>1 DEF Elapse, Robot, cap
<1>9. robot' \in Robot
  <2>1. robot.acting \in Nat /\ robot.driveAge \in Nat
    BY <1>1 DEF Robot
  <2>2. /\ Less(robot.acting) \in Nat
        /\ Older(robot.driveAge, cap) \in Nat
    BY <1>2, <1>4, <1>5, <2>1
  <2>3. QED BY <1>1, <2>1, <2>2 DEF Elapse, Robot, cap
<1>10. Windows(core') /\ Owned(core')
  <2>1. core.guard \in Nat /\ core.hold \in Nat
    BY <1>1, CoreFields
  <2>2. QED BY <1>2, <1>7, <2>1 DEF IndInv, Windows, Owned, Inhibited
<1>11. Follows(core', robot')
  <2>1. core.hold \in Nat /\ robot.acting \in Nat
    BY <1>1, CoreFields DEF Robot
  <2>2. QED BY <1>2, <1>3, <1>7, <1>8, <2>1 DEF IndInv, Follows
<1>12. Timely(core', robot', closing)
  <2>1. core.sinceTick \in Nat /\ robot.driveAge \in Nat
    BY <1>1, CoreFields DEF Robot
  <2>2. /\ core'.sinceTick <= MaxTick
        /\ \/ core'.sinceTick = core.sinceTick + 1
           \/ core'.sinceTick = core.sinceTick /\ core.sinceTick = MaxTick
    <3>1. core.sinceTick <= MaxTick
      BY DEF IndInv, Timely
    <3>2. core'.sinceTick = Older(core.sinceTick, MaxTick)
      BY <1>7
    <3>3. QED BY <1>5, <2>1, <3>1, <3>2 DEF Older
  <2>3. /\ robot'.driveAge \in Nat /\ robot'.driveAge <= robot.driveAge + 1
        /\ robot.driveAge <= cap => robot'.driveAge <= cap
    <3>1. robot'.driveAge \in {robot.driveAge, Older(robot.driveAge, cap)}
      BY <1>8
    <3>2. QED BY <1>5, <2>1, <3>1 DEF Older
  <2>4. closing => robot'.velocity = 0
    BY <1>8 DEF IndInv, Timely
  <2>5. ~closing => core'.sinceTick <= TickPeriod /\ core.sinceTick < TickPeriod
    BY <1>5, <2>1, <2>2 DEF Elapse, IndInv, Timely
  <2>6. ASSUME robot'.velocity # 0, robot'.own
        PROVE  \/ robot'.driveAge <= CommandTimeout + core'.sinceTick
               \/ /\ MaxTick < TickPeriod
                  /\ robot'.driveAge <= CommandTimeout + MaxTick + 1
    <3>1. \/ robot.driveAge <= CommandTimeout + core.sinceTick
          \/ /\ MaxTick < TickPeriod
             /\ robot.driveAge <= CommandTimeout + MaxTick + 1
      BY <1>8, <2>6 DEF IndInv, Timely
    <3>2. core.sinceTick < TickPeriod
      BY <2>4, <2>5, <2>6
    <3>3. QED BY <1>5, <2>1, <2>2, <2>3, <3>1, <3>2 DEF cap
  <2>7. QED BY <2>2, <2>4, <2>5, <2>6 DEF Timely
<1>13. QED BY <1>6, <1>9, <1>10, <1>11, <1>12
           DEF Elapse, IndInv, TypeOK, Windows, Owned, Follows, Timely, Inhibited

LEMMA NextIndInv == IndInv /\ [Next]_vars => IndInv'
<1> SUFFICES ASSUME IndInv, [Next]_vars PROVE IndInv'
  OBVIOUS
<1>1. CASE Dashboards
  BY <1>1, ReceiveIndInv DEF Dashboards
<1>2. CASE TransportFault
  BY <1>2, TransportFaultIndInv
<1>3. CASE Ticks
  BY <1>3, TickIndInv DEF Ticks
<1>4. CASE StopSafely
  BY <1>4, StopSafelyIndInv
<1>5. CASE Elapse
  BY <1>5, ElapseIndInv
<1>6. CASE Restart
  BY <1>6, RestartIndInv
<1>7. CASE UNCHANGED vars
  BY <1>7 DEF vars, IndInv, TypeOK, Windows, Owned, Follows, Timely, Inhibited
<1>8. QED BY <1>1, <1>2, <1>3, <1>4, <1>5, <1>6, <1>7 DEF Next, Background

-----------------------------------------------------------------------------
(* The theorems.                                                           *)

\* The inductive invariant holds in every reachable state.
THEOREM BridgeInvariant == Spec => []IndInv
BY InitIndInv, NextIndInv, PTL DEF Spec

\* The object and the robot stay well formed, whatever commands arrive.
THEOREM BridgeTypeOK == Spec => []TypeOK
<1>1. IndInv => TypeOK
  BY DEF IndInv
<1>2. QED BY <1>1, BridgeInvariant, PTL

\* No Move interrupts the safety window of an action, for every length of the
\* windows, and across faults, rejected commands and bridge restarts.
THEOREM ActionsAreNotInterrupted == Spec => []ActionNotInterrupted
<1>1. IndInv => ActionNotInterrupted
  BY DEF IndInv, Follows, ActionNotInterrupted
<1>2. QED BY <1>1, BridgeInvariant, PTL

\* The drive the bridge holds is the owning source's, for any number of
\* dashboards that take the bridge over from each other.
THEOREM MotionIsOwned == Spec => []MotionOwned
<1>1. IndInv => MotionOwned
  BY DEF IndInv, Owned, MotionOwned
<1>2. QED BY <1>1, BridgeInvariant, PTL

\* A robot that was told to move is known to be moving or about to be stopped.
THEOREM MotionIsTracked == Spec => []MotionTracked
<1>1. IndInv => MotionTracked
  BY DEF IndInv, Follows, MotionTracked
<1>2. QED BY <1>1, BridgeInvariant, PTL

\* The robot never moves on an input older than the command timeout plus one
\* tick period, for all values of the two.
THEOREM BridgeWatchdogHolds == Spec => []BridgeWatchdogBound
<1>1. IndInv => BridgeWatchdogBound
  <2> SUFFICES ASSUME IndInv, robot.velocity # 0, robot.own
               PROVE  robot.driveAge <= CommandTimeout + TickPeriod
    BY DEF BridgeWatchdogBound
  <2>1. core.sinceTick \in Nat /\ robot.driveAge \in Nat
    BY CoreFields DEF IndInv, TypeOK, Robot
  <2>2. core.sinceTick <= TickPeriod
    BY DEF IndInv, TypeOK, Timely
  <2>3. QED BY <2>1, <2>2, BridgeAssumption DEF IndInv, Timely
<1>2. QED BY <1>1, BridgeInvariant, PTL
=============================================================================
