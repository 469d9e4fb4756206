-------------------------- MODULE ControlLinkProofs --------------------------
(***************************************************************************)
(* Proofs about ControlLink, for any number of dashboards, bridge          *)
(* processes, leases and envelopes.                                        *)
(*                                                                         *)
(* The invariant has a part for one dashboard (Local), one that relates it *)
(* to the running bridge (Known), one for its readiness, one for batches   *)
(* between drain and publication (Held), and one for the bridge and the    *)
(* statuses in flight.  Every operator of the transport has a lemma.       *)
(* A second invariant (LedgerInv) is about the numbering of leases and     *)
(* envelopes, a third (EpochInv) about the epochs a dashboard has seen.    *)
(***************************************************************************)
EXTENDS ControlLink, TLAPS

-----------------------------------------------------------------------------
(* The inductive invariant.                                                *)

NoDriveIn(q) == \A i \in DOMAIN q : q[i].type # "drive"

\* The manager's queue holds no drive, and every drive the dashboard has sent
\* goes to the bridge process its lease was granted under.
Local(x) ==
    /\ x \in Dash
    /\ NoDriveIn(x.queue)
    /\ x.lapse <= x.seq
    /\ x.pending # NoPending => x.pending.seq > x.lapse
    /\ \A c \in x.sent : /\ c.source = x.id
                         /\ c.type = "drive" => c.granted = c.epoch

\* Nothing is known of a bridge process before it exists, and over UDP a
\* dashboard that is synchronised with the running one has stopped it.
Known(x, b) ==
    /\ x.epoch <= b.epoch /\ x.syncEpoch <= b.epoch
    /\ \A c \in x.sent : c.epoch <= b.epoch
    /\ datagram /\ ~x.syncRequired /\ x.syncEpoch = b.epoch =>
          b.stops[x.id] > x.lapse
    /\ \A c \in x.sent : datagram /\ c.type = "drive" /\ c.epoch = b.epoch =>
          b.stops[x.id] >= 0

\* A lease is of the epoch the dashboard addresses and ends with readiness;
\* over UDP readiness means that the hand-off is done.
ReadyPart(x) ==
    /\ x.ready => x.epoch # 0
    /\ datagram /\ x.ready => ~x.syncRequired /\ x.syncEpoch = x.epoch
    /\ x.lease # 0 => x.granted = x.epoch /\ x.ready

\* A drained batch belongs to the holder of the lock, so its drives cannot
\* outlive the epoch they were drained under.
Held(x, b) ==
    \A t \in Threads :
        /\ x.batch[t] # <<>> => x.lock = t
        /\ \A i \in DOMAIN x.batch[t] : x.batch[t][i].type = "drive" =>
              /\ x.batch[t][i].granted = x.epoch
              /\ datagram /\ x.epoch = b.epoch => b.stops[x.id] >= 0

\* What holds even while an operator of the transport is at work.
CoreInv(x, b) == Local(x) /\ Known(x, b) /\ Held(x, b)

DashInv(x, b) == CoreInv(x, b) /\ ReadyPart(x)

\* A status that acknowledges a stop is true of the process that sent it.
BridgeInv(b, S) ==
    /\ b \in Bridge /\ b.epoch >= 1
    /\ b.drive # NoDrive => /\ b.drive.source \in Dashboards
                            /\ b.drive.granted = b.epoch
                            /\ datagram => b.stops[b.drive.source] >= 0
    /\ \A d \in Dashboards : b.stops[d] <= b.lastSeq[d]
    /\ S \subseteq Statuses /\ StatusOf(b) \in S
    /\ \A s \in S :
          /\ 1 <= s.epoch /\ s.epoch <= b.epoch
          /\ s.epoch = b.epoch /\ s.ack.type = "stop" =>
                s.ack.source \in Dashboards /\ b.stops[s.ack.source] >= s.ack.seq

IndInv ==
    /\ datagram \in BOOLEAN
    /\ dash \in [Dashboards -> Dash]
    /\ \A d \in Dashboards : dash[d].id = d /\ DashInv(dash[d], bridge)
    /\ BridgeInv(bridge, statuses)

-----------------------------------------------------------------------------
(* Data.                                                                   *)

LEMMA DashFields ==
    ASSUME NEW x \in Dash
    PROVE  /\ x.id \in Dashboards /\ x.epoch \in Nat /\ x.syncEpoch \in Nat
           /\ x.seq \in Int /\ x.seq >= -1 /\ x.lapse \in Int /\ x.lapse >= -1
           /\ x.lease \in Nat /\ x.granted \in Nat /\ x.leases \in Nat
           /\ x.queue \in Seq(Outputs) /\ x.sent \subseteq Envelopes
           /\ x.batch \in [Threads -> Seq(Outputs)]
           /\ x.pending.seq \in Int /\ x.ready \in BOOLEAN
           /\ x.retired \in Seq(Nat)
  BY DEF Dash

LEMMA OutFacts ==
    ASSUME NEW x \in Dash, NEW type \in {"stop", "drive", "action"}
    PROVE  /\ Out(type, x) \in Outputs /\ Out(type, x).type = type
           /\ Out(type, x).granted = x.granted
  BY DashFields DEF Out, Outputs

LEMMA AppendStop ==
    ASSUME NEW q \in Seq(Outputs), NoDriveIn(q), NEW o \in Outputs,
           o.type # "drive"
    PROVE  Append(q, o) \in Seq(Outputs) /\ NoDriveIn(Append(q, o))
  BY DEF NoDriveIn

-----------------------------------------------------------------------------
(* The operators of the transport.                                         *)

\* What publishing and losing readiness leave alone.
Frame(x, y) ==
    /\ y \in Dash
    /\ y.id = x.id /\ y.epoch = x.epoch /\ y.syncEpoch = x.syncEpoch
    /\ y.syncRequired = x.syncRequired /\ y.pending = x.pending
    /\ y.batch = x.batch /\ y.lock = x.lock /\ y.lapse = x.lapse
    /\ y.seq >= x.seq
    /\ y.ready => x.ready
    /\ y.lease # 0 => /\ y.lease = x.lease /\ y.granted = x.granted
                      /\ y.ready = x.ready
    /\ NoDriveIn(x.queue) => NoDriveIn(y.queue)

\* Every envelope sent in between comes from outs.
Sends(x, y, outs) ==
    \A c \in y.sent : c \in x.sent \/ \E i \in DOMAIN outs : c = Envelope(x, outs[i], i)

LEMMA NotReadyFacts ==
    ASSUME NEW x \in Dash
    PROVE  /\ Frame(x, NotReady(x)) /\ NotReady(x).sent = x.sent
           /\ ~NotReady(x).ready /\ NotReady(x).lease = 0
           /\ NotReady(x).seq = x.seq
  <1> DEFINE q == IF x.lease # 0 THEN Append(x.queue, Out("stop", x))
                  ELSE x.queue
             y == NotReady(x)
  <1>1. /\ Out("stop", x) \in Outputs /\ Out("stop", x).type # "drive"
        /\ x.queue \in Seq(Outputs)
    BY OutFacts, DashFields
  <1>2. q \in Seq(Outputs) /\ (NoDriveIn(x.queue) => NoDriveIn(q))
    <2>1. NoDriveIn(x.queue) => NoDriveIn(Append(x.queue, Out("stop", x)))
      BY <1>1, AppendStop
    <2> QED
      BY <1>1, <2>1
  <1>3. y = [x EXCEPT !.lease = 0, !.granted = 0, !.since = -1,
                      !.ready = FALSE, !.queue = q]
    BY DEF NotReady, Unleased, Dash
  <1> HIDE DEF q, y
  <1>4. y \in Dash
    BY <1>2, <1>3 DEF Dash
  <1>5. /\ y.id = x.id /\ y.epoch = x.epoch /\ y.syncEpoch = x.syncEpoch
        /\ y.syncRequired = x.syncRequired /\ y.pending = x.pending
        /\ y.batch = x.batch /\ y.lock = x.lock /\ y.lapse = x.lapse
        /\ y.seq = x.seq /\ y.sent = x.sent /\ y.queue = q
        /\ y.ready = FALSE /\ y.lease = 0
    BY <1>3 DEF Dash
  <1> QED
    BY <1>2, <1>4, <1>5, DashFields DEF Frame, y

LEMMA PublishFacts ==
    ASSUME NEW x \in Dash, NEW outs \in Seq(Outputs), NEW n \in Nat
    PROVE  /\ Frame(x, Publish(x, outs, n))
           /\ Sends(x, Publish(x, outs, n), outs)
           /\ outs # <<>> /\ Published(x, outs, n) =>
                 Publish(x, outs, n).seq > x.seq
  <1> DEFINE y == Publish(x, outs, n)
             good == IF n < Len(outs) THEN n ELSE Len(outs)
             new == {Envelope(x, outs[i], i) : i \in 1..good}
             used == IF good = Len(outs) THEN good ELSE good + 1
             p == [x EXCEPT !.seq = @ + used, !.sent = @ \cup new]
  <1>1. good \in Nat /\ good <= Len(outs) /\ Len(outs) \in Nat
    OBVIOUS
  <1>2. new \subseteq Envelopes
    <2> SUFFICES ASSUME NEW i \in 1..good PROVE Envelope(x, outs[i], i) \in Envelopes
      OBVIOUS
    <2>1. outs[i] \in Outputs
      BY <1>1
    <2>2. x.seq + i \in Nat /\ x.id \in Dashboards /\ x.epoch \in Nat
      BY <1>1, DashFields
    <2> QED
      BY <2>1, <2>2 DEF Envelope, Envelopes, Outputs
  <1>3. \A c \in new : \E i \in DOMAIN outs : c = Envelope(x, outs[i], i)
    BY <1>1
  <1>4. used \in Nat /\ used >= good /\ x.seq \in Int /\ x.seq >= -1
    BY <1>1, DashFields
  <1> HIDE DEF new, good, used
  <1>5. p \in Dash
    <2>1. x.seq + used \in Nat \cup {-1} /\ x.sent \cup new \subseteq Envelopes
      BY <1>2, <1>4, DashFields
    <2> QED
      BY <2>1 DEF Dash
  <1>6. /\ p.id = x.id /\ p.epoch = x.epoch /\ p.syncEpoch = x.syncEpoch
        /\ p.syncRequired = x.syncRequired /\ p.pending = x.pending
        /\ p.batch = x.batch /\ p.lock = x.lock /\ p.lapse = x.lapse
        /\ p.seq = x.seq + used /\ p.sent = x.sent \cup new
        /\ p.queue = x.queue /\ p.ready = x.ready /\ p.lease = x.lease
        /\ p.granted = x.granted
    BY DEF Dash
  <1> HIDE DEF p
  <1>7. Frame(x, p)
    <2>1. x.seq + used >= x.seq
      BY <1>1, <1>4
    <2> QED
      BY <1>5, <1>6, <2>1 DEF Frame
  <1>8. CASE outs = <<>> \/ x.down \/ x.epoch = 0
    <2>1. y = x
      BY <1>8 DEF Publish
    <2>2. Frame(x, x)
      BY DashFields DEF Frame
    <2> QED
      BY <1>8, <2>1, <2>2 DEF Sends, Published
  <1>9. CASE ~(outs = <<>> \/ x.down \/ x.epoch = 0)
    <2>1. y = IF good = Len(outs) THEN p ELSE NotReady(p)
      BY <1>9 DEF Publish, p, used, good, new
    <2>2. CASE good = Len(outs)
      <3>1. used > 0
        BY <1>1, <1>9, <2>2 DEF used
      <3>2. p.seq > x.seq
        BY <1>4, <1>6, <3>1
      <3> QED
        BY <1>3, <1>6, <1>7, <2>1, <2>2, <3>2 DEF Sends
    <2>3. CASE good # Len(outs)
      <3>1. Frame(p, NotReady(p)) /\ NotReady(p).sent = p.sent
            /\ NotReady(p).seq = p.seq
        BY <1>5, NotReadyFacts
      <3>2. ~Published(x, outs, n)
        BY <1>1, <2>3 DEF Published, good
      <3>3. Frame(x, NotReady(p))
        BY <1>7, <3>1 DEF Frame
      <3> QED
        BY <1>3, <1>6, <2>1, <2>3, <3>1, <3>2, <3>3 DEF Sends
    <2> QED
      BY <2>2, <2>3
  <1> QED
    BY <1>8, <1>9

\* An operator that publishes no drive.
Quiet(x, y) ==
    /\ Frame(x, y)
    /\ \A c \in y.sent :
          \/ c \in x.sent
          \/ c.source = x.id /\ c.type # "drive" /\ c.epoch = x.epoch

LEMMA QuietTrans ==
    ASSUME NEW x \in Dash, NEW y, NEW z, Quiet(x, y), Quiet(y, z)
    PROVE  Quiet(x, z)
  <1>1. y \in Dash /\ z \in Dash
    BY DEF Quiet, Frame
  <1>2. Frame(x, z)
    <2>1. z.seq >= x.seq
      <3>1. x.seq \in Int /\ y.seq \in Int /\ z.seq \in Int
        BY <1>1, DashFields
      <3>2. y.seq >= x.seq /\ z.seq >= y.seq
        BY DEF Quiet, Frame
      <3> QED
        BY <3>1, <3>2
    <2> QED
      BY <1>1, <2>1 DEF Quiet, Frame
  <1> QED
    BY <1>2 DEF Quiet, Frame

LEMMA PublishQuiet ==
    ASSUME NEW x \in Dash, NEW outs \in Seq(Outputs), NEW n \in Nat,
           NoDriveIn(outs)
    PROVE  Quiet(x, Publish(x, outs, n))
  <1>1. \A i \in DOMAIN outs :
          /\ Envelope(x, outs[i], i).source = x.id
          /\ Envelope(x, outs[i], i).type # "drive"
          /\ Envelope(x, outs[i], i).epoch = x.epoch
    BY DEF Envelope, NoDriveIn
  <1> DEFINE y == Publish(x, outs, n)
  <1>2. Frame(x, y) /\ Sends(x, y, outs)
    BY PublishFacts
  <1> HIDE DEF y
  <1>3. \A c \in y.sent :
          \/ c \in x.sent
          \/ c.source = x.id /\ c.type # "drive" /\ c.epoch = x.epoch
    <2> TAKE c \in y.sent
    <2>1. CASE c \notin x.sent
      <3>1. PICK i \in DOMAIN outs : c = Envelope(x, outs[i], i)
        BY <1>2, <2>1 DEF Sends
      <3> QED
        BY <1>1, <3>1
    <2> QED
      BY <2>1
  <1>4. Quiet(x, y)
    BY <1>2, <1>3 DEF Quiet
  <1> QED
    BY <1>4 DEF y

LEMMA FlushQuiet ==
    ASSUME NEW x \in Dash, NoDriveIn(x.queue), NEW n \in Nat
    PROVE  Quiet(x, Flush(x, n))
  <1> DEFINE y == [x EXCEPT !.queue = <<>>]
  <1>1. <<>> \in Seq(Outputs) /\ NoDriveIn(<<>>)
    BY DEF NoDriveIn
  <1>2. y \in Dash
    BY <1>1 DEF Dash
  <1>3. /\ y.id = x.id /\ y.epoch = x.epoch /\ y.syncEpoch = x.syncEpoch
        /\ y.syncRequired = x.syncRequired /\ y.pending = x.pending
        /\ y.batch = x.batch /\ y.lock = x.lock /\ y.lapse = x.lapse
        /\ y.seq = x.seq /\ y.sent = x.sent /\ y.queue = <<>>
        /\ y.ready = x.ready /\ y.lease = x.lease /\ y.granted = x.granted
    BY DEF Dash
  <1>4. Quiet(x, y)
    <2> HIDE DEF y
    <2>1. y.seq >= x.seq
      BY <1>3, DashFields
    <2>2. Frame(x, y)
      BY <1>1, <1>2, <1>3, <2>1 DEF Frame
    <2> QED
      BY <1>3, <2>2 DEF Quiet
  <1>5. x.queue \in Seq(Outputs)
    BY DashFields
  <1>6. Flush(x, n) = Publish(y, x.queue, n)
    BY DEF Flush
  <1> HIDE DEF y
  <1>7. Quiet(y, Publish(y, x.queue, n))
    BY <1>2, <1>5, PublishQuiet
  <1> QED
    BY <1>4, <1>6, <1>7, QuietTrans

\* A quiet operator keeps both invariants.
LEMMA QuietCore ==
    ASSUME NEW x \in Dash, NEW y, NEW b \in Bridge, CoreInv(x, b), Quiet(x, y)
    PROVE  CoreInv(y, b)
  <1>1. y \in Dash /\ x.id = y.id
    BY DEF Quiet, Frame
  <1>2. /\ x.seq \in Int /\ y.seq \in Int /\ x.lapse \in Int /\ y.lapse \in Int
    BY <1>1, DashFields
  <1>3. Local(y)
    <2>1. y.lapse <= y.seq
      BY <1>2 DEF CoreInv, Local, Quiet, Frame
    <2> QED
      BY <1>1, <2>1 DEF CoreInv, Local, Quiet, Frame
  <1>4. Known(y, b)
    BY <1>1 DEF CoreInv, Known, Quiet, Frame
  <1>5. Held(y, b)
    BY <1>1 DEF CoreInv, Held, Quiet, Frame
  <1> QED
    BY <1>3, <1>4, <1>5 DEF CoreInv

LEMMA QuietReady ==
    ASSUME NEW x, NEW y, ReadyPart(x), Quiet(x, y)
    PROVE  ReadyPart(y)
  BY DEF ReadyPart, Quiet, Frame

\* What an operator under the operation lock leaves alone.
Same(x, y) == y.id = x.id /\ y.batch = x.batch /\ y.lock = x.lock

LEMMA UnreadyFacts ==
    ASSUME NEW x \in Dash, NEW b \in Bridge, CoreInv(x, b), NEW n \in Nat
    PROVE  /\ DashInv(SetReadiness(x, FALSE, n), b)
           /\ Same(x, SetReadiness(x, FALSE, n))
           /\ SetReadiness(x, FALSE, n).epoch = x.epoch
           /\ SetReadiness(x, FALSE, n).syncRequired = x.syncRequired
           /\ SetReadiness(x, FALSE, n).syncEpoch = x.syncEpoch
           /\ ~SetReadiness(x, FALSE, n).ready
  <1> DEFINE y == NotReady(x)
             z == SetReadiness(x, FALSE, n)
  <1>1. /\ Frame(x, y) /\ y.sent = x.sent /\ ~y.ready /\ y.lease = 0
    BY NotReadyFacts
  <1>2. z = Flush(y, n)
    BY DEF SetReadiness
  <1> HIDE DEF y, z
  <1>3. Quiet(x, y) /\ y \in Dash /\ NoDriveIn(y.queue)
    BY <1>1 DEF Quiet, Frame, CoreInv, Local
  <1>4. Quiet(y, z)
    BY <1>2, <1>3, FlushQuiet
  <1>5. Quiet(x, z)
    BY <1>3, <1>4, QuietTrans
  <1>6. CoreInv(z, b)
    BY <1>5, QuietCore
  <1>7. ReadyPart(y)
    BY <1>1 DEF ReadyPart
  <1>8. ReadyPart(z) /\ ~z.ready
    BY <1>1, <1>4, <1>7, QuietReady DEF Quiet, Frame
  <1> QED
    BY <1>5, <1>6, <1>8 DEF DashInv, Same, Quiet, Frame, z

LEMMA LapseFacts ==
    ASSUME NEW x \in Dash, NEW b \in Bridge, CoreInv(x, b),
           datagram \in BOOLEAN
    PROVE  CoreInv(Lapse(x), b) /\ Lapse(x) \in Dash /\ Same(x, Lapse(x))
           /\ Lapse(x).epoch = x.epoch
  <1> DEFINE y == Lapse(x)
  <1>1. y = IF datagram
            THEN [x EXCEPT !.received = FALSE, !.syncRequired = TRUE,
                           !.syncEpoch = 0, !.pending = NoPending,
                           !.lapse = x.seq]
            ELSE [x EXCEPT !.received = FALSE]
    BY DEF Lapse, Dash
  <1>2. x.seq \in Nat \cup {-1} /\ x.seq <= x.seq
    BY DEF Dash
  <1>3. NoPending \in [epoch : Nat, seq : Nat \cup {-1}]
    BY DEF NoPending
  <1> HIDE DEF y
  <1>4. y \in Dash
    BY <1>1, <1>2, <1>3 DEF Dash
  <1>5. /\ y.id = x.id /\ y.epoch = x.epoch /\ y.seq = x.seq
        /\ y.batch = x.batch /\ y.lock = x.lock /\ y.sent = x.sent
        /\ y.queue = x.queue
    BY <1>1 DEF Dash
  <1>6. IF datagram THEN /\ y.syncRequired = TRUE /\ y.syncEpoch = 0
                         /\ y.pending = NoPending /\ y.lapse = x.seq
        ELSE /\ y.syncRequired = x.syncRequired /\ y.syncEpoch = x.syncEpoch
             /\ y.pending = x.pending /\ y.lapse = x.lapse
    BY <1>1 DEF Dash
  <1>7. Local(y)
    BY <1>2, <1>4, <1>5, <1>6 DEF CoreInv, Local
  <1>8. Known(y, b)
    <2>1. b.epoch \in Nat
      BY DEF Bridge
    <2>2. y.syncEpoch <= b.epoch
      BY <1>6, <2>1 DEF CoreInv, Known
    <2> QED
      BY <1>5, <1>6, <2>2 DEF CoreInv, Known
  <1>9. Held(y, b)
    BY <1>5 DEF CoreInv, Held
  <1> QED
    BY <1>4, <1>5, <1>7, <1>8, <1>9 DEF CoreInv, Same, y

LEMMA SetUnreadyFacts ==
    ASSUME NEW x \in Dash, NEW b \in Bridge, CoreInv(x, b),
           datagram \in BOOLEAN, NEW n \in Nat
    PROVE  DashInv(SetUnready(x, n), b) /\ Same(x, SetUnready(x, n))
  BY LapseFacts, UnreadyFacts DEF SetUnready, Same

LEMMA StalenessFacts ==
    ASSUME NEW x \in Dash, NEW b \in Bridge, DashInv(x, b),
           datagram \in BOOLEAN, NEW stale \in BOOLEAN, NEW n \in Nat
    PROVE  /\ DashInv(UpdateStaleness(x, stale, n), b)
           /\ Same(x, UpdateStaleness(x, stale, n))
  <1>1. CoreInv(x, b)
    BY DEF DashInv
  <1>2. CASE ~stale
    BY <1>2 DEF UpdateStaleness, Same
  <1>3. CASE stale
    <2> DEFINE y == IF x.received THEN Lapse(x) ELSE x
    <2>1. CoreInv(y, b) /\ y \in Dash /\ Same(x, y)
      BY <1>1, LapseFacts DEF Same
    <2>2. UpdateStaleness(x, stale, n) = SetReadiness(y, FALSE, n)
      BY <1>3 DEF UpdateStaleness
    <2> HIDE DEF y
    <2>3. DashInv(SetReadiness(y, FALSE, n), b) /\ Same(y, SetReadiness(y, FALSE, n))
      BY <2>1, UnreadyFacts
    <2> QED
      BY <2>1, <2>2, <2>3 DEF Same
  <1> QED
    BY <1>2, <1>3

\* Nothing is drained while the lock is free.
Idle(x) == \A t \in Threads : x.batch[t] = <<>>

LEMMA IdleHeld ==
    ASSUME NEW x, NEW b, Idle(x)
    PROVE  Held(x, b)
  BY DEF Idle, Held

LEMMA FreeIsIdle ==
    ASSUME NEW x \in Dash, NEW b, Held(x, b), Free(x)
    PROVE  Idle(x)
  BY DEF Idle, Held, Free, Threads

LEMMA RetireType ==
    ASSUME NEW s \in Seq(Nat), NEW e \in Nat
    PROVE  (IF Member(s, e) THEN s ELSE LastOf(Append(s, e), RetiredMemory))
              \in Seq(Nat)
  <1>1. LastOf(Append(s, e), RetiredMemory) \in Seq(Nat)
    BY LinkAssumption DEF LastOf
  <1> QED
    BY <1>1

LEMMA TakeEpochFacts ==
    ASSUME NEW x \in Dash, NEW b \in Bridge, DashInv(x, b), Idle(x),
           NEW e \in Nat \ {0}, e <= b.epoch, NEW n \in Nat
    PROVE  /\ DashInv(TakeEpoch(x, e, n), b) /\ Same(x, TakeEpoch(x, e, n))
           /\ TakeEpoch(x, e, n).epoch = e
  <1> DEFINE r == IF Member(x.retired, x.epoch) THEN x.retired
                  ELSE LastOf(Append(x.retired, x.epoch), RetiredMemory)
             u == [x EXCEPT !.epoch = e, !.received = TRUE]
             v == [x EXCEPT !.retired = r, !.syncEpoch = 0,
                            !.syncRequired = TRUE, !.pending = NoPending,
                            !.lapse = x.seq, !.epoch = e, !.received = TRUE]
  <1>1. b.epoch \in Nat
    BY DEF Bridge
  <1>2. CASE x.epoch = 0 \/ x.epoch = e
    <2>1. TakeEpoch(x, e, n) = u
      BY <1>2 DEF TakeEpoch
    <2>2. u \in Dash
      BY DEF Dash
    <2>3. /\ u.id = x.id /\ u.epoch = e /\ u.seq = x.seq /\ u.batch = x.batch
          /\ u.lock = x.lock /\ u.sent = x.sent /\ u.queue = x.queue
          /\ u.syncRequired = x.syncRequired /\ u.syncEpoch = x.syncEpoch
          /\ u.pending = x.pending /\ u.lapse = x.lapse
          /\ u.ready = x.ready /\ u.lease = x.lease /\ u.granted = x.granted
      BY DEF Dash
    <2> HIDE DEF u
    <2>4. Local(u) /\ Known(u, b)
      BY <2>2, <2>3 DEF DashInv, CoreInv, Local, Known
    <2>5. Held(u, b)
      BY <2>3, IdleHeld DEF Idle
    <2>6. ReadyPart(u)
      BY <1>2, <2>3 DEF DashInv, ReadyPart
    <2> QED
      BY <2>1, <2>3, <2>4, <2>5, <2>6 DEF DashInv, CoreInv, Same
  <1>3. CASE ~(x.epoch = 0 \/ x.epoch = e)
    <2>1. TakeEpoch(x, e, n) = SetReadiness(v, FALSE, n)
      BY <1>3 DEF TakeEpoch, Dash
    <2>2. r \in Seq(Nat)
      BY RetireType, DashFields
    <2>3. /\ x.seq \in Nat \cup {-1} /\ x.seq <= x.seq
          /\ NoPending \in [epoch : Nat, seq : Nat \cup {-1}]
      BY DEF Dash, NoPending
    <2> HIDE DEF r
    <2>4. v \in Dash
      BY <2>2, <2>3 DEF Dash
    <2>5. /\ v.id = x.id /\ v.epoch = e /\ v.seq = x.seq /\ v.batch = x.batch
          /\ v.lock = x.lock /\ v.sent = x.sent /\ v.queue = x.queue
          /\ v.syncRequired = TRUE /\ v.syncEpoch = 0
          /\ v.pending = NoPending /\ v.lapse = x.seq
      BY DEF Dash
    <2> HIDE DEF v
    <2>6. Local(v)
      BY <2>3, <2>4, <2>5 DEF DashInv, CoreInv, Local
    <2>7. Known(v, b)
      BY <1>1, <2>5 DEF DashInv, CoreInv, Known
    <2>8. Held(v, b)
      BY <2>5, IdleHeld DEF Idle
    <2>9. CoreInv(v, b)
      BY <2>6, <2>7, <2>8 DEF CoreInv
    <2>10. /\ DashInv(SetReadiness(v, FALSE, n), b)
           /\ Same(v, SetReadiness(v, FALSE, n))
           /\ SetReadiness(v, FALSE, n).epoch = v.epoch
      BY <2>4, <2>9, UnreadyFacts
    <2> QED
      BY <2>1, <2>5, <2>10 DEF Same
  <1> QED
    BY <1>2, <1>3

LEMMA NoteAckFacts ==
    ASSUME NEW x \in Dash, NEW b, NEW S, BridgeInv(b, S), NEW s \in S,
           DashInv(x, b), x.epoch = s.epoch
    PROVE  /\ DashInv(NoteAck(x, s), b) /\ Same(x, NoteAck(x, s))
           /\ NoteAck(x, s).epoch = s.epoch
  <1>1. CASE ~Acknowledges(x, s)
    BY <1>1 DEF NoteAck, Same
  <1>2. CASE Acknowledges(x, s)
    <2> DEFINE y == [x EXCEPT !.syncEpoch = s.epoch, !.syncRequired = FALSE,
                              !.pending = NoPending]
    <2>1. y = NoteAck(x, s)
      BY <1>2 DEF NoteAck
    <2>2. s \in Statuses /\ s.epoch \in Nat /\ b \in Bridge /\ b.epoch \in Nat
      BY DEF BridgeInv, Statuses, Bridge
    <2>3. NoPending \in [epoch : Nat, seq : Nat \cup {-1}]
      BY DEF NoPending
    <2>4. y \in Dash
      BY <2>2, <2>3 DEF Dash
    <2>5. /\ y.id = x.id /\ y.epoch = x.epoch /\ y.seq = x.seq
          /\ y.batch = x.batch /\ y.lock = x.lock /\ y.sent = x.sent
          /\ y.queue = x.queue /\ y.syncRequired = FALSE
          /\ y.syncEpoch = s.epoch /\ y.pending = NoPending
          /\ y.lapse = x.lapse /\ y.ready = x.ready /\ y.lease = x.lease
          /\ y.granted = x.granted
      BY DEF Dash
    <2> HIDE DEF y
    <2>6. Local(y)
      BY <2>4, <2>5 DEF DashInv, CoreInv, Local
    <2>7. Known(y, b)
      <3>1. s.epoch <= b.epoch
        BY DEF BridgeInv
      <3>2. s.epoch = b.epoch => b.stops[x.id] > x.lapse
        <4> HAVE s.epoch = b.epoch
        <4>1. /\ s.ack.type = "stop" /\ s.ack.source = x.id
              /\ s.ack.seq = x.pending.seq /\ x.pending # NoPending
          BY <1>2 DEF Acknowledges
        <4>2. b.stops[x.id] >= x.pending.seq
          BY <4>1 DEF BridgeInv
        <4>3. x.pending.seq > x.lapse
          BY <4>1 DEF DashInv, CoreInv, Local
        <4>4. b.stops[x.id] \in Int
          BY <2>2, DashFields DEF Bridge
        <4> QED
          BY <4>2, <4>3, <4>4, DashFields
      <3> QED
        BY <2>5, <3>1, <3>2 DEF DashInv, CoreInv, Known
    <2>8. Held(y, b)
      BY <2>5 DEF DashInv, CoreInv, Held
    <2>9. ReadyPart(y)
      BY <2>5 DEF DashInv, ReadyPart
    <2> QED
      BY <2>1, <2>5, <2>6, <2>7, <2>8, <2>9 DEF DashInv, CoreInv, Same
  <1> QED
    BY <1>1, <1>2

LEMMA ReadinessFacts ==
    ASSUME NEW x \in Dash, NEW b \in Bridge, DashInv(x, b), x.epoch # 0,
           datagram => Synchronized(x, x.epoch), NEW healthy \in BOOLEAN,
           NEW n \in Nat
    PROVE  /\ DashInv(SetReadiness(x, healthy, n), b)
           /\ Same(x, SetReadiness(x, healthy, n))
  <1>1. CASE ~healthy
    <2>1. CoreInv(x, b) /\ healthy = FALSE
      BY <1>1 DEF DashInv
    <2> QED
      BY <2>1, UnreadyFacts
  <1>2. CASE healthy
    <2> DEFINE y == [x EXCEPT !.ready = TRUE]
    <2>1. SetReadiness(x, healthy, n) = Flush(y, n)
      BY <1>2 DEF SetReadiness
    <2>2. y \in Dash
      BY DEF Dash
    <2>3. /\ y.id = x.id /\ y.epoch = x.epoch /\ y.seq = x.seq
          /\ y.batch = x.batch /\ y.lock = x.lock /\ y.sent = x.sent
          /\ y.queue = x.queue /\ y.syncRequired = x.syncRequired
          /\ y.syncEpoch = x.syncEpoch /\ y.pending = x.pending
          /\ y.lapse = x.lapse /\ y.ready = TRUE /\ y.lease = x.lease
          /\ y.granted = x.granted
      BY DEF Dash
    <2> HIDE DEF y
    <2>4. CoreInv(y, b)
      BY <2>2, <2>3 DEF DashInv, CoreInv, Local, Known, Held
    <2>5. ReadyPart(y)
      BY <2>3 DEF DashInv, ReadyPart, Synchronized
    <2>6. Quiet(y, Flush(y, n))
      BY <2>2, <2>4, FlushQuiet DEF CoreInv, Local
    <2>7. CoreInv(Flush(y, n), b) /\ ReadyPart(Flush(y, n))
      BY <2>2, <2>4, <2>5, <2>6, QuietCore, QuietReady
    <2> QED
      BY <2>1, <2>3, <2>6, <2>7 DEF DashInv, Same, Quiet, Frame
  <1> QED
    BY <1>1, <1>2

LEMMA HandoffFacts ==
    ASSUME NEW x \in Dash, NEW b \in Bridge, DashInv(x, b), ~x.ready,
           NEW e \in Nat, NEW due \in BOOLEAN, NEW n \in Nat
    PROVE  /\ DashInv(SendHandoff(x, e, due, n), b)
           /\ Same(x, SendHandoff(x, e, due, n))
  <1> DEFINE stop == [type |-> "stop", lease |-> 0, granted |-> 0]
             outs == <<stop>>
             y == Publish(x, outs, n)
             p == IF Published(x, outs, n) THEN [epoch |-> e, seq |-> y.seq]
                  ELSE NoPending
             z == [y EXCEPT !.syncRequired = TRUE, !.pending = p]
  <1>1. CASE ~(x.pending = NoPending \/ x.pending.epoch # e \/ due)
    BY <1>1 DEF SendHandoff, Same
  <1>2. CASE x.pending = NoPending \/ x.pending.epoch # e \/ due
    <2>1. SendHandoff(x, e, due, n) = z
      BY <1>2 DEF SendHandoff
    <2>2. outs \in Seq(Outputs) /\ outs # <<>> /\ NoDriveIn(outs)
      BY DEF Outputs, NoDriveIn
    <2> HIDE DEF outs
    <2>3. Quiet(x, y) /\ (Published(x, outs, n) => y.seq > x.seq)
      BY <2>2, PublishQuiet, PublishFacts
    <2> HIDE DEF y
    <2>4. y \in Dash /\ CoreInv(y, b) /\ ReadyPart(y) /\ ~y.ready
      BY <2>3, QuietCore, QuietReady DEF DashInv, Quiet, Frame
    <2>5. /\ y.seq \in Nat \cup {-1} /\ x.seq \in Int /\ x.lapse \in Int
          /\ x.lapse <= x.seq /\ y.lapse = x.lapse
      BY <2>3, <2>4, DashFields DEF Dash, DashInv, CoreInv, Local, Quiet, Frame
    <2>6. p \in [epoch : Nat, seq : Nat \cup {-1}]
      BY <2>5 DEF NoPending
    <2>7. p # NoPending => p.seq > y.lapse
      BY <2>3, <2>5
    <2> HIDE DEF p
    <2>8. z \in Dash
      BY <2>4, <2>6 DEF Dash
    <2>9. /\ z.id = y.id /\ z.epoch = y.epoch /\ z.seq = y.seq
          /\ z.batch = y.batch /\ z.lock = y.lock /\ z.sent = y.sent
          /\ z.queue = y.queue /\ z.syncRequired = TRUE
          /\ z.syncEpoch = y.syncEpoch /\ z.pending = p
          /\ z.lapse = y.lapse /\ z.ready = y.ready /\ z.lease = y.lease
          /\ z.granted = y.granted
      BY <2>4 DEF Dash
    <2> HIDE DEF z
    <2>10. Local(z)
      BY <2>4, <2>7, <2>8, <2>9 DEF CoreInv, Local
    <2>11. Known(z, b) /\ Held(z, b)
      BY <2>4, <2>9 DEF CoreInv, Known, Held
    <2>12. ReadyPart(z)
      BY <2>4, <2>9 DEF ReadyPart
    <2> QED
      BY <2>1, <2>3, <2>9, <2>10, <2>11, <2>12
         DEF DashInv, CoreInv, Same, Quiet, Frame
  <1> QED
    BY <1>1, <1>2

LEMMA StatusFacts ==
    ASSUME NEW x \in Dash, NEW b, NEW S, BridgeInv(b, S), NEW s \in S,
           DashInv(x, b), Idle(x), datagram \in BOOLEAN,
           NEW healthy \in BOOLEAN, NEW due \in BOOLEAN,
           NEW n \in Nat, NEW k \in Nat
    PROVE  /\ DashInv(StatusCallback(x, s, healthy, due, n, k), b)
           /\ Same(x, StatusCallback(x, s, healthy, due, n, k))
  <1>1. /\ b \in Bridge /\ s \in Statuses /\ s.epoch \in Nat \ {0}
        /\ s.epoch <= b.epoch /\ CoreInv(x, b) /\ s.observer \in BOOLEAN
    BY DEF BridgeInv, Statuses, DashInv
  <1>2. CASE Retired(x, s.epoch)
    BY <1>1, <1>2, SetUnreadyFacts DEF StatusCallback
  <1>3. CASE ~Retired(x, s.epoch)
    <2> DEFINE y == TakeEpoch(x, s.epoch, n)
               z == NoteAck(y, s)
               w == SetReadiness(z, FALSE, n)
               r == StatusCallback(x, s, healthy, due, n, k)
    <2>1. DashInv(y, b) /\ Same(x, y) /\ y.epoch = s.epoch
      BY <1>1, TakeEpochFacts
    <2>2. r = IF s.observer THEN SetReadiness(y, FALSE, n)
              ELSE IF ~datagram THEN SetReadiness(y, healthy, n)
              ELSE IF Synchronized(z, s.epoch)
              THEN SetReadiness(z, healthy, n)
              ELSE SendHandoff(w, s.epoch, due, k)
      BY <1>3 DEF StatusCallback
    <2> HIDE DEF y, r
    <2>3. y \in Dash /\ CoreInv(y, b)
      BY <2>1 DEF DashInv, CoreInv, Local
    <2>4. DashInv(z, b) /\ Same(y, z) /\ z.epoch = s.epoch
      BY <2>1, <2>3, NoteAckFacts
    <2> HIDE DEF z
    <2>5. z \in Dash /\ CoreInv(z, b)
      BY <2>4 DEF DashInv, CoreInv, Local
    <2>6. CASE s.observer
      <3>1. DashInv(r, b) /\ Same(y, r)
        BY <1>1, <2>2, <2>3, <2>6, UnreadyFacts
      <3> QED
        BY <2>1, <3>1 DEF Same, r
    <2>7. CASE ~s.observer /\ ~datagram
      <3>1. r = SetReadiness(y, healthy, n)
        BY <2>2, <2>7
      <3>2. DashInv(r, b) /\ Same(y, r)
        BY <1>1, <2>1, <2>3, <2>7, <3>1, ReadinessFacts
      <3> QED
        BY <2>1, <3>2 DEF Same, r
    <2>8. CASE ~s.observer /\ datagram /\ Synchronized(z, s.epoch)
      <3>1. r = SetReadiness(z, healthy, n)
        BY <2>2, <2>8
      <3>2. DashInv(r, b) /\ Same(z, r)
        BY <1>1, <2>4, <2>5, <2>8, <3>1, ReadinessFacts
      <3> QED
        BY <2>1, <2>4, <3>2 DEF Same, r
    <2>9. CASE ~s.observer /\ datagram /\ ~Synchronized(z, s.epoch)
      <3>1. r = SendHandoff(w, s.epoch, due, k)
        BY <2>2, <2>9
      <3>2. DashInv(w, b) /\ Same(z, w) /\ ~w.ready
        BY <1>1, <2>5, UnreadyFacts
      <3> HIDE DEF w
      <3>3. w \in Dash
        BY <3>2 DEF DashInv, CoreInv, Local
      <3>4. DashInv(r, b) /\ Same(w, r)
        BY <1>1, <3>1, <3>2, <3>3, HandoffFacts
      <3> QED
        BY <2>1, <2>4, <3>2, <3>4 DEF Same, r
    <2> QED
      BY <1>1, <2>6, <2>7, <2>8, <2>9
  <1> QED
    BY <1>2, <1>3

LEMMA UnleasedFacts ==
    ASSUME NEW x \in Dash
    PROVE  Quiet(x, Unleased(x)) /\ Unleased(x).queue = x.queue
  <1> DEFINE y == Unleased(x)
  <1>1. y \in Dash
    BY DEF Unleased, Dash
  <1>2. /\ y.id = x.id /\ y.epoch = x.epoch /\ y.syncEpoch = x.syncEpoch
        /\ y.syncRequired = x.syncRequired /\ y.pending = x.pending
        /\ y.batch = x.batch /\ y.lock = x.lock /\ y.lapse = x.lapse
        /\ y.seq = x.seq /\ y.sent = x.sent /\ y.queue = x.queue
        /\ y.ready = x.ready /\ y.lease = 0
    BY DEF Unleased, Dash
  <1> HIDE DEF y
  <1>3. y.seq >= x.seq
    BY <1>2, DashFields
  <1>4. Frame(x, y)
    BY <1>1, <1>2, <1>3 DEF Frame
  <1> QED
    BY <1>2, <1>4 DEF Quiet, y

\* A drive that may be held back for publication.
DriveMayWait(x, b, out) ==
    out.type = "drive" =>
        /\ out.granted = x.epoch
        /\ datagram /\ x.epoch = b.epoch => b.stops[x.id] >= 0

LEMMA DrainFacts ==
    ASSUME NEW x \in Dash, NEW b \in Bridge, DashInv(x, b), Free(x),
           NEW t \in Threads, NEW outs \in Seq(Outputs),
           \A i \in DOMAIN outs : DriveMayWait(x, b, outs[i])
    PROVE  DashInv(Drain(x, t, outs), b) /\ Drain(x, t, outs).id = x.id
  <1> DEFINE q == x.queue \o outs
             l == IF q = <<>> THEN x.lock ELSE t
             y == Drain(x, t, outs)
  <1>1. x.queue \in Seq(Outputs) /\ NoDriveIn(x.queue) /\ Idle(x)
        /\ Held(x, b)
    BY DashFields, FreeIsIdle DEF DashInv, CoreInv, Local
  <1>2. q \in Seq(Outputs)
    BY <1>1
  <1>3. \A i \in DOMAIN q : DriveMayWait(x, b, q[i])
    <2> TAKE i \in DOMAIN q
    <2>1. CASE i <= Len(x.queue)
      <3>1. i \in DOMAIN x.queue /\ q[i] = x.queue[i]
        BY <1>1, <2>1
      <3> QED
        BY <1>1, <3>1 DEF NoDriveIn, DriveMayWait
    <2>2. CASE i > Len(x.queue)
      <3>1. i - Len(x.queue) \in DOMAIN outs /\ q[i] = outs[i - Len(x.queue)]
        BY <1>1, <2>2
      <3> QED
        BY <3>1
    <2>3. i \in Int /\ Len(x.queue) \in Int
      BY <1>1, <1>2
    <2> QED
      BY <2>1, <2>2, <2>3
  <1>4. y = [x EXCEPT !.queue = <<>>, !.batch = [@ EXCEPT ![t] = q], !.lock = l]
    BY DEF Drain
  <1>5. <<>> \in Seq(Outputs) /\ NoDriveIn(<<>>)
    BY DEF NoDriveIn
  <1>6. l \in Threads \cup {"free"}
    BY DEF Dash
  <1> HIDE DEF q, l, y
  <1>7. y \in Dash
    BY <1>2, <1>4, <1>5, <1>6 DEF Dash
  <1>8. /\ y.id = x.id /\ y.epoch = x.epoch /\ y.syncEpoch = x.syncEpoch
        /\ y.syncRequired = x.syncRequired /\ y.pending = x.pending
        /\ y.lapse = x.lapse /\ y.seq = x.seq /\ y.sent = x.sent
        /\ y.queue = <<>> /\ y.batch = [x.batch EXCEPT ![t] = q]
        /\ y.lock = l /\ y.ready = x.ready /\ y.lease = x.lease
        /\ y.granted = x.granted
    BY <1>4 DEF Dash
  <1>9. Local(y)
    BY <1>5, <1>7, <1>8 DEF DashInv, CoreInv, Local
  <1>10. Known(y, b) /\ ReadyPart(y)
    BY <1>8 DEF DashInv, CoreInv, Known, ReadyPart
  <1>11. Held(y, b)
    <2>1. \A u \in Threads : y.batch[u] = IF u = t THEN q ELSE <<>>
      BY <1>1, <1>8, DashFields DEF Idle
    <2>2. q # <<>> => y.lock = t
      BY <1>8 DEF l
    <2>3. \A i \in DOMAIN q : DriveMayWait(y, b, q[i])
      BY <1>3, <1>8 DEF DriveMayWait
    <2>4. ASSUME NEW u \in Threads
          PROVE  /\ y.batch[u] # <<>> => y.lock = u
                 /\ \A i \in DOMAIN y.batch[u] : DriveMayWait(y, b, y.batch[u][i])
      <3>1. CASE u = t
        BY <2>1, <2>2, <2>3, <3>1
      <3>2. CASE u # t
        <4>1. y.batch[u] = <<>>
          BY <2>1, <3>2
        <4> QED
          BY <4>1
      <3> QED
        BY <3>1, <3>2
    <2> QED
      BY <2>4 DEF Held, DriveMayWait
  <1> QED
    BY <1>8, <1>9, <1>10, <1>11 DEF DashInv, CoreInv, y

\* The drive of a live lease: its epoch is the addressed one, and over UDP
\* the running bridge has been handed over.
LEMMA LeaseDrive ==
    ASSUME NEW x \in Dash, NEW b \in Bridge, DashInv(x, b), x.lease # 0
    PROVE  DriveMayWait(x, b, Out("drive", x))
  <1>1. Out("drive", x).granted = x.epoch
    BY OutFacts DEF DashInv, ReadyPart
  <1>2. datagram /\ x.epoch = b.epoch => b.stops[x.id] >= 0
    <2> HAVE datagram /\ x.epoch = b.epoch
    <2>1. b.stops[x.id] > x.lapse
      BY DEF DashInv, CoreInv, Known, ReadyPart
    <2>2. b.stops[x.id] \in Int
      BY DashFields DEF Bridge
    <2> QED
      BY <2>1, <2>2, DashFields
  <1> QED
    BY <1>1, <1>2 DEF DriveMayWait

\* The dashboard after PublishBatch.
AfterBatch(x, t, n) ==
    [Publish(x, x.batch[t], n) EXCEPT
       !.batch[t] = <<>>, !.lock = IF @ = t THEN "free" ELSE @]

LEMMA BatchFacts ==
    ASSUME NEW x \in Dash, NEW b \in Bridge, DashInv(x, b),
           NEW t \in Threads, x.batch[t] # <<>>, NEW n \in Nat
    PROVE  DashInv(AfterBatch(x, t, n), b) /\ AfterBatch(x, t, n).id = x.id
  <1> DEFINE outs == x.batch[t]
             p == Publish(x, outs, n)
             y == [p EXCEPT !.batch[t] = <<>>,
                            !.lock = IF @ = t THEN "free" ELSE @]
  <1>1. outs \in Seq(Outputs) /\ x.lock = t
    BY DashFields DEF DashInv, CoreInv, Held
  <1>2. \A i \in DOMAIN outs : DriveMayWait(x, b, outs[i])
    BY DEF DashInv, CoreInv, Held, DriveMayWait
  <1>3. \A u \in Threads : u # t => x.batch[u] = <<>>
    BY <1>1 DEF DashInv, CoreInv, Held
  <1> HIDE DEF outs
  <1>4. Frame(x, p) /\ Sends(x, p, outs)
    BY <1>1, PublishFacts
  <1> HIDE DEF p
  <1>5. p \in Dash /\ p.lock = t /\ p.batch = x.batch
    BY <1>1, <1>4 DEF Frame
  <1>6. y = [p EXCEPT !.batch = [@ EXCEPT ![t] = <<>>], !.lock = "free"]
    BY <1>5 DEF Dash
  <1>7. <<>> \in Seq(Outputs)
    OBVIOUS
  <1> HIDE DEF y
  <1>8. y \in Dash
    BY <1>5, <1>6, <1>7 DEF Dash
  <1>9. /\ y.id = x.id /\ y.epoch = x.epoch /\ y.syncEpoch = x.syncEpoch
        /\ y.syncRequired = x.syncRequired /\ y.pending = x.pending
        /\ y.lapse = x.lapse /\ y.seq = p.seq /\ y.sent = p.sent
        /\ y.queue = p.queue /\ y.batch = [x.batch EXCEPT ![t] = <<>>]
        /\ y.ready = p.ready /\ y.lease = p.lease /\ y.granted = p.granted
    <2>1. /\ y.id = p.id /\ y.epoch = p.epoch /\ y.syncEpoch = p.syncEpoch
          /\ y.syncRequired = p.syncRequired /\ y.pending = p.pending
          /\ y.lapse = p.lapse /\ y.seq = p.seq /\ y.sent = p.sent
          /\ y.queue = p.queue /\ y.batch = [p.batch EXCEPT ![t] = <<>>]
          /\ y.ready = p.ready /\ y.lease = p.lease /\ y.granted = p.granted
      BY <1>5, <1>6 DEF Dash
    <2> QED
      BY <1>4, <2>1 DEF Frame
  <1>10. ASSUME NEW c \in y.sent, c \notin x.sent
         PROVE  /\ c.source = x.id /\ c.epoch = x.epoch
                /\ c.type = "drive" => /\ c.granted = x.epoch
                                       /\ datagram /\ x.epoch = b.epoch =>
                                            b.stops[x.id] >= 0
    <2>1. PICK i \in DOMAIN outs : c = Envelope(x, outs[i], i)
      BY <1>4, <1>9, <1>10 DEF Sends
    <2>2. /\ c.source = x.id /\ c.epoch = x.epoch /\ c.type = outs[i].type
          /\ c.granted = outs[i].granted
      BY <2>1 DEF Envelope
    <2> QED
      BY <1>2, <2>2 DEF DriveMayWait
  <1>11. Local(y)
    <2>1. y.lapse <= y.seq
      BY <1>4, <1>5, <1>9, DashFields DEF DashInv, CoreInv, Local, Frame
    <2>2. NoDriveIn(y.queue)
      BY <1>4, <1>9 DEF DashInv, CoreInv, Local, Frame
    <2>3. \A c \in y.sent : /\ c.source = y.id
                            /\ c.type = "drive" => c.granted = c.epoch
      BY <1>9, <1>10 DEF DashInv, CoreInv, Local
    <2> QED
      BY <1>8, <1>9, <2>1, <2>2, <2>3 DEF DashInv, CoreInv, Local
  <1>12. Known(y, b)
    <2>1. \A c \in y.sent : c.epoch <= b.epoch
      BY <1>10 DEF DashInv, CoreInv, Known
    <2>2. \A c \in y.sent : datagram /\ c.type = "drive" /\ c.epoch = b.epoch =>
             b.stops[x.id] >= 0
      BY <1>10 DEF DashInv, CoreInv, Known
    <2> QED
      BY <1>9, <2>1, <2>2 DEF DashInv, CoreInv, Known
  <1>13. Held(y, b)
    <2>1. \A u \in Threads : y.batch[u] = <<>>
      BY <1>3, <1>9, DashFields
    <2> QED
      BY <2>1, IdleHeld DEF Idle
  <1>14. ReadyPart(y)
    BY <1>4, <1>9 DEF DashInv, ReadyPart, Frame
  <1>15. DashInv(y, b) /\ y.id = x.id
    BY <1>9, <1>11, <1>12, <1>13, <1>14 DEF DashInv, CoreInv
  <1> QED
    BY <1>15 DEF y, p, outs, AfterBatch

LEMMA AcquireFacts ==
    ASSUME NEW x \in Dash, NEW b \in Bridge, DashInv(x, b), x.ready,
           NEW n \in Nat
    PROVE  LET y == Flush([x EXCEPT !.lease = x.leases + 1, !.leases = @ + 1,
                                    !.granted = x.epoch, !.since = x.seq], n)
           IN  DashInv(y, b) /\ y.id = x.id
  <1> DEFINE y == [x EXCEPT !.lease = x.leases + 1, !.leases = @ + 1,
                            !.granted = x.epoch, !.since = x.seq]
  <1>1. y \in Dash
    <2>1. x.leases + 1 \in Nat /\ x.epoch \in Nat /\ x.seq \in Nat \cup {-1}
      BY DEF Dash
    <2>2. y = [x EXCEPT !.lease = x.leases + 1, !.leases = x.leases + 1,
                        !.granted = x.epoch, !.since = x.seq]
      BY DEF Dash
    <2> HIDE DEF y
    <2> QED
      BY <2>1, <2>2 DEF Dash
  <1>2. /\ y.id = x.id /\ y.epoch = x.epoch /\ y.seq = x.seq
        /\ y.batch = x.batch /\ y.lock = x.lock /\ y.sent = x.sent
        /\ y.queue = x.queue /\ y.syncRequired = x.syncRequired
        /\ y.syncEpoch = x.syncEpoch /\ y.pending = x.pending
        /\ y.lapse = x.lapse /\ y.ready = x.ready /\ y.granted = x.epoch
    BY DEF Dash
  <1> HIDE DEF y
  <1>3. CoreInv(y, b)
    BY <1>1, <1>2 DEF DashInv, CoreInv, Local, Known, Held
  <1>4. ReadyPart(y)
    BY <1>2 DEF DashInv, ReadyPart
  <1>5. Quiet(y, Flush(y, n))
    BY <1>1, <1>3, FlushQuiet DEF CoreInv, Local
  <1>6. CoreInv(Flush(y, n), b) /\ ReadyPart(Flush(y, n))
    BY <1>1, <1>3, <1>4, <1>5, QuietCore, QuietReady
  <1>7. DashInv(Flush(y, n), b) /\ Flush(y, n).id = x.id
    BY <1>2, <1>5, <1>6 DEF DashInv, Quiet, Frame
  <1> QED
    BY <1>7 DEF y

LEMMA Silenced ==
    ASSUME NEW v \in Dash, <<>> \in Seq(Outputs)
    PROVE  [v EXCEPT !.ready = FALSE, !.queue = <<>>] \in Dash
  BY DEF Dash

LEMMA ShutdownFacts ==
    ASSUME NEW x \in Dash, NEW b \in Bridge, DashInv(x, b), NEW n \in Nat
    PROVE  LET c == [Unleased(x) EXCEPT !.ready = FALSE, !.queue = <<>>]
               y == [Publish(c, x.queue \o <<Out("stop", x)>>, n)
                       EXCEPT !.down = TRUE, !.queue = <<>>]
           IN  DashInv(y, b) /\ y.id = x.id
  <1> DEFINE u == Unleased(x)
             c == [u EXCEPT !.ready = FALSE, !.queue = <<>>]
             outs == x.queue \o <<Out("stop", x)>>
             p == Publish(c, outs, n)
             y == [p EXCEPT !.down = TRUE, !.queue = <<>>]
  <1>1. /\ x.queue \in Seq(Outputs) /\ NoDriveIn(x.queue)
        /\ Out("stop", x) \in Outputs /\ Out("stop", x).type # "drive"
        /\ <<>> \in Seq(Outputs) /\ NoDriveIn(<<>>)
    BY DashFields, OutFacts DEF DashInv, CoreInv, Local, NoDriveIn
  <1>2. outs = Append(x.queue, Out("stop", x))
    BY <1>1
  <1> HIDE DEF outs
  <1>3. outs \in Seq(Outputs) /\ NoDriveIn(outs)
    BY <1>1, <1>2, AppendStop
  <1>4. Quiet(x, u)
    BY UnleasedFacts
  <1>5. u \in Dash /\ u.lease = 0
    BY <1>4 DEF Quiet, Frame, Unleased, Dash
  <1> HIDE DEF u
  <1>6. c \in Dash
    BY <1>1, <1>5, Silenced
  <1>7. /\ c.id = u.id /\ c.epoch = u.epoch /\ c.syncEpoch = u.syncEpoch
        /\ c.syncRequired = u.syncRequired /\ c.pending = u.pending
        /\ c.batch = u.batch /\ c.lock = u.lock /\ c.lapse = u.lapse
        /\ c.seq = u.seq /\ c.sent = u.sent /\ c.queue = <<>>
        /\ c.ready = FALSE /\ c.lease = u.lease
    BY <1>5 DEF Dash
  <1> HIDE DEF c
  <1>8. c.seq >= u.seq
    BY <1>5, <1>7, DashFields
  <1>9. Quiet(u, c)
    BY <1>1, <1>5, <1>6, <1>7, <1>8 DEF Quiet, Frame
  <1>10. Quiet(c, p)
    BY <1>3, <1>6, PublishQuiet
  <1>11. Quiet(x, p) /\ ~p.ready /\ p.lease = 0
    BY <1>4, <1>5, <1>7, <1>9, <1>10, QuietTrans DEF Quiet, Frame
  <1> HIDE DEF p
  <1>12. p \in Dash /\ CoreInv(p, b) /\ p.id = x.id
    BY <1>11, QuietCore DEF DashInv, Quiet, Frame
  <1>13. y \in Dash
    BY <1>1, <1>12 DEF Dash
  <1>14. /\ y.id = p.id /\ y.epoch = p.epoch /\ y.syncEpoch = p.syncEpoch
         /\ y.syncRequired = p.syncRequired /\ y.pending = p.pending
         /\ y.batch = p.batch /\ y.lock = p.lock /\ y.lapse = p.lapse
         /\ y.seq = p.seq /\ y.sent = p.sent /\ y.queue = <<>>
         /\ y.ready = p.ready /\ y.lease = p.lease
    BY <1>12 DEF Dash
  <1> HIDE DEF y
  <1>15. CoreInv(y, b)
    BY <1>1, <1>12, <1>13, <1>14 DEF CoreInv, Local, Known, Held
  <1>16. ReadyPart(y)
    BY <1>11, <1>14 DEF ReadyPart
  <1>17. DashInv(y, b) /\ y.id = x.id
    BY <1>12, <1>14, <1>15, <1>16 DEF DashInv
  <1> QED
    BY <1>17 DEF y, p, c, u, outs

-----------------------------------------------------------------------------
(* The actions of a dashboard.                                             *)

LEMMA SetStep ==
    ASSUME IndInv, NEW d \in Dashboards, NEW y, Set(d, y),
           DashInv(y, bridge), y.id = d
    PROVE  IndInv'
  <1>1. y \in Dash
    BY DEF DashInv, CoreInv, Local
  <1>2. /\ datagram' = datagram /\ bridge' = bridge /\ statuses' = statuses
        /\ dash' = [dash EXCEPT ![d] = y]
    BY DEF Set
  <1>3. dash' \in [Dashboards -> Dash]
    BY <1>1, <1>2 DEF IndInv
  <1>4. ASSUME NEW f \in Dashboards
        PROVE  dash'[f].id = f /\ DashInv(dash'[f], bridge)
    BY <1>2 DEF IndInv
  <1>5. \A f \in Dashboards : (DashInv(dash[f], bridge))'
    BY <1>2, <1>4 DEF DashInv, CoreInv, Local, Known, Held, ReadyPart
  <1>6. (BridgeInv(bridge, statuses))'
    BY <1>2 DEF IndInv, BridgeInv
  <1> QED
    BY <1>2, <1>3, <1>4, <1>5, <1>6 DEF IndInv

\* What the invariant says of one dashboard.
LEMMA DashFacts ==
    ASSUME IndInv, NEW d \in Dashboards
    PROVE  /\ dash[d] \in Dash /\ dash[d].id = d /\ bridge \in Bridge
           /\ DashInv(dash[d], bridge) /\ BridgeInv(bridge, statuses)
           /\ datagram \in BOOLEAN
           /\ Free(dash[d]) => Idle(dash[d])
  <1>1. /\ dash[d] \in Dash /\ dash[d].id = d /\ bridge \in Bridge
        /\ DashInv(dash[d], bridge) /\ BridgeInv(bridge, statuses)
        /\ datagram \in BOOLEAN
    BY DEF IndInv, BridgeInv
  <1> QED
    BY <1>1, FreeIsIdle DEF DashInv, CoreInv

LEMMA ReceiveStatusStep ==
    ASSUME IndInv, NEW d \in Dashboards, NEW status \in statuses,
           ReceiveStatus(d, status)
    PROVE  IndInv'
  <1>1. PICK healthy \in BOOLEAN, due \in BOOLEAN, n \in Counts, k \in Counts :
          /\ Free(dash[d])
          /\ Set(d, StatusCallback(dash[d], status, healthy, due, n, k))
    BY DEF ReceiveStatus
  <1> DEFINE y == StatusCallback(dash[d], status, healthy, due, n, k)
  <1>2. n \in Nat /\ k \in Nat
    BY LinkAssumption
  <1>3. DashInv(y, bridge) /\ y.id = d
    BY <1>1, <1>2, DashFacts, StatusFacts DEF Same
  <1> HIDE DEF y
  <1>4. Set(d, y)
    BY <1>1 DEF y
  <1> QED
    BY <1>3, <1>4, SetStep

LEMMA RejectStatusStep ==
    ASSUME IndInv, NEW d \in Dashboards, RejectStatus(d)
    PROVE  IndInv'
  <1>1. PICK n \in Counts : Set(d, SetUnready(dash[d], n))
    BY DEF RejectStatus
  <1>2. n \in Nat
    BY LinkAssumption
  <1>3. DashInv(SetUnready(dash[d], n), bridge) /\ SetUnready(dash[d], n).id = d
    BY <1>2, DashFacts, SetUnreadyFacts DEF Same, DashInv
  <1> QED
    BY <1>1, <1>3, SetStep

LEMMA AcquireStep ==
    ASSUME IndInv, NEW d \in Dashboards, Acquire(d)
    PROVE  IndInv'
  <1>1. dash[d].ready
    BY DEF Acquire
  <1>2. PICK n \in Counts :
          Set(d, Flush([dash[d] EXCEPT !.lease = dash[d].leases + 1,
                                       !.leases = @ + 1,
                                       !.granted = dash[d].epoch,
                                       !.since = dash[d].seq], n))
    BY DEF Acquire
  <1>3. n \in Nat
    BY LinkAssumption
  <1> DEFINE y == Flush([dash[d] EXCEPT !.lease = dash[d].leases + 1,
                                        !.leases = @ + 1,
                                        !.granted = dash[d].epoch,
                                        !.since = dash[d].seq], n)
  <1>4. DashInv(y, bridge) /\ y.id = d
    BY <1>1, <1>3, DashFacts, AcquireFacts
  <1>5. Set(d, y)
    BY <1>2
  <1> HIDE DEF y
  <1> QED
    BY <1>4, <1>5, SetStep

LEMMA ApiStopStep ==
    ASSUME IndInv, NEW d \in Dashboards, NEW keep \in BOOLEAN,
           NEW action \in BOOLEAN, ApiStop(d, keep, action)
    PROVE  IndInv'
  <1> DEFINE x == dash[d]
             stop == IF keep THEN [type |-> "stop", lease |-> 0, granted |-> 0]
                             ELSE Out("stop", x)
             u == IF keep THEN x ELSE Unleased(x)
             outs == IF action THEN <<stop, Out("action", x)>> ELSE <<stop>>
  <1>1. Free(x) /\ Set(d, Drain(u, "api", outs))
    BY DEF ApiStop
  <1>2. /\ x \in Dash /\ x.id = d /\ bridge \in Bridge
        /\ DashInv(x, bridge)
    BY DashFacts
  <1> HIDE DEF x
  <1>3. stop \in Outputs /\ stop.type = "stop"
    BY <1>2, OutFacts DEF Outputs
  <1>4. Out("action", x) \in Outputs /\ Out("action", x).type = "action"
    BY <1>2, OutFacts
  <1> HIDE DEF stop
  <1>5. /\ outs \in Seq(Outputs)
        /\ \A i \in DOMAIN outs : outs[i].type # "drive"
    <2>1. CASE action
      <3>1. outs = <<stop, Out("action", x)>>
        BY <2>1
      <3> HIDE DEF outs
      <3>2. DOMAIN outs = {1, 2} /\ outs[1] = stop /\ outs[2] = Out("action", x)
        BY <3>1
      <3>3. outs \in Seq(Outputs)
        BY <1>3, <1>4, <3>1
      <3> QED
        BY <1>3, <1>4, <3>2, <3>3
    <2>2. CASE ~action
      <3>1. outs = <<stop>>
        BY <2>2
      <3> HIDE DEF outs
      <3> QED
        BY <1>3, <3>1
    <2> QED
      BY <2>1, <2>2
  <1> HIDE DEF outs
  <1>6. u \in Dash /\ u.id = d /\ DashInv(u, bridge) /\ Free(u)
    <2>1. CASE keep
      BY <1>1, <1>2, <2>1
    <2>2. CASE ~keep
      <3>1. Quiet(x, u)
        BY <1>2, <2>2, UnleasedFacts
      <3> HIDE DEF u
      <3>2. CoreInv(u, bridge) /\ ReadyPart(u)
        BY <1>2, <3>1, QuietCore, QuietReady DEF DashInv
      <3> QED
        BY <1>1, <1>2, <3>1, <3>2 DEF DashInv, Quiet, Frame, Free
    <2> QED
      BY <2>1, <2>2
  <1> HIDE DEF u
  <1>7. \A i \in DOMAIN outs : DriveMayWait(u, bridge, outs[i])
    BY <1>5 DEF DriveMayWait
  <1>8. DashInv(Drain(u, "api", outs), bridge) /\ Drain(u, "api", outs).id = d
    BY <1>2, <1>5, <1>6, <1>7, DrainFacts DEF Threads
  <1> QED
    BY <1>1, <1>8, SetStep

LEMMA TickBeginStep ==
    ASSUME IndInv, NEW d \in Dashboards, TickBegin(d)
    PROVE  IndInv'
  <1>1. PICK stale \in BOOLEAN, n \in Counts,
             outcome \in {"end", "drive", "quiet"} :
          LET x == UpdateStaleness(dash[d], stale, n)
          IN  /\ outcome # "quiet" => x.lease # 0
              /\ Set(d, CASE outcome = "end" ->
                               Drain(Unleased(x), "timer", <<Out("stop", x)>>)
                          [] outcome = "drive" ->
                               Drain(x, "timer", <<Out("drive", x)>>)
                          [] OTHER -> Drain(x, "timer", <<>>))
    BY DEF TickBegin
  <1> DEFINE x == UpdateStaleness(dash[d], stale, n)
  <1>2. n \in Nat /\ Free(dash[d])
    BY LinkAssumption DEF TickBegin, TickMayStart
  <1>3. DashInv(x, bridge) /\ Same(dash[d], x)
    BY <1>2, DashFacts, StalenessFacts
  <1>4. /\ outcome # "quiet" => x.lease # 0
        /\ outcome = "end" => Set(d, Drain(Unleased(x), "timer", <<Out("stop", x)>>))
        /\ outcome = "drive" => Set(d, Drain(x, "timer", <<Out("drive", x)>>))
        /\ outcome = "quiet" => Set(d, Drain(x, "timer", <<>>))
    BY <1>1
  <1> HIDE DEF x
  <1>5. x \in Dash /\ x.id = d /\ Free(x) /\ bridge \in Bridge /\ "timer" \in Threads
    BY <1>2, <1>3, DashFacts DEF DashInv, CoreInv, Local, Same, Free, Threads
  <1>6. CASE outcome = "end"
    <2> DEFINE u == Unleased(x)
               outs == <<Out("stop", x)>>
    <2>1. Quiet(x, u)
      BY <1>5, UnleasedFacts
    <2>2. outs \in Seq(Outputs) /\ \A i \in DOMAIN outs : outs[i].type # "drive"
      BY <1>5, OutFacts
    <2>3. Set(d, Drain(u, "timer", outs))
      BY <1>4, <1>6
    <2> HIDE DEF u, outs
    <2>4. CoreInv(u, bridge) /\ ReadyPart(u) /\ u \in Dash /\ u.id = d /\ Free(u)
      BY <1>3, <1>5, <2>1, QuietCore, QuietReady DEF DashInv, Quiet, Frame, Free
    <2>5. DashInv(u, bridge)
      BY <2>4 DEF DashInv
    <2>6. \A i \in DOMAIN outs : DriveMayWait(u, bridge, outs[i])
      BY <2>2 DEF DriveMayWait
    <2>7. DashInv(Drain(u, "timer", outs), bridge) /\ Drain(u, "timer", outs).id = d
      BY <1>5, <2>2, <2>4, <2>5, <2>6, DrainFacts
    <2> QED
      BY <2>3, <2>7, SetStep
  <1>7. CASE outcome = "drive"
    <2> DEFINE outs == <<Out("drive", x)>>
    <2>1. outs \in Seq(Outputs) /\ \A i \in DOMAIN outs : outs[i] = Out("drive", x)
      BY <1>5, OutFacts
    <2>2. Set(d, Drain(x, "timer", outs)) /\ x.lease # 0
      BY <1>4, <1>7
    <2> HIDE DEF outs
    <2>3. \A i \in DOMAIN outs : DriveMayWait(x, bridge, outs[i])
      BY <1>3, <1>5, <2>1, <2>2, LeaseDrive
    <2>4. DashInv(Drain(x, "timer", outs), bridge) /\ Drain(x, "timer", outs).id = d
      BY <1>3, <1>5, <2>1, <2>3, DrainFacts
    <2> QED
      BY <2>2, <2>4, SetStep
  <1>8. CASE outcome = "quiet"
    <2> DEFINE outs == <<>>
    <2>1. outs \in Seq(Outputs) /\ \A i \in DOMAIN outs : DriveMayWait(x, bridge, outs[i])
      OBVIOUS
    <2>2. Set(d, Drain(x, "timer", outs))
      BY <1>4, <1>8
    <2> HIDE DEF outs
    <2>3. DashInv(Drain(x, "timer", outs), bridge) /\ Drain(x, "timer", outs).id = d
      BY <1>3, <1>5, <2>1, DrainFacts
    <2> QED
      BY <2>2, <2>3, SetStep
  <1> QED
    BY <1>6, <1>7, <1>8

LEMMA PublishBatchStep ==
    ASSUME IndInv, NEW d \in Dashboards, NEW thread \in Threads,
           PublishBatch(d, thread)
    PROVE  IndInv'
  <1>1. dash[d].batch[thread] # <<>>
    BY DEF PublishBatch
  <1>2. PICK n \in Counts : Set(d, AfterBatch(dash[d], thread, n))
    BY DEF PublishBatch, AfterBatch
  <1>3. n \in Nat
    BY LinkAssumption
  <1>4. /\ DashInv(AfterBatch(dash[d], thread, n), bridge)
        /\ AfterBatch(dash[d], thread, n).id = d
    BY <1>1, <1>3, DashFacts, BatchFacts
  <1> QED
    BY <1>2, <1>4, SetStep

LEMMA ShutdownStep ==
    ASSUME IndInv, NEW d \in Dashboards, Shutdown(d)
    PROVE  IndInv'
  <1> DEFINE x == [Unleased(dash[d]) EXCEPT !.ready = FALSE, !.queue = <<>>]
  <1>1. PICK n \in Counts :
          Set(d, [Publish(x, dash[d].queue \o <<Out("stop", dash[d])>>, n)
                    EXCEPT !.down = TRUE, !.queue = <<>>])
    BY DEF Shutdown
  <1>2. n \in Nat
    BY LinkAssumption
  <1> DEFINE y == [Publish(x, dash[d].queue \o <<Out("stop", dash[d])>>, n)
                     EXCEPT !.down = TRUE, !.queue = <<>>]
  <1>3. DashInv(y, bridge) /\ y.id = d
    BY <1>2, DashFacts, ShutdownFacts
  <1>4. Set(d, y)
    BY <1>1
  <1> HIDE DEF y
  <1> QED
    BY <1>3, <1>4, SetStep

-----------------------------------------------------------------------------
(* The actions of the bridge.                                              *)

\* The same bridge process with more stops accepted, or a later one.
Later(b, c) ==
    \/ c.epoch = b.epoch /\ \A d \in Dashboards : c.stops[d] >= b.stops[d]
    \/ c.epoch > b.epoch

LEMMA BridgeFields ==
    ASSUME NEW b \in Bridge
    PROVE  /\ b.epoch \in Nat
           /\ \A d \in Dashboards : b.stops[d] \in Int /\ b.lastSeq[d] \in Int
  BY DEF Bridge

LEMMA LaterDash ==
    ASSUME NEW b \in Bridge, NEW c \in Bridge, Later(b, c),
           NEW x, DashInv(x, b)
    PROVE  DashInv(x, c)
  <1>1. /\ x \in Dash /\ x.id \in Dashboards /\ x.epoch \in Int
        /\ x.syncEpoch \in Int /\ x.lapse \in Int
    BY DashFields DEF DashInv, CoreInv, Local
  <1>2. b.epoch \in Int /\ c.epoch \in Int /\ b.epoch <= c.epoch
        /\ b.stops[x.id] \in Int /\ c.stops[x.id] \in Int
    BY <1>1, BridgeFields DEF Later
  <1>3. ASSUME NEW e \in x.sent PROVE e.epoch \in Int
    BY <1>1, DashFields DEF Envelopes
  <1>4. c.epoch = b.epoch => c.stops[x.id] >= b.stops[x.id]
    BY <1>1, <1>2 DEF Later
  <1>5. Known(x, c)
    <2>1. /\ x.epoch <= c.epoch /\ x.syncEpoch <= c.epoch
          /\ \A e \in x.sent : e.epoch <= c.epoch
      BY <1>1, <1>2, <1>3 DEF DashInv, CoreInv, Known
    <2>2. datagram /\ ~x.syncRequired /\ x.syncEpoch = c.epoch =>
             c.stops[x.id] > x.lapse
      BY <1>1, <1>2, <1>4 DEF DashInv, CoreInv, Known
    <2>3. ASSUME NEW e \in x.sent, datagram, e.type = "drive", e.epoch = c.epoch
          PROVE  c.stops[x.id] >= 0
      <3>1. e.epoch <= b.epoch
        BY DEF DashInv, CoreInv, Known
      <3>2. c.epoch = b.epoch
        BY <1>2, <1>3, <2>3, <3>1
      <3>3. b.stops[x.id] >= 0
        BY <2>3, <3>2 DEF DashInv, CoreInv, Known
      <3> QED
        BY <1>2, <1>4, <3>2, <3>3
    <2> QED
      BY <2>1, <2>2, <2>3 DEF Known
  <1>6. Held(x, c)
    <2>1. x.epoch = c.epoch => c.epoch = b.epoch
      BY <1>1, <1>2 DEF DashInv, CoreInv, Known
    <2>2. ASSUME NEW t \in Threads, NEW i \in DOMAIN x.batch[t],
                 x.batch[t][i].type = "drive"
          PROVE  /\ x.batch[t][i].granted = x.epoch
                 /\ datagram /\ x.epoch = c.epoch => c.stops[x.id] >= 0
      <3>1. /\ x.batch[t][i].granted = x.epoch
            /\ datagram /\ x.epoch = b.epoch => b.stops[x.id] >= 0
        BY <2>2 DEF DashInv, CoreInv, Held
      <3> QED
        BY <1>2, <1>4, <2>1, <3>1
    <2>3. \A t \in Threads : x.batch[t] # <<>> => x.lock = t
      BY DEF DashInv, CoreInv, Held
    <2> QED
      BY <2>2, <2>3 DEF Held
  <1> QED
    BY <1>5, <1>6 DEF DashInv, CoreInv

LEMMA BridgeStepInv ==
    ASSUME IndInv, UNCHANGED <<datagram, dash>>, Later(bridge, bridge'),
           BridgeInv(bridge', statuses')
    PROVE  IndInv'
  <1>1. datagram' = datagram /\ dash' = dash
    OBVIOUS
  <1>2. bridge \in Bridge /\ bridge' \in Bridge
    BY DEF IndInv, BridgeInv
  <1>3. \A d \in Dashboards : dash[d].id = d /\ DashInv(dash[d], bridge')
    BY <1>2, LaterDash DEF IndInv
  <1>4. \A d \in Dashboards : (dash[d].id = d /\ DashInv(dash[d], bridge))'
    BY <1>1, <1>3 DEF DashInv, CoreInv, Local, Known, Held, ReadyPart
  <1>5. (BridgeInv(bridge, statuses))'
    BY <1>1 DEF BridgeInv
  <1> QED
    BY <1>1, <1>4, <1>5 DEF IndInv

LEMMA AcceptFacts ==
    ASSUME NEW b \in Bridge, NEW cmd \in Envelopes, MayClaim(b, cmd, TRUE)
           \/ MayClaim(b, cmd, FALSE),
           \A d \in Dashboards : b.stops[d] <= b.lastSeq[d]
    PROVE  LET c == Accept(b, cmd)
           IN  /\ c \in Bridge /\ c.epoch = b.epoch
               /\ c.ack = [source |-> cmd.source, seq |-> cmd.seq,
                           type |-> cmd.type]
               /\ c.drive = IF cmd.type = "drive"
                            THEN [source |-> cmd.source, lease |-> cmd.lease,
                                  granted |-> cmd.granted] ELSE NoDrive
               /\ c.stops[cmd.source] = IF cmd.type = "stop" THEN cmd.seq
                                        ELSE b.stops[cmd.source]
               /\ \A d \in Dashboards : /\ c.stops[d] >= b.stops[d]
                                        /\ c.stops[d] <= c.lastSeq[d]
  <1> DEFINE s == cmd.source
             drive == IF cmd.type = "drive"
                      THEN [source |-> s, lease |-> cmd.lease,
                            granted |-> cmd.granted] ELSE NoDrive
             ack == [source |-> s, seq |-> cmd.seq, type |-> cmd.type]
             stops == [b.stops EXCEPT ![s] = IF cmd.type = "stop" THEN cmd.seq
                                             ELSE @]
             ended == [b.ended EXCEPT ![s] =
                         IF cmd.type = "stop" /\ cmd.lease > @
                         THEN cmd.lease ELSE @]
             lastSeq == [b.lastSeq EXCEPT ![s] = cmd.seq]
             c == Accept(b, cmd)
  <1>1. c = [b EXCEPT !.source = s, !.lastSeq = lastSeq, !.ack = ack,
                      !.drive = drive, !.stops = stops, !.ended = ended]
    BY DEF Accept, Bridge
  <1>2. /\ s \in Dashboards /\ cmd.seq \in Nat /\ cmd.lease \in Nat
        /\ cmd.granted \in Nat /\ cmd.type \in {"stop", "drive", "action"}
        /\ cmd.seq > b.lastSeq[s]
    BY DEF Envelopes, MayClaim
  <1>3. ack \in Acks
    BY <1>2 DEF Acks
  <1>4. drive \in [source : Dashboards \cup {NoDash}, lease : Nat, granted : Nat]
    BY <1>2 DEF NoDrive
  <1>5. lastSeq \in [Dashboards -> Nat \cup {-1}]
        /\ stops \in [Dashboards -> Nat \cup {-1}]
    BY <1>2 DEF Bridge
  <1>6. ended \in [Dashboards -> Nat]
    BY <1>2 DEF Bridge
  <1>7. \A d \in Dashboards : stops[d] >= b.stops[d] /\ stops[d] <= lastSeq[d]
    <2> TAKE d \in Dashboards
    <2>1. /\ b.stops[d] \in Int /\ b.lastSeq[d] \in Int
          /\ b.stops \in [Dashboards -> Nat \cup {-1}]
          /\ b.lastSeq \in [Dashboards -> Nat \cup {-1}]
      BY DEF Bridge
    <2>2. CASE d = s
      <3>1. lastSeq[d] = cmd.seq /\ stops[d] = IF cmd.type = "stop" THEN cmd.seq ELSE b.stops[d]
        BY <1>2, <2>1, <2>2
      <3> HIDE DEF lastSeq, stops
      <3>2. b.stops[d] <= b.lastSeq[d] /\ b.lastSeq[d] < cmd.seq
        BY <1>2, <2>1, <2>2
      <3> QED
        BY <1>2, <2>1, <3>1, <3>2
    <2>3. CASE d # s
      <3>1. lastSeq[d] = b.lastSeq[d] /\ stops[d] = b.stops[d]
        BY <2>1, <2>3
      <3> QED
        BY <2>1, <3>1
    <2> QED
      BY <2>2, <2>3
  <1>8. stops[s] = IF cmd.type = "stop" THEN cmd.seq ELSE b.stops[s]
    BY <1>2 DEF Bridge
  <1> HIDE DEF drive, ack, stops, ended, lastSeq, c
  <1>9. c \in Bridge
    BY <1>1, <1>2, <1>3, <1>4, <1>5, <1>6 DEF Bridge
  <1>10. /\ c.epoch = b.epoch /\ c.ack = ack /\ c.drive = drive
         /\ c.stops = stops /\ c.lastSeq = lastSeq
    BY <1>1 DEF Bridge
  <1> QED
    BY <1>7, <1>8, <1>9, <1>10 DEF drive, ack, c

\* A status stays true when more stops are accepted.
LEMMA OldStatuses ==
    ASSUME NEW b, NEW S, BridgeInv(b, S), NEW c \in Bridge, Later(b, c),
           NEW s \in S
    PROVE  /\ 1 <= s.epoch /\ s.epoch <= c.epoch
           /\ s.epoch = c.epoch /\ s.ack.type = "stop" =>
                s.ack.source \in Dashboards /\ c.stops[s.ack.source] >= s.ack.seq
  <1>1. /\ b \in Bridge /\ b.epoch \in Int /\ c.epoch \in Int
        /\ s.epoch \in Int /\ s.ack.seq \in Int
        /\ 1 <= s.epoch /\ s.epoch <= b.epoch
    BY BridgeFields DEF BridgeInv, Statuses, Acks
  <1>2. b.epoch <= c.epoch
    BY <1>1 DEF Later
  <1>3. ASSUME s.epoch = c.epoch, s.ack.type = "stop"
        PROVE  s.ack.source \in Dashboards /\ c.stops[s.ack.source] >= s.ack.seq
    <2>1. b.epoch = c.epoch /\ s.epoch = b.epoch
      BY <1>1, <1>2, <1>3
    <2>2. s.ack.source \in Dashboards /\ b.stops[s.ack.source] >= s.ack.seq
      BY <1>3, <2>1 DEF BridgeInv
    <2>3. c.stops[s.ack.source] >= b.stops[s.ack.source]
      BY <1>1, <2>1, <2>2 DEF Later
    <2>4. c.stops[s.ack.source] \in Int /\ b.stops[s.ack.source] \in Int
      BY <1>1, <2>2, BridgeFields
    <2> QED
      BY <1>1, <2>2, <2>3, <2>4
  <1> QED
    BY <1>1, <1>2, <1>3

\* The bridge drops the drive it holds.
LEMMA DropDrive ==
    ASSUME NEW b, NEW S, BridgeInv(b, S)
    PROVE  LET c == [b EXCEPT !.drive = NoDrive]
           IN  BridgeInv(c, S) /\ StatusOf(c) = StatusOf(b) /\ Later(b, c)
  <1> DEFINE c == [b EXCEPT !.drive = NoDrive]
  <1>1. b \in Bridge
    BY DEF BridgeInv
  <1>2. NoDrive \in [source : Dashboards \cup {NoDash}, lease : Nat, granted : Nat]
    BY DEF NoDrive
  <1>3. c \in Bridge
    BY <1>1, <1>2 DEF Bridge
  <1>4. /\ c.epoch = b.epoch /\ c.ack = b.ack /\ c.observer = b.observer
        /\ c.drive = NoDrive /\ c.stops = b.stops /\ c.lastSeq = b.lastSeq
    BY <1>1 DEF Bridge
  <1> HIDE DEF c
  <1>5. StatusOf(c) = StatusOf(b)
    BY <1>4 DEF StatusOf
  <1>6. Later(b, c)
    BY <1>1, <1>4, BridgeFields DEF Later
  <1>7. BridgeInv(c, S)
    BY <1>3, <1>4, <1>5 DEF BridgeInv
  <1> QED
    BY <1>5, <1>6, <1>7 DEF c

LEMMA AcceptInv ==
    ASSUME NEW b, NEW S, BridgeInv(b, S), NEW x, DashInv(x, b),
           NEW cmd \in x.sent, NEW idle \in BOOLEAN, MayClaim(b, cmd, idle)
    PROVE  LET c == Accept(b, cmd)
           IN  BridgeInv(c, S \cup {StatusOf(c)}) /\ Later(b, c)
  <1> DEFINE c == Accept(b, cmd)
             T == S \cup {StatusOf(c)}
  <1>1. /\ b \in Bridge /\ x \in Dash /\ cmd \in Envelopes /\ cmd.source = x.id
        /\ x.id \in Dashboards /\ cmd.epoch = b.epoch /\ S \subseteq Statuses
        /\ \A d \in Dashboards : b.stops[d] <= b.lastSeq[d]
    BY DashFields DEF BridgeInv, DashInv, CoreInv, Local, MayClaim
  <1>2. MayClaim(b, cmd, TRUE) \/ MayClaim(b, cmd, FALSE)
    <2>1. idle = TRUE \/ idle = FALSE
      OBVIOUS
    <2> QED
      BY <2>1
  <1>3. /\ c \in Bridge /\ c.epoch = b.epoch
        /\ c.ack = [source |-> cmd.source, seq |-> cmd.seq, type |-> cmd.type]
        /\ c.drive = IF cmd.type = "drive"
                     THEN [source |-> cmd.source, lease |-> cmd.lease,
                           granted |-> cmd.granted] ELSE NoDrive
        /\ c.stops[cmd.source] = IF cmd.type = "stop" THEN cmd.seq
                                 ELSE b.stops[cmd.source]
        /\ \A d \in Dashboards : /\ c.stops[d] >= b.stops[d]
                                 /\ c.stops[d] <= c.lastSeq[d]
    BY <1>1, <1>2, AcceptFacts
  <1> HIDE DEF c
  <1>4. Later(b, c)
    BY <1>3 DEF Later
  <1>5. StatusOf(c) \in Statuses
    BY <1>3 DEF StatusOf, Statuses, Bridge
  <1>6. ASSUME c.drive # NoDrive
        PROVE  /\ c.drive.source \in Dashboards /\ c.drive.granted = c.epoch
               /\ datagram => c.stops[c.drive.source] >= 0
    <2>1. /\ cmd.type = "drive" /\ c.drive.source = x.id
          /\ c.drive.granted = cmd.granted
      BY <1>1, <1>3, <1>6
    <2>2. cmd.granted = cmd.epoch
      BY <2>1 DEF DashInv, CoreInv, Local
    <2>3. datagram => b.stops[x.id] >= 0
      BY <1>1, <2>1 DEF DashInv, CoreInv, Known
    <2>4. c.stops[x.id] = b.stops[x.id]
      BY <1>1, <1>3, <2>1
    <2> QED
      BY <1>1, <1>3, <2>1, <2>2, <2>3, <2>4
  <1>7. ASSUME NEW s \in T
        PROVE  /\ 1 <= s.epoch /\ s.epoch <= c.epoch
               /\ s.epoch = c.epoch /\ s.ack.type = "stop" =>
                    s.ack.source \in Dashboards /\ c.stops[s.ack.source] >= s.ack.seq
    <2>1. CASE s \in S
      BY <1>3, <1>4, <2>1, OldStatuses
    <2>2. CASE s = StatusOf(c)
      <3>1. s.epoch = c.epoch /\ s.ack = c.ack
        BY <2>2 DEF StatusOf
      <3>2. 1 <= s.epoch /\ s.epoch <= c.epoch
        BY <1>1, <1>3, <3>1, BridgeFields DEF BridgeInv
      <3>3. s.ack.type = "stop" => s.ack.source \in Dashboards
                                   /\ c.stops[s.ack.source] >= s.ack.seq
        <4> HAVE s.ack.type = "stop"
        <4>1. cmd.type = "stop" /\ s.ack.source = cmd.source /\ s.ack.seq = cmd.seq
          BY <1>3, <3>1
        <4>2. c.stops[cmd.source] = cmd.seq /\ cmd.seq \in Int
          BY <1>1, <1>3, <4>1 DEF Envelopes
        <4> QED
          BY <1>1, <4>1, <4>2
      <3> QED
        BY <3>2, <3>3
    <2> QED
      BY <2>1, <2>2
  <1>8. BridgeInv(c, T)
    <2>1. c.epoch >= 1 /\ T \subseteq Statuses /\ StatusOf(c) \in T
      BY <1>1, <1>3, <1>5 DEF BridgeInv
    <2> HIDE DEF T
    <2> QED
      BY <1>3, <1>6, <1>7, <2>1 DEF BridgeInv
  <1> QED
    BY <1>4, <1>8 DEF c

LEMMA FreshBridge ==
    ASSUME NEW b, NEW S, BridgeInv(b, S), NEW observer \in BOOLEAN
    PROVE  LET c == BridgeInit(b.epoch + 1, observer)
           IN  BridgeInv(c, S \cup {StatusOf(c)}) /\ Later(b, c)
  <1> DEFINE c == BridgeInit(b.epoch + 1, observer)
             T == S \cup {StatusOf(c)}
  <1>1. b \in Bridge /\ b.epoch \in Nat /\ b.epoch >= 1 /\ S \subseteq Statuses
    BY BridgeFields DEF BridgeInv
  <1>2. /\ NoAck \in Acks /\ NoAck.type # "stop"
        /\ NoDrive \in [source : Dashboards \cup {NoDash}, lease : Nat, granted : Nat]
    BY DEF NoAck, Acks, NoDrive
  <1>3. /\ [d \in Dashboards |-> -1] \in [Dashboards -> Nat \cup {-1}]
        /\ [d \in Dashboards |-> 0] \in [Dashboards -> Nat]
        /\ b.epoch + 1 \in Nat
    BY <1>1
  <1>4. c \in Bridge
    BY <1>2, <1>3 DEF BridgeInit, Bridge
  <1>5. /\ c.epoch = b.epoch + 1 /\ c.drive = NoDrive /\ c.ack = NoAck
        /\ \A d \in Dashboards : c.stops[d] = -1 /\ c.lastSeq[d] = -1
    BY DEF BridgeInit
  <1> HIDE DEF c
  <1>6. Later(b, c)
    BY <1>1, <1>5 DEF Later
  <1>7. StatusOf(c) \in Statuses
    BY <1>4 DEF StatusOf, Statuses, Bridge
  <1>8. ASSUME NEW s \in T
        PROVE  /\ 1 <= s.epoch /\ s.epoch <= c.epoch
               /\ s.epoch = c.epoch /\ s.ack.type = "stop" =>
                    s.ack.source \in Dashboards /\ c.stops[s.ack.source] >= s.ack.seq
    <2>1. CASE s \in S
      BY <1>4, <1>6, <2>1, OldStatuses
    <2>2. CASE s = StatusOf(c)
      <3>1. s.epoch = c.epoch /\ s.ack = c.ack
        BY <2>2 DEF StatusOf
      <3> QED
        BY <1>1, <1>2, <1>5, <3>1
    <2> QED
      BY <2>1, <2>2
  <1>9. BridgeInv(c, T)
    <2>1. c.epoch >= 1 /\ T \subseteq Statuses /\ StatusOf(c) \in T
      BY <1>1, <1>5, <1>7
    <2>2. \A d \in Dashboards : c.stops[d] <= c.lastSeq[d]
      <3>1. -1 <= -1
        OBVIOUS
      <3> QED
        BY <1>5, <3>1
    <2> HIDE DEF T
    <2> QED
      BY <1>4, <1>5, <1>8, <2>1, <2>2 DEF BridgeInv
  <1> QED
    BY <1>6, <1>9 DEF c

LEMMA ReceiveCommandStep ==
    ASSUME IndInv, NEW d \in Dashboards, NEW cmd \in dash[d].sent,
           ReceiveCommand(cmd)
    PROVE  IndInv'
  <1>1. PICK idle \in BOOLEAN :
          bridge' = IF MayClaim(bridge, cmd, idle) THEN Accept(bridge, cmd)
                    ELSE [bridge EXCEPT !.drive = NoDrive]
    BY DEF ReceiveCommand
  <1>2. /\ statuses' = statuses \cup {StatusOf(bridge')}
        /\ UNCHANGED <<datagram, dash>>
    BY DEF ReceiveCommand
  <1>3. BridgeInv(bridge, statuses) /\ DashInv(dash[d], bridge)
    BY DashFacts
  <1>4. CASE MayClaim(bridge, cmd, idle)
    <2>1. bridge' = Accept(bridge, cmd)
      BY <1>1, <1>4
    <2>2. BridgeInv(bridge', statuses') /\ Later(bridge, bridge')
      BY <1>2, <1>3, <1>4, <2>1, AcceptInv
    <2> QED
      BY <1>2, <2>2, BridgeStepInv
  <1>5. CASE ~MayClaim(bridge, cmd, idle)
    <2>1. bridge' = [bridge EXCEPT !.drive = NoDrive]
      BY <1>1, <1>5
    <2>2. BridgeInv(bridge', statuses) /\ Later(bridge, bridge')
          /\ StatusOf(bridge') = StatusOf(bridge)
      BY <1>3, <2>1, DropDrive
    <2>3. statuses' = statuses
      BY <1>2, <1>3, <2>2 DEF BridgeInv
    <2> QED
      BY <1>2, <2>2, <2>3, BridgeStepInv
  <1> QED
    BY <1>4, <1>5

LEMMA WatchdogStep ==
    ASSUME IndInv, Watchdog
    PROVE  IndInv'
  <1>1. /\ bridge' = [bridge EXCEPT !.drive = NoDrive]
        /\ statuses' = statuses /\ UNCHANGED <<datagram, dash>>
    BY DEF Watchdog
  <1>2. BridgeInv(bridge', statuses) /\ Later(bridge, bridge')
    BY <1>1, DropDrive DEF IndInv
  <1> QED
    BY <1>1, <1>2, BridgeStepInv

LEMMA RestartStep ==
    ASSUME IndInv, NEW observer \in BOOLEAN, Restart(observer)
    PROVE  IndInv'
  <1>1. /\ bridge' = BridgeInit(bridge.epoch + 1, observer)
        /\ statuses' = statuses \cup {StatusOf(bridge')}
        /\ UNCHANGED <<datagram, dash>>
    BY DEF Restart
  <1>2. BridgeInv(bridge', statuses') /\ Later(bridge, bridge')
    BY <1>1, FreshBridge DEF IndInv
  <1> QED
    BY <1>1, <1>2, BridgeStepInv

-----------------------------------------------------------------------------
(* The theorems.                                                           *)

LEMMA InitInv == Init => IndInv
  <1> SUFFICES ASSUME Init PROVE IndInv
    OBVIOUS
  <1>1. datagram \in BOOLEAN
    BY LinkAssumption DEF Init
  <1>2. ASSUME NEW d \in Dashboards
        PROVE  /\ DashInit(d) \in Dash /\ DashInit(d).id = d
               /\ DashInv(DashInit(d), bridge)
    <2> DEFINE x == DashInit(d)
    <2>1. /\ NoPending \in [epoch : Nat, seq : Nat \cup {-1}]
          /\ <<>> \in Seq(Nat) /\ <<>> \in Seq(Outputs)
          /\ [t \in Threads |-> <<>>] \in [Threads -> Seq(Outputs)]
      BY DEF NoPending
    <2>2. x \in Dash
      BY <1>1, <2>1 DEF DashInit, Dash
    <2>3. /\ x.id = d /\ x.epoch = 0 /\ x.seq = -1 /\ x.syncEpoch = 0
          /\ x.syncRequired = datagram /\ x.pending = NoPending
          /\ x.ready = FALSE /\ x.lease = 0 /\ x.queue = <<>>
          /\ x.batch = [t \in Threads |-> <<>>] /\ x.sent = {} /\ x.lapse = -1
      BY DEF DashInit
    <2> HIDE DEF x
    <2>4. bridge.epoch = 1
      BY DEF Init, BridgeInit
    <2>5. Local(x)
      <3>1. -1 <= -1 /\ NoDriveIn(<<>>)
        BY DEF NoDriveIn
      <3> QED
        BY <2>2, <2>3, <3>1 DEF Local
    <2>6. Known(x, bridge)
      BY <2>3, <2>4 DEF Known
    <2>7. Idle(x) /\ ReadyPart(x)
      BY <2>3 DEF Idle, ReadyPart
    <2> QED
      BY <2>2, <2>3, <2>5, <2>6, <2>7, IdleHeld DEF DashInv, CoreInv, x
  <1>3. dash \in [Dashboards -> Dash]
        /\ \A d \in Dashboards : dash[d].id = d /\ DashInv(dash[d], bridge)
    BY <1>2 DEF Init
  <1>4. BridgeInv(bridge, statuses)
    <2>1. bridge = BridgeInit(1, FALSE) /\ statuses = {StatusOf(bridge)}
      BY DEF Init
    <2>2. /\ NoAck \in Acks /\ NoAck.type # "stop"
          /\ NoDrive \in [source : Dashboards \cup {NoDash}, lease : Nat, granted : Nat]
      BY DEF NoAck, Acks, NoDrive
    <2>3. /\ [d \in Dashboards |-> -1] \in [Dashboards -> Nat \cup {-1}]
          /\ [d \in Dashboards |-> 0] \in [Dashboards -> Nat]
      OBVIOUS
    <2>4. bridge \in Bridge
      BY <2>1, <2>2, <2>3 DEF BridgeInit, Bridge
    <2>5. /\ bridge.epoch = 1 /\ bridge.drive = NoDrive /\ bridge.ack = NoAck
          /\ \A d \in Dashboards : bridge.stops[d] = -1 /\ bridge.lastSeq[d] = -1
      BY <2>1 DEF BridgeInit
    <2>6. StatusOf(bridge) \in Statuses
      BY <2>4 DEF StatusOf, Statuses, Bridge
    <2>7. StatusOf(bridge).epoch = 1 /\ StatusOf(bridge).ack = NoAck
      BY <2>5 DEF StatusOf
    <2>8. \A d \in Dashboards : bridge.stops[d] <= bridge.lastSeq[d]
      <3>1. -1 <= -1
        OBVIOUS
      <3> QED
        BY <2>5, <3>1
    <2>9. ASSUME NEW s \in statuses
          PROVE  1 <= s.epoch /\ s.epoch <= bridge.epoch /\ s.ack.type # "stop"
      <3>1. s.epoch = 1 /\ s.ack = NoAck
        BY <2>1, <2>7
      <3> QED
        BY <2>2, <2>5, <3>1
    <2>10. statuses \subseteq Statuses /\ StatusOf(bridge) \in statuses
      BY <2>1, <2>6
    <2>11. bridge.epoch >= 1
      BY <2>5
    <2> QED
      BY <2>4, <2>5, <2>8, <2>9, <2>10, <2>11 DEF BridgeInv
  <1> QED
    BY <1>1, <1>3, <1>4 DEF IndInv

LEMMA NextInv == IndInv /\ [Next]_vars => IndInv'
  <1> SUFFICES ASSUME IndInv, [Next]_vars PROVE IndInv'
    OBVIOUS
  <1>1. CASE UNCHANGED vars
    BY <1>1 DEF vars, IndInv, DashInv, CoreInv, Local, Known, Held, ReadyPart,
                BridgeInv
  <1>2. ASSUME NEW d \in Dashboards, DashboardStep(d) PROVE IndInv'
    BY <1>2, ReceiveStatusStep, RejectStatusStep, AcquireStep, ApiStopStep,
       TickBeginStep, PublishBatchStep, ShutdownStep DEF DashboardStep
  <1>3. CASE BridgeStep
    BY <1>3, ReceiveCommandStep, WatchdogStep, RestartStep DEF BridgeStep
  <1> QED
    BY <1>1, <1>2, <1>3 DEF Next

LEMMA LinkInv == Spec => []IndInv
  BY InitInv, NextInv, PTL DEF Spec

\* Type correctness, and the operation lock: between the drain of a batch and
\* its publication only the draining thread holds it, whatever the other
\* callbacks of ros_agent.py do.
THEOREM LinkTypeOK == Spec => []TypeOK
  <1>1. IndInv => TypeOK
    BY DEF IndInv, DashInv, CoreInv, Held, BridgeInv, TypeOK
  <1> QED
    BY <1>1, LinkInv, PTL

\* A drive of a lease granted under an earlier bridge process never moves the
\* robot of a later one, however the network delays, repeats and reorders.
THEOREM LinkLeaseOfThisBridge == Spec => []LeaseOfThisBridge
  <1>1. IndInv => LeaseOfThisBridge
    BY DEF IndInv, BridgeInv, LeaseOfThisBridge
  <1> QED
    BY <1>1, LinkInv, PTL

\* Over UDP a dashboard that is ready has had its own stop accepted, since its
\* connection last lapsed, by the very process it addresses.
THEOREM LinkHandoffBeforeReady == Spec => []HandoffBeforeReady
  <1>1. IndInv => HandoffBeforeReady
    BY DEF IndInv, DashInv, CoreInv, Known, ReadyPart, HandoffBeforeReady
  <1> QED
    BY <1>1, LinkInv, PTL

\* Over UDP the bridge holds no drive of a dashboard that has not stopped this
\* process first.
THEOREM LinkDriveAfterHandoff == Spec => []DriveAfterHandoff
  <1>1. IndInv => DriveAfterHandoff
    BY DEF IndInv, BridgeInv, DriveAfterHandoff
  <1> QED
    BY <1>1, LinkInv, PTL

-----------------------------------------------------------------------------
(* The numbering of leases and envelopes.  A second invariant, independent *)
(* of the first: the operators below keep Ledger, whatever they do to the  *)
(* hand-off.                                                               *)

\* A stop ends a lease that is over.
Ending(o, x) ==
    o.type = "stop" => o.lease <= x.leases /\ (x.lease # 0 => o.lease < x.lease)

\* An output that may be published now: a drive is of the live lease.
Fits(o, x) ==
    Ending(o, x) /\ (o.type = "drive" => x.lease # 0 /\ o.lease = x.lease)

\* What TerminalStopIsLast says of one dashboard.
StopsLast(x) ==
    \A stop, drive \in x.sent :
        stop.type = "stop" /\ drive.type = "drive" /\ stop.lease >= drive.lease
            => drive.seq < stop.seq

\* What LeaseHasNoGap says of one dashboard.
Gapless(x) ==
    x.lease # 0 => \A i \in (x.since + 1)..x.seq : \E c \in x.sent : c.seq = i

Numbers(x) ==
    /\ x.lease \in {0, x.leases}
    /\ NoDriveIn(x.queue)
    /\ \A i \in DOMAIN x.queue : Ending(x.queue[i], x)
    /\ \A c \in x.sent : /\ c.seq <= x.seq /\ Ending(c, x)
                         /\ c.type = "drive" => c.lease # 0
    /\ StopsLast(x)

Ledger(x) == Numbers(x) /\ Gapless(x)

\* While a batch waits for its publication the lock keeps the lease.
Waiting(x) == \A t \in Threads : \A i \in DOMAIN x.batch[t] : Fits(x.batch[t][i], x)

\* The highest lease the bridge knows to have ended was ended by a stop it has
\* accepted, and the drive it holds is of a later lease.
EndedPart(ds, b) ==
    /\ \A d \in Dashboards : b.ended[d] # 0 =>
          \E stop \in ds[d].sent : /\ stop.type = "stop" /\ stop.lease = b.ended[d]
                                   /\ stop.seq <= b.lastSeq[d]
    /\ b.drive # NoDrive => b.drive.lease > b.ended[b.drive.source]

\* With HeardFirst, a dashboard is at most one process behind, and has seen
\* every earlier one replaced.
EpochPart(x, b) ==
    /\ b.epoch <= MaxEpoch /\ b.epoch <= x.epoch + 1
    /\ \A e \in 1..(x.epoch - 1) : Member(x.retired, e)
    /\ Len(x.retired) <= (IF x.epoch = 0 THEN 0 ELSE x.epoch - 1)

LedgerInv ==
    /\ \A d \in Dashboards : Ledger(dash[d]) /\ Waiting(dash[d])
    /\ EndedPart(dash, bridge)

EpochInv == \A d \in Dashboards : EpochPart(dash[d], bridge)

-----------------------------------------------------------------------------
(* The operators of the transport keep the ledger.                         *)

LEMMA LedgerFields ==
    ASSUME NEW x \in Dash
    PROVE  /\ x.lease \in Nat /\ x.leases \in Nat /\ x.seq \in Int /\ x.since \in Int
           /\ x.queue \in Seq(Outputs)
           /\ \A c \in x.sent : c.seq \in Nat /\ c.lease \in Nat
           /\ \A i \in DOMAIN x.queue : x.queue[i].lease \in Nat
  <1>1. /\ x.lease \in Nat /\ x.leases \in Nat /\ x.seq \in Int /\ x.since \in Int
        /\ x.queue \in Seq(Outputs) /\ x.sent \subseteq Envelopes
    BY DEF Dash
  <1>2. \A c \in Envelopes : c.seq \in Nat /\ c.lease \in Nat
    BY DEF Envelopes
  <1>3. \A i \in DOMAIN x.queue : x.queue[i] \in Outputs
    BY <1>1
  <1> QED
    BY <1>1, <1>2, <1>3 DEF Outputs

\* What an operator does that leaves the waiting batches alone.
Keeps(x, y) ==
    y \in Dash /\ Ledger(y) /\ Same(x, y) /\ x.sent \subseteq y.sent

\* The same, for one that does not change the epoch either.
Stays(x, y) == Keeps(x, y) /\ y.epoch = x.epoch /\ y.retired = x.retired

LEMMA StaysTrans ==
    ASSUME NEW x, NEW y, NEW z, Stays(x, y), Stays(y, z)
    PROVE  Stays(x, z)
  BY DEF Stays, Keeps, Same

LEMMA KeepsTrans ==
    ASSUME NEW x, NEW y, NEW z, Keeps(x, y), Keeps(y, z)
    PROVE  Keeps(x, z)
  BY DEF Keeps, Same

\* The fields of the hand-off are not in the ledger.
LEMMA SameLedger ==
    ASSUME NEW x \in Dash, Ledger(x), NEW y \in Dash, Same(x, y), y.sent = x.sent,
           y.seq = x.seq, y.lease = x.lease, y.leases = x.leases,
           y.since = x.since, y.queue = x.queue
    PROVE  Keeps(x, y)
  BY DEF Keeps, Ledger, Numbers, Ending, StopsLast, Gapless

\* The lease ends, and its stop may be queued.
LEMMA NotReadyLedger ==
    ASSUME NEW x \in Dash, Numbers(x)
    PROVE  Stays(x, NotReady(x))
  <1> DEFINE q == IF x.lease # 0 THEN Append(x.queue, Out("stop", x))
                  ELSE x.queue
             y == NotReady(x)
  <1>1. y = [x EXCEPT !.lease = 0, !.granted = 0, !.since = -1,
                      !.ready = FALSE, !.queue = q]
    BY DEF NotReady, Unleased, Dash
  <1>2. y \in Dash
    BY NotReadyFacts DEF Frame
  <1>3. /\ Out("stop", x) \in Outputs /\ Out("stop", x).type = "stop"
        /\ Out("stop", x).lease = x.lease /\ x.queue \in Seq(Outputs)
    BY OutFacts, DashFields DEF Out
  <1> HIDE DEF q, y
  <1>4. /\ Same(x, y) /\ y.sent = x.sent /\ y.seq = x.seq /\ y.lease = 0
        /\ y.leases = x.leases /\ y.queue = q /\ y.epoch = x.epoch
        /\ y.retired = x.retired
    BY <1>1 DEF Dash, Same
  <1>5. Ledger(y)
    <2>1. x.lease \in Nat /\ x.leases \in Nat /\ x.lease <= x.leases
      BY LedgerFields DEF Numbers
    <2>2. NoDriveIn(q)
      BY <1>3, AppendStop DEF q, Numbers
    <2>3. ASSUME NEW i \in DOMAIN q PROVE Ending(q[i], y)
      <3>1. CASE i \in DOMAIN x.queue /\ q[i] = x.queue[i]
        BY <1>4, <3>1 DEF Numbers, Ending
      <3>2. CASE q[i] = Out("stop", x)
        BY <1>3, <1>4, <2>1, <3>2 DEF Ending
      <3> QED
        BY <1>3, <3>1, <3>2 DEF q
    <2>4. \A c \in y.sent : /\ c.seq <= y.seq /\ Ending(c, y)
                            /\ c.type = "drive" => c.lease # 0
      BY <1>4 DEF Numbers, Ending
    <2>5. StopsLast(y)
      BY <1>4 DEF Numbers, StopsLast
    <2> QED
      BY <1>4, <2>2, <2>3, <2>4, <2>5 DEF Ledger, Numbers, Gapless
  <1> QED
    BY <1>2, <1>4, <1>5 DEF Stays, Keeps, y

\* Publishing numbers the batch behind everything sent before; when it fails,
\* the lease is gone.
LEMMA PublishLedger ==
    ASSUME NEW x \in Dash, Ledger(x), NEW outs \in Seq(Outputs), NEW n \in Nat,
           \A i \in DOMAIN outs : Fits(outs[i], x)
    PROVE  Stays(x, Publish(x, outs, n))
  <1> DEFINE y == Publish(x, outs, n)
             good == IF n < Len(outs) THEN n ELSE Len(outs)
             new == {Envelope(x, outs[i], i) : i \in 1..good}
             used == IF good = Len(outs) THEN good ELSE good + 1
             p == [x EXCEPT !.seq = @ + used, !.sent = @ \cup new]
  <1>1. CASE outs = <<>> \/ x.down \/ x.epoch = 0
    <2>1. y = x
      BY <1>1 DEF Publish
    <2> QED
      BY <2>1 DEF Stays, Keeps, Same
  <1>2. CASE ~(outs = <<>> \/ x.down \/ x.epoch = 0)
    <2>1. y = IF good = Len(outs) THEN p ELSE NotReady(p)
      BY <1>2 DEF Publish
    <2>2. /\ good \in Nat /\ good <= Len(outs) /\ Len(outs) \in Nat
          /\ used \in Nat /\ good <= used
      OBVIOUS
    <2>3. /\ x.seq \in Int /\ x.seq >= -1 /\ x.since \in Int
      BY LedgerFields, DashFields
    <2>4. ASSUME NEW i \in 1..good
          PROVE  /\ Envelope(x, outs[i], i) \in Envelopes
                 /\ Envelope(x, outs[i], i).seq = x.seq + i
                 /\ Envelope(x, outs[i], i).type = outs[i].type
                 /\ Envelope(x, outs[i], i).lease = outs[i].lease
                 /\ i \in DOMAIN outs
      <3>1. outs[i] \in Outputs /\ i \in DOMAIN outs
        BY <2>2
      <3>2. x.seq + i \in Nat /\ x.id \in Dashboards /\ x.epoch \in Nat
        BY <2>2, <2>3, DashFields
      <3> QED
        BY <3>1, <3>2 DEF Envelope, Envelopes, Outputs
    <2>5. new \subseteq Envelopes
      BY <2>4
    <2>6. good = Len(outs) => used = good
      OBVIOUS
    <2> HIDE DEF good, used
    <2>7. \A c \in new : \E i \in 1..good : c = Envelope(x, outs[i], i)
      OBVIOUS
    <2>8. \A i \in 1..good : Envelope(x, outs[i], i) \in new
      OBVIOUS
    <2> HIDE DEF new
    <2>9. p \in Dash
      <3>1. x.seq + used \in Nat \cup {-1} /\ x.sent \cup new \subseteq Envelopes
        BY <2>2, <2>3, <2>5, DashFields
      <3> QED
        BY <3>1 DEF Dash
    <2>10. /\ Same(x, p) /\ p.seq = x.seq + used /\ p.sent = x.sent \cup new
          /\ p.queue = x.queue /\ p.lease = x.lease /\ p.leases = x.leases
          /\ p.since = x.since /\ p.epoch = x.epoch /\ p.retired = x.retired
      BY DEF Dash, Same
    <2> HIDE DEF p
    <2>11. Numbers(p) /\ (good = Len(outs) => Gapless(p))
      <3>1. \A c \in x.sent : /\ c.seq \in Nat /\ c.lease \in Nat /\ c.seq <= x.seq
                              /\ Ending(c, x) /\ (c.type = "drive" => c.lease # 0)
        BY LedgerFields DEF Ledger, Numbers
      <3>2. ASSUME NEW c \in new
            PROVE  /\ c.seq > x.seq /\ c.seq <= x.seq + used
                   /\ c.seq \in Int /\ c.lease \in Nat /\ Fits(c, x)
        <4>1. PICK i \in 1..good : c = Envelope(x, outs[i], i)
          BY <2>7
        <4>2. c.seq = x.seq + i /\ c.lease \in Nat
          BY <2>4, <4>1 DEF Envelopes
        <4>3. Fits(outs[i], x)
          BY <2>4
        <4>4. Fits(c, x)
          BY <2>4, <4>1, <4>3 DEF Fits, Ending
        <4> QED
          BY <2>2, <2>3, <4>2, <4>4
      <3>3. ASSUME NEW c \in p.sent
            PROVE  /\ c.seq <= p.seq /\ Ending(c, p)
                   /\ c.type = "drive" => c.lease # 0
        <4>1. CASE c \in x.sent
          <5>1. c.seq <= x.seq + used
            BY <2>2, <2>3, <3>1, <4>1
          <5> QED
            BY <2>10, <3>1, <4>1, <5>1 DEF Ending
        <4>2. CASE c \in new
          BY <2>10, <3>2, <4>2 DEF Fits, Ending
        <4> QED
          BY <2>10, <4>1, <4>2
      <3>4. StopsLast(p)
        <4> SUFFICES ASSUME NEW stop \in p.sent, NEW drive \in p.sent,
                            stop.type = "stop", drive.type = "drive",
                            stop.lease >= drive.lease
                     PROVE  drive.seq < stop.seq
          BY DEF StopsLast
        <4>1. stop.lease \in Nat /\ drive.lease \in Nat /\ Ending(stop, x)
          BY <2>10, <3>1, <3>2 DEF Fits
        <4>2. CASE drive \in new
          <5>1. x.lease # 0 /\ drive.lease = x.lease /\ stop.lease < x.lease
            BY <3>2, <4>1, <4>2 DEF Fits, Ending
          <5> QED
            BY <4>1, <5>1
        <4>3. CASE drive \in x.sent /\ stop \in x.sent
          BY <4>3 DEF Ledger, Numbers, StopsLast
        <4>4. CASE drive \in x.sent /\ stop \in new
          BY <2>3, <3>1, <3>2, <4>4
        <4> QED
          BY <2>10, <4>2, <4>3, <4>4
      <3>5. ASSUME good = Len(outs) PROVE Gapless(p)
        <4> SUFFICES ASSUME x.lease # 0, NEW i \in (x.since + 1)..(x.seq + used)
                     PROVE  \E c \in p.sent : c.seq = i
          BY <2>10 DEF Gapless
        <4>1. i \in Int /\ i <= x.seq + used
          BY <2>2, <2>3
        <4>2. CASE i <= x.seq
          <5>1. i \in (x.since + 1)..x.seq
            BY <2>3, <4>2
          <5>2. \E c \in x.sent : c.seq = i
            BY <5>1 DEF Ledger, Gapless
          <5> QED
            BY <2>10, <5>2
        <4>3. CASE i > x.seq
          <5>1. i - x.seq \in 1..good /\ x.seq + (i - x.seq) = i
            BY <2>2, <2>3, <2>6, <3>5, <4>1, <4>3
          <5> QED
            BY <2>4, <2>10, <2>8, <5>1
        <4> QED
          BY <2>3, <4>1, <4>2, <4>3
      <3> QED
        BY <2>10, <3>3, <3>4, <3>5 DEF Ledger, Numbers, Ending
    <2>12. CASE good = Len(outs)
      BY <2>1, <2>9, <2>10, <2>11, <2>12 DEF Stays, Keeps, Ledger
    <2>13. CASE good # Len(outs)
      <3>1. Stays(p, NotReady(p))
        BY <2>9, <2>11, NotReadyLedger
      <3> QED
        BY <2>1, <2>10, <2>13, <3>1 DEF Stays, Keeps, Same
    <2> QED
      BY <2>12, <2>13
  <1> QED
    BY <1>1, <1>2

LEMMA FlushLedger ==
    ASSUME NEW x \in Dash, Ledger(x), NEW n \in Nat
    PROVE  Stays(x, Flush(x, n))
  <1> DEFINE y == [x EXCEPT !.queue = <<>>]
  <1>1. <<>> \in Seq(Outputs)
    OBVIOUS
  <1>2. y \in Dash
    BY <1>1 DEF Dash
  <1>3. /\ Same(x, y) /\ y.sent = x.sent /\ y.seq = x.seq /\ y.lease = x.lease
        /\ y.leases = x.leases /\ y.since = x.since /\ y.queue = <<>>
        /\ y.epoch = x.epoch /\ y.retired = x.retired
    BY DEF Dash, Same
  <1>4. Flush(x, n) = Publish(y, x.queue, n) /\ x.queue \in Seq(Outputs)
    BY DashFields DEF Flush
  <1> HIDE DEF y
  <1>5. Ledger(y)
    BY <1>3 DEF Ledger, Numbers, Ending, StopsLast, Gapless, NoDriveIn
  <1>6. \A i \in DOMAIN x.queue : Fits(x.queue[i], y)
    BY <1>3 DEF Ledger, Numbers, Fits, Ending, NoDriveIn
  <1>7. Stays(y, Publish(y, x.queue, n))
    BY <1>2, <1>4, <1>5, <1>6, PublishLedger
  <1> QED
    BY <1>3, <1>4, <1>7 DEF Stays, Keeps, Same

LEMMA SetReadinessLedger ==
    ASSUME NEW x \in Dash, Ledger(x), NEW ready \in BOOLEAN, NEW n \in Nat
    PROVE  Stays(x, SetReadiness(x, ready, n))
  <1> DEFINE y == IF ready THEN [x EXCEPT !.ready = TRUE] ELSE NotReady(x)
  <1>1. SetReadiness(x, ready, n) = Flush(y, n)
    BY DEF SetReadiness
  <1>2. Stays(x, y)
    <2>1. CASE ready
      <3> DEFINE z == [x EXCEPT !.ready = TRUE]
      <3>1. z \in Dash
        BY DEF Dash
      <3>2. /\ Same(x, z) /\ z.sent = x.sent /\ z.seq = x.seq /\ z.lease = x.lease
            /\ z.leases = x.leases /\ z.since = x.since /\ z.queue = x.queue
            /\ z.epoch = x.epoch /\ z.retired = x.retired
        BY DEF Dash, Same
      <3> HIDE DEF z
      <3>3. Stays(x, z)
        BY <3>1, <3>2, SameLedger DEF Stays
      <3> QED
        BY <2>1, <3>3 DEF z
    <2>2. CASE ~ready
      BY <2>2, NotReadyLedger DEF Ledger
    <2> QED
      BY <2>1, <2>2
  <1> HIDE DEF y
  <1>3. Stays(y, Flush(y, n))
    BY <1>2, FlushLedger DEF Stays, Keeps
  <1> QED
    BY <1>1, <1>2, <1>3, StaysTrans

LEMMA LapseLedger ==
    ASSUME NEW x \in Dash, Ledger(x), datagram \in BOOLEAN
    PROVE  Stays(x, Lapse(x))
  <1> DEFINE y == Lapse(x)
  <1>1. y = IF datagram
            THEN [x EXCEPT !.received = FALSE, !.syncRequired = TRUE,
                           !.syncEpoch = 0, !.pending = NoPending,
                           !.lapse = x.seq]
            ELSE [x EXCEPT !.received = FALSE]
    BY DEF Lapse, Dash
  <1>2. x.seq \in Nat \cup {-1} /\ NoPending \in [epoch : Nat, seq : Nat \cup {-1}]
    BY DEF Dash, NoPending
  <1> HIDE DEF y
  <1>3. y \in Dash
    BY <1>1, <1>2 DEF Dash
  <1>4. /\ Same(x, y) /\ y.sent = x.sent /\ y.seq = x.seq /\ y.lease = x.lease
        /\ y.leases = x.leases /\ y.since = x.since /\ y.queue = x.queue
        /\ y.epoch = x.epoch /\ y.retired = x.retired
    BY <1>1 DEF Dash, Same
  <1> QED
    BY <1>3, <1>4, SameLedger DEF Stays, y

LEMMA SetUnreadyLedger ==
    ASSUME NEW x \in Dash, Ledger(x), datagram \in BOOLEAN, NEW n \in Nat
    PROVE  Stays(x, SetUnready(x, n))
  <1>1. Stays(x, Lapse(x))
    BY LapseLedger
  <1>2. Stays(Lapse(x), SetReadiness(Lapse(x), FALSE, n))
    BY <1>1, SetReadinessLedger DEF Stays, Keeps
  <1> QED
    BY <1>1, <1>2, StaysTrans DEF SetUnready

LEMMA StalenessLedger ==
    ASSUME NEW x \in Dash, Ledger(x), datagram \in BOOLEAN,
           NEW stale \in BOOLEAN, NEW n \in Nat
    PROVE  Stays(x, UpdateStaleness(x, stale, n))
  <1>1. Stays(x, x)
    BY DEF Stays, Keeps, Same
  <1>2. CASE ~stale
    BY <1>1, <1>2 DEF UpdateStaleness
  <1>3. CASE stale
    <2> DEFINE y == IF x.received THEN Lapse(x) ELSE x
    <2>1. Stays(x, y)
      BY <1>1, LapseLedger
    <2>2. UpdateStaleness(x, stale, n) = SetReadiness(y, FALSE, n)
      BY <1>3 DEF UpdateStaleness
    <2> HIDE DEF y
    <2>3. Stays(y, SetReadiness(y, FALSE, n))
      BY <2>1, SetReadinessLedger DEF Stays, Keeps
    <2> QED
      BY <2>1, <2>2, <2>3, StaysTrans
  <1> QED
    BY <1>2, <1>3

\* The list of retired epochs after the present one has been replaced.
RetiredNow(x) ==
    IF Member(x.retired, x.epoch) THEN x.retired
    ELSE LastOf(Append(x.retired, x.epoch), RetiredMemory)

LEMMA TakeEpochLedger ==
    ASSUME NEW x \in Dash, Ledger(x), NEW e \in Nat, NEW n \in Nat
    PROVE  LET y == TakeEpoch(x, e, n)
           IN  /\ Keeps(x, y) /\ y.epoch = e
               /\ y.retired = IF x.epoch \in {0, e} THEN x.retired ELSE RetiredNow(x)
  <1> DEFINE r == RetiredNow(x)
             u == [x EXCEPT !.epoch = e, !.received = TRUE]
             v == [x EXCEPT !.retired = r, !.syncEpoch = 0,
                            !.syncRequired = TRUE, !.pending = NoPending,
                            !.lapse = x.seq, !.epoch = e, !.received = TRUE]
             y == TakeEpoch(x, e, n)
  <1>1. CASE x.epoch = 0 \/ x.epoch = e
    <2>1. y = u
      BY <1>1 DEF TakeEpoch
    <2>2. u \in Dash
      BY DEF Dash
    <2>3. /\ Same(x, u) /\ u.sent = x.sent /\ u.seq = x.seq /\ u.lease = x.lease
          /\ u.leases = x.leases /\ u.since = x.since /\ u.queue = x.queue
          /\ u.epoch = e /\ u.retired = x.retired
      BY DEF Dash, Same
    <2> HIDE DEF u, y
    <2>4. Keeps(x, u)
      BY <2>2, <2>3, SameLedger
    <2> QED
      BY <1>1, <2>1, <2>3, <2>4 DEF y
  <1>2. CASE ~(x.epoch = 0 \/ x.epoch = e)
    <2>1. y = SetReadiness(v, FALSE, n)
      BY <1>2 DEF TakeEpoch, RetiredNow, Dash
    <2>2. r \in Seq(Nat)
      BY RetireType, DashFields DEF RetiredNow
    <2>3. x.seq \in Nat \cup {-1} /\ NoPending \in [epoch : Nat, seq : Nat \cup {-1}]
      BY DEF Dash, NoPending
    <2> HIDE DEF r, y
    <2>4. v \in Dash
      BY <2>2, <2>3 DEF Dash
    <2>5. /\ Same(x, v) /\ v.sent = x.sent /\ v.seq = x.seq /\ v.lease = x.lease
          /\ v.leases = x.leases /\ v.since = x.since /\ v.queue = x.queue
          /\ v.epoch = e /\ v.retired = r
      BY DEF Dash, Same
    <2> HIDE DEF v
    <2>6. Keeps(x, v)
      BY <2>4, <2>5, SameLedger
    <2>7. Stays(v, y)
      BY <2>1, <2>4, <2>6, SetReadinessLedger DEF Keeps
    <2>8. Keeps(x, y)
      BY <2>6, <2>7, KeepsTrans DEF Stays
    <2> QED
      BY <1>2, <2>5, <2>7, <2>8 DEF Stays, y, r
  <1> QED
    BY <1>1, <1>2

LEMMA NoteAckLedger ==
    ASSUME NEW x \in Dash, Ledger(x), NEW s \in Statuses
    PROVE  Stays(x, NoteAck(x, s))
  <1>1. CASE ~Acknowledges(x, s)
    BY <1>1 DEF NoteAck, Stays, Keeps, Same
  <1>2. CASE Acknowledges(x, s)
    <2> DEFINE y == [x EXCEPT !.syncEpoch = s.epoch, !.syncRequired = FALSE,
                              !.pending = NoPending]
    <2>1. NoteAck(x, s) = y
      BY <1>2 DEF NoteAck
    <2>2. s.epoch \in Nat /\ NoPending \in [epoch : Nat, seq : Nat \cup {-1}]
      BY DEF Statuses, NoPending
    <2>3. y \in Dash
      BY <2>2 DEF Dash
    <2>4. /\ Same(x, y) /\ y.sent = x.sent /\ y.seq = x.seq /\ y.lease = x.lease
          /\ y.leases = x.leases /\ y.since = x.since /\ y.queue = x.queue
          /\ y.epoch = x.epoch /\ y.retired = x.retired
      BY DEF Dash, Same
    <2> HIDE DEF y
    <2> QED
      BY <2>1, <2>3, <2>4, SameLedger DEF Stays
  <1> QED
    BY <1>1, <1>2

LEMMA HandoffLedger ==
    ASSUME NEW x \in Dash, Ledger(x), NEW e \in Nat, NEW due \in BOOLEAN,
           NEW n \in Nat
    PROVE  Stays(x, SendHandoff(x, e, due, n))
  <1> DEFINE stop == [type |-> "stop", lease |-> 0, granted |-> 0]
             outs == <<stop>>
             y == Publish(x, outs, n)
             p == IF Published(x, outs, n) THEN [epoch |-> e, seq |-> y.seq]
                  ELSE NoPending
             z == [y EXCEPT !.syncRequired = TRUE, !.pending = p]
  <1>1. CASE ~(x.pending = NoPending \/ x.pending.epoch # e \/ due)
    BY <1>1 DEF SendHandoff, Stays, Keeps, Same
  <1>2. CASE x.pending = NoPending \/ x.pending.epoch # e \/ due
    <2>1. SendHandoff(x, e, due, n) = z
      BY <1>2 DEF SendHandoff
    <2>2. stop \in Outputs /\ Fits(stop, x)
      <3>1. x.lease \in Nat /\ x.leases \in Nat
        BY LedgerFields
      <3> QED
        BY <3>1 DEF Outputs, Fits, Ending
    <2>3. outs \in Seq(Outputs) /\ \A i \in DOMAIN outs : outs[i] = stop
      BY <2>2
    <2> HIDE DEF outs, stop
    <2>4. Stays(x, y)
      BY <2>2, <2>3, PublishLedger
    <2> HIDE DEF y
    <2>5. y \in Dash /\ Ledger(y)
      BY <2>4 DEF Stays, Keeps
    <2>6. p \in [epoch : Nat, seq : Nat \cup {-1}]
      BY <2>5 DEF NoPending, Dash
    <2> HIDE DEF p
    <2>7. z \in Dash
      BY <2>5, <2>6 DEF Dash
    <2>8. /\ Same(y, z) /\ z.sent = y.sent /\ z.seq = y.seq /\ z.lease = y.lease
          /\ z.leases = y.leases /\ z.since = y.since /\ z.queue = y.queue
          /\ z.epoch = y.epoch /\ z.retired = y.retired
      BY <2>5 DEF Dash, Same
    <2> HIDE DEF z
    <2>9. Stays(y, z)
      BY <2>5, <2>7, <2>8, SameLedger DEF Stays
    <2> QED
      BY <2>1, <2>4, <2>9, StaysTrans
  <1> QED
    BY <1>1, <1>2

\* status_callback keeps the ledger; an epoch is taken unless it is retired.
LEMMA StatusLedger ==
    ASSUME NEW x \in Dash, Ledger(x), NEW s \in Statuses, datagram \in BOOLEAN,
           NEW healthy \in BOOLEAN, NEW due \in BOOLEAN, NEW n \in Nat, NEW k \in Nat
    PROVE  LET y == StatusCallback(x, s, healthy, due, n, k)
           IN  /\ Keeps(x, y)
               /\ IF Retired(x, s.epoch)
                  THEN y.epoch = x.epoch /\ y.retired = x.retired
                  ELSE /\ y.epoch = s.epoch
                       /\ y.retired = IF x.epoch \in {0, s.epoch} THEN x.retired
                                      ELSE RetiredNow(x)
  <1> DEFINE r == StatusCallback(x, s, healthy, due, n, k)
  <1>1. CASE Retired(x, s.epoch)
    <2>1. r = SetUnready(x, n)
      BY <1>1 DEF StatusCallback
    <2>2. Stays(x, r)
      BY <2>1, SetUnreadyLedger
    <2> QED
      BY <1>1, <2>2 DEF Stays
  <1>2. CASE ~Retired(x, s.epoch)
    <2> DEFINE y == TakeEpoch(x, s.epoch, n)
               z == NoteAck(y, s)
               w == SetReadiness(z, FALSE, n)
    <2>1. s.epoch \in Nat /\ s.observer \in BOOLEAN
      BY DEF Statuses
    <2>2. /\ Keeps(x, y) /\ y.epoch = s.epoch
          /\ y.retired = IF x.epoch \in {0, s.epoch} THEN x.retired ELSE RetiredNow(x)
      BY <2>1, TakeEpochLedger
    <2>3. r = IF s.observer THEN SetReadiness(y, FALSE, n)
              ELSE IF ~datagram THEN SetReadiness(y, healthy, n)
              ELSE IF Synchronized(z, s.epoch) THEN SetReadiness(z, healthy, n)
              ELSE SendHandoff(w, s.epoch, due, k)
      BY <1>2 DEF StatusCallback
    <2> HIDE DEF y, r
    <2>4. y \in Dash /\ Ledger(y)
      BY <2>2 DEF Keeps
    <2>5. Stays(y, z)
      BY <2>4, NoteAckLedger
    <2> HIDE DEF z
    <2>6. z \in Dash /\ Ledger(z)
      BY <2>5 DEF Stays, Keeps
    <2>7. Stays(z, w)
      BY <2>6, SetReadinessLedger
    <2> HIDE DEF w
    <2>8. Stays(w, SendHandoff(w, s.epoch, due, k))
      BY <2>1, <2>7, HandoffLedger DEF Stays, Keeps
    <2>9. Stays(y, SetReadiness(y, FALSE, n)) /\ Stays(y, SetReadiness(y, healthy, n))
          /\ Stays(z, SetReadiness(z, healthy, n))
      BY <2>4, <2>6, SetReadinessLedger
    <2>10. Stays(y, r)
      BY <2>3, <2>5, <2>7, <2>8, <2>9, StaysTrans
    <2>11. Keeps(x, r)
      BY <2>2, <2>10, KeepsTrans DEF Stays
    <2> QED
      BY <1>2, <2>2, <2>10, <2>11 DEF Stays, r
  <1> QED
    BY <1>1, <1>2

\* The lease ends without its stop being queued: the caller has it.
LEMMA UnleasedLedger ==
    ASSUME NEW x \in Dash, Ledger(x)
    PROVE  /\ Stays(x, Unleased(x)) /\ Unleased(x).lease = 0
           /\ Unleased(x).queue = x.queue
           /\ Fits(Out("stop", x), Unleased(x)) /\ Fits(Out("action", x), Unleased(x))
  <1> DEFINE y == Unleased(x)
  <1>1. y \in Dash
    BY DEF Unleased, Dash
  <1>2. /\ Same(x, y) /\ y.sent = x.sent /\ y.seq = x.seq /\ y.lease = 0
        /\ y.leases = x.leases /\ y.queue = x.queue
        /\ y.epoch = x.epoch /\ y.retired = x.retired
    BY DEF Unleased, Dash, Same
  <1> HIDE DEF y
  <1>3. Ledger(y)
    BY <1>2 DEF Ledger, Numbers, Ending, StopsLast, Gapless
  <1>4. x.lease \in Nat /\ x.leases \in Nat /\ x.lease <= x.leases
    BY LedgerFields DEF Ledger, Numbers
  <1>5. /\ Out("stop", x).type = "stop" /\ Out("stop", x).lease = x.lease
        /\ Out("action", x).type = "action"
    BY DEF Out
  <1>6. Fits(Out("stop", x), y) /\ Fits(Out("action", x), y)
    BY <1>2, <1>4, <1>5 DEF Fits, Ending
  <1> QED
    BY <1>1, <1>2, <1>3, <1>6 DEF Stays, Keeps, y

\* What a step does to the ledger of its dashboard, and to the epoch.
Advances(x, y) == y \in Dash /\ Ledger(y) /\ Waiting(y) /\ x.sent \subseteq y.sent
Rests(x, y) == y.epoch = x.epoch /\ y.retired = x.retired

LEMMA IdleAdvances ==
    ASSUME NEW x, NEW y, Keeps(x, y), Idle(x)
    PROVE  Advances(x, y)
  BY DEF Keeps, Idle, Same, Advances, Waiting

\* The manager's queue holds stops of leases that are over; what the drain
\* adds must fit as well.
LEMMA JoinFits ==
    ASSUME NEW x \in Dash, Ledger(x), NEW outs \in Seq(Outputs),
           \A i \in DOMAIN outs : Fits(outs[i], x)
    PROVE  /\ x.queue \o outs \in Seq(Outputs)
           /\ \A i \in DOMAIN (x.queue \o outs) : Fits((x.queue \o outs)[i], x)
  <1> DEFINE q == x.queue \o outs
  <1>1. x.queue \in Seq(Outputs) /\ q \in Seq(Outputs)
    BY DashFields
  <1>2. ASSUME NEW i \in DOMAIN q PROVE Fits(q[i], x)
    <2>1. CASE i <= Len(x.queue)
      <3>1. i \in DOMAIN x.queue /\ q[i] = x.queue[i]
        BY <1>1, <2>1
      <3> QED
        BY <3>1 DEF Ledger, Numbers, NoDriveIn, Fits
    <2>2. CASE i > Len(x.queue)
      <3>1. i - Len(x.queue) \in DOMAIN outs /\ q[i] = outs[i - Len(x.queue)]
        BY <1>1, <2>2
      <3> QED
        BY <3>1
    <2>3. i \in Int /\ Len(x.queue) \in Int
      BY <1>1
    <2> QED
      BY <2>1, <2>2, <2>3
  <1> QED
    BY <1>1, <1>2

LEMMA DrainLedger ==
    ASSUME NEW x \in Dash, Ledger(x), Idle(x), NEW t \in Threads,
           NEW outs \in Seq(Outputs), \A i \in DOMAIN outs : Fits(outs[i], x)
    PROVE  Advances(x, Drain(x, t, outs)) /\ Rests(x, Drain(x, t, outs))
  <1> DEFINE q == x.queue \o outs
             l == IF q = <<>> THEN x.lock ELSE t
             y == Drain(x, t, outs)
  <1>1. q \in Seq(Outputs) /\ \A i \in DOMAIN q : Fits(q[i], x)
    BY JoinFits
  <1>2. y = [x EXCEPT !.queue = <<>>, !.batch = [@ EXCEPT ![t] = q], !.lock = l]
    BY DEF Drain
  <1>3. <<>> \in Seq(Outputs) /\ l \in Threads \cup {"free"}
    BY DEF Dash
  <1> HIDE DEF q, l, y
  <1>4. y \in Dash
    BY <1>1, <1>2, <1>3 DEF Dash
  <1>5. /\ y.seq = x.seq /\ y.sent = x.sent /\ y.queue = <<>>
        /\ y.batch = [x.batch EXCEPT ![t] = q] /\ y.lease = x.lease
        /\ y.leases = x.leases /\ y.since = x.since
        /\ y.epoch = x.epoch /\ y.retired = x.retired
    BY <1>2 DEF Dash
  <1>6. Ledger(y)
    BY <1>5 DEF Ledger, Numbers, Ending, StopsLast, Gapless, NoDriveIn
  <1>7. ASSUME NEW u \in Threads, NEW i \in DOMAIN y.batch[u]
        PROVE  Fits(y.batch[u][i], y)
    <2>1. y.batch[u] = IF u = t THEN q ELSE <<>>
      BY <1>5, DashFields DEF Idle
    <2>2. u = t /\ i \in DOMAIN q /\ y.batch[u][i] = q[i]
      BY <2>1
    <2>3. Fits(q[i], x)
      BY <1>1, <2>2
    <2> QED
      BY <1>5, <2>2, <2>3 DEF Fits, Ending
  <1> QED
    BY <1>4, <1>5, <1>6, <1>7 DEF Advances, Rests, Waiting, y

LEMMA BatchLedger ==
    ASSUME NEW x \in Dash, Ledger(x), Waiting(x), NEW t \in Threads,
           x.batch[t] # <<>>, \A u \in Threads : x.batch[u] # <<>> => x.lock = u,
           NEW n \in Nat
    PROVE  Advances(x, AfterBatch(x, t, n)) /\ Rests(x, AfterBatch(x, t, n))
  <1> DEFINE outs == x.batch[t]
             p == Publish(x, outs, n)
             y == [p EXCEPT !.batch[t] = <<>>,
                            !.lock = IF @ = t THEN "free" ELSE @]
  <1>1. outs \in Seq(Outputs) /\ \A i \in DOMAIN outs : Fits(outs[i], x)
    BY DashFields DEF Waiting
  <1>2. x.lock = t /\ \A u \in Threads : u # t => x.batch[u] = <<>>
    OBVIOUS
  <1> HIDE DEF outs
  <1>3. Stays(x, p)
    BY <1>1, PublishLedger
  <1> HIDE DEF p
  <1>4. p \in Dash /\ Ledger(p) /\ p.lock = t /\ p.batch = x.batch
    BY <1>2, <1>3 DEF Stays, Keeps, Same
  <1>5. y = [p EXCEPT !.batch = [@ EXCEPT ![t] = <<>>], !.lock = "free"]
    BY <1>4 DEF Dash
  <1>6. <<>> \in Seq(Outputs)
    OBVIOUS
  <1> HIDE DEF y
  <1>7. y \in Dash
    BY <1>4, <1>5, <1>6 DEF Dash
  <1>8. /\ y.seq = p.seq /\ y.sent = p.sent /\ y.queue = p.queue
        /\ y.batch = [p.batch EXCEPT ![t] = <<>>] /\ y.lease = p.lease
        /\ y.leases = p.leases /\ y.since = p.since
        /\ y.epoch = p.epoch /\ y.retired = p.retired
    BY <1>4, <1>5 DEF Dash
  <1>9. Ledger(y)
    BY <1>4, <1>8 DEF Ledger, Numbers, Ending, StopsLast, Gapless
  <1>10. \A u \in Threads : y.batch[u] = <<>>
    BY <1>2, <1>4, <1>8, DashFields
  <1>11. Advances(x, y) /\ Rests(x, y)
    BY <1>3, <1>7, <1>8, <1>9, <1>10 DEF Advances, Rests, Waiting, Stays, Keeps
  <1> QED
    BY <1>11 DEF y, p, outs, AfterBatch

\* The new lease is numbered after every lease a stop has ended, and nothing
\* of it has been sent.
LEMMA AcquireLedger ==
    ASSUME NEW x \in Dash, Ledger(x), Idle(x), NEW n \in Nat
    PROVE  LET y == Flush([x EXCEPT !.lease = x.leases + 1, !.leases = @ + 1,
                                    !.granted = x.epoch, !.since = x.seq], n)
           IN  Advances(x, y) /\ Rests(x, y)
  <1> DEFINE y == [x EXCEPT !.lease = x.leases + 1, !.leases = @ + 1,
                            !.granted = x.epoch, !.since = x.seq]
  <1>1. /\ x.leases + 1 \in Nat /\ x.leases \in Nat /\ x.epoch \in Nat
        /\ x.seq \in Nat \cup {-1}
    BY DEF Dash
  <1>2. y = [x EXCEPT !.lease = x.leases + 1, !.leases = x.leases + 1,
                      !.granted = x.epoch, !.since = x.seq]
    BY DEF Dash
  <1> HIDE DEF y
  <1>3. y \in Dash
    BY <1>1, <1>2 DEF Dash
  <1>4. /\ Same(x, y) /\ y.sent = x.sent /\ y.seq = x.seq
        /\ y.lease = x.leases + 1 /\ y.leases = x.leases + 1
        /\ y.since = x.seq /\ y.queue = x.queue
        /\ y.epoch = x.epoch /\ y.retired = x.retired
    BY <1>2 DEF Dash, Same
  <1>5. \A k \in Nat : k <= x.leases => k <= x.leases + 1 /\ k < x.leases + 1
    BY <1>1
  <1>6. /\ \A c \in y.sent : Ending(c, y)
        /\ \A i \in DOMAIN y.queue : Ending(y.queue[i], y)
    BY <1>4, <1>5, LedgerFields DEF Ledger, Numbers, Ending
  <1>7. Gapless(y)
    <2>1. (y.since + 1)..y.seq = {}
      BY <1>1, <1>4
    <2> QED
      BY <2>1 DEF Gapless
  <1>8. Ledger(y)
    BY <1>4, <1>6, <1>7 DEF Ledger, Numbers, StopsLast
  <1>9. Stays(y, Flush(y, n))
    BY <1>3, <1>8, FlushLedger
  <1>10. Keeps(x, Flush(y, n)) /\ Rests(x, Flush(y, n))
    BY <1>4, <1>9 DEF Stays, Keeps, Same, Rests
  <1>11. Advances(x, Flush(y, n))
    BY <1>10, IdleAdvances
  <1> QED
    BY <1>10, <1>11 DEF y

LEMMA ShutdownLedger ==
    ASSUME NEW x \in Dash, Ledger(x), Idle(x), NEW n \in Nat
    PROVE  LET c == [Unleased(x) EXCEPT !.ready = FALSE, !.queue = <<>>]
               y == [Publish(c, x.queue \o <<Out("stop", x)>>, n)
                       EXCEPT !.down = TRUE, !.queue = <<>>]
           IN  Advances(x, y) /\ Rests(x, y)
  <1> DEFINE u == Unleased(x)
             c == [u EXCEPT !.ready = FALSE, !.queue = <<>>]
             outs == x.queue \o <<Out("stop", x)>>
             p == Publish(c, outs, n)
             y == [p EXCEPT !.down = TRUE, !.queue = <<>>]
  <1>1. /\ Stays(x, u) /\ u.lease = 0 /\ u.queue = x.queue
        /\ Fits(Out("stop", x), u) /\ Out("stop", x) \in Outputs
        /\ <<>> \in Seq(Outputs)
    BY UnleasedLedger, OutFacts
  <1>2. u \in Dash /\ Ledger(u)
    BY <1>1 DEF Stays, Keeps
  <1>3. outs \in Seq(Outputs) /\ \A i \in DOMAIN outs : Fits(outs[i], u)
    <2> DEFINE e == <<Out("stop", x)>>
    <2>1. e \in Seq(Outputs) /\ \A i \in DOMAIN e : Fits(e[i], u)
      BY <1>1
    <2>2. outs = u.queue \o e
      BY <1>1
    <2> HIDE DEF e, u, outs
    <2> QED
      BY <1>2, <2>1, <2>2, JoinFits
  <1> HIDE DEF outs, u
  <1>4. c \in Dash
    BY <1>1, <1>2, Silenced
  <1>5. /\ Same(u, c) /\ c.sent = u.sent /\ c.seq = u.seq /\ c.lease = u.lease
        /\ c.leases = u.leases /\ c.since = u.since /\ c.queue = <<>>
        /\ c.epoch = u.epoch /\ c.retired = u.retired
    BY <1>2 DEF Dash, Same
  <1> HIDE DEF c
  <1>6. Ledger(c) /\ \A i \in DOMAIN outs : Fits(outs[i], c)
    BY <1>2, <1>3, <1>5
       DEF Ledger, Numbers, Ending, StopsLast, Gapless, NoDriveIn, Fits
  <1>7. Stays(c, p)
    BY <1>3, <1>4, <1>6, PublishLedger
  <1> HIDE DEF p
  <1>8. p \in Dash /\ Ledger(p)
    BY <1>7 DEF Stays, Keeps
  <1>9. y \in Dash
    BY <1>1, <1>8 DEF Dash
  <1>10. /\ Same(p, y) /\ y.sent = p.sent /\ y.seq = p.seq /\ y.lease = p.lease
         /\ y.leases = p.leases /\ y.since = p.since /\ y.queue = <<>>
         /\ y.epoch = p.epoch /\ y.retired = p.retired
    BY <1>8 DEF Dash, Same
  <1> HIDE DEF y
  <1>11. Ledger(y)
    BY <1>8, <1>10 DEF Ledger, Numbers, Ending, StopsLast, Gapless, NoDriveIn
  <1>12. Keeps(x, y) /\ Rests(x, y)
    BY <1>1, <1>5, <1>7, <1>9, <1>10, <1>11 DEF Stays, Keeps, Same, Rests
  <1>13. Advances(x, y)
    BY <1>12, IdleAdvances
  <1> QED
    BY <1>12, <1>13 DEF y, p, c, u, outs

-----------------------------------------------------------------------------
(* The actions keep the ledgers.                                           *)

\* No dashboard changes the epoch it addresses.
EpochsRest == \A f \in Dashboards : Rests(dash[f], dash'[f])

\* What both invariants say of one dashboard.
LEMMA LedgerFacts ==
    ASSUME IndInv, LedgerInv, NEW d \in Dashboards
    PROVE  /\ dash[d] \in Dash /\ dash[d].id = d /\ Ledger(dash[d])
           /\ Waiting(dash[d]) /\ datagram \in BOOLEAN
           /\ \A t \in Threads : dash[d].batch[t] # <<>> => dash[d].lock = t
           /\ Free(dash[d]) => Idle(dash[d])
  <1>1. DashInv(dash[d], bridge)
    BY DashFacts
  <1> QED
    BY <1>1, DashFacts DEF LedgerInv, DashInv, CoreInv, Held

LEMMA SetLedger ==
    ASSUME IndInv, LedgerInv, NEW d \in Dashboards, NEW y, Set(d, y),
           Advances(dash[d], y)
    PROVE  LedgerInv' /\ (Rests(dash[d], y) => EpochsRest)
  <1>1. bridge' = bridge /\ dash' = [dash EXCEPT ![d] = y] /\ DOMAIN dash = Dashboards
    BY DEF Set, IndInv
  <1>2. \A f \in Dashboards : dash'[f] = IF f = d THEN y ELSE dash[f]
    BY <1>1
  <1>3. ASSUME NEW f \in Dashboards
        PROVE  /\ Ledger(dash'[f]) /\ Waiting(dash'[f])
               /\ dash[f].sent \subseteq dash'[f].sent
    BY <1>2 DEF LedgerInv, Advances
  <1>4. EndedPart(dash', bridge')
    BY <1>1, <1>3 DEF LedgerInv, EndedPart
  <1>5. Rests(dash[d], y) => EpochsRest
    BY <1>2 DEF EpochsRest, Rests
  <1>6. LedgerInv'
    BY <1>3, <1>4 DEF LedgerInv, EndedPart, Ledger, Numbers, Ending, StopsLast,
                      Gapless, Waiting, Fits, NoDriveIn
  <1> QED
    BY <1>5, <1>6

\* The callback of a status: the ledger is kept, and the epoch is that of the
\* status unless it is retired.
LEMMA ReceiveStatusKeeps ==
    ASSUME IndInv, LedgerInv, NEW d \in Dashboards, NEW status \in statuses,
           ReceiveStatus(d, status)
    PROVE  /\ LedgerInv'
           /\ \A f \in Dashboards : f # d => Rests(dash[f], dash'[f])
           /\ IF Retired(dash[d], status.epoch) THEN Rests(dash[d], dash'[d])
              ELSE /\ dash'[d].epoch = status.epoch
                   /\ dash'[d].retired = IF dash[d].epoch \in {0, status.epoch}
                                         THEN dash[d].retired
                                         ELSE RetiredNow(dash[d])
  <1>1. PICK healthy \in BOOLEAN, due \in BOOLEAN, n \in Counts, k \in Counts :
          /\ Free(dash[d])
          /\ Set(d, StatusCallback(dash[d], status, healthy, due, n, k))
    BY DEF ReceiveStatus
  <1> DEFINE x == dash[d]
             y == StatusCallback(x, status, healthy, due, n, k)
  <1>2. n \in Nat /\ k \in Nat /\ status \in Statuses
    BY LinkAssumption DEF IndInv, BridgeInv
  <1>3. x \in Dash /\ Ledger(x) /\ Idle(x) /\ datagram \in BOOLEAN
    BY <1>1, LedgerFacts
  <1>4. /\ Keeps(x, y)
        /\ IF Retired(x, status.epoch)
           THEN y.epoch = x.epoch /\ y.retired = x.retired
           ELSE /\ y.epoch = status.epoch
                /\ y.retired = IF x.epoch \in {0, status.epoch} THEN x.retired
                               ELSE RetiredNow(x)
    BY <1>2, <1>3, StatusLedger
  <1>5. Set(d, y)
    BY <1>1
  <1> HIDE DEF y
  <1>6. Advances(x, y)
    BY <1>3, <1>4, IdleAdvances
  <1>7. LedgerInv'
    BY <1>5, <1>6, SetLedger
  <1>8. \A f \in Dashboards : dash'[f] = IF f = d THEN y ELSE dash[f]
    BY <1>5 DEF Set, IndInv
  <1> QED
    BY <1>4, <1>7, <1>8 DEF Rests

LEMMA RejectStatusKeeps ==
    ASSUME IndInv, LedgerInv, NEW d \in Dashboards, RejectStatus(d)
    PROVE  LedgerInv' /\ EpochsRest
  <1>1. PICK n \in Counts : Free(dash[d]) /\ Set(d, SetUnready(dash[d], n))
    BY DEF RejectStatus
  <1>2. n \in Nat
    BY LinkAssumption
  <1>3. Stays(dash[d], SetUnready(dash[d], n))
    BY <1>2, LedgerFacts, SetUnreadyLedger
  <1>4. /\ Advances(dash[d], SetUnready(dash[d], n))
        /\ Rests(dash[d], SetUnready(dash[d], n))
    BY <1>1, <1>3, LedgerFacts, IdleAdvances DEF Stays, Rests
  <1> QED
    BY <1>1, <1>4, SetLedger

LEMMA AcquireKeeps ==
    ASSUME IndInv, LedgerInv, NEW d \in Dashboards, Acquire(d)
    PROVE  LedgerInv' /\ EpochsRest
  <1>1. PICK n \in Counts :
          Set(d, Flush([dash[d] EXCEPT !.lease = dash[d].leases + 1,
                                       !.leases = @ + 1,
                                       !.granted = dash[d].epoch,
                                       !.since = dash[d].seq], n))
    BY DEF Acquire
  <1>2. n \in Nat /\ Free(dash[d])
    BY LinkAssumption DEF Acquire
  <1> DEFINE y == Flush([dash[d] EXCEPT !.lease = dash[d].leases + 1,
                                        !.leases = @ + 1,
                                        !.granted = dash[d].epoch,
                                        !.since = dash[d].seq], n)
  <1>3. Advances(dash[d], y) /\ Rests(dash[d], y)
    BY <1>2, LedgerFacts, AcquireLedger
  <1>4. Set(d, y)
    BY <1>1
  <1> HIDE DEF y
  <1> QED
    BY <1>3, <1>4, SetLedger

\* A drain after the lease may have ended in the same step.
LEMMA DrainKeeps ==
    ASSUME IndInv, LedgerInv, NEW d \in Dashboards, NEW u, Stays(dash[d], u),
           Free(dash[d]), NEW t \in Threads, NEW outs \in Seq(Outputs),
           \A i \in DOMAIN outs : Fits(outs[i], u), Set(d, Drain(u, t, outs))
    PROVE  LedgerInv' /\ EpochsRest
  <1>1. u \in Dash /\ Ledger(u) /\ Idle(u)
    BY LedgerFacts DEF Stays, Keeps, Same, Idle
  <1>2. Advances(u, Drain(u, t, outs)) /\ Rests(u, Drain(u, t, outs))
    BY <1>1, DrainLedger
  <1>3. Advances(dash[d], Drain(u, t, outs)) /\ Rests(dash[d], Drain(u, t, outs))
    BY <1>2 DEF Advances, Rests, Stays, Keeps
  <1> QED
    BY <1>3, SetLedger

LEMMA ApiStopKeeps ==
    ASSUME IndInv, LedgerInv, NEW d \in Dashboards, NEW keep \in BOOLEAN,
           NEW action \in BOOLEAN, ApiStop(d, keep, action)
    PROVE  LedgerInv' /\ EpochsRest
  <1> DEFINE x == dash[d]
             stop == IF keep THEN [type |-> "stop", lease |-> 0, granted |-> 0]
                             ELSE Out("stop", x)
             u == IF keep THEN x ELSE Unleased(x)
             outs == IF action THEN <<stop, Out("action", x)>> ELSE <<stop>>
  <1>1. Free(x) /\ Set(d, Drain(u, "api", outs)) /\ (keep => ~action)
    BY DEF ApiStop
  <1>2. x \in Dash /\ Ledger(x)
    BY LedgerFacts
  <1> HIDE DEF x
  <1>3. /\ Stays(x, u) /\ stop \in Outputs /\ Fits(stop, u)
        /\ Out("action", x) \in Outputs /\ (action => Fits(Out("action", x), u))
    <2>1. Out("action", x) \in Outputs /\ Out("stop", x) \in Outputs
      BY <1>2, OutFacts
    <2>2. CASE keep
      <3>1. x.lease \in Nat /\ x.leases \in Nat
        BY <1>2, LedgerFields
      <3> QED
        BY <1>1, <1>2, <2>1, <2>2, <3>1
           DEF Stays, Keeps, Same, Fits, Ending, Outputs
    <2>3. CASE ~keep
      BY <1>2, <2>1, <2>3, UnleasedLedger
    <2> QED
      BY <2>2, <2>3
  <1> HIDE DEF stop, u
  <1>4. outs \in Seq(Outputs) /\ \A i \in DOMAIN outs : Fits(outs[i], u)
    <2>1. CASE action
      <3>1. outs = <<stop, Out("action", x)>>
        BY <2>1
      <3> HIDE DEF outs
      <3>2. DOMAIN outs = {1, 2} /\ outs[1] = stop /\ outs[2] = Out("action", x)
        BY <3>1
      <3>3. outs \in Seq(Outputs)
        BY <1>3, <3>1
      <3> QED
        BY <1>3, <2>1, <3>2, <3>3
    <2>2. CASE ~action
      <3>1. outs = <<stop>>
        BY <2>2
      <3> HIDE DEF outs
      <3> QED
        BY <1>3, <3>1
    <2> QED
      BY <2>1, <2>2
  <1> HIDE DEF outs
  <1>5. "api" \in Threads
    BY DEF Threads
  <1> QED
    BY <1>1, <1>3, <1>4, <1>5, DrainKeeps DEF x

LEMMA TickBeginKeeps ==
    ASSUME IndInv, LedgerInv, NEW d \in Dashboards, TickBegin(d)
    PROVE  LedgerInv' /\ EpochsRest
  <1>1. PICK stale \in BOOLEAN, n \in Counts,
             outcome \in {"end", "drive", "quiet"} :
          LET x == UpdateStaleness(dash[d], stale, n)
          IN  /\ outcome # "quiet" => x.lease # 0
              /\ Set(d, CASE outcome = "end" ->
                               Drain(Unleased(x), "timer", <<Out("stop", x)>>)
                          [] outcome = "drive" ->
                               Drain(x, "timer", <<Out("drive", x)>>)
                          [] OTHER -> Drain(x, "timer", <<>>))
    BY DEF TickBegin
  <1> DEFINE x == UpdateStaleness(dash[d], stale, n)
  <1>2. n \in Nat /\ Free(dash[d]) /\ "timer" \in Threads
    BY LinkAssumption DEF TickBegin, TickMayStart, Threads
  <1>3. Stays(dash[d], x)
    BY <1>2, LedgerFacts, StalenessLedger
  <1>4. /\ outcome # "quiet" => x.lease # 0
        /\ outcome = "end" => Set(d, Drain(Unleased(x), "timer", <<Out("stop", x)>>))
        /\ outcome = "drive" => Set(d, Drain(x, "timer", <<Out("drive", x)>>))
        /\ outcome = "quiet" => Set(d, Drain(x, "timer", <<>>))
    BY <1>1
  <1> HIDE DEF x
  <1>5. x \in Dash /\ Ledger(x)
    BY <1>3 DEF Stays, Keeps
  <1>6. CASE outcome = "end"
    <2> DEFINE u == Unleased(x)
               outs == <<Out("stop", x)>>
    <2>1. Stays(x, u) /\ Fits(Out("stop", x), u) /\ Out("stop", x) \in Outputs
      BY <1>5, UnleasedLedger, OutFacts
    <2>2. Set(d, Drain(u, "timer", outs))
      BY <1>4, <1>6
    <2> HIDE DEF u
    <2>3. outs \in Seq(Outputs) /\ \A i \in DOMAIN outs : Fits(outs[i], u)
      BY <2>1
    <2> HIDE DEF outs
    <2>4. Stays(dash[d], u)
      BY <1>3, <2>1, StaysTrans
    <2> QED
      BY <1>2, <2>2, <2>3, <2>4, DrainKeeps
  <1>7. CASE outcome = "drive"
    <2> DEFINE outs == <<Out("drive", x)>>
    <2>1. Set(d, Drain(x, "timer", outs)) /\ x.lease # 0
      BY <1>4, <1>7
    <2>2. Out("drive", x) \in Outputs /\ Fits(Out("drive", x), x)
      <3>1. Out("drive", x).type = "drive" /\ Out("drive", x).lease = x.lease
        BY DEF Out
      <3> QED
        BY <1>5, <2>1, <3>1, OutFacts DEF Fits, Ending
    <2>3. outs \in Seq(Outputs) /\ \A i \in DOMAIN outs : Fits(outs[i], x)
      BY <2>2
    <2> HIDE DEF outs
    <2> QED
      BY <1>2, <1>3, <2>1, <2>3, DrainKeeps
  <1>8. CASE outcome = "quiet"
    <2> DEFINE outs == <<>>
    <2>1. outs \in Seq(Outputs) /\ \A i \in DOMAIN outs : Fits(outs[i], x)
      OBVIOUS
    <2>2. Set(d, Drain(x, "timer", outs))
      BY <1>4, <1>8
    <2> HIDE DEF outs
    <2> QED
      BY <1>2, <1>3, <2>1, <2>2, DrainKeeps
  <1> QED
    BY <1>6, <1>7, <1>8

LEMMA PublishBatchKeeps ==
    ASSUME IndInv, LedgerInv, NEW d \in Dashboards, NEW thread \in Threads,
           PublishBatch(d, thread)
    PROVE  LedgerInv' /\ EpochsRest
  <1>1. dash[d].batch[thread] # <<>>
    BY DEF PublishBatch
  <1>2. PICK n \in Counts : Set(d, AfterBatch(dash[d], thread, n))
    BY DEF PublishBatch, AfterBatch
  <1>3. n \in Nat
    BY LinkAssumption
  <1>4. /\ Advances(dash[d], AfterBatch(dash[d], thread, n))
        /\ Rests(dash[d], AfterBatch(dash[d], thread, n))
    BY <1>1, <1>3, LedgerFacts, BatchLedger
  <1> QED
    BY <1>2, <1>4, SetLedger

LEMMA ShutdownKeeps ==
    ASSUME IndInv, LedgerInv, NEW d \in Dashboards, Shutdown(d)
    PROVE  LedgerInv' /\ EpochsRest
  <1> DEFINE x == [Unleased(dash[d]) EXCEPT !.ready = FALSE, !.queue = <<>>]
  <1>1. PICK n \in Counts :
          Set(d, [Publish(x, dash[d].queue \o <<Out("stop", dash[d])>>, n)
                    EXCEPT !.down = TRUE, !.queue = <<>>])
    BY DEF Shutdown
  <1>2. n \in Nat /\ Free(dash[d])
    BY LinkAssumption DEF Shutdown
  <1> DEFINE y == [Publish(x, dash[d].queue \o <<Out("stop", dash[d])>>, n)
                     EXCEPT !.down = TRUE, !.queue = <<>>]
  <1>3. Advances(dash[d], y) /\ Rests(dash[d], y)
    BY <1>2, LedgerFacts, ShutdownLedger
  <1>4. Set(d, y)
    BY <1>1
  <1> HIDE DEF y
  <1> QED
    BY <1>3, <1>4, SetLedger

LEMMA BridgeLedger ==
    ASSUME LedgerInv, UNCHANGED dash, EndedPart(dash, bridge')
    PROVE  LedgerInv' /\ EpochsRest
  BY DEF LedgerInv, EndedPart, Ledger, Numbers, Ending, StopsLast, Gapless,
         Waiting, Fits, NoDriveIn, EpochsRest, Rests

\* What an accepted command leaves in the bridge's books.
LEMMA AcceptBooks ==
    ASSUME NEW b \in Bridge, NEW cmd \in Envelopes
    PROVE  LET c == Accept(b, cmd)
               d == cmd.source
           IN  /\ c.epoch = b.epoch
               /\ c.drive = IF cmd.type = "drive"
                            THEN [source |-> d, lease |-> cmd.lease,
                                  granted |-> cmd.granted] ELSE NoDrive
               /\ c.lastSeq[d] = cmd.seq
               /\ c.ended[d] = IF cmd.type = "stop" /\ cmd.lease > b.ended[d]
                               THEN cmd.lease ELSE b.ended[d]
               /\ \A f \in Dashboards : f # d => /\ c.lastSeq[f] = b.lastSeq[f]
                                                 /\ c.ended[f] = b.ended[f]
  <1>1. cmd.source \in Dashboards
    BY DEF Envelopes
  <1> QED
    BY <1>1 DEF Accept, Bridge

LEMMA ReceiveCommandKeeps ==
    ASSUME IndInv, LedgerInv, NEW d \in Dashboards, NEW cmd \in dash[d].sent,
           ReceiveCommand(cmd)
    PROVE  LedgerInv' /\ EpochsRest /\ bridge'.epoch = bridge.epoch
  <1>1. PICK idle \in BOOLEAN :
          bridge' = IF MayClaim(bridge, cmd, idle) THEN Accept(bridge, cmd)
                    ELSE [bridge EXCEPT !.drive = NoDrive]
    BY DEF ReceiveCommand
  <1>2. UNCHANGED dash
    BY DEF ReceiveCommand
  <1>3. bridge \in Bridge /\ dash[d] \in Dash /\ cmd.source = d /\ cmd \in Envelopes
    BY DashFacts, DashFields DEF DashInv, CoreInv, Local
  <1>4. CASE ~MayClaim(bridge, cmd, idle)
    <2>1. bridge' = [bridge EXCEPT !.drive = NoDrive]
      BY <1>1, <1>4
    <2>2. /\ bridge'.drive = NoDrive /\ bridge'.ended = bridge.ended
          /\ bridge'.lastSeq = bridge.lastSeq /\ bridge'.epoch = bridge.epoch
      BY <1>3, <2>1 DEF Bridge
    <2>3. EndedPart(dash, bridge')
      BY <2>2 DEF LedgerInv, EndedPart
    <2> QED
      BY <1>2, <2>2, <2>3, BridgeLedger
  <1>5. CASE MayClaim(bridge, cmd, idle)
    <2> DEFINE b == bridge
               c == Accept(b, cmd)
    <2>1. /\ c.epoch = b.epoch
          /\ c.drive = IF cmd.type = "drive"
                       THEN [source |-> d, lease |-> cmd.lease,
                             granted |-> cmd.granted] ELSE NoDrive
          /\ c.lastSeq[d] = cmd.seq
          /\ c.ended[d] = IF cmd.type = "stop" /\ cmd.lease > b.ended[d]
                          THEN cmd.lease ELSE b.ended[d]
          /\ \A f \in Dashboards : f # d => /\ c.lastSeq[f] = b.lastSeq[f]
                                            /\ c.ended[f] = b.ended[f]
      BY <1>3, AcceptBooks
    <2>2. bridge' = c
      BY <1>1, <1>5
    <2>3. cmd.seq > b.lastSeq[d]
      BY <1>3, <1>5 DEF MayClaim
    <2>4. /\ b.lastSeq[d] \in Int /\ b.ended[d] \in Nat
          /\ cmd.seq \in Int /\ cmd.lease \in Nat
      BY <1>3 DEF Bridge, Envelopes
    <2> HIDE DEF b, c
    <2>5. EndedPart(dash, b) /\ Ledger(dash[d])
      BY DEF LedgerInv, b
    <2>6. \A s \in dash[d].sent : s.seq \in Nat /\ s.lease \in Nat
      BY <1>3, LedgerFields
    <2>7. ASSUME NEW f \in Dashboards, c.ended[f] # 0
          PROVE  \E stop \in dash[f].sent : /\ stop.type = "stop"
                                            /\ stop.lease = c.ended[f]
                                            /\ stop.seq <= c.lastSeq[f]
      <3>1. CASE f # d
        BY <2>1, <2>5, <2>7, <3>1 DEF EndedPart
      <3>2. CASE f = d /\ cmd.type = "stop" /\ cmd.lease > b.ended[d]
        <4>1. cmd.seq <= c.lastSeq[d] /\ cmd.lease = c.ended[d]
          BY <2>1, <2>4, <3>2
        <4> QED
          BY <3>2, <4>1
      <3>3. CASE f = d /\ ~(cmd.type = "stop" /\ cmd.lease > b.ended[d])
        <4>1. c.ended[d] = b.ended[d] /\ b.ended[d] # 0
          BY <2>1, <2>7, <3>3
        <4>2. PICK stop \in dash[d].sent : /\ stop.type = "stop"
                                           /\ stop.lease = b.ended[d]
                                           /\ stop.seq <= b.lastSeq[d]
          BY <2>5, <4>1 DEF EndedPart
        <4>3. stop.seq <= c.lastSeq[d]
          BY <2>1, <2>3, <2>4, <2>6, <4>2
        <4> QED
          BY <3>3, <4>1, <4>2, <4>3
      <3> QED
        BY <3>1, <3>2, <3>3
    <2>8. ASSUME c.drive # NoDrive
          PROVE  c.drive.lease > c.ended[c.drive.source]
      <3>1. /\ cmd.type = "drive" /\ c.drive.source = d /\ c.drive.lease = cmd.lease
            /\ c.ended[d] = b.ended[d]
        BY <2>1, <2>8
      <3>2. CASE b.ended[d] = 0
        BY <2>4, <2>5, <3>1, <3>2 DEF Ledger, Numbers
      <3>3. CASE b.ended[d] # 0
        <4>1. PICK stop \in dash[d].sent : /\ stop.type = "stop"
                                           /\ stop.lease = b.ended[d]
                                           /\ stop.seq <= b.lastSeq[d]
          BY <2>5, <3>3 DEF EndedPart
        <4>2. stop.lease >= cmd.lease => cmd.seq < stop.seq
          BY <2>5, <3>1, <4>1 DEF Ledger, Numbers, StopsLast
        <4>3. stop.seq \in Int
          BY <2>6
        <4> QED
          BY <2>3, <2>4, <3>1, <4>1, <4>2, <4>3
      <3> QED
        BY <3>2, <3>3
    <2>9. EndedPart(dash, c)
      BY <2>7, <2>8 DEF EndedPart
    <2> QED
      BY <1>2, <2>1, <2>2, <2>9, BridgeLedger DEF b
  <1> QED
    BY <1>4, <1>5

LEMMA WatchdogKeeps ==
    ASSUME IndInv, LedgerInv, Watchdog
    PROVE  LedgerInv' /\ EpochsRest /\ bridge'.epoch = bridge.epoch
  <1>1. bridge' = [bridge EXCEPT !.drive = NoDrive] /\ UNCHANGED dash
    BY DEF Watchdog
  <1>2. bridge \in Bridge
    BY DEF IndInv, BridgeInv
  <1>3. /\ bridge'.drive = NoDrive /\ bridge'.ended = bridge.ended
        /\ bridge'.lastSeq = bridge.lastSeq /\ bridge'.epoch = bridge.epoch
    BY <1>1, <1>2 DEF Bridge
  <1>4. EndedPart(dash, bridge')
    BY <1>3 DEF LedgerInv, EndedPart
  <1> QED
    BY <1>1, <1>3, <1>4, BridgeLedger

LEMMA RestartKeeps ==
    ASSUME IndInv, LedgerInv, NEW observer \in BOOLEAN, Restart(observer)
    PROVE  LedgerInv' /\ EpochsRest /\ bridge'.epoch = bridge.epoch + 1
  <1>1. bridge' = BridgeInit(bridge.epoch + 1, observer) /\ UNCHANGED dash
    BY DEF Restart
  <1>2. /\ bridge'.drive = NoDrive /\ bridge'.epoch = bridge.epoch + 1
        /\ \A d \in Dashboards : bridge'.ended[d] = 0
    BY <1>1 DEF BridgeInit
  <1>3. EndedPart(dash, bridge')
    BY <1>2 DEF EndedPart
  <1> QED
    BY <1>1, <1>2, <1>3, BridgeLedger

LEMMA InitLedger == Init => LedgerInv
  <1> SUFFICES ASSUME Init PROVE LedgerInv
    OBVIOUS
  <1>1. ASSUME NEW d \in Dashboards PROVE Ledger(dash[d]) /\ Waiting(dash[d])
    <2>1. dash[d] = DashInit(d)
      BY DEF Init
    <2>2. /\ dash[d].lease = 0 /\ dash[d].leases = 0 /\ dash[d].queue = <<>>
          /\ dash[d].sent = {} /\ \A t \in Threads : dash[d].batch[t] = <<>>
      BY <2>1 DEF DashInit
    <2> QED
      BY <2>2 DEF Ledger, Numbers, Gapless, StopsLast, NoDriveIn, Waiting
  <1>2. /\ bridge.drive = NoDrive /\ \A d \in Dashboards : bridge.ended[d] = 0
    BY DEF Init, BridgeInit
  <1> QED
    BY <1>1, <1>2 DEF LedgerInv, EndedPart

LEMMA NextLedger == IndInv /\ LedgerInv /\ [Next]_vars => LedgerInv'
  <1> SUFFICES ASSUME IndInv, LedgerInv, [Next]_vars PROVE LedgerInv'
    OBVIOUS
  <1>1. CASE UNCHANGED vars
    BY <1>1 DEF vars, LedgerInv, EndedPart, Ledger, Numbers, Ending, StopsLast,
                Gapless, Waiting, Fits, NoDriveIn
  <1>2. ASSUME NEW d \in Dashboards, DashboardStep(d) PROVE LedgerInv'
    BY <1>2, ReceiveStatusKeeps, RejectStatusKeeps, AcquireKeeps, ApiStopKeeps,
       TickBeginKeeps, PublishBatchKeeps, ShutdownKeeps DEF DashboardStep
  <1>3. CASE BridgeStep
    BY <1>3, ReceiveCommandKeeps, WatchdogKeeps, RestartKeeps DEF BridgeStep
  <1> QED
    BY <1>1, <1>2, <1>3 DEF Next

\* The ledgers are in order in every reachable state, for any number of
\* dashboards, leases, envelopes and bridge processes.
LEMMA LinkLedger == Spec => []LedgerInv
  BY InitLedger, NextLedger, LinkInv, PTL DEF Spec

\* The stop that ends a lease is numbered after all drives of that lease and of
\* earlier ones, whichever thread of ros_agent.py publishes them: the operation
\* lock covers drain and publication.
THEOREM TerminalStopsAreLast == Spec => []TerminalStopIsLast
  <1>1. LedgerInv => TerminalStopIsLast
    BY DEF LedgerInv, Ledger, Numbers, StopsLast, TerminalStopIsLast
  <1> QED
    BY <1>1, LinkLedger, PTL

\* A bridge that has accepted the stop of a lease never again holds a drive of
\* that lease or an earlier one of the same dashboard, however the network
\* delays, repeats and reorders.
THEOREM EndedLeasesStayEnded == Spec => []EndedLeaseStaysEnded
  <1>1. LedgerInv => EndedLeaseStaysEnded
    BY DEF LedgerInv, EndedPart, EndedLeaseStaysEnded
  <1> QED
    BY <1>1, LinkLedger, PTL

\* While a lease is alive, every number used since it was granted belongs to an
\* envelope that was published: _publish_outputs_result never fails silently.
THEOREM LeasesHaveNoGap == Spec => []LeaseHasNoGap
  <1>1. LedgerInv => LeaseHasNoGap
    BY DEF LedgerInv, Ledger, Gapless, LeaseHasNoGap
  <1> QED
    BY <1>1, LinkLedger, PTL

-----------------------------------------------------------------------------
(* Epochs go forward, as long as a bridge process is replaced only after   *)
(* every dashboard has heard of it and no more processes have run than a   *)
(* dashboard remembers.                                                    *)

\* The replaced epoch is remembered, and nothing is forgotten while there is
\* room.
LEMMA RetiredGrows ==
    ASSUME NEW s \in Seq(Nat), NEW e \in Nat, Len(s) + 1 <= RetiredMemory
    PROVE  LET r == IF Member(s, e) THEN s ELSE LastOf(Append(s, e), RetiredMemory)
           IN  /\ Member(r, e) /\ Len(r) <= Len(s) + 1
               /\ \A f \in Nat : Member(s, f) => Member(r, f)
  <1> DEFINE a == Append(s, e)
             r == IF Member(s, e) THEN s ELSE LastOf(a, RetiredMemory)
  <1>1. /\ Len(s) \in Nat /\ Len(a) = Len(s) + 1 /\ a[Len(s) + 1] = e
        /\ Len(s) + 1 \in DOMAIN a
        /\ \A i \in DOMAIN s : i \in DOMAIN a /\ a[i] = s[i]
    OBVIOUS
  <1> HIDE DEF a
  <1>2. LastOf(a, RetiredMemory) = a
    BY <1>1 DEF LastOf
  <1>3. Member(a, e) /\ \A f \in Nat : Member(s, f) => Member(a, f)
    BY <1>1 DEF Member
  <1>4. CASE Member(s, e)
    BY <1>1, <1>4
  <1>5. CASE ~Member(s, e)
    <2>1. r = a
      BY <1>2, <1>5
    <2> HIDE DEF r
    <2>2. Len(a) <= Len(s) + 1
      BY <1>1
    <2> QED
      BY <1>3, <2>1, <2>2 DEF r, a
  <1> QED
    BY <1>4, <1>5

\* A status from the running process or an earlier one, taken or rejected.
LEMMA TakenForward ==
    ASSUME MaxEpoch <= RetiredMemory + 1, NEW x \in Dash, NEW y \in Dash,
           NEW b \in Bridge, x.epoch <= b.epoch, EpochPart(x, b),
           NEW e \in Nat, 1 <= e, e <= b.epoch,
           IF Retired(x, e) THEN Rests(x, y)
           ELSE y.epoch = e /\ y.retired = IF x.epoch \in {0, e} THEN x.retired
                                           ELSE RetiredNow(x)
    PROVE  EpochPart(y, b) /\ y.epoch >= x.epoch
  <1>1. /\ x.epoch \in Nat /\ x.retired \in Seq(Nat) /\ Len(x.retired) \in Nat
        /\ y.epoch \in Nat /\ y.retired \in Seq(Nat) /\ Len(y.retired) \in Nat
    BY DashFields
  <1>2. b.epoch \in Nat
    BY DEF Bridge
  <1>3. MaxEpoch \in Nat /\ RetiredMemory \in Nat
    BY LinkAssumption
  <1>4. CASE Retired(x, e)
    BY <1>1, <1>4 DEF Rests, EpochPart
  <1>5. CASE ~Retired(x, e) /\ e = x.epoch
    BY <1>1, <1>2, <1>5 DEF EpochPart
  <1>6. CASE ~Retired(x, e) /\ x.epoch = 0
    <2>1. y.epoch = e /\ y.retired = x.retired /\ e = 1
      BY <1>1, <1>2, <1>6 DEF EpochPart
    <2>2. 1..(y.epoch - 1) = {}
      BY <2>1
    <2> QED
      BY <1>1, <1>2, <1>6, <2>1, <2>2 DEF EpochPart
  <1>7. CASE ~Retired(x, e) /\ x.epoch # 0 /\ e # x.epoch
    <2>1. y.epoch = e /\ y.retired = RetiredNow(x)
      BY <1>7
    <2>2. e = x.epoch + 1 /\ b.epoch = e
      <3>1. ~Member(x.retired, e)
        BY <1>7 DEF Retired
      <3>2. e \notin 1..(x.epoch - 1)
        BY <3>1 DEF EpochPart
      <3>3. b.epoch <= x.epoch + 1
        BY DEF EpochPart
      <3> QED
        BY <1>1, <1>2, <1>7, <3>2, <3>3
    <2>3. Len(x.retired) <= x.epoch - 1 /\ b.epoch <= MaxEpoch
      BY <1>7 DEF EpochPart
    <2>4. Len(x.retired) + 1 <= RetiredMemory
      BY <1>1, <1>2, <1>3, <2>2, <2>3
    <2>5. /\ Member(y.retired, x.epoch) /\ Len(y.retired) <= Len(x.retired) + 1
          /\ \A f \in Nat : Member(x.retired, f) => Member(y.retired, f)
      BY <1>1, <2>1, <2>4, RetiredGrows DEF RetiredNow
    <2>6. ASSUME NEW f \in 1..(y.epoch - 1) PROVE Member(y.retired, f)
      <3>1. f \in Nat /\ (f = x.epoch \/ f \in 1..(x.epoch - 1))
        BY <1>1, <2>1, <2>2
      <3> QED
        BY <2>5, <3>1 DEF EpochPart
    <2>7. Len(y.retired) <= y.epoch - 1 /\ y.epoch # 0
      BY <1>1, <2>1, <2>2, <2>3, <2>5
    <2>8. b.epoch <= y.epoch + 1 /\ y.epoch >= x.epoch
      BY <1>1, <1>2, <2>1, <2>2
    <2> QED
      BY <2>3, <2>6, <2>7, <2>8 DEF EpochPart
  <1> QED
    BY <1>4, <1>5, <1>6, <1>7

LEMMA ReceiveStatusForward ==
    ASSUME MaxEpoch <= RetiredMemory + 1, IndInv, LedgerInv, EpochInv,
           NEW d \in Dashboards, NEW status \in statuses, ReceiveStatus(d, status)
    PROVE  EpochPart(dash'[d], bridge) /\ dash'[d].epoch >= dash[d].epoch
  <1>1. /\ dash[d] \in Dash /\ dash[d].epoch <= bridge.epoch /\ bridge \in Bridge
    BY DashFacts DEF DashInv, CoreInv, Known
  <1>2. dash'[d] \in Dash
    BY ReceiveStatusStep DEF IndInv
  <1>3. status.epoch \in Nat /\ 1 <= status.epoch /\ status.epoch <= bridge.epoch
    BY DEF IndInv, BridgeInv, Statuses
  <1>4. EpochPart(dash[d], bridge)
    BY DEF EpochInv
  <1>5. IF Retired(dash[d], status.epoch) THEN Rests(dash[d], dash'[d])
        ELSE /\ dash'[d].epoch = status.epoch
             /\ dash'[d].retired = IF dash[d].epoch \in {0, status.epoch}
                                   THEN dash[d].retired ELSE RetiredNow(dash[d])
    BY ReceiveStatusKeeps
  <1> QED
    BY <1>1, <1>2, <1>3, <1>4, <1>5, TakenForward

LEMMA EpochStep ==
    ASSUME HeardFirst, MaxEpoch <= RetiredMemory + 1, IndInv, LedgerInv, EpochInv,
           [Next]_vars
    PROVE  EpochInv' /\ \A d \in Dashboards : dash'[d].epoch >= dash[d].epoch
  <1>1. /\ bridge.epoch \in Nat /\ MaxEpoch \in Nat
        /\ \A d \in Dashboards : dash[d].epoch \in Nat
    BY LinkAssumption DEF IndInv, BridgeInv, Bridge, Dash
  <1>2. ASSUME EpochsRest, bridge'.epoch = bridge.epoch
        PROVE  EpochInv' /\ \A d \in Dashboards : dash'[d].epoch >= dash[d].epoch
    BY <1>1, <1>2 DEF EpochsRest, Rests, EpochInv, EpochPart
  <1>3. CASE UNCHANGED vars
    BY <1>2, <1>3 DEF vars, EpochsRest, Rests
  <1>4. ASSUME NEW d \in Dashboards, NEW status \in statuses, ReceiveStatus(d, status)
        PROVE  EpochInv' /\ \A f \in Dashboards : dash'[f].epoch >= dash[f].epoch
    <2>1. bridge' = bridge
      BY <1>4 DEF ReceiveStatus, Set
    <2>2. EpochPart(dash'[d], bridge) /\ dash'[d].epoch >= dash[d].epoch
      BY <1>4, ReceiveStatusForward
    <2>3. \A f \in Dashboards : f # d => Rests(dash[f], dash'[f])
      BY <1>4, ReceiveStatusKeeps
    <2>4. ASSUME NEW f \in Dashboards
          PROVE  EpochPart(dash'[f], bridge') /\ dash'[f].epoch >= dash[f].epoch
      BY <1>1, <2>1, <2>2, <2>3 DEF Rests, EpochInv, EpochPart
    <2> QED
      BY <2>4 DEF EpochInv, EpochPart
  <1>5. ASSUME NEW d \in Dashboards, DashboardStep(d),
               ~\E status \in statuses : ReceiveStatus(d, status)
        PROVE  EpochsRest
    BY <1>5, RejectStatusKeeps, AcquireKeeps, ApiStopKeeps, TickBeginKeeps,
       PublishBatchKeeps, ShutdownKeeps DEF DashboardStep
  <1>6. ASSUME NEW d \in Dashboards, DashboardStep(d) PROVE bridge' = bridge
    BY <1>6 DEF DashboardStep, ReceiveStatus, RejectStatus, Acquire, ApiStop,
                TickBegin, PublishBatch, Shutdown, Set
  <1>7. ASSUME NEW observer \in BOOLEAN, Restart(observer)
        PROVE  EpochInv' /\ \A d \in Dashboards : dash'[d].epoch >= dash[d].epoch
    <2>1. EpochsRest /\ bridge'.epoch = bridge.epoch + 1
      BY <1>7, RestartKeeps
    <2>2. bridge.epoch < MaxEpoch /\ \A d \in Dashboards : dash[d].epoch = bridge.epoch
      BY <1>7 DEF Restart
    <2>3. ASSUME NEW d \in Dashboards
          PROVE  EpochPart(dash'[d], bridge') /\ dash'[d].epoch >= dash[d].epoch
      <3>1. /\ dash'[d].epoch = dash[d].epoch /\ dash'[d].retired = dash[d].retired
            /\ bridge'.epoch <= MaxEpoch /\ bridge'.epoch <= dash[d].epoch + 1
            /\ dash[d].epoch >= dash[d].epoch
        BY <1>1, <2>1, <2>2 DEF EpochsRest, Rests
      <3> QED
        BY <3>1 DEF EpochInv, EpochPart
    <2> QED
      BY <2>3 DEF EpochInv, EpochPart
  <1>8. CASE BridgeStep
    BY <1>2, <1>7, <1>8, ReceiveCommandKeeps, WatchdogKeeps DEF BridgeStep
  <1>9. ASSUME NEW d \in Dashboards, DashboardStep(d)
        PROVE  EpochInv' /\ \A f \in Dashboards : dash'[f].epoch >= dash[f].epoch
    <2>1. CASE \E status \in statuses : ReceiveStatus(d, status)
      BY <1>4, <2>1
    <2>2. CASE ~\E status \in statuses : ReceiveStatus(d, status)
      BY <1>2, <1>5, <1>6, <1>9, <2>2
    <2> QED
      BY <2>1, <2>2
  <1> QED
    BY <1>3, <1>8, <1>9 DEF Next

\* status_callback never goes back to a bridge process it has seen replaced.
\* Both premises are needed: link_first_sight shows what a process nobody has
\* heard of does, and of more than RetiredMemory retired epochs the oldest is
\* forgotten.
THEOREM EpochsGoForward ==
    ASSUME HeardFirst, MaxEpoch <= RetiredMemory + 1
    PROVE  Spec => EpochForward
  <1>1. Init => EpochInv
    <2> SUFFICES ASSUME Init, NEW d \in Dashboards PROVE EpochPart(dash[d], bridge)
      BY DEF EpochInv
    <2>1. bridge.epoch = 1 /\ dash[d].epoch = 0 /\ dash[d].retired = <<>>
      BY DEF Init, BridgeInit, DashInit
    <2>2. MaxEpoch \in Nat /\ MaxEpoch # 0 /\ 1..(0 - 1) = {} /\ Len(<<>>) = 0
      BY LinkAssumption
    <2> QED
      BY <2>1, <2>2 DEF EpochPart
  <1>2. IndInv /\ LedgerInv /\ EpochInv /\ [Next]_vars =>
            /\ EpochInv'
            /\ [\A d \in Dashboards : dash'[d].epoch >= dash[d].epoch]_vars
    BY EpochStep
  <1> QED
    BY <1>1, <1>2, LinkInv, LinkLedger, PTL DEF Spec, EpochForward
=============================================================================
