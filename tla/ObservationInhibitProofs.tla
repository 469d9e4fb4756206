---------------------- MODULE ObservationInhibitProofs ----------------------
(***************************************************************************)
(* What the inhibit of an observation session promises, for any number of  *)
(* sessions, statuses, drives and bridge restarts, although commands and   *)
(* statuses may arrive late, repeatedly, in any order or never.            *)
(*                                                                         *)
(* The argument: every token is held by one command and freed by a later   *)
(* one (CommandsPart), and the bridge takes commands of its own epoch in   *)
(* the order of their numbers.  So a bridge that ever reported a token in  *)
(* its epoch has it until a free for it was sent (StatusPart), and a       *)
(* bridge that acknowledged a free cannot meet the hold any more           *)
(* (AckPart, ReceiptPart).                                                 *)
(***************************************************************************)
EXTENDS ObservationInhibit, TLAPS

-----------------------------------------------------------------------------
(* The inductive invariant.                                                *)

Dash == [epoch : Epochs, retired : SUBSET Epochs, last : 0..MaxStatuses,
         seq : Seqs, fresh : BOOLEAN, status : Status, receipt : Tokens, tokens : Tokens,
         drives : 0..MaxDrives, leases : 0..MaxDrives]

\* A hold that is still to be freed, and a lease still to be stopped.
Unfreed == IF hold.token # 0 /\ ~hold.releasing THEN 1 ELSE 0
Unstopped == IF lease THEN 1 ELSE 0

\* The counters of the two sides: every number sent is accounted for by a
\* token, a drive or a lease, and nobody is ahead of who numbers things.
CounterPart ==
  /\ dash.seq + Unfreed + Unstopped
       <= 2 * dash.tokens + dash.drives + dash.leases
  /\ hold.token <= dash.tokens /\ dash.receipt <= dash.tokens
  /\ dash.epoch <= br.epoch
  /\ ~br.up => br.epoch <= MaxRestarts
  /\ hold.acknowledged \/ hold.releasing => hold.token # 0

\* Commands: no token is freed before its hold was sent, or while it is to be
\* kept, and every hold is of the epoch its session knows.
CommandsPart == \A c \in cmds :
  /\ c.seq <= dash.seq /\ c.epoch <= br.epoch /\ c.token <= dash.tokens
  /\ c.kind \in {"hold", "free"} => c.token # 0
  /\ c.kind = "free" /\ c.token = hold.token => hold.releasing
  /\ c.kind = "hold" /\ c.token = hold.token => c.epoch = hold.epoch
  /\ c.kind = "free" =>
       \A d \in cmds : d.kind = "hold" /\ d.token = c.token => d.seq < c.seq

\* The bridge has a token only by a hold of its own epoch.
BridgePart ==
  /\ br.token # 0 => \E c \in cmds : /\ c.kind = "hold" /\ c.token = br.token
                                     /\ c.epoch = br.epoch
  /\ br.ack.seq <= br.seq /\ br.ack.token <= dash.tokens

\* A token reported in the bridge's epoch is there, or a free was sent.
StatusPart == \A s \in sts :
  /\ s.epoch <= br.epoch /\ s.ack.token <= dash.tokens
  /\ s.epoch = br.epoch => s.ack.seq <= br.seq
  /\ s.epoch = br.epoch /\ s.token # 0 =>
       \/ br.token = s.token
       \/ \E d \in cmds : d.kind = "free" /\ d.token = s.token

\* The hold of a token whose release is acknowledged lies behind the number
\* of the acknowledgement.
Behind(ack) == ack.token # 0 =>
  \A c \in cmds : c.kind = "hold" /\ c.token = ack.token => c.seq <= ack.seq

AckPart ==
  /\ Behind(br.ack)
  /\ br.ack.token # 0 => br.token # br.ack.token
  /\ \A s \in sts : /\ Behind(s.ack)
                    /\ s.ack.token # 0 /\ s.epoch = br.epoch =>
                         br.token # s.ack.token

\* An acknowledged hold was reported by the bridge it is bound to.
HoldPart ==
  hold.acknowledged =>
    \E s \in sts : s.epoch = hold.epoch /\ s.token = hold.token

\* The hold of a released token can reach no bridge any more.
ReceiptPart ==
  dash.receipt # 0 =>
    /\ br.up => br.token # dash.receipt
    /\ \A c \in cmds : c.kind = "hold" /\ c.token = dash.receipt =>
         c.epoch < br.epoch \/ ~br.up \/ c.seq <= br.seq

\* The session releases only a hold it has asked for.
SessionPart == ses.pc = "finish" => ses.ctx # 0

IndInv == /\ TypeOK /\ SessionPart /\ CounterPart /\ CommandsPart /\ BridgePart
          /\ StatusPart /\ AckPart /\ HoldPart /\ ReceiptPart

-----------------------------------------------------------------------------
(* Fields of what the invariant is about.                                  *)

LEMMA HoldFields ==
  ASSUME NEW h \in Hold
  PROVE  /\ h.token \in Nat /\ h.token <= MaxTokens
         /\ h.epoch \in Nat /\ h.epoch <= MaxRestarts + 1
         /\ h.acknowledged \in BOOLEAN /\ h.releasing \in BOOLEAN
         /\ h.reason \in BOOLEAN
         /\ h.releaseSeq \in Nat /\ h.releaseSeq <= MaxSeq
BY BoundsAssumption DEF Hold, Tokens, Epochs, Seqs, MaxSeq

LEMMA StatusFields ==
  ASSUME NEW s \in Status
  PROVE  /\ s.epoch \in Nat /\ s.epoch <= MaxRestarts + 1
         /\ s.n \in 0..MaxStatuses
         /\ s.token \in Nat /\ s.token <= MaxTokens
         /\ s.violated \in BOOLEAN /\ s.idle \in BOOLEAN
         /\ s.ack \in Ack /\ s.ack.token \in Nat /\ s.ack.seq \in Nat
BY BoundsAssumption DEF Status, Ack, Tokens, Epochs, Seqs, MaxSeq

LEMMA CommandFields ==
  ASSUME NEW c \in Command
  PROVE  /\ c.kind \in {"hold", "free", "drive", "stop"}
         /\ c.token \in Nat /\ c.token <= MaxTokens
         /\ c.epoch \in Nat /\ c.epoch <= MaxRestarts + 1
         /\ c.seq \in Nat /\ c.seq <= MaxSeq
BY BoundsAssumption DEF Command, Tokens, Epochs, Seqs, MaxSeq

LEMMA BridgeFields ==
  ASSUME NEW b \in Bridge
  PROVE  /\ b.epoch \in Nat /\ b.epoch <= MaxRestarts + 1
         /\ b.up \in BOOLEAN /\ b.violated \in BOOLEAN /\ b.moving \in BOOLEAN
         /\ b.token \in Nat /\ b.token <= MaxTokens
         /\ b.ack \in Ack /\ b.ack.token \in Nat /\ b.ack.seq \in Nat
         /\ b.n \in Nat /\ b.n <= MaxStatuses
         /\ b.seq \in Nat /\ b.seq <= MaxSeq
BY BoundsAssumption DEF Bridge, Ack, Tokens, Epochs, Seqs, MaxSeq

LEMMA DashFields ==
  ASSUME NEW d \in Dash
  PROVE  /\ d.epoch \in Nat /\ d.epoch <= MaxRestarts + 1
         /\ d.last \in 0..MaxStatuses
         /\ d.seq \in Nat /\ d.seq <= MaxSeq
         /\ d.fresh \in BOOLEAN /\ d.status \in Status
         /\ d.receipt \in Nat /\ d.receipt <= MaxTokens
         /\ d.tokens \in Nat /\ d.tokens <= MaxTokens
         /\ d.drives \in Nat /\ d.drives <= MaxDrives
         /\ d.leases \in Nat /\ d.leases <= MaxDrives
BY BoundsAssumption DEF Dash, Tokens, Epochs, Seqs, MaxSeq

LEMMA SessionFields ==
  ASSUME NEW s \in Session
  PROVE  /\ s.ctx \in Nat /\ s.ctx <= MaxTokens
         /\ s.invocation \in Nat /\ s.invocation <= MaxRestarts + 1
         /\ s.dispatched \in BOOLEAN /\ s.uncertain \in BOOLEAN
         /\ s.bound \in BOOLEAN /\ s.stopAccepted \in BOOLEAN
         /\ s.active \in BOOLEAN /\ s.safety \in BOOLEAN
         /\ s.pc \in {"idle", "waitHold", "dispatch", "refresh", "finish"}
         /\ s.pending \in {"none", "start", "stop"}
BY BoundsAssumption DEF Session, Tokens, Epochs

LEMMA NoHoldFacts ==
  /\ NoHold \in Hold /\ NoHold.token = 0 /\ NoHold.epoch = 0
  /\ NoHold.releaseSeq = 0
  /\ ~NoHold.acknowledged /\ ~NoHold.releasing /\ ~NoHold.reason
BY BoundsAssumption DEF NoHold, Hold, Tokens, Epochs, Seqs, MaxSeq

LEMMA NoStatusTyped == NoStatus \in Status
<1>1. 0 \in Epochs /\ 0 \in Tokens /\ 0 \in Seqs /\ 0 \in 0..MaxStatuses
  BY BoundsAssumption DEF Epochs, Tokens, Seqs, MaxSeq
<1>2. NoAck \in Ack
  BY <1>1 DEF NoAck, Ack
<1> QED
  BY <1>1, <1>2 DEF NoStatus, Status

\* Invalidating a hold only gives it a reason.
LEMMA InvalidFacts ==
  ASSUME NEW h \in Hold
  PROVE  /\ Invalid(h) \in Hold /\ Invalid(h).token = h.token
         /\ Invalid(h).epoch = h.epoch /\ Invalid(h).releaseSeq = h.releaseSeq
         /\ Invalid(h).acknowledged = h.acknowledged
         /\ Invalid(h).releasing = h.releasing
BY DEF Invalid, Hold

\* What a status makes of a hold.  The hold goes only by the acknowledgement
\* of its release; otherwise it stays the same hold, acknowledged only by a
\* status that shows its token in its epoch.
LEMMA ObservedFacts ==
  ASSUME hold \in Hold, NEW s \in Status
  PROVE  LET y == Observed(hold, s) IN
         /\ y \in Hold
         /\ \/ /\ y.token = hold.token /\ y.epoch = hold.epoch
               /\ y.releasing = hold.releasing
               /\ y.acknowledged =>
                    \/ hold.acknowledged
                    \/ s.epoch = hold.epoch /\ s.token = hold.token
            \/ /\ hold.token # 0 /\ hold.releasing
               /\ y.token = 0 /\ ~y.acknowledged /\ ~y.releasing
               /\ s.epoch = hold.epoch /\ s.ack.token = hold.token
<1> DEFINE y == Observed(hold, s)
           gap == IF dash.fresh THEN hold ELSE Invalid(hold)
           ok == [gap EXCEPT !.acknowledged = TRUE, !.reason = @ \/ s.violated]
<1>1. /\ gap \in Hold /\ gap.token = hold.token /\ gap.epoch = hold.epoch
      /\ gap.acknowledged = hold.acknowledged /\ gap.releasing = hold.releasing
  BY InvalidFacts
<1> HIDE DEF gap
<1>2. ok \in Hold
  BY <1>1 DEF Hold
<1>3. /\ ok.token = gap.token /\ ok.epoch = gap.epoch
      /\ ok.releasing = gap.releasing
  BY <1>1 DEF Hold
<1> HIDE DEF ok
<1>4. \/ y = hold \/ y = Invalid(hold) \/ y = gap
      \/ y = ok /\ s.token = hold.token /\ s.epoch = hold.epoch
      \/ /\ y = NoHold /\ hold.token # 0 /\ hold.releasing
         /\ s.epoch = hold.epoch
         /\ s.ack = [token |-> hold.token, seq |-> hold.releaseSeq]
  BY DEF Observed, gap, ok
<1> HIDE DEF y
<1> SUFFICES /\ y \in Hold
             /\ \/ /\ y.token = hold.token /\ y.epoch = hold.epoch
                   /\ y.releasing = hold.releasing
                   /\ y.acknowledged =>
                        \/ hold.acknowledged
                        \/ s.epoch = hold.epoch /\ s.token = hold.token
                \/ /\ hold.token # 0 /\ hold.releasing
                   /\ y.token = 0 /\ ~y.acknowledged /\ ~y.releasing
                   /\ s.epoch = hold.epoch /\ s.ack.token = hold.token
  BY DEF y
<1>5. CASE y = hold
  BY <1>5
<1>6. CASE y = Invalid(hold)
  BY <1>6, InvalidFacts
<1>7. CASE y = gap
  BY <1>7, <1>1
<1>8. CASE y = ok /\ s.token = hold.token /\ s.epoch = hold.epoch
  BY <1>8, <1>1, <1>2, <1>3
<1>9. CASE /\ y = NoHold /\ hold.token # 0 /\ hold.releasing
           /\ s.epoch = hold.epoch
           /\ s.ack = [token |-> hold.token, seq |-> hold.releaseSeq]
  <2>1. s.ack.token = hold.token
    BY <1>9
  <2>2. /\ y \in Hold /\ y.token = 0 /\ ~y.acknowledged /\ ~y.releasing
    BY <1>9, NoHoldFacts
  <2> QED
    BY <1>9, <2>1, <2>2
<1> QED
  BY <1>4, <1>5, <1>6, <1>7, <1>8, <1>9

\* A bridge that just started holds nothing and has acknowledged nothing.
LEMMA FreshBridgeFacts ==
  ASSUME NEW e \in Epochs
  PROVE  LET b == FreshBridge(e) IN
         /\ b \in Bridge /\ b.epoch = e /\ b.up /\ b.token = 0 /\ b.seq = 0
         /\ b.ack = NoAck /\ NoAck.token = 0 /\ NoAck.seq = 0
<1>1. 0 \in Tokens /\ 0 \in Seqs /\ 0 \in 0..MaxStatuses
  BY BoundsAssumption DEF Tokens, Seqs, MaxSeq
<1>2. NoAck \in Ack /\ NoAck.token = 0 /\ NoAck.seq = 0
  BY <1>1 DEF NoAck, Ack
<1> QED
  BY <1>1, <1>2 DEF FreshBridge, Bridge

\* There is a number left for whoever must still free a hold, stop a lease,
\* drive or ask for a hold.
LEMMA NumberLeft ==
  ASSUME IndInv,
         \/ hold.token # 0 /\ ~hold.releasing
         \/ lease
         \/ dash.drives < MaxDrives
         \/ dash.tokens < MaxTokens
  PROVE  dash.seq + 1 \in Seqs
<1>1. hold \in Hold /\ dash \in Dash /\ lease \in BOOLEAN
  BY DEF IndInv, TypeOK, Dash
<1>2. dash.seq + Unfreed + Unstopped
        <= 2 * dash.tokens + dash.drives + dash.leases
  BY DEF IndInv, CounterPart
<1>3. Unfreed \in {0, 1} /\ Unstopped \in {0, 1}
  BY DEF Unfreed, Unstopped
<1>4. /\ hold.token # 0 /\ ~hold.releasing => Unfreed = 1
      /\ lease => Unstopped = 1
  BY DEF Unfreed, Unstopped
<1> QED
  BY <1>1, <1>2, <1>3, <1>4, DashFields, BoundsAssumption DEF Seqs, MaxSeq

-----------------------------------------------------------------------------
(* What most steps leave alone, and the steps that send something.         *)

\* A step that changes none of the fields the argument is about.
LEMMA NothingMoves ==
  ASSUME IndInv, TypeOK', SessionPart', UNCHANGED <<lease, cmds, sts>>,
         hold'.token = hold.token, hold'.epoch = hold.epoch,
         hold'.acknowledged => hold.acknowledged,
         hold'.releasing => hold.releasing, hold.releasing => hold'.releasing,
         dash'.epoch = dash.epoch, dash'.seq = dash.seq,
         dash'.receipt = dash.receipt, dash'.tokens = dash.tokens,
         dash'.drives = dash.drives, dash'.leases = dash.leases,
         br'.epoch = br.epoch, br'.token = br.token, br'.ack = br.ack,
         br'.seq = br.seq, br'.up => br.up, br.up => br'.up
  PROVE  IndInv'
<1>1. CounterPart'
  <2>1. Unfreed' = Unfreed /\ Unstopped' = Unstopped
    BY DEF Unfreed, Unstopped
  <2> HIDE DEF Unfreed, Unstopped
  <2> QED
    BY <2>1 DEF IndInv, CounterPart
<1>2. CommandsPart'
  BY DEF IndInv, CommandsPart
<1>3. BridgePart'
  BY DEF IndInv, BridgePart
<1>4. StatusPart'
  BY DEF IndInv, StatusPart
<1>5. AckPart'
  BY DEF IndInv, AckPart, Behind
<1>6. HoldPart'
  BY DEF IndInv, HoldPart
<1>7. ReceiptPart'
  BY DEF IndInv, ReceiptPart
<1> QED
  BY <1>1, <1>2, <1>3, <1>4, <1>5, <1>6, <1>7 DEF IndInv

\* The types of the variables the transport and the bridge share.
LEMMA SharedTypes ==
  ASSUME IndInv
  PROVE  /\ hold \in Hold /\ dash \in Dash /\ lease \in BOOLEAN /\ br \in Bridge
         /\ cmds \subseteq Command /\ sts \subseteq Status /\ ses \in Session
BY DEF IndInv, TypeOK, Dash

\* A command about motion touches no inhibit.
LEMMA MotionSent ==
  ASSUME IndInv, TypeOK', SessionPart', CounterPart',
         NEW c \in Command, c.kind \in {"drive", "stop"},
         c.seq = dash.seq + 1, c.epoch = dash.epoch, c.token = 0,
         cmds' = cmds \cup {c}, UNCHANGED <<hold, br, sts>>,
         dash'.epoch = dash.epoch, dash'.seq = dash.seq + 1,
         dash'.receipt = dash.receipt, dash'.tokens = dash.tokens
  PROVE  IndInv'
<1>1. dash \in Dash /\ cmds \subseteq Command
  BY SharedTypes
<1>2. dash.seq \in Nat /\ dash.tokens \in Nat /\ dash.epoch \in Nat
  BY <1>1, DashFields
<1>3. \A d \in cmds : d.seq \in Nat
  BY <1>1, CommandFields
<1>4. c.kind # "hold" /\ c.kind # "free"
  OBVIOUS
<1>5. CommandsPart'
  BY <1>2, <1>3, <1>4 DEF IndInv, CounterPart, CommandsPart
<1>6. BridgePart'
  BY DEF IndInv, BridgePart
<1>7. StatusPart'
  BY DEF IndInv, StatusPart
<1>8. AckPart'
  BY <1>4 DEF IndInv, AckPart, Behind
<1>9. HoldPart'
  BY DEF IndInv, HoldPart
<1>10. ReceiptPart'
  BY <1>4 DEF IndInv, ReceiptPart
<1> QED
  BY <1>5, <1>6, <1>7, <1>8, <1>9, <1>10 DEF IndInv

-----------------------------------------------------------------------------
(* The dashboard transport.                                                *)

LEMMA ReceiveStatusStep ==
  ASSUME IndInv, NEW s \in sts, ReceiveStatus(s)
  PROVE  IndInv'
<1>1. /\ hold' = Observed(hold, s)
      /\ UNCHANGED <<lease, br, cmds, sts, ses, svc>>
  BY DEF ReceiveStatus
<1>2. /\ hold \in Hold /\ dash \in Dash /\ br \in Bridge /\ lease \in BOOLEAN
      /\ cmds \subseteq Command /\ sts \subseteq Status /\ s \in Status
  BY SharedTypes
<1> DEFINE last == IF hold.token # 0 /\ s.epoch = hold.epoch /\ s.n > dash.last
                     THEN s.n ELSE dash.last
           receipt == IF hold.token # 0 /\ hold'.token = 0
                        THEN hold.token ELSE dash.receipt
           retired == IF dash.epoch \in {0, s.epoch} THEN dash.retired
                        ELSE dash.retired \cup {dash.epoch}
           z == [dash EXCEPT !.epoch = s.epoch, !.fresh = TRUE, !.status = s,
                             !.retired = retired,
                             !.last = last, !.receipt = receipt]
<1>3. dash' = z
  BY <1>2 DEF ReceiveStatus, Dash
<1>4. /\ hold.token \in Tokens /\ dash.receipt \in Tokens /\ s.epoch \in Epochs
      /\ s.n \in 0..MaxStatuses /\ dash.last \in 0..MaxStatuses
  BY <1>2 DEF Hold, Dash, Status
<1>5. last \in 0..MaxStatuses /\ receipt \in Tokens /\ retired \in SUBSET Epochs
  BY <1>2, <1>4 DEF Dash
<1> HIDE DEF last, retired
<1>6. z \in Dash
  <2> HIDE DEF receipt
  <2> QED
    BY <1>2, <1>4, <1>5 DEF Dash
<1>7. /\ z.epoch = s.epoch /\ z.seq = dash.seq /\ z.receipt = receipt
      /\ z.tokens = dash.tokens /\ z.drives = dash.drives
      /\ z.leases = dash.leases
  <2> HIDE DEF receipt
  <2> QED
    BY <1>2 DEF Dash
<1> HIDE DEF z
<1>8. /\ dash'.epoch = s.epoch /\ dash'.seq = dash.seq
      /\ dash'.receipt = receipt /\ dash'.tokens = dash.tokens
      /\ dash'.drives = dash.drives /\ dash'.leases = dash.leases
  BY <1>3, <1>7
<1>9. /\ hold' \in Hold
      /\ \/ /\ hold'.token = hold.token /\ hold'.epoch = hold.epoch
            /\ hold'.releasing = hold.releasing
            /\ hold'.acknowledged =>
                 \/ hold.acknowledged
                 \/ s.epoch = hold.epoch /\ s.token = hold.token
         \/ /\ hold.token # 0 /\ hold.releasing
            /\ hold'.token = 0 /\ ~hold'.acknowledged /\ ~hold'.releasing
            /\ s.epoch = hold.epoch /\ s.ack.token = hold.token
  BY <1>1, <1>2, ObservedFacts
<1>10. TypeOK' /\ SessionPart'
  BY <1>1, <1>3, <1>6, <1>9 DEF IndInv, TypeOK, SessionPart, Dash
<1>11. /\ s.epoch <= br.epoch /\ s.epoch \in Nat /\ dash.epoch \in Nat
       /\ br.epoch \in Nat /\ hold.token \in Nat
       /\ dash.seq \in Nat /\ dash.tokens \in Nat /\ s.token \in Nat
       /\ dash.drives \in Nat /\ dash.leases \in Nat
  BY <1>2, HoldFields, DashFields, BridgeFields, StatusFields
     DEF IndInv, StatusPart
<1>12. /\ \A c \in cmds : c.epoch \in Nat /\ c.seq \in Nat /\ c.token \in Nat
       /\ \A u \in sts : u.epoch \in Nat /\ u.ack.seq \in Nat
       /\ br.seq \in Nat
  BY <1>2, CommandFields, StatusFields, BridgeFields
<1>13. CounterPart'
  <2>1. Unstopped' = Unstopped /\ Unstopped \in {0, 1}
    BY <1>1 DEF Unstopped
  <2>2. /\ Unfreed \in {0, 1} /\ Unfreed' \in {0, 1}
        /\ Unfreed' = 1 => Unfreed = 1
    BY <1>9 DEF Unfreed
  <2> HIDE DEF Unfreed, Unstopped
  <2>3. dash'.seq + Unfreed' + Unstopped'
          <= 2 * dash'.tokens + dash'.drives + dash'.leases
    BY <1>8, <1>11, <2>1, <2>2 DEF IndInv, CounterPart
  <2>4. hold'.token <= dash'.tokens /\ dash'.receipt <= dash'.tokens
    BY <1>8, <1>9, <1>11 DEF IndInv, CounterPart
  <2>5. dash'.epoch <= br'.epoch /\ (~br'.up => br'.epoch <= MaxRestarts)
    BY <1>1, <1>8, <1>11 DEF IndInv, CounterPart
  <2>6. hold'.acknowledged \/ hold'.releasing => hold'.token # 0
    <3>1. hold.acknowledged \/ hold.releasing => hold.token # 0
      BY DEF IndInv, CounterPart
    <3>2. CASE hold.token = 0
      <4>1. ~hold.acknowledged /\ ~hold.releasing
        BY <3>1, <3>2
      <4>2. s.epoch = hold.epoch /\ s.token = hold.token => s.token = 0
        BY <3>2
      <4>3. Observed(hold, s) = hold
        BY <3>2 DEF Observed
      <4> QED
        BY <4>1, <4>3, <1>1
    <3>3. CASE hold.token # 0
      BY <1>9, <3>3
    <3> QED
      BY <3>2, <3>3
  <2> QED
    BY <2>3, <2>4, <2>5, <2>6 DEF CounterPart
<1>14. CommandsPart'
  BY <1>1, <1>8, <1>9, <1>11, <1>12 DEF IndInv, CommandsPart
<1>15. BridgePart'
  BY <1>1, <1>8 DEF IndInv, BridgePart
<1>16. StatusPart'
  BY <1>1, <1>8 DEF IndInv, StatusPart
<1>17. AckPart'
  BY <1>1 DEF IndInv, AckPart, Behind
<1>18. HoldPart'
  BY <1>1, <1>9 DEF IndInv, HoldPart
<1>19. ReceiptPart'
  <2>1. CASE receipt = dash.receipt
    BY <1>1, <1>8, <2>1 DEF IndInv, ReceiptPart
  <2>2. CASE receipt # dash.receipt
    <3>1. /\ hold.token # 0 /\ hold'.token = 0 /\ receipt = hold.token
          /\ s.epoch = hold.epoch /\ s.ack.token = hold.token
      BY <1>9, <2>2
    <3>2. br.up => br.token # hold.token
      <4>1. CASE s.epoch = br.epoch
        BY <3>1, <4>1 DEF IndInv, AckPart
      <4>2. CASE s.epoch # br.epoch
        BY <3>1, <4>2 DEF IndInv, BridgePart, CommandsPart
      <4> QED
        BY <4>1, <4>2
    <3>3. ASSUME NEW c \in cmds, c.kind = "hold", c.token = hold.token
          PROVE  c.epoch < br.epoch \/ ~br.up \/ c.seq <= br.seq
      <4>1. c.epoch = s.epoch
        BY <3>1, <3>3 DEF IndInv, CommandsPart
      <4>2. CASE s.epoch = br.epoch
        <5>1. c.seq <= s.ack.seq
          BY <3>1, <3>3 DEF IndInv, AckPart, Behind
        <5>2. s.ack.seq <= br.seq
          BY <4>2 DEF IndInv, StatusPart
        <5> QED
          BY <5>1, <5>2, <1>12
      <4>3. CASE s.epoch # br.epoch
        BY <4>1, <4>3, <1>11
      <4> QED
        BY <4>2, <4>3
    <3> QED
      BY <1>1, <1>8, <3>1, <3>2, <3>3 DEF ReceiptPart
  <2> QED
    BY <2>1, <2>2
<1> QED
  BY <1>10, <1>13, <1>14, <1>15, <1>16, <1>17, <1>18, <1>19 DEF IndInv

LEMMA RetiredStatusStep ==
  ASSUME IndInv, NEW s \in sts, RetiredStatus(s)
  PROVE  IndInv'
<1>1. /\ hold' = Invalid(hold)
      /\ dash' = [dash EXCEPT !.fresh = FALSE, !.status = NoStatus]
      /\ UNCHANGED <<lease, br, cmds, sts, ses, svc>>
  BY DEF RetiredStatus
<1>2. hold \in Hold /\ dash \in Dash
  BY SharedTypes
<1>3. /\ hold' \in Hold /\ hold'.token = hold.token /\ hold'.epoch = hold.epoch
      /\ hold'.acknowledged = hold.acknowledged
      /\ hold'.releasing = hold.releasing
  BY <1>1, <1>2, InvalidFacts
<1>4. dash' \in Dash
  BY <1>1, <1>2, NoStatusTyped DEF Dash
<1>5. /\ dash'.epoch = dash.epoch /\ dash'.seq = dash.seq
      /\ dash'.receipt = dash.receipt /\ dash'.tokens = dash.tokens
      /\ dash'.drives = dash.drives /\ dash'.leases = dash.leases
  BY <1>1, <1>2 DEF Dash
<1>6. TypeOK' /\ SessionPart'
  BY <1>1, <1>3, <1>4 DEF IndInv, TypeOK, SessionPart, Dash
<1> QED
  BY <1>1, <1>3, <1>5, <1>6, NothingMoves

LEMMA GoStaleStep ==
  ASSUME IndInv, GoStale
  PROVE  IndInv'
<1>1. /\ dash' = [dash EXCEPT !.fresh = FALSE]
      /\ UNCHANGED <<hold, lease, br, cmds, sts, ses, svc>>
  BY DEF GoStale
<1>2. dash \in Dash
  BY SharedTypes
<1>3. dash' \in Dash
  BY <1>1, <1>2 DEF Dash
<1>4. /\ dash'.epoch = dash.epoch /\ dash'.seq = dash.seq
      /\ dash'.receipt = dash.receipt /\ dash'.tokens = dash.tokens
      /\ dash'.drives = dash.drives /\ dash'.leases = dash.leases
  BY <1>1, <1>2 DEF Dash
<1>5. TypeOK' /\ SessionPart'
  BY <1>1, <1>3 DEF IndInv, TypeOK, SessionPart, Dash
<1> QED
  BY <1>1, <1>4, <1>5, NothingMoves

LEMMA AcquireLeaseStep ==
  ASSUME IndInv, AcquireLease
  PROVE  IndInv'
<1>1. /\ ~lease /\ lease' = TRUE /\ dash.leases < MaxDrives
      /\ dash' = [dash EXCEPT !.leases = dash.leases + 1]
      /\ UNCHANGED <<hold, br, cmds, sts, ses, svc>>
  BY DEF AcquireLease
<1>2. dash \in Dash
  BY SharedTypes
<1>3. dash.leases + 1 \in 0..MaxDrives
  BY <1>1, <1>2, DashFields, BoundsAssumption
<1>4. dash' \in Dash
  BY <1>1, <1>2, <1>3 DEF Dash
<1>5. /\ dash'.epoch = dash.epoch /\ dash'.seq = dash.seq
      /\ dash'.receipt = dash.receipt /\ dash'.tokens = dash.tokens
      /\ dash'.drives = dash.drives /\ dash'.leases = dash.leases + 1
  BY <1>1, <1>2 DEF Dash
<1>6. TypeOK' /\ SessionPart'
  BY <1>1, <1>4 DEF IndInv, TypeOK, SessionPart, Dash
<1>7. CounterPart'
  <2>1. Unfreed' = Unfreed /\ Unstopped' = 1 /\ Unstopped = 0
    BY <1>1 DEF Unfreed, Unstopped
  <2>2. Unfreed \in {0, 1}
    BY DEF Unfreed
  <2> HIDE DEF Unfreed, Unstopped
  <2> QED
    BY <1>1, <1>2, <1>5, <2>1, <2>2, DashFields DEF IndInv, CounterPart
<1>8. CommandsPart' /\ BridgePart' /\ StatusPart' /\ AckPart' /\ HoldPart'
        /\ ReceiptPart'
  BY <1>1, <1>5 DEF IndInv, CommandsPart, BridgePart, StatusPart, AckPart,
                    HoldPart, ReceiptPart, Behind
<1> QED
  BY <1>6, <1>7, <1>8 DEF IndInv

\* The command that Send makes.
LEMMA SendFacts ==
  ASSUME IndInv, NEW kind \in {"hold", "free", "drive", "stop"},
         NEW token \in Tokens, dash.seq + 1 \in Seqs, Send(kind, token)
  PROVE  LET c == [kind |-> kind, token |-> token, epoch |-> dash.epoch,
                   seq |-> dash.seq + 1] IN
         /\ c \in Command /\ c.kind = kind /\ c.token = token
         /\ c.epoch = dash.epoch /\ c.seq = dash.seq + 1
         /\ cmds' = cmds \cup {c} /\ cmds' \subseteq Command
<1>1. dash.epoch \in Epochs /\ cmds \subseteq Command
  BY SharedTypes DEF Dash
<1> QED
  BY <1>1 DEF Send, Command

LEMMA DriveStep ==
  ASSUME IndInv, Drive
  PROVE  IndInv'
<1>1. dash.drives < MaxDrives /\ UNCHANGED <<lease, br, sts, ses, svc>>
  BY DEF Drive
<1>2. hold \in Hold /\ dash \in Dash /\ lease \in BOOLEAN
  BY SharedTypes
<1>3. CASE hold.token # 0
  <2>1. hold' = Invalid(hold) /\ UNCHANGED <<dash, cmds>>
    BY <1>3 DEF Drive
  <2>2. /\ hold' \in Hold /\ hold'.token = hold.token
        /\ hold'.epoch = hold.epoch
        /\ hold'.acknowledged = hold.acknowledged
        /\ hold'.releasing = hold.releasing
    BY <1>2, <2>1, InvalidFacts
  <2>3. TypeOK' /\ SessionPart'
    BY <1>1, <2>1, <2>2 DEF IndInv, TypeOK, SessionPart
  <2> QED
    BY <1>1, <2>1, <2>2, <2>3, NothingMoves
<1>4. CASE hold.token = 0
  <2> DEFINE c == [kind |-> "drive", token |-> 0, epoch |-> dash.epoch,
                   seq |-> dash.seq + 1]
  <2>1. /\ Send("drive", 0) /\ hold' = hold
        /\ dash' = [dash EXCEPT !.seq = dash.seq + 1,
                                !.drives = dash.drives + 1]
    BY <1>4 DEF Drive
  <2>2. dash.seq + 1 \in Seqs
    BY <1>1, NumberLeft
  <2>3. 0 \in Tokens
    BY BoundsAssumption DEF Tokens
  <2>4. /\ c \in Command /\ c.kind = "drive" /\ c.token = 0
        /\ c.epoch = dash.epoch /\ c.seq = dash.seq + 1
        /\ cmds' = cmds \cup {c} /\ cmds' \subseteq Command
    BY <2>1, <2>2, <2>3, SendFacts
  <2> HIDE DEF c
  <2>5. dash.drives + 1 \in 0..MaxDrives
    BY <1>1, <1>2, DashFields, BoundsAssumption
  <2>6. dash' \in Dash
    BY <1>2, <2>1, <2>2, <2>5 DEF Dash
  <2>7. /\ dash'.epoch = dash.epoch /\ dash'.seq = dash.seq + 1
        /\ dash'.receipt = dash.receipt /\ dash'.tokens = dash.tokens
        /\ dash'.drives = dash.drives + 1 /\ dash'.leases = dash.leases
    BY <1>2, <2>1 DEF Dash
  <2>8. TypeOK' /\ SessionPart'
    BY <1>1, <2>1, <2>4, <2>6 DEF IndInv, TypeOK, SessionPart, Dash
  <2>9. CounterPart'
    <3>1. Unfreed' = Unfreed /\ Unstopped' = Unstopped
      BY <1>1, <2>1 DEF Unfreed, Unstopped
    <3>2. Unfreed \in {0, 1} /\ Unstopped \in {0, 1}
      BY DEF Unfreed, Unstopped
    <3> HIDE DEF Unfreed, Unstopped
    <3> QED
      BY <1>1, <1>2, <2>1, <2>7, <3>1, <3>2, DashFields DEF IndInv, CounterPart
  <2> QED
    BY <1>1, <2>1, <2>4, <2>7, <2>8, <2>9, MotionSent
<1> QED
  BY <1>3, <1>4

LEMMA ReleaseLeaseStep ==
  ASSUME IndInv, ReleaseLease
  PROVE  IndInv'
<1> DEFINE c == [kind |-> "stop", token |-> 0, epoch |-> dash.epoch,
                 seq |-> dash.seq + 1]
<1>1. /\ lease /\ Send("stop", 0) /\ lease' = FALSE
      /\ dash' = [dash EXCEPT !.seq = dash.seq + 1]
      /\ UNCHANGED <<hold, br, sts, ses, svc>>
  BY DEF ReleaseLease
<1>2. hold \in Hold /\ dash \in Dash
  BY SharedTypes
<1>3. dash.seq + 1 \in Seqs /\ 0 \in Tokens
  BY <1>1, NumberLeft, BoundsAssumption DEF Tokens
<1>4. /\ c \in Command /\ c.kind = "stop" /\ c.token = 0
      /\ c.epoch = dash.epoch /\ c.seq = dash.seq + 1
      /\ cmds' = cmds \cup {c} /\ cmds' \subseteq Command
  BY <1>1, <1>3, SendFacts
<1> HIDE DEF c
<1>5. dash' \in Dash
  BY <1>1, <1>2, <1>3 DEF Dash
<1>6. /\ dash'.epoch = dash.epoch /\ dash'.seq = dash.seq + 1
      /\ dash'.receipt = dash.receipt /\ dash'.tokens = dash.tokens
      /\ dash'.drives = dash.drives /\ dash'.leases = dash.leases
  BY <1>1, <1>2 DEF Dash
<1>7. TypeOK' /\ SessionPart'
  BY <1>1, <1>4, <1>5 DEF IndInv, TypeOK, SessionPart, Dash
<1>8. CounterPart'
  <2>1. Unfreed' = Unfreed /\ Unstopped' = 0 /\ Unstopped = 1
    BY <1>1 DEF Unfreed, Unstopped
  <2>2. Unfreed \in {0, 1}
    BY DEF Unfreed
  <2> HIDE DEF Unfreed, Unstopped
  <2> QED
    BY <1>1, <1>2, <1>6, <2>1, <2>2, DashFields DEF IndInv, CounterPart
<1> QED
  BY <1>1, <1>4, <1>6, <1>7, <1>8, MotionSent

-----------------------------------------------------------------------------
(* The bridge core.                                                        *)

LEMMA BridgeAcceptStep ==
  ASSUME IndInv, NEW c \in cmds, BridgeAccept(c)
  PROVE  IndInv'
<1>1. /\ br.up /\ c.epoch = br.epoch /\ c.seq > br.seq
      /\ UNCHANGED <<hold, dash, lease, cmds, sts, ses, svc>>
  BY DEF BridgeAccept
<1>2. /\ br \in Bridge /\ dash \in Dash /\ hold \in Hold /\ c \in Command
      /\ cmds \subseteq Command /\ sts \subseteq Status
  BY SharedTypes
<1> DEFINE token == IF c.kind = "hold" /\ br.token = 0 /\ ~br.moving THEN c.token
                    ELSE IF c.kind = "free" /\ br.token = c.token THEN 0
                    ELSE br.token
           ack == IF c.kind = "free" /\ br.token = c.token /\ c.token # 0
                  THEN [token |-> c.token, seq |-> c.seq] ELSE br.ack
           violated == IF c.kind = "hold" /\ br.token = 0 THEN FALSE
                       ELSE IF c.kind = "free" /\ br.token = c.token THEN FALSE
                       ELSE br.violated \/ (br.token # 0 /\ c.kind \in {"drive", "stop"})
           moving == IF c.kind = "stop" THEN FALSE
                     ELSE IF c.kind = "drive" THEN br.token = 0 ELSE br.moving
           z == [br EXCEPT !.seq = c.seq, !.token = token, !.ack = ack,
                           !.violated = violated, !.moving = moving]
<1>3. br' = z
  BY DEF BridgeAccept
<1>4. c.token \in Tokens /\ c.seq \in Seqs /\ br.token \in Tokens /\ br.ack \in Ack
  BY <1>2 DEF Command, Bridge
<1>5. 0 \in Tokens
  BY BoundsAssumption DEF Tokens
<1>6. token \in Tokens /\ ack \in Ack
  BY <1>4, <1>5 DEF Ack
<1>7. violated \in BOOLEAN /\ moving \in BOOLEAN
  BY <1>2 DEF Bridge
<1>8. /\ \/ token = br.token
         \/ c.kind = "hold" /\ br.token = 0 /\ token = c.token
         \/ c.kind = "free" /\ br.token = c.token /\ token = 0
      /\ \/ ack = br.ack
         \/ /\ c.kind = "free" /\ br.token = c.token /\ token = 0
            /\ ack.token = c.token /\ ack.seq = c.seq
  OBVIOUS
<1> HIDE DEF token, ack, violated, moving
<1>9. z \in Bridge
  BY <1>2, <1>4, <1>6, <1>7 DEF Bridge
<1>10. /\ z.epoch = br.epoch /\ z.up = br.up /\ z.token = token /\ z.ack = ack
       /\ z.seq = c.seq
  BY <1>2 DEF Bridge
<1> HIDE DEF z
<1>11. TypeOK' /\ SessionPart'
  BY <1>1, <1>3, <1>9 DEF IndInv, TypeOK, SessionPart
<1>12. /\ br'.epoch = br.epoch /\ br'.up /\ br'.token = token /\ br'.ack = ack
       /\ br'.seq = c.seq
  BY <1>1, <1>3, <1>10
<1>13. /\ br.seq \in Nat /\ br.epoch \in Nat /\ dash.epoch \in Nat
       /\ br.token \in Nat /\ br.ack.seq \in Nat
       /\ \A d \in cmds : d.seq \in Nat /\ d.epoch \in Nat
       /\ \A s \in sts : s.ack.seq \in Nat
       /\ c.seq \in Nat
  BY <1>2, BridgeFields, CommandFields, StatusFields, DashFields
<1>14. CounterPart'
  <2>1. Unfreed' = Unfreed /\ Unstopped' = Unstopped
    BY <1>1 DEF Unfreed, Unstopped
  <2> HIDE DEF Unfreed, Unstopped
  <2> QED
    BY <1>1, <1>12, <2>1 DEF IndInv, CounterPart
<1>15. CommandsPart'
  BY <1>1, <1>12 DEF IndInv, CommandsPart
<1>16. BridgePart'
  <2>1. token # 0 => \E d \in cmds : /\ d.kind = "hold" /\ d.token = token
                                     /\ d.epoch = br.epoch
    BY <1>1, <1>8 DEF IndInv, BridgePart
  <2>2. ack.seq <= c.seq
    BY <1>1, <1>8, <1>13 DEF IndInv, BridgePart
  <2>3. ack.token <= dash.tokens
    BY <1>8 DEF IndInv, BridgePart, CommandsPart
  <2> QED
    BY <1>1, <1>12, <2>1, <2>2, <2>3 DEF BridgePart
<1>17. StatusPart'
  <2>1. ASSUME NEW s \in sts
        PROVE  /\ s.epoch <= br.epoch /\ s.ack.token <= dash.tokens
               /\ s.epoch = br.epoch => s.ack.seq <= c.seq
    BY <1>1, <1>13 DEF IndInv, StatusPart
  <2>2. ASSUME NEW s \in sts, s.epoch = br.epoch, s.token # 0
        PROVE  \/ token = s.token
               \/ \E d \in cmds : d.kind = "free" /\ d.token = s.token
    <3>1. CASE br.token = s.token
      BY <1>8, <2>2, <3>1
    <3>2. CASE br.token # s.token
      BY <2>2, <3>2 DEF IndInv, StatusPart
    <3> QED
      BY <3>1, <3>2
  <2> QED
    BY <1>1, <1>12, <2>1, <2>2 DEF StatusPart
<1>18. AckPart'
  <2>1. Behind(ack)
    <3>1. CASE ack = br.ack
      BY <3>1 DEF IndInv, AckPart
    <3>2. CASE c.kind = "free" /\ ack.token = c.token /\ ack.seq = c.seq
      BY <3>2, <1>13 DEF IndInv, CommandsPart, Behind
    <3> QED
      BY <1>8, <3>1, <3>2
  <2>2. ASSUME NEW a, Behind(a), a.seq <= br.seq, a.seq \in Nat, a.token # 0,
               br.token # a.token
        PROVE  token # a.token
    BY <1>1, <1>8, <1>13, <2>2 DEF Behind
  <2>3. ack.token # 0 => token # ack.token
    <3>1. CASE ack = br.ack
      BY <3>1, <2>2, <1>13 DEF IndInv, AckPart, BridgePart
    <3>2. CASE token = 0
      BY <3>2
    <3> QED
      BY <1>8, <3>1, <3>2
  <2>4. ASSUME NEW s \in sts
        PROVE  /\ Behind(s.ack)
               /\ s.ack.token # 0 /\ s.epoch = br.epoch => token # s.ack.token
    BY <2>2, <2>4, <1>13 DEF IndInv, AckPart, StatusPart
  <2> QED
    BY <1>1, <1>12, <2>1, <2>3, <2>4 DEF AckPart, Behind
<1>19. HoldPart'
  BY <1>1 DEF IndInv, HoldPart
<1>20. ReceiptPart'
  <2>1. SUFFICES ASSUME dash.receipt # 0
                 PROVE  /\ token # dash.receipt
                        /\ \A d \in cmds : d.kind = "hold" /\ d.token = dash.receipt =>
                             d.epoch < br.epoch \/ d.seq <= c.seq
    BY <1>1, <1>12 DEF ReceiptPart
  <2>2. /\ br.token # dash.receipt
        /\ \A d \in cmds : d.kind = "hold" /\ d.token = dash.receipt =>
             d.epoch < br.epoch \/ d.seq <= br.seq
    BY <1>1, <2>1 DEF IndInv, ReceiptPart
  <2> QED
    BY <1>1, <1>8, <1>13, <2>1, <2>2
<1> QED
  BY <1>11, <1>14, <1>15, <1>16, <1>17, <1>18, <1>19, <1>20 DEF IndInv

LEMMA BridgeQuietStep ==
  ASSUME IndInv, BridgeWatchdog \/ BridgeUnready
  PROVE  IndInv'
<1>1. /\ \/ br' = [br EXCEPT !.moving = FALSE]
         \/ br' = [br EXCEPT !.violated = TRUE]
      /\ UNCHANGED <<hold, dash, lease, cmds, sts, ses, svc>>
  BY DEF BridgeWatchdog, BridgeUnready
<1>2. br \in Bridge
  BY SharedTypes
<1>3. /\ br' \in Bridge /\ br'.epoch = br.epoch /\ br'.token = br.token
      /\ br'.ack = br.ack /\ br'.seq = br.seq /\ br'.up = br.up
  BY <1>1, <1>2 DEF Bridge
<1>4. TypeOK' /\ SessionPart'
  BY <1>1, <1>3 DEF IndInv, TypeOK, SessionPart
<1> QED
  BY <1>1, <1>3, <1>4, NothingMoves

LEMMA BridgeStatusStep ==
  ASSUME IndInv, BridgeStatus
  PROVE  IndInv'
<1> DEFINE z == [br EXCEPT !.n = br.n + 1]
           s == [epoch |-> br.epoch, n |-> br.n + 1, token |-> br.token,
                 violated |-> br.violated, ack |-> br.ack, idle |-> ~br.moving]
<1>1. /\ br.up /\ br.n < MaxStatuses /\ br' = z /\ sts' = sts \cup {s}
      /\ UNCHANGED <<hold, dash, lease, cmds, ses, svc>>
  BY DEF BridgeStatus
<1>2. br \in Bridge /\ sts \subseteq Status /\ hold \in Hold /\ dash \in Dash
  BY SharedTypes
<1>3. br.n + 1 \in 0..MaxStatuses
  BY <1>1, <1>2, BridgeFields, BoundsAssumption
<1>4. z \in Bridge
  BY <1>2, <1>3 DEF Bridge
<1>5. /\ z.epoch = br.epoch /\ z.token = br.token /\ z.ack = br.ack
      /\ z.seq = br.seq /\ z.up = br.up
  BY <1>2 DEF Bridge
<1>6. (~br.moving) \in BOOLEAN
  OBVIOUS
<1>7. /\ br.epoch \in Epochs /\ br.token \in Tokens /\ br.violated \in BOOLEAN
      /\ br.ack \in Ack
  BY <1>2 DEF Bridge
<1>8. s \in Status
  BY <1>3, <1>6, <1>7 DEF Status
<1>9. s.epoch = br.epoch /\ s.token = br.token /\ s.ack = br.ack
  OBVIOUS
<1> HIDE DEF z, s
<1>10. /\ br'.epoch = br.epoch /\ br'.token = br.token /\ br'.ack = br.ack
       /\ br'.seq = br.seq /\ br'.up
  BY <1>1, <1>5
<1>11. TypeOK' /\ SessionPart'
  BY <1>1, <1>2, <1>4, <1>8 DEF IndInv, TypeOK, SessionPart
<1>12. CounterPart'
  <2>1. Unfreed' = Unfreed /\ Unstopped' = Unstopped
    BY <1>1 DEF Unfreed, Unstopped
  <2> HIDE DEF Unfreed, Unstopped
  <2> QED
    BY <1>1, <1>10, <2>1 DEF IndInv, CounterPart
<1>13. CommandsPart'
  BY <1>1, <1>10 DEF IndInv, CommandsPart
<1>14. BridgePart'
  BY <1>1, <1>10 DEF IndInv, BridgePart
<1>15. StatusPart'
  <2>1. br.epoch \in Nat
    BY <1>2, BridgeFields
  <2>2. /\ s.epoch <= br.epoch /\ s.ack.token <= dash.tokens
        /\ s.ack.seq <= br.seq
    BY <1>9, <2>1 DEF IndInv, BridgePart
  <2> QED
    BY <1>1, <1>9, <1>10, <2>2 DEF IndInv, StatusPart
<1>16. AckPart'
  BY <1>1, <1>9, <1>10 DEF IndInv, AckPart, Behind
<1>17. HoldPart'
  BY <1>1 DEF IndInv, HoldPart
<1>18. ReceiptPart'
  BY <1>1, <1>10 DEF IndInv, ReceiptPart
<1> QED
  BY <1>11, <1>12, <1>13, <1>14, <1>15, <1>16, <1>17, <1>18 DEF IndInv

LEMMA BridgeStopStep ==
  ASSUME IndInv, BridgeStop
  PROVE  IndInv'
<1>1. /\ br.epoch <= MaxRestarts
      /\ br' = [br EXCEPT !.up = FALSE, !.moving = FALSE]
      /\ UNCHANGED <<hold, dash, lease, cmds, sts, ses, svc>>
  BY DEF BridgeStop
<1>2. br \in Bridge
  BY SharedTypes
<1>3. /\ br' \in Bridge /\ br'.epoch = br.epoch /\ br'.token = br.token
      /\ br'.ack = br.ack /\ br'.seq = br.seq /\ ~br'.up
  BY <1>1, <1>2 DEF Bridge
<1>4. TypeOK' /\ SessionPart'
  BY <1>1, <1>3 DEF IndInv, TypeOK, SessionPart
<1>5. CounterPart'
  <2>1. Unfreed' = Unfreed /\ Unstopped' = Unstopped
    BY <1>1 DEF Unfreed, Unstopped
  <2> HIDE DEF Unfreed, Unstopped
  <2> QED
    BY <1>1, <1>3, <2>1 DEF IndInv, CounterPart
<1>6. CommandsPart' /\ BridgePart' /\ StatusPart' /\ AckPart' /\ HoldPart'
  BY <1>1, <1>3 DEF IndInv, CommandsPart, BridgePart, StatusPart, AckPart,
                    HoldPart, Behind
<1>7. ReceiptPart'
  BY <1>3 DEF ReceiptPart
<1> QED
  BY <1>4, <1>5, <1>6, <1>7 DEF IndInv

LEMMA BridgeStartStep ==
  ASSUME IndInv, BridgeStart
  PROVE  IndInv'
<1>1. /\ ~br.up /\ br' = FreshBridge(br.epoch + 1)
      /\ UNCHANGED <<hold, dash, lease, cmds, sts, ses, svc>>
  BY DEF BridgeStart
<1>2. /\ br \in Bridge /\ dash \in Dash /\ hold \in Hold
      /\ cmds \subseteq Command /\ sts \subseteq Status
  BY SharedTypes
<1>3. br.epoch \in Nat /\ br.epoch <= MaxRestarts
  BY <1>1, <1>2, BridgeFields DEF IndInv, CounterPart
<1>4. br.epoch + 1 \in Epochs
  BY <1>3, BoundsAssumption DEF Epochs
<1>5. /\ br' \in Bridge /\ br'.epoch = br.epoch + 1 /\ br'.up /\ br'.token = 0
      /\ br'.seq = 0 /\ br'.ack.token = 0 /\ br'.ack.seq = 0
  BY <1>1, <1>4, FreshBridgeFacts
<1>6. /\ dash.epoch \in Nat /\ dash.epoch <= br.epoch /\ dash.tokens \in Nat
      /\ \A c \in cmds : c.epoch \in Nat /\ c.epoch <= br.epoch
      /\ \A s \in sts : s.epoch \in Nat /\ s.epoch <= br.epoch
  BY <1>2, DashFields, CommandFields, StatusFields
     DEF IndInv, CounterPart, CommandsPart, StatusPart
<1>7. /\ \A c \in cmds : c.epoch < br.epoch + 1
      /\ \A s \in sts : s.epoch < br.epoch + 1 /\ s.epoch # br.epoch + 1
                          /\ s.epoch <= br.epoch + 1
  BY <1>3, <1>6
<1>8. TypeOK' /\ SessionPart'
  BY <1>1, <1>5 DEF IndInv, TypeOK, SessionPart
<1>9. CounterPart'
  <2>1. Unfreed' = Unfreed /\ Unstopped' = Unstopped
    BY <1>1 DEF Unfreed, Unstopped
  <2> HIDE DEF Unfreed, Unstopped
  <2> QED
    BY <1>1, <1>3, <1>5, <1>6, <2>1 DEF IndInv, CounterPart
<1>10. CommandsPart'
  <2>1. \A c \in cmds : c.epoch <= br.epoch + 1
    BY <1>3, <1>6
  <2> QED
    BY <1>1, <1>5, <2>1 DEF IndInv, CommandsPart
<1>11. BridgePart'
  BY <1>1, <1>5, <1>6 DEF BridgePart
<1>12. StatusPart'
  BY <1>1, <1>5, <1>7 DEF IndInv, StatusPart
<1>13. AckPart'
  BY <1>1, <1>5, <1>7 DEF IndInv, AckPart, Behind
<1>14. HoldPart'
  BY <1>1 DEF IndInv, HoldPart
<1>15. ReceiptPart'
  BY <1>1, <1>5, <1>7 DEF ReceiptPart
<1> QED
  BY <1>8, <1>9, <1>10, <1>11, <1>12, <1>13, <1>14, <1>15 DEF IndInv

-----------------------------------------------------------------------------
(* The session and its service.                                            *)

LEMMA SessionStartStep ==
  ASSUME IndInv, SessionStart
  PROVE  IndInv'
<1> DEFINE t == dash.tokens + 1
           c == [kind |-> "hold", token |-> t, epoch |-> dash.epoch,
                 seq |-> dash.seq + 1]
           h == [NoHold EXCEPT !.token = t, !.epoch = dash.epoch]
           z == [dash EXCEPT !.tokens = t, !.seq = dash.seq + 1,
                             !.last = dash.status.n]
           y == [ses EXCEPT !.pc = "waitHold", !.pending = "start", !.ctx = t,
                            !.invocation = br.epoch, !.dispatched = FALSE,
                            !.uncertain = FALSE, !.bound = FALSE,
                            !.stopAccepted = FALSE, !.safety = FALSE]
<1>1. /\ hold.token = 0 /\ dash.tokens < MaxTokens /\ Send("hold", t)
      /\ hold' = h /\ dash' = z /\ ses' = y
      /\ UNCHANGED <<lease, br, sts, svc>>
  BY DEF SessionStart, Admissible
<1>2. /\ br \in Bridge /\ dash \in Dash /\ ses \in Session /\ hold \in Hold
      /\ cmds \subseteq Command /\ sts \subseteq Status
  BY SharedTypes
<1>3. dash.seq + 1 \in Seqs
  BY <1>1, NumberLeft
<1>4. /\ dash.tokens \in Nat /\ dash.seq \in Nat /\ dash.epoch \in Nat
      /\ dash.drives \in Nat /\ dash.leases \in Nat
      /\ dash.status \in Status /\ dash.epoch \in Epochs
      /\ br.epoch \in Epochs /\ dash.status.n \in 0..MaxStatuses
  BY <1>2, DashFields, StatusFields DEF Dash, Bridge
<1>5. t \in Tokens /\ t # 0 /\ t \in Nat /\ dash.tokens < t
  BY <1>1, <1>4, BoundsAssumption DEF Tokens
<1>6. /\ c \in Command /\ c.kind = "hold" /\ c.token = t
      /\ c.epoch = dash.epoch /\ c.seq = dash.seq + 1
      /\ cmds' = cmds \cup {c} /\ cmds' \subseteq Command
  <2> HIDE DEF t
  <2> QED
    BY <1>1, <1>3, <1>5, SendFacts
<1> HIDE DEF c, t
<1>7. h \in Hold
  BY <1>4, <1>5, NoHoldFacts DEF Hold
<1>8. /\ h.token = t /\ h.epoch = dash.epoch /\ ~h.acknowledged /\ ~h.releasing
  BY NoHoldFacts DEF Hold
<1>9. z \in Dash
  BY <1>2, <1>3, <1>4, <1>5 DEF Dash
<1>10. /\ z.epoch = dash.epoch /\ z.seq = dash.seq + 1
       /\ z.receipt = dash.receipt /\ z.tokens = t
       /\ z.drives = dash.drives /\ z.leases = dash.leases
  BY <1>2 DEF Dash
<1>11. y \in Session
  BY <1>2, <1>4, <1>5 DEF Session
<1>12. y.pc # "finish"
  BY <1>2 DEF Session
<1> HIDE DEF h, z, y
<1>13. /\ hold'.token = t /\ hold'.epoch = dash.epoch
       /\ ~hold'.acknowledged /\ ~hold'.releasing
       /\ dash'.epoch = dash.epoch /\ dash'.seq = dash.seq + 1
       /\ dash'.receipt = dash.receipt /\ dash'.tokens = dash.tokens + 1
       /\ dash'.drives = dash.drives /\ dash'.leases = dash.leases
  BY <1>1, <1>8, <1>10 DEF t
<1>14. TypeOK' /\ SessionPart'
  BY <1>1, <1>6, <1>7, <1>9, <1>11, <1>12
     DEF IndInv, TypeOK, SessionPart, Dash
<1>15. /\ \A d \in cmds : /\ d.seq \in Nat /\ d.token \in Nat
                          /\ d.seq <= dash.seq /\ d.token <= dash.tokens
       /\ \A s \in sts : /\ s.ack.token \in Nat
                         /\ s.ack.token <= dash.tokens
       /\ br.ack.token \in Nat /\ br.ack.token <= dash.tokens
       /\ dash.receipt \in Nat /\ dash.receipt <= dash.tokens
  BY <1>2, CommandFields, StatusFields, BridgeFields, DashFields
     DEF IndInv, CommandsPart, StatusPart, BridgePart, CounterPart
<1>16. /\ \A d \in cmds : d.seq < dash.seq + 1 /\ d.token # t
                            /\ d.token <= dash.tokens + 1 /\ d.seq <= dash.seq + 1
       /\ \A s \in sts : s.ack.token # t /\ s.ack.token <= dash.tokens + 1
       /\ br.ack.token # t /\ br.ack.token <= dash.tokens + 1
       /\ dash.receipt # t /\ dash.receipt <= dash.tokens + 1
  BY <1>4, <1>5, <1>15
<1>17. CounterPart'
  <2>1. Unfreed = 0 /\ Unfreed' = 1 /\ Unstopped' = Unstopped
    BY <1>1, <1>5, <1>13 DEF Unfreed, Unstopped
  <2>2. Unstopped \in {0, 1}
    BY DEF Unstopped
  <2> HIDE DEF Unfreed, Unstopped
  <2>3. dash'.seq + Unfreed' + Unstopped'
          <= 2 * dash'.tokens + dash'.drives + dash'.leases
    BY <1>4, <1>13, <2>1, <2>2 DEF IndInv, CounterPart
  <2>4. hold'.token <= dash'.tokens
    BY <1>4, <1>5, <1>13 DEF t
  <2> QED
    BY <1>1, <1>13, <1>16, <2>3, <2>4 DEF IndInv, CounterPart
<1>18. CommandsPart'
  <2>1. dash.epoch <= br.epoch /\ t <= dash.tokens + 1
          /\ dash.seq + 1 <= dash.seq + 1
    BY <1>4 DEF t, IndInv, CounterPart
  <2> QED
    BY <1>1, <1>5, <1>6, <1>13, <1>16, <2>1 DEF IndInv, CommandsPart
<1>19. BridgePart'
  BY <1>1, <1>6, <1>13, <1>16 DEF IndInv, BridgePart
<1>20. StatusPart'
  BY <1>1, <1>6, <1>13, <1>16 DEF IndInv, StatusPart
<1>21. AckPart'
  BY <1>1, <1>6, <1>16 DEF IndInv, AckPart, Behind
<1>22. HoldPart'
  BY <1>13 DEF HoldPart
<1>23. ReceiptPart'
  BY <1>1, <1>6, <1>13, <1>16 DEF IndInv, ReceiptPart
<1> QED
  BY <1>14, <1>17, <1>18, <1>19, <1>20, <1>21, <1>22, <1>23 DEF IndInv

\* A step of the session that at most invalidates the hold.
LEMMA SessionOnly ==
  ASSUME IndInv, hold' \in {hold, Invalid(hold)}, ses' \in Session, SessionPart',
         svc' \in [state : {"stopped", "queued", "active", "stopping", "failed"},
                   late : BOOLEAN],
         UNCHANGED <<dash, lease, br, cmds, sts>>
  PROVE  IndInv'
<1>1. hold \in Hold
  BY SharedTypes
<1>2. /\ hold' \in Hold /\ hold'.token = hold.token /\ hold'.epoch = hold.epoch
      /\ hold'.acknowledged = hold.acknowledged
      /\ hold'.releasing = hold.releasing
  BY <1>1, InvalidFacts
<1>3. TypeOK'
  BY <1>2 DEF IndInv, TypeOK
<1> QED
  BY <1>2, <1>3, NothingMoves

LEMMA WaitStep ==
  ASSUME IndInv, HoldArrives \/ HoldFails
  PROVE  IndInv'
<1> DEFINE safety == ses.safety \/ HoldState(ses.ctx) = "HELD"
<1>1. ses \in Session /\ ses.safety \in BOOLEAN
  BY SharedTypes, SessionFields
<1>2. safety \in BOOLEAN
  BY <1>1
<1>3. /\ \/ ses' = [ses EXCEPT !.pc = "dispatch"]
         \/ ses' = [ses EXCEPT !.pc = "refresh", !.pending = "none",
                               !.safety = safety]
      /\ hold' \in {hold, Invalid(hold)}
      /\ UNCHANGED <<dash, lease, br, cmds, sts, svc>>
  BY DEF HoldArrives, HoldFails, Polled
<1> HIDE DEF safety
<1>4. ses' \in Session /\ ses'.pc # "finish"
  BY <1>1, <1>2, <1>3 DEF Session
<1> QED
  BY <1>3, <1>4, SessionOnly DEF IndInv, TypeOK, SessionPart

LEMMA DispatchStartStep ==
  ASSUME IndInv, DispatchStart
  PROVE  IndInv'
<1>1. /\ \/ ses' = [ses EXCEPT !.pc = "refresh", !.dispatched = TRUE]
         \/ ses' = [ses EXCEPT !.pc = "refresh", !.dispatched = TRUE,
                               !.uncertain = TRUE, !.safety = TRUE,
                               !.pending = "none"]
      /\ \/ svc' = [svc EXCEPT !.state = "queued"]
         \/ \E late \in BOOLEAN : svc' = [svc EXCEPT !.late = late]
      /\ UNCHANGED <<hold, dash, lease, br, cmds, sts>>
  BY DEF DispatchStart
<1>2. ses \in Session
  BY SharedTypes
<1>3. ses' \in Session /\ ses'.pc # "finish"
  BY <1>1, <1>2 DEF Session
<1>4. svc' \in [state : {"stopped", "queued", "active", "stopping", "failed"},
                late : BOOLEAN]
  BY <1>1 DEF IndInv, TypeOK
<1> QED
  BY <1>1, <1>3, <1>4, SessionOnly DEF SessionPart

LEMMA SessionStopStep ==
  ASSUME IndInv, SessionStop
  PROVE  IndInv'
<1>1. /\ \/ ses' = [ses EXCEPT !.pc = "refresh", !.pending = "stop",
                               !.active = TRUE, !.stopAccepted = TRUE]
         \/ ses' = [ses EXCEPT !.pc = "refresh", !.pending = "stop",
                               !.active = TRUE]
      /\ svc' \in {svc, [svc EXCEPT !.state = "stopping"]}
      /\ UNCHANGED <<hold, dash, lease, br, cmds, sts>>
  BY DEF SessionStop
<1>2. ses \in Session
  BY SharedTypes
<1>3. ses' \in Session /\ ses'.pc # "finish"
  BY <1>1, <1>2 DEF Session
<1>4. svc' \in [state : {"stopped", "queued", "active", "stopping", "failed"},
                late : BOOLEAN]
  BY <1>1 DEF IndInv, TypeOK
<1> QED
  BY <1>1, <1>3, <1>4, SessionOnly DEF SessionPart

LEMMA RefreshStep ==
  ASSUME IndInv, Refresh
  PROVE  IndInv'
<1> DEFINE active == svc.state \in {"active", "stopping"}
           bound == ses.bound \/ (ses.ctx # 0 /\ active /\ ~ses.uncertain)
           settled == svc.state \in {"stopped", "failed"}
           awaits == /\ ses.pending = "start" /\ ses.dispatched /\ ~bound
                     /\ svc.state = "stopped"
           done == \/ ses.pending = "start" /\ active
                   \/ ses.pending = "stop" /\ ~active
                   \/ settled
           pending == IF done /\ ~awaits THEN "none" ELSE ses.pending
           pc == IF svc.state = "stopped" /\ pending # "start" /\ ses.ctx # 0
                   THEN "finish" ELSE "idle"
           safety == ses.safety \/ (ses.ctx # 0 /\ active /\ ~ContextGood)
           z == [ses EXCEPT !.pc = pc, !.pending = pending, !.bound = bound,
                            !.active = active, !.safety = safety]
<1>1. ses' = z
  BY DEF Refresh
<1>2. /\ hold' \in {hold, Invalid(hold)}
      /\ UNCHANGED <<dash, lease, br, cmds, sts, svc>>
  BY DEF Refresh, Polled
<1>3. ses \in Session /\ ses.pending \in {"none", "start", "stop"}
  BY SharedTypes, SessionFields
<1>4. /\ active \in BOOLEAN /\ bound \in BOOLEAN /\ safety \in BOOLEAN
  OBVIOUS
<1>5. pending \in {"none", "start", "stop"}
  BY <1>3
<1>6. pc \in {"idle", "finish"} /\ (pc = "finish" => ses.ctx # 0)
  OBVIOUS
<1> HIDE DEF active, bound, pending, pc, safety
<1>7. z \in Session
  BY <1>3, <1>4, <1>5, <1>6 DEF Session
<1>8. z.pc = pc /\ z.ctx = ses.ctx
  BY <1>3 DEF Session
<1> HIDE DEF z
<1> QED
  BY <1>1, <1>2, <1>6, <1>7, <1>8, SessionOnly DEF IndInv, TypeOK, SessionPart

LEMMA RefreshFailsStep ==
  ASSUME IndInv, RefreshFails
  PROVE  IndInv'
<1> DEFINE safety == ses.safety \/ (ses.ctx # 0 /\ ses.dispatched)
<1>1. /\ ses' = [ses EXCEPT !.pc = "idle", !.safety = safety]
      /\ UNCHANGED <<hold, dash, lease, br, cmds, sts, svc>>
  BY DEF RefreshFails
<1>2. ses \in Session /\ safety \in BOOLEAN
  BY SharedTypes
<1> HIDE DEF safety
<1>3. ses' \in Session /\ ses'.pc # "finish"
  BY <1>1, <1>2 DEF Session
<1> QED
  BY <1>1, <1>3, SessionOnly DEF IndInv, TypeOK, SessionPart

LEMMA ServiceStep ==
  ASSUME IndInv, ServiceUp \/ ServiceDown
  PROVE  IndInv'
<1>1. /\ \/ svc' = [state |-> "active", late |-> FALSE]
         \/ svc' = [svc EXCEPT !.state = "failed"]
         \/ svc' = [svc EXCEPT !.state = "stopped"]
      /\ UNCHANGED <<hold, dash, lease, br, cmds, sts, ses>>
  BY DEF ServiceUp, ServiceDown
<1>2. svc' \in [state : {"stopped", "queued", "active", "stopping", "failed"},
                late : BOOLEAN]
  <2>1. svc \in [state : {"stopped", "queued", "active", "stopping", "failed"},
                 late : BOOLEAN]
    BY DEF IndInv, TypeOK
  <2>2. FALSE \in BOOLEAN
    OBVIOUS
  <2>3. CASE svc' = [state |-> "active", late |-> FALSE]
    BY <2>2, <2>3
  <2>4. CASE svc' # [state |-> "active", late |-> FALSE]
    BY <1>1, <2>1, <2>4
  <2> QED
    BY <2>3, <2>4
<1>3. ses' \in Session /\ SessionPart'
  BY <1>1, SharedTypes DEF IndInv, SessionPart
<1> QED
  BY <1>1, <1>2, <1>3, SessionOnly

\* The hold ends beside a bridge that is not running.
LEMMA FinishDown ==
  ASSUME IndInv, ~br.up, hold.token = ses.ctx, hold' = NoHold,
         dash' = [dash EXCEPT !.receipt = ses.ctx],
         ses' = [ses EXCEPT !.pc = "idle", !.ctx = 0],
         UNCHANGED <<lease, br, cmds, sts, svc>>
  PROVE  IndInv'
<1>1. hold \in Hold /\ dash \in Dash /\ ses \in Session
  BY SharedTypes
<1>2. hold.token \in Tokens /\ 0 \in Tokens
  BY <1>1, BoundsAssumption DEF Hold, Tokens
<1>3. dash' \in Dash /\ ses' \in Session /\ ses'.pc # "finish"
  BY <1>1, <1>2 DEF Dash, Session
<1>4. /\ dash'.epoch = dash.epoch /\ dash'.seq = dash.seq
      /\ dash'.receipt = hold.token /\ dash'.tokens = dash.tokens
      /\ dash'.drives = dash.drives /\ dash'.leases = dash.leases
  BY <1>1 DEF Dash
<1>5. /\ hold' \in Hold /\ hold'.token = 0
      /\ ~hold'.acknowledged /\ ~hold'.releasing
  BY NoHoldFacts
<1>6. TypeOK' /\ SessionPart'
  BY <1>3, <1>5 DEF IndInv, TypeOK, SessionPart, Dash
<1>7. CounterPart'
  <2>1. /\ Unfreed' = 0 /\ Unfreed \in {0, 1}
        /\ Unstopped' = Unstopped /\ Unstopped \in {0, 1}
    BY <1>5 DEF Unfreed, Unstopped
  <2> HIDE DEF Unfreed, Unstopped
  <2> QED
    BY <1>1, <1>4, <1>5, <2>1, DashFields DEF IndInv, CounterPart
<1>8. CommandsPart'
  BY <1>4, <1>5 DEF IndInv, CommandsPart
<1>9. BridgePart' /\ StatusPart' /\ AckPart'
  BY <1>4 DEF IndInv, BridgePart, StatusPart, AckPart, Behind
<1>10. HoldPart' /\ ReceiptPart'
  BY <1>5 DEF HoldPart, ReceiptPart
<1> QED
  BY <1>6, <1>7, <1>8, <1>9, <1>10 DEF IndInv

\* The release of the hold, with the free sent or, in a new epoch, not sent.
LEMMA FinishRelease ==
  ASSUME IndInv, ses.pc = "finish", hold.token = ses.ctx, ~hold.releasing,
         hold' = [hold EXCEPT !.releasing = TRUE, !.releaseSeq = dash.seq + 1,
                              !.reason = @ \/ dash.epoch # hold.epoch],
         IF dash.epoch = hold.epoch
           THEN /\ Send("free", ses.ctx)
                /\ dash' = [dash EXCEPT !.seq = dash.seq + 1]
           ELSE UNCHANGED <<cmds, dash>>,
         ses' = [ses EXCEPT !.pc = "idle"],
         UNCHANGED <<lease, br, sts, svc>>
  PROVE  IndInv'
<1> DEFINE reason == hold.reason \/ dash.epoch # hold.epoch
           h == [hold EXCEPT !.releasing = TRUE, !.releaseSeq = dash.seq + 1,
                             !.reason = reason]
           c == [kind |-> "free", token |-> ses.ctx, epoch |-> dash.epoch,
                 seq |-> dash.seq + 1]
<1>1. /\ hold \in Hold /\ dash \in Dash /\ ses \in Session
      /\ cmds \subseteq Command
  BY SharedTypes
<1>2. ses.ctx # 0 /\ hold.token # 0 /\ ses.ctx \in Tokens
  BY <1>1 DEF IndInv, SessionPart, Session
<1>3. dash.seq + 1 \in Seqs
  BY <1>2, NumberLeft
<1>4. hold' = h /\ reason \in BOOLEAN
  OBVIOUS
<1> HIDE DEF reason
<1>5. h \in Hold
  BY <1>1, <1>3, <1>4 DEF Hold
<1>6. /\ h.token = hold.token /\ h.epoch = hold.epoch /\ h.releasing
      /\ h.acknowledged = hold.acknowledged
  BY <1>1 DEF Hold
<1> HIDE DEF h
<1>7. ses' \in Session /\ ses'.pc # "finish"
  BY <1>1 DEF Session
<1>8. /\ hold'.token = hold.token /\ hold'.epoch = hold.epoch
      /\ hold'.releasing /\ (hold'.acknowledged => hold.acknowledged)
  BY <1>4, <1>6
<1>9. /\ dash.seq \in Nat /\ dash.tokens \in Nat /\ dash.epoch \in Nat
      /\ dash.drives \in Nat /\ dash.leases \in Nat
      /\ \A d \in cmds : d.seq \in Nat /\ d.seq <= dash.seq
  BY <1>1, DashFields, CommandFields DEF IndInv, CommandsPart
<1>10. \A d \in cmds : d.seq < dash.seq + 1 /\ d.seq <= dash.seq + 1
  BY <1>9
<1>11. /\ Unfreed = 1 /\ Unfreed' = 0 /\ Unstopped' = Unstopped
       /\ Unstopped \in {0, 1}
  BY <1>2, <1>8 DEF Unfreed, Unstopped
<1>12. CASE dash.epoch # hold.epoch
  <2>1. UNCHANGED <<cmds, dash>>
    BY <1>12
  <2>2. TypeOK' /\ SessionPart'
    BY <1>4, <1>5, <1>7, <2>1 DEF IndInv, TypeOK, SessionPart
  <2>3. CounterPart'
    <3> HIDE DEF Unfreed, Unstopped
    <3> QED
      BY <1>2, <1>8, <1>9, <1>11, <2>1 DEF IndInv, CounterPart
  <2>4. CommandsPart'
    BY <1>8, <2>1 DEF IndInv, CommandsPart
  <2>5. BridgePart' /\ StatusPart' /\ AckPart' /\ HoldPart' /\ ReceiptPart'
    BY <1>8, <2>1 DEF IndInv, BridgePart, StatusPart, AckPart, Behind, HoldPart,
                      ReceiptPart
  <2> QED
    BY <2>2, <2>3, <2>4, <2>5 DEF IndInv
<1>13. CASE dash.epoch = hold.epoch
  <2>1. Send("free", ses.ctx) /\ dash' = [dash EXCEPT !.seq = dash.seq + 1]
    BY <1>13
  <2>2. /\ c \in Command /\ c.kind = "free" /\ c.token = hold.token
        /\ c.epoch = dash.epoch /\ c.seq = dash.seq + 1
        /\ cmds' = cmds \cup {c} /\ cmds' \subseteq Command
    BY <1>2, <1>3, <2>1, SendFacts
  <2> HIDE DEF c
  <2>3. dash' \in Dash
    BY <1>1, <1>3, <2>1 DEF Dash
  <2>4. /\ dash'.epoch = dash.epoch /\ dash'.seq = dash.seq + 1
        /\ dash'.receipt = dash.receipt /\ dash'.tokens = dash.tokens
        /\ dash'.drives = dash.drives /\ dash'.leases = dash.leases
    BY <1>1, <2>1 DEF Dash
  <2>5. TypeOK' /\ SessionPart'
    BY <1>4, <1>5, <1>7, <2>2, <2>3 DEF IndInv, TypeOK, SessionPart, Dash
  <2>6. CounterPart'
    <3> HIDE DEF Unfreed, Unstopped
    <3> QED
      BY <1>2, <1>8, <1>9, <1>11, <2>4 DEF IndInv, CounterPart
  <2>7. CommandsPart'
    <3>1. /\ c.seq <= dash.seq + 1 /\ c.epoch <= br.epoch
          /\ c.token <= dash.tokens /\ c.token # 0
      BY <1>2, <1>9, <2>2 DEF IndInv, CounterPart
    <3> QED
      BY <1>8, <1>10, <2>2, <2>4, <3>1 DEF IndInv, CommandsPart
  <2>8. BridgePart' /\ StatusPart'
    BY <2>2, <2>4 DEF IndInv, BridgePart, StatusPart
  <2>9. AckPart' /\ HoldPart' /\ ReceiptPart'
    BY <1>8, <2>2, <2>4 DEF IndInv, AckPart, Behind, HoldPart, ReceiptPart
  <2> QED
    BY <2>5, <2>6, <2>7, <2>8, <2>9 DEF IndInv
<1> QED
  BY <1>12, <1>13

LEMMA FinishStep ==
  ASSUME IndInv, Finish
  PROVE  IndInv'
<1> DEFINE ctx == IF HoldState(ses.ctx) = "RELEASED" THEN 0 ELSE ses.ctx
<1>1. ses.pc = "finish" /\ UNCHANGED <<lease, br, sts, svc>>
  BY DEF Finish
<1>2. ses \in Session /\ ses.ctx \in Tokens /\ 0 \in Tokens
  BY SharedTypes, BoundsAssumption DEF Session, Tokens
<1>3. CASE ses' = [ses EXCEPT !.pc = "idle"] /\ UNCHANGED <<hold, dash, cmds>>
  <2>1. ses' \in Session /\ ses'.pc # "finish"
    BY <1>2, <1>3 DEF Session
  <2> QED
    BY <1>1, <1>3, <2>1, SessionOnly DEF IndInv, TypeOK, SessionPart
<1>4. CASE /\ ses' = [ses EXCEPT !.pc = "idle", !.ctx = ctx]
           /\ UNCHANGED <<hold, dash, cmds>>
  <2>1. ctx \in Tokens
    BY <1>2
  <2> HIDE DEF ctx
  <2>2. ses' \in Session /\ ses'.pc # "finish"
    BY <1>2, <1>4, <2>1 DEF Session
  <2> QED
    BY <1>1, <1>4, <2>2, SessionOnly DEF IndInv, TypeOK, SessionPart
<1>5. CASE /\ ~br.up /\ hold.token # ses.ctx
           /\ ses' = [ses EXCEPT !.pc = "idle", !.ctx = 0]
           /\ UNCHANGED <<hold, dash, cmds>>
  <2>1. ses' \in Session /\ ses'.pc # "finish"
    BY <1>2, <1>5 DEF Session
  <2> QED
    BY <1>1, <1>5, <2>1, SessionOnly DEF IndInv, TypeOK, SessionPart
<1>6. CASE /\ ~br.up /\ hold.token = ses.ctx /\ hold' = NoHold
           /\ dash' = [dash EXCEPT !.receipt = ses.ctx]
           /\ ses' = [ses EXCEPT !.pc = "idle", !.ctx = 0]
           /\ cmds' = cmds
  BY <1>1, <1>6, FinishDown
<1>7. CASE /\ hold.token = ses.ctx /\ ~hold.releasing
           /\ hold' = [hold EXCEPT !.releasing = TRUE,
                                   !.releaseSeq = dash.seq + 1,
                                   !.reason = @ \/ dash.epoch # hold.epoch]
           /\ IF dash.epoch = hold.epoch
                THEN /\ Send("free", ses.ctx)
                     /\ dash' = [dash EXCEPT !.seq = dash.seq + 1]
                ELSE UNCHANGED <<cmds, dash>>
           /\ ses' = [ses EXCEPT !.pc = "idle"]
  BY <1>1, <1>7, FinishRelease
<1> QED
  BY <1>3, <1>4, <1>5, <1>6, <1>7 DEF Finish

-----------------------------------------------------------------------------
(* The theorems.                                                           *)

LEMMA InitInv == Init => IndInv
<1> SUFFICES ASSUME Init PROVE IndInv
  OBVIOUS
<1>1. 1 \in Epochs /\ 0 \in Epochs /\ 0 \in Tokens /\ 0 \in Seqs
        /\ 0 \in 0..MaxStatuses /\ 0 \in 0..MaxDrives
  BY BoundsAssumption DEF Epochs, Tokens, Seqs, MaxSeq
<1>2. /\ hold = NoHold /\ lease = FALSE /\ br = FreshBridge(1)
      /\ cmds = {} /\ sts = {}
  BY DEF Init
<1>3. dash \in Dash
  BY <1>1, NoStatusTyped DEF Init, Dash
<1>4. /\ dash.epoch = 0 /\ dash.seq = 0 /\ dash.receipt = 0 /\ dash.tokens = 0
      /\ dash.drives = 0 /\ dash.leases = 0
  BY DEF Init
<1>5. ses \in Session /\ ses.pc # "finish"
  BY <1>1 DEF Init, Session
<1>6. svc \in [state : {"stopped", "queued", "active", "stopping", "failed"},
               late : BOOLEAN]
  BY DEF Init
<1>7. /\ br \in Bridge /\ br.epoch = 1 /\ br.up /\ br.token = 0 /\ br.seq = 0
      /\ br.ack.token = 0 /\ br.ack.seq = 0
  BY <1>1, <1>2, FreshBridgeFacts
<1>8. TypeOK /\ SessionPart
  BY <1>2, <1>3, <1>5, <1>6, <1>7, NoHoldFacts DEF TypeOK, SessionPart, Dash
<1>9. CounterPart
  <2>1. Unfreed = 0 /\ Unstopped = 0
    BY <1>2, NoHoldFacts DEF Unfreed, Unstopped
  <2> HIDE DEF Unfreed, Unstopped
  <2> QED
    BY <1>2, <1>4, <1>7, <2>1, NoHoldFacts DEF CounterPart
<1>10. CommandsPart /\ StatusPart
  BY <1>2 DEF CommandsPart, StatusPart
<1>11. BridgePart /\ AckPart
  BY <1>2, <1>4, <1>7 DEF BridgePart, AckPart, Behind
<1>12. HoldPart /\ ReceiptPart
  BY <1>2, <1>4, NoHoldFacts DEF HoldPart, ReceiptPart
<1> QED
  BY <1>8, <1>9, <1>10, <1>11, <1>12 DEF IndInv

LEMMA NextInv == IndInv /\ [Next]_vars => IndInv'
<1> SUFFICES ASSUME IndInv, [Next]_vars PROVE IndInv'
  OBVIOUS
<1>1. CASE Transport
  BY <1>1, ReceiveStatusStep, RetiredStatusStep, GoStaleStep, AcquireLeaseStep,
     DriveStep, ReleaseLeaseStep DEF Transport
<1>2. CASE Core
  BY <1>2, BridgeAcceptStep, BridgeQuietStep, BridgeStatusStep, BridgeStopStep,
     BridgeStartStep DEF Core
<1>3. CASE Owner
  BY <1>3, SessionStartStep, WaitStep, DispatchStartStep, SessionStopStep,
     RefreshStep, RefreshFailsStep, FinishStep DEF Owner
<1>4. CASE ServiceUp \/ ServiceDown
  BY <1>4, ServiceStep
<1>5. CASE UNCHANGED vars
  <2>1. UNCHANGED <<hold, dash, lease, br, cmds, sts, ses, svc>>
    BY <1>5 DEF vars
  <2>2. TypeOK' /\ SessionPart'
    BY <2>1 DEF IndInv, TypeOK, SessionPart
  <2> QED
    BY <2>1, <2>2, NothingMoves
<1> QED
  BY <1>1, <1>2, <1>3, <1>4, <1>5 DEF Next

\* The inductive invariant holds in every reachable state of the dashboard,
\* the bridge and the messages between them.
THEOREM InhibitInvariant == Spec => []IndInv
<1>1. Init => IndInv
  BY InitInv
<1>2. IndInv /\ [Next]_vars => IndInv'
  BY NextInv
<1> QED
  BY <1>1, <1>2, PTL DEF Spec

\* Every variable keeps its type; in particular the numbers the transport
\* signs never exceed what tokens, drives and leases account for.
THEOREM InhibitTypeOK == Spec => []TypeOK
<1>1. IndInv => TypeOK
  BY DEF IndInv
<1> QED
  BY <1>1, InhibitInvariant, PTL

\* A hold the transport reports as held is held by the bridge process that
\* acknowledged it, however late or repeated its statuses arrived.
THEOREM HeldMeansInhibited == Spec => []HeldIsInhibited
<1>1. IndInv => HeldIsInhibited
  <2> SUFFICES ASSUME IndInv, hold.acknowledged, ~hold.releasing,
                      br.epoch = hold.epoch, br.up
               PROVE  br.token = hold.token
    BY DEF HeldIsInhibited
  <2>1. hold.token # 0
    BY DEF IndInv, CounterPart
  <2>2. PICK s \in sts : s.epoch = hold.epoch /\ s.token = hold.token
    BY DEF IndInv, HoldPart
  <2>3. ~\E d \in cmds : d.kind = "free" /\ d.token = s.token
    BY <2>2 DEF IndInv, CommandsPart
  <2> QED
    BY <2>1, <2>2, <2>3 DEF IndInv, StatusPart
<1> QED
  BY <1>1, InhibitInvariant, PTL

\* A release receipt stays true: the running bridge does not hold the token
\* of the receipt, and no late or repeated command makes it hold it again.
THEOREM ReceiptsAreTrue == Spec => []ReceiptIsTrue
<1>1. IndInv => ReceiptIsTrue
  BY DEF IndInv, ReceiptPart, ReceiptIsTrue
<1> QED
  BY <1>1, InhibitInvariant, PTL
=============================================================================
