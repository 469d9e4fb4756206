------------------------- MODULE ObservationInhibit -------------------------
(***************************************************************************)
(* The observation-only session: FAST-LIO may observe beside a running     *)
(* control bridge only while the bridge is inhibited.                      *)
(*                                                                         *)
(* Four parties: the session (application/fastlio_observation.py), which   *)
(* starts and stops the observation service through systemd; the dashboard *)
(* transport (ros/control_transport.py), which asks for the inhibit and    *)
(* judges the bridge's signed statuses; the bridge core (go2_bridge.py),   *)
(* which holds the inhibit; and the service itself (external).  Commands   *)
(* and statuses travel as datagrams: cmds and sts keep everything ever     *)
(* sent, so that a message may arrive late, twice, out of order or never.  *)
(*                                                                         *)
(* Tokens are numbers, a reason is reduced to whether there is one, time   *)
(* to whether the newest status is still fresh.  A bridge that systemd     *)
(* reports inactive at the start needs no inhibit and is left out, as are  *)
(* the handoff receipts and the selection of input topics.                 *)
(***************************************************************************)
EXTENDS Naturals

CONSTANTS
    MaxTokens,     \* bound: inhibits requested
    MaxStatuses,   \* bound: statuses the bridge sends in one epoch
    MaxDrives,     \* bound: leases and drive commands of the operator
    MaxRestarts    \* bound: restarts of the bridge

ASSUME BoundsAssumption ==
    /\ MaxTokens \in Nat /\ MaxStatuses \in Nat
    /\ MaxDrives \in Nat /\ MaxRestarts \in Nat

VARIABLES
    hold,   \* ControlTransport._observation_inhibit (token 0: none)
    dash,   \* the rest of the transport: epoch, counters, newest status
    lease,  \* whether an operator drives through the control manager
    br,     \* the bridge core
    cmds,   \* commands sent to the bridge
    sts,    \* statuses sent by the bridge
    ses,    \* FastlioObservationSession
    svc     \* the observation service, as systemd runs it

vars == <<hold, dash, lease, br, cmds, sts, ses, svc>>

Tokens == 0..MaxTokens
Epochs == 0..(MaxRestarts + 1)
MaxSeq == 2 * MaxTokens + 2 * MaxDrives
Seqs   == 0..MaxSeq
Ack    == [token : Tokens, seq : Seqs]
NoAck  == [token |-> 0, seq |-> 0]

Hold    == [token : Tokens, epoch : Epochs, acknowledged : BOOLEAN,
            releasing : BOOLEAN, releaseSeq : Seqs, reason : BOOLEAN]
NoHold  == [token |-> 0, epoch |-> 0, acknowledged |-> FALSE,
            releasing |-> FALSE, releaseSeq |-> 0, reason |-> FALSE]
Status  == [epoch : Epochs, n : 0..MaxStatuses, token : Tokens,
            violated : BOOLEAN, ack : Ack, idle : BOOLEAN]
Command == [kind : {"hold", "free", "drive", "stop"}, token : Tokens,
            epoch : Epochs, seq : Seqs]
Bridge  == [epoch : Epochs, up : BOOLEAN, token : Tokens, violated : BOOLEAN,
            ack : Ack, n : 0..MaxStatuses, seq : Seqs, moving : BOOLEAN]
Session == [pc : {"idle", "waitHold", "dispatch", "refresh", "finish"},
            pending : {"none", "start", "stop"}, ctx : Tokens,
            invocation : Epochs, dispatched : BOOLEAN, uncertain : BOOLEAN,
            bound : BOOLEAN, stopAccepted : BOOLEAN, active : BOOLEAN,
            safety : BOOLEAN]

NoStatus == [epoch |-> 0, n |-> 0, token |-> 0, violated |-> FALSE,
             ack |-> NoAck, idle |-> FALSE]
FreshBridge(e) == [epoch |-> e, up |-> TRUE, token |-> 0, violated |-> FALSE,
                   ack |-> NoAck, n |-> 0, seq |-> 0, moving |-> FALSE]

Init ==
    /\ hold = NoHold
    /\ dash = [epoch |-> 0, retired |-> {}, last |-> 0, seq |-> 0, fresh |-> FALSE,
               status |-> NoStatus, receipt |-> 0, tokens |-> 0,
               drives |-> 0, leases |-> 0]
    /\ lease = FALSE
    /\ br = FreshBridge(1)
    /\ cmds = {} /\ sts = {}
    /\ ses = [pc |-> "idle", pending |-> "none", ctx |-> 0, invocation |-> 0,
              dispatched |-> FALSE, uncertain |-> FALSE, bound |-> FALSE,
              stopAccepted |-> FALSE, active |-> FALSE, safety |-> FALSE]
    /\ svc = [state |-> "stopped", late |-> FALSE]

-----------------------------------------------------------------------------
(* The dashboard transport.                                                *)

Invalid(h) == IF h.token = 0 THEN h ELSE [h EXCEPT !.reason = TRUE]

\* _publish_outputs_result with one output.
Send(kind, token) ==
    /\ dash.epoch # 0
    /\ cmds' = cmds \cup {[kind |-> kind, token |-> token,
                           epoch |-> dash.epoch, seq |-> dash.seq + 1]}

\* _inhibit_status_error: the newest status is fresh and shows an idle bridge.
StatusGood == dash.fresh /\ dash.status.idle

\* What observation_inhibit_status reports of the hold.
HoldState(t) ==
    IF hold.token # t \/ t = 0
    THEN IF dash.receipt = t /\ t # 0 THEN "RELEASED" ELSE "INVALID"
    ELSE IF hold.releasing THEN "RELEASING"
    ELSE IF hold.reason \/ ~StatusGood THEN "INVALID"
    ELSE IF hold.acknowledged THEN "HELD" ELSE "WAITING"

\* Mutant: any status without an inhibit confirms the release.
ObservedAnyOff(h, s) ==
    IF h.token = 0 THEN h
    ELSE IF s.epoch # h.epoch \/ s.n <= dash.last \/ ~s.idle THEN Invalid(h)
    ELSE IF h.releasing /\ s.token = 0 THEN NoHold
    ELSE IF s.token = h.token
         THEN [h EXCEPT !.acknowledged = TRUE, !.reason = @ \/ s.violated \/ ~dash.fresh]
    ELSE Invalid(h)

\* status_callback and _observe_inhibit_status: a gap before this status,
\* another epoch, a repeated number, a busy bridge, a proof that is missing,
\* foreign or violated each invalidate the hold.
Observed(h, s) ==
    LET gap   == IF dash.fresh THEN h ELSE Invalid(h)
        newer == s.n > dash.last
    IN
    IF h.token = 0 THEN h
    ELSE IF s.epoch # h.epoch \/ ~newer \/ ~s.idle THEN Invalid(h)
    ELSE IF /\ h.releasing /\ s.token = 0
            /\ s.ack = [token |-> h.token, seq |-> h.releaseSeq]
         THEN NoHold
    ELSE IF s.token = h.token
         THEN [gap EXCEPT !.acknowledged = TRUE, !.reason = @ \/ s.violated]
    ELSE IF h.acknowledged \/ s.token # 0 THEN Invalid(h)
    ELSE gap

\* An epoch is retired when the transport has seen another one replace it;
\* one it never saw is adopted however late it comes.
Retired(e) == e # dash.epoch /\ e \in dash.retired

ReceiveStatus(s) ==
    /\ s \in sts /\ ~Retired(s.epoch)
    /\ hold' = Observed(hold, s)
    /\ dash' = [dash EXCEPT
         !.epoch = s.epoch, !.fresh = TRUE, !.status = s,
         !.retired = IF dash.epoch \in {0, s.epoch} THEN @ ELSE @ \cup {dash.epoch},
         !.last = IF hold.token # 0 /\ s.epoch = hold.epoch /\ s.n > @
                  THEN s.n ELSE @,
         !.receipt = IF hold.token # 0 /\ hold'.token = 0 THEN hold.token ELSE @]
    /\ UNCHANGED <<lease, br, cmds, sts, ses, svc>>

\* A late status of a retired epoch: set_unready.
RetiredStatus(s) ==
    /\ s \in sts /\ Retired(s.epoch)
    /\ hold' = Invalid(hold)
    /\ dash' = [dash EXCEPT !.fresh = FALSE, !.status = NoStatus]
    /\ UNCHANGED <<lease, br, cmds, sts, ses, svc>>

\* No status for longer than the limit.
GoStale ==
    /\ dash.fresh
    /\ dash' = [dash EXCEPT !.fresh = FALSE]
    /\ UNCHANGED <<hold, lease, br, cmds, sts, ses, svc>>

\* observation_inhibit_preflight.
Admissible ==
    /\ hold.token = 0 /\ StatusGood /\ dash.status.token = 0
    /\ ~dash.status.violated /\ ~lease

\* The operator's lease, with the stop that ends it.  A drive that meets a
\* hold is not sent and invalidates it.
AcquireLease ==
    /\ ~lease /\ dash.leases < MaxDrives
    /\ lease' = TRUE
    /\ dash' = [dash EXCEPT !.leases = @ + 1]
    /\ UNCHANGED <<hold, br, cmds, sts, ses, svc>>

Drive ==
    /\ lease /\ dash.drives < MaxDrives
    /\ IF hold.token # 0
       THEN hold' = Invalid(hold) /\ UNCHANGED <<dash, cmds>>
       ELSE /\ Send("drive", 0)
            /\ dash' = [dash EXCEPT !.seq = @ + 1, !.drives = @ + 1]
            /\ hold' = hold
    /\ UNCHANGED <<lease, br, sts, ses, svc>>

ReleaseLease ==
    /\ lease /\ Send("stop", 0)
    /\ dash' = [dash EXCEPT !.seq = @ + 1]
    /\ lease' = FALSE
    /\ UNCHANGED <<hold, br, sts, ses, svc>>

-----------------------------------------------------------------------------
(* The bridge core.                                                        *)

\* Mutant: a stop also releases the inhibit.
BridgeAcceptStopFrees(c) ==
    /\ c \in cmds /\ br.up
    /\ c.epoch = br.epoch /\ c.seq > br.seq
    /\ br' = [br EXCEPT
         !.seq = c.seq,
         !.token = IF c.kind = "hold" /\ @ = 0 /\ ~br.moving THEN c.token
                   ELSE IF c.kind \in {"free", "stop"} THEN 0 ELSE @,
         !.moving = IF c.kind = "stop" THEN FALSE
                    ELSE IF c.kind = "drive" THEN br.token = 0 ELSE @]
    /\ UNCHANGED <<hold, dash, lease, cmds, sts, ses, svc>>

\* accept: the epoch must match and the number must be new; then the inhibit
\* goes to the exact owner, and motion is refused while it is held.
BridgeAccept(c) ==
    /\ c \in cmds /\ br.up
    /\ c.epoch = br.epoch /\ c.seq > br.seq
    /\ br' = [br EXCEPT
         !.seq = c.seq,
         !.token = IF c.kind = "hold" /\ @ = 0 /\ ~br.moving THEN c.token
                   ELSE IF c.kind = "free" /\ @ = c.token THEN 0 ELSE @,
         !.ack = IF c.kind = "free" /\ br.token = c.token /\ c.token # 0
                 THEN [token |-> c.token, seq |-> c.seq] ELSE @,
         !.violated = IF c.kind = "hold" /\ br.token = 0 THEN FALSE
                      ELSE IF c.kind = "free" /\ br.token = c.token THEN FALSE
                      ELSE @ \/ (br.token # 0 /\ c.kind \in {"drive", "stop"}),
         !.moving = IF c.kind = "stop" THEN FALSE
                    ELSE IF c.kind = "drive" THEN br.token = 0 ELSE @]
    /\ UNCHANGED <<hold, dash, lease, cmds, sts, ses, svc>>

\* The watchdog ends a motion nobody renews.
BridgeWatchdog ==
    /\ br.moving
    /\ br' = [br EXCEPT !.moving = FALSE]
    /\ UNCHANGED <<hold, dash, lease, cmds, sts, ses, svc>>

\* The graph is not as it should be for a moment: a held inhibit is violated.
BridgeUnready ==
    /\ br.up /\ br.token # 0 /\ ~br.violated
    /\ br' = [br EXCEPT !.violated = TRUE]
    /\ UNCHANGED <<hold, dash, lease, cmds, sts, ses, svc>>

BridgeStatus ==
    /\ br.up /\ br.n < MaxStatuses
    /\ br' = [br EXCEPT !.n = @ + 1]
    /\ sts' = sts \cup {[epoch |-> br.epoch, n |-> br.n + 1, token |-> br.token,
                         violated |-> br.violated, ack |-> br.ack,
                         idle |-> ~br.moving]}
    /\ UNCHANGED <<hold, dash, lease, cmds, ses, svc>>

BridgeStop ==
    /\ br.up /\ br.epoch <= MaxRestarts
    /\ br' = [br EXCEPT !.up = FALSE, !.moving = FALSE]
    /\ UNCHANGED <<hold, dash, lease, cmds, sts, ses, svc>>

BridgeStart ==
    /\ ~br.up
    /\ br' = FreshBridge(br.epoch + 1)
    /\ UNCHANGED <<hold, dash, lease, cmds, sts, ses, svc>>

-----------------------------------------------------------------------------
(* The session.  Its requests and its refresh run one at a time, under     *)
(* pipeline_coordination_lock and _io_lock.                                *)

\* observation_inhibit_status has an effect: a stale status invalidates.
Polled == IF hold.token = ses.ctx /\ ~StatusGood THEN Invalid(hold) ELSE hold

\* start: everything is idle and the bridge admissible; the inhibit is
\* requested and the acknowledgement awaited.
SessionStart ==
    /\ ses.pc = "idle" /\ ses.ctx = 0 /\ ses.pending = "none"
    /\ svc.state \in {"stopped", "failed"}
    /\ br.up /\ Admissible /\ dash.tokens < MaxTokens
    /\ LET t == dash.tokens + 1 IN
       /\ Send("hold", t)
       /\ hold' = [NoHold EXCEPT !.token = t, !.epoch = dash.epoch]
       /\ dash' = [dash EXCEPT !.tokens = t, !.seq = @ + 1, !.last = dash.status.n]
       /\ ses' = [ses EXCEPT !.pc = "waitHold", !.pending = "start", !.ctx = t,
                             !.invocation = br.epoch, !.dispatched = FALSE,
                             !.uncertain = FALSE, !.bound = FALSE,
                             !.stopAccepted = FALSE, !.safety = FALSE]
    /\ UNCHANGED <<lease, br, sts, svc>>

\* Mutant: only the control owner is checked.
ContextGoodOwner == ~lease

\* _check_bridge_context: the same bridge, no control owner, the hold held.
ContextGood ==
    /\ br.up /\ br.epoch = ses.invocation /\ ~lease
    /\ ~hold.reason
    /\ ses.pending # "start" => HoldState(ses.ctx) = "HELD"

\* The acknowledgement arrives, or the wait fails or times out.
HoldArrives ==
    /\ ses.pc = "waitHold"
    /\ HoldState(ses.ctx) = "HELD" /\ ContextGood
    /\ ses' = [ses EXCEPT !.pc = "dispatch"]
    /\ UNCHANGED <<hold, dash, lease, br, cmds, sts, svc>>

HoldFails ==
    /\ ses.pc = "waitHold"
    /\ hold' = Polled
    /\ ses' = [ses EXCEPT !.pc = "refresh", !.pending = "none",
                          !.safety = @ \/ HoldState(ses.ctx) = "HELD"]
    /\ UNCHANGED <<dash, lease, br, cmds, sts, svc>>

\* service.dispatch("start"): accepted, or its outcome is unknown (it may
\* still take effect later, or never).
DispatchStart ==
    /\ ses.pc = "dispatch"
    /\ \/ /\ svc' = [svc EXCEPT !.state = "queued"]
          /\ ses' = [ses EXCEPT !.pc = "refresh", !.dispatched = TRUE]
       \/ /\ \E late \in BOOLEAN : svc' = [svc EXCEPT !.late = late]
          /\ ses' = [ses EXCEPT !.pc = "refresh", !.dispatched = TRUE,
                                !.uncertain = TRUE, !.safety = TRUE,
                                !.pending = "none"]
    /\ UNCHANGED <<hold, dash, lease, br, cmds, sts>>

\* stop: only the exact session that is seen active.
SessionStop ==
    /\ ses.pc = "idle" /\ ses.pending # "stop" /\ svc.state = "active"
    /\ \/ /\ svc' = [svc EXCEPT !.state = "stopping"]
          /\ ses' = [ses EXCEPT !.pc = "refresh", !.pending = "stop",
                                !.active = TRUE, !.stopAccepted = TRUE]
       \/ /\ svc' \in {svc, [svc EXCEPT !.state = "stopping"]}
          /\ ses' = [ses EXCEPT !.pc = "refresh", !.pending = "stop",
                                !.active = TRUE]
    /\ UNCHANGED <<hold, dash, lease, br, cmds, sts>>

\* _refresh up to the release: the service is read and the context checked.
Refresh ==
    /\ ses.pc \in {"idle", "refresh"}
    /\ LET active  == svc.state \in {"active", "stopping"}
           bound   == ses.bound \/ (ses.ctx # 0 /\ active /\ ~ses.uncertain)
           settled == svc.state \in {"stopped", "failed"}
           awaits  == /\ ses.pending = "start" /\ ses.dispatched /\ ~bound
                      /\ svc.state = "stopped"
           done    == \/ ses.pending = "start" /\ active
                      \/ ses.pending = "stop" /\ ~active
                      \/ settled
           pending == IF done /\ ~awaits THEN "none" ELSE ses.pending
       IN
       /\ hold' = IF active THEN Polled ELSE hold
       /\ ses' = [ses EXCEPT
            !.pc = IF svc.state = "stopped" /\ pending # "start" /\ ses.ctx # 0
                   THEN "finish" ELSE "idle",
            !.pending = pending, !.bound = bound, !.active = active,
            !.safety = @ \/ (ses.ctx # 0 /\ active /\ ~ContextGood)]
    /\ UNCHANGED <<dash, lease, br, cmds, sts, svc>>

\* The status query fails: the session keeps what it knows.
RefreshFails ==
    /\ ses.pc \in {"idle", "refresh"}
    /\ ses' = [ses EXCEPT !.pc = "idle",
                          !.safety = @ \/ (ses.ctx # 0 /\ ses.dispatched)]
    /\ UNCHANGED <<hold, dash, lease, br, cmds, sts, svc>>

\* Mutant: every refresh of a release under way signs and sends it again.
FinishResends ==
    /\ ses.pc = "finish"
    /\ ~(ses.dispatched /\ ~ses.stopAccepted) /\ br.up /\ hold.token = ses.ctx
    /\ Send("free", ses.ctx)
    /\ hold' = [hold EXCEPT !.releasing = TRUE, !.releaseSeq = dash.seq + 1]
    /\ dash' = [dash EXCEPT !.seq = @ + 1]
    /\ ses' = [ses EXCEPT !.pc = "idle"]
    /\ UNCHANGED <<lease, br, sts, svc>>

\* _finish_bridge_inhibit: once a start was dispatched only an accepted stop
\* lets the hold go; a bridge systemd reports inactive needs no message.
Finish ==
    /\ ses.pc = "finish"
    /\ LET keep == ses.dispatched /\ ~ses.stopAccepted
           mine == hold.token = ses.ctx
       IN
       \/ /\ keep
          /\ ses' = [ses EXCEPT !.pc = "idle"]
          /\ UNCHANGED <<hold, dash, cmds>>
       \/ /\ ~keep /\ ~br.up
          /\ hold' = IF mine THEN NoHold ELSE hold
          /\ dash' = IF mine THEN [dash EXCEPT !.receipt = ses.ctx] ELSE dash
          /\ ses' = [ses EXCEPT !.pc = "idle", !.ctx = 0]
          /\ cmds' = cmds
       \/ /\ ~keep /\ br.up /\ mine /\ ~hold.releasing
          /\ hold' = [hold EXCEPT !.releasing = TRUE, !.releaseSeq = dash.seq + 1,
                                  !.reason = @ \/ dash.epoch # hold.epoch]
          /\ IF dash.epoch = hold.epoch
             THEN Send("free", ses.ctx) /\ dash' = [dash EXCEPT !.seq = @ + 1]
             ELSE UNCHANGED <<cmds, dash>>
          /\ ses' = [ses EXCEPT !.pc = "idle"]
       \/ /\ ~keep /\ br.up /\ ~(mine /\ ~hold.releasing)
          /\ ses' = [ses EXCEPT !.pc = "idle",
                       !.ctx = IF HoldState(ses.ctx) = "RELEASED" THEN 0 ELSE @]
          /\ UNCHANGED <<hold, dash, cmds>>
    /\ UNCHANGED <<lease, br, sts, svc>>

-----------------------------------------------------------------------------
(* The observation service, run by systemd.                                *)

ServiceUp ==
    /\ svc.state = "queued" \/ (svc.late /\ svc.state \in {"stopped", "failed"})
    /\ svc' = [state |-> "active", late |-> FALSE]
    /\ UNCHANGED <<hold, dash, lease, br, cmds, sts, ses>>

\* A stop completes, or the service ends by itself (its time limit).
ServiceDown ==
    /\ svc.state \in {"active", "stopping"}
    /\ svc' = [svc EXCEPT !.state = IF @ = "active" THEN "failed" ELSE "stopped"]
    /\ UNCHANGED <<hold, dash, lease, br, cmds, sts, ses>>

-----------------------------------------------------------------------------
Transport == \/ \E s \in sts : ReceiveStatus(s) \/ RetiredStatus(s)
             \/ GoStale \/ AcquireLease \/ Drive \/ ReleaseLease
Core      == \/ \E c \in cmds : BridgeAccept(c)
             \/ BridgeWatchdog \/ BridgeUnready \/ BridgeStatus
             \/ BridgeStop \/ BridgeStart
Owner     == \/ SessionStart \/ HoldArrives \/ HoldFails \/ DispatchStart
             \/ SessionStop \/ Refresh \/ RefreshFails \/ Finish

Next == Transport \/ Core \/ Owner \/ ServiceUp \/ ServiceDown

\* The monitor refreshes every second and a query does not fail for ever; a
\* request under way goes on.
Fairness ==
    /\ SF_vars(Refresh)
    /\ WF_vars(HoldArrives \/ HoldFails) /\ WF_vars(DispatchStart) /\ WF_vars(Finish)

Spec == Init /\ [][Next]_vars /\ Fairness

-----------------------------------------------------------------------------
\* Every variable has the values its code can give it.
TypeOK ==
    /\ hold \in Hold
    /\ dash \in [epoch : Epochs, retired : SUBSET Epochs,
                 last : 0..MaxStatuses, seq : Seqs,
                 fresh : BOOLEAN, status : Status, receipt : Tokens,
                 tokens : Tokens, drives : 0..MaxDrives, leases : 0..MaxDrives]
    /\ lease \in BOOLEAN
    /\ br \in Bridge
    /\ cmds \subseteq Command /\ sts \subseteq Status
    /\ ses \in Session
    /\ svc \in [state : {"stopped", "queued", "active", "stopping", "failed"},
                late : BOOLEAN]

\* A hold the transport reports as held is really held: as long as the bridge
\* process is the one that acknowledged it, it still has this token, however
\* late or repeated the proofs were.
HeldIsInhibited ==
    hold.acknowledged /\ ~hold.releasing /\ br.epoch = hold.epoch /\ br.up
    => br.token = hold.token

\* A release receipt is true: the bridge does not hold that token, and no
\* late or repeated message makes it hold it again.
ReceiptIsTrue == dash.receipt # 0 /\ br.up => br.token # dash.receipt

\* A bridge that restarts under a running observation invalidates it.
LostInhibitInvalidates ==
    ses.ctx # 0 /\ svc.state = "active" /\ br.epoch # ses.invocation
    ~> ses.safety \/ svc.state # "active"
=============================================================================
