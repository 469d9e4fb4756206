---------------------- MODULE NavigationGatewayProofs ----------------------
(***************************************************************************)
(* What the gateway between Nav2 and the control lease promises, for any   *)
(* number of sessions, goals and faults of the environment.                *)
(*                                                                         *)
(* The argument: the generation counter tells the current goal from every  *)
(* older one (GoalsPart), so a late callback either finds the goal it      *)
(* belongs to, in a state that fits the callback, or changes nothing; and  *)
(* what an operation read in its first critical section is still good      *)
(* enough in its second one (HeldPart), because the callbacks that may run *)
(* in between leave a stop or a cancel behind.                             *)
(***************************************************************************)
EXTENDS NavigationGateway, TLAPS

-----------------------------------------------------------------------------
(* The inductive invariant.                                                *)

\* The session, its token and the lease belong together.
SessionPart ==
  /\ gw.active => gw.token # 0
  /\ gw.token # 0 => gw.active
  /\ gw.active => ~gw.localizing
  /\ gw.token <= gw.sessions
  /\ mgr.lease \in Sessions => gw.active /\ gw.token = mgr.lease
  /\ mgr.moving => mgr.lease # 0

\* The current goal, its handle and its cancel flag belong together.
CurrentPart ==
  /\ gw.goal <= gw.goals
  /\ gw.state \in Busy => gw.active /\ gw.goal # 0
  /\ gw.state \in {"pending", "active"} => ~gw.cancel
  /\ gw.state = "canceling" => gw.cancel
  /\ gw.handle # 0 => gw.active /\ gw.handle = gw.goal

\* What the callbacks of every goal still owe, and that only the current goal
\* carries the current generation.
GoalsPart == \A g \in Goals :
  /\ srv[g].gen <= gw.gen
  /\ g > gw.goals => srv[g].phase = "none"
  /\ srv[g].phase = "none" => srv[g].cb = "none" /\ tail[g] = "none"
  /\ srv[g].phase = "requested" => srv[g].cb = "respond"
  /\ srv[g].cb = "respond" => tail[g] = "none"
  /\ srv[g].phase # "none" /\ srv[g].gen = gw.gen =>
       /\ gw.active /\ gw.goal = g /\ held.by # "send"
       /\ srv[g].cb = "respond" =>
            gw.handle = 0 /\ gw.state \in {"pending", "canceling"}

\* An operation between its two sections.
HeldPart ==
  /\ held.by = "send" =>
       /\ held.goal = gw.goal /\ held.goal # 0 /\ gw.active
       /\ gw.state = "pending" /\ gw.handle = 0
       /\ srv[gw.goal].phase = "none"
  /\ held.by = "cancel" =>
       /\ held.goal \in {0, gw.goal}
       /\ gw.state \notin {"pending", "active"}
       /\ held.goal = 0 /\ gw.handle # 0 =>
            srv[gw.handle].asked \/ tail[gw.handle] = "registerCancel"
  /\ held.by = "velocity" /\ held.state = "active" =>
       gw.state = "active" \/ \E g \in Goals : tail[g] = "stop"

IndInv == /\ TypeOK /\ SessionPart /\ CurrentPart /\ GoalsPart /\ HeldPart
          /\ MotionHasActiveGoal /\ NoOrphanGoal

-----------------------------------------------------------------------------
(* Types of the fields, and of updated records.                            *)

LEMMA GatewayFields ==
  ASSUME NEW x \in Gateway
  PROVE  /\ x.active \in BOOLEAN /\ x.localizing \in BOOLEAN
         /\ x.token \in Nat /\ x.token <= MaxSessions
         /\ x.sessions \in Nat /\ x.sessions <= MaxSessions /\ x.gen \in Nat
         /\ x.goal \in Nat /\ x.goal <= MaxGoals /\ x.state \in Busy \cup Ended
         /\ x.goals \in Nat /\ x.goals <= MaxGoals
         /\ x.handle \in Nat /\ x.handle <= MaxGoals /\ x.cancel \in BOOLEAN
         /\ x.pose \in {"uninitialized", "localizing", "localized"}
BY BoundsAssumption DEF Gateway

LEMMA ServerFields ==
  ASSUME NEW s \in [Goals -> Server], NEW g \in Goals
  PROVE  /\ s[g] \in Server /\ s[g].gen \in Nat
         /\ s[g].asked \in BOOLEAN /\ s[g].unwatched \in BOOLEAN
BY DEF Server

\* The goal a positive number names.
LEMMA GoalNumber == \A n \in Nat : (n # 0 /\ n <= MaxGoals <=> n \in Goals)
BY BoundsAssumption DEF Goals

LEMMA ManagerFields ==
  ASSUME NEW m \in Manager
  PROVE  /\ m.lease \in Nat /\ m.lease <= MANUAL /\ m.moving \in BOOLEAN
         /\ m.faults \in 0..MaxFaults
         /\ [m EXCEPT !.moving = FALSE] \in Manager
         /\ [m EXCEPT !.moving = TRUE] \in Manager
         /\ [m EXCEPT !.moving = FALSE].lease = m.lease
         /\ [m EXCEPT !.moving = TRUE].lease = m.lease
         /\ ~[m EXCEPT !.moving = FALSE].moving
<1>1. /\ m.lease \in Nat /\ m.lease <= MANUAL /\ m.moving \in BOOLEAN
      /\ m.faults \in 0..MaxFaults
  BY BoundsAssumption DEF Manager, MANUAL
<1>2. /\ [m EXCEPT !.moving = FALSE] \in Manager
      /\ [m EXCEPT !.moving = TRUE] \in Manager
  BY DEF Manager
<1>3. QED BY <1>1, <1>2 DEF Manager

LEMMA LeaseTyped ==
  ASSUME NEW m \in Manager, NEW n \in 0..MANUAL, NEW b \in BOOLEAN
  PROVE  LET x == [m EXCEPT !.lease = n, !.moving = b]
         IN  x \in Manager /\ x.lease = n /\ (x.moving => b)
<1>1. [m EXCEPT !.lease = n, !.moving = b] \in Manager
  BY DEF Manager
<1>2. QED BY <1>1 DEF Manager

LEMMA FreeTyped ==
  Free \in [by : {"none", "send", "cancel", "velocity"},
           goal : 0..MaxGoals, state : Busy \cup Ended]
BY BoundsAssumption DEF Free, Ended

\* The server's record of one goal changes.
LEMMA ServerUpdate ==
  ASSUME NEW s \in [Goals -> Server], NEW g \in Goals, NEW r \in Server
  PROVE  /\ [s EXCEPT ![g] = r] \in [Goals -> Server]
         /\ [s EXCEPT ![g] = r][g] = r
         /\ \A h \in Goals : h # g => [s EXCEPT ![g] = r][h] = s[h]
OBVIOUS

\* Nav2 is asked to cancel goal g.
LEMMA AskedFacts ==
  ASSUME NEW s \in [Goals -> Server], NEW g \in Goals
  PROVE  LET t == [s EXCEPT ![g].asked = TRUE]
         IN  /\ t \in [Goals -> Server] /\ t[g].asked
             /\ \A h \in Goals :
                  /\ t[h].phase = s[h].phase /\ t[h].cb = s[h].cb
                  /\ t[h].gen = s[h].gen /\ t[h].unwatched = s[h].unwatched
                  /\ s[h].asked => t[h].asked
<1> DEFINE r == [s[g] EXCEPT !.asked = TRUE]
           t == [s EXCEPT ![g].asked = TRUE]
<1>1. r \in Server
  BY DEF Server
<1>2. /\ r.phase = s[g].phase /\ r.cb = s[g].cb /\ r.gen = s[g].gen
      /\ r.unwatched = s[g].unwatched /\ r.asked
  BY DEF Server
<1>3. t = [s EXCEPT ![g] = r]
  OBVIOUS
<1> HIDE DEF r
<1>4. t \in [Goals -> Server] /\ t[g] = r
  BY <1>1, <1>3
<1>5. \A h \in Goals : h # g => t[h] = s[h]
  BY <1>3
<1> HIDE DEF t
<1>6. t[g].asked
  BY <1>2, <1>4
<1>7. \A h \in Goals :
        /\ t[h].phase = s[h].phase /\ t[h].cb = s[h].cb
        /\ t[h].gen = s[h].gen /\ t[h].unwatched = s[h].unwatched
        /\ s[h].asked => t[h].asked
  <2> TAKE h \in Goals
  <2>1. CASE h = g
    BY <1>2, <1>4, <2>1
  <2>2. CASE h # g
    BY <1>5, <2>2
  <2>3. QED BY <2>1, <2>2
<1>8. QED BY <1>4, <1>6, <1>7 DEF t

\* A stop of the gateway keeps the lease and ends the session's own motion.
LEMMA HaltedFacts ==
  ASSUME IndInv
  PROVE  /\ Halted(mgr) \in Manager /\ Halted(mgr).lease = mgr.lease
         /\ Halted(mgr).moving => mgr.moving
         /\ Halted(mgr).moving => mgr.lease \notin Sessions
<1>1. mgr \in Manager
  BY DEF IndInv, TypeOK
<1>2. CASE gw.token # 0 /\ mgr.lease = gw.token
  <2>1. Halted(mgr) = [mgr EXCEPT !.moving = FALSE]
    BY <1>2 DEF Halted
  <2>2. QED BY <1>1, <2>1, ManagerFields
<1>3. CASE ~(gw.token # 0 /\ mgr.lease = gw.token)
  <2>1. Halted(mgr) = mgr
    BY <1>3 DEF Halted
  <2>2. mgr.lease \notin Sessions
    BY <1>3 DEF IndInv, SessionPart
  <2>3. QED BY <1>1, <2>1, <2>2
<1>4. QED BY <1>2, <1>3

-----------------------------------------------------------------------------
(* Three shapes of step that most operations share.                        *)

\* Only the manager and the inputs change, and perhaps an operation that holds
\* no cancel ends.
LEMMA ManagerStep ==
  ASSUME IndInv, UNCHANGED <<gw, srv, tail>>,
         held' = held \/ (held' = Free /\ held.by # "cancel"),
         inp' \in [fresh : BOOLEAN, located : BOOLEAN],
         owed' \in {"none", "navigation", "localization"},
         mgr' \in Manager,
         mgr'.lease \in Sessions => mgr'.lease = mgr.lease,
         mgr'.moving => mgr'.lease # 0,
         mgr'.moving /\ mgr'.lease \in Sessions =>
           \/ mgr.moving /\ held.by # "velocity"
           \/ gw.state = "active" \/ \E g \in Goals : tail[g] = "stop"
  PROVE  IndInv'
<1>1. TypeOK'
  BY FreeTyped DEF IndInv, TypeOK
<1>2. SessionPart' /\ CurrentPart'
  BY DEF IndInv, SessionPart, CurrentPart
<1>3. held'.by = held.by \/ (held'.by = "none" /\ held.by # "cancel")
  BY DEF Free
<1>4. GoalsPart' /\ NoOrphanGoal'
  BY <1>3 DEF IndInv, GoalsPart, NoOrphanGoal
<1>5. HeldPart'
  BY <1>3 DEF IndInv, HeldPart, Free
<1>6. MotionHasActiveGoal'
  BY <1>3 DEF IndInv, SessionPart, MotionHasActiveGoal
<1>7. QED BY <1>1, <1>2, <1>4, <1>5, <1>6 DEF IndInv

\* Only the initial pose and the localization-only session change.
LEMMA LocalizationStep ==
  ASSUME IndInv, UNCHANGED <<mgr, srv, tail, held>>,
         NEW b \in BOOLEAN, gw.active => ~b,
         NEW p \in {"uninitialized", "localizing", "localized"},
         gw' = [gw EXCEPT !.localizing = b, !.pose = p],
         inp' \in [fresh : BOOLEAN, located : BOOLEAN],
         owed' \in {"none", "navigation", "localization"}
  PROVE  IndInv'
<1>1. gw' \in Gateway
  BY DEF IndInv, TypeOK, Gateway
<1>2. /\ gw'.active = gw.active /\ gw'.token = gw.token
      /\ gw'.sessions = gw.sessions /\ gw'.gen = gw.gen /\ gw'.goal = gw.goal
      /\ gw'.state = gw.state /\ gw'.goals = gw.goals /\ gw'.handle = gw.handle
      /\ gw'.cancel = gw.cancel /\ gw'.localizing = b
  BY DEF IndInv, TypeOK, Gateway
<1>3. TypeOK'
  BY <1>1 DEF IndInv, TypeOK
<1>4. SessionPart' /\ CurrentPart'
  BY <1>2 DEF IndInv, SessionPart, CurrentPart
<1>5. GoalsPart' /\ NoOrphanGoal'
  BY <1>2 DEF IndInv, GoalsPart, NoOrphanGoal
<1>6. HeldPart' /\ MotionHasActiveGoal'
  BY <1>2 DEF IndInv, HeldPart, MotionHasActiveGoal
<1>7. QED BY <1>3, <1>4, <1>5, <1>6 DEF IndInv

\* The session closes: the lease is released and the goal asked to cancel.
LEMMA DeactivateStep ==
  ASSUME IndInv, Deactivate, UNCHANGED <<inp, tail>>, held'.by = "none",
         held' \in [by : {"none", "send", "cancel", "velocity"},
                    goal : 0..MaxGoals, state : Busy \cup Ended],
         owed' \in {"none", "navigation", "localization"}
  PROVE  IndInv'
<1>1. gw \in Gateway /\ srv \in [Goals -> Server] /\ mgr \in Manager
  BY DEF IndInv, TypeOK
<1>2. /\ gw' \in Gateway
      /\ gw'.active = FALSE /\ gw'.token = 0 /\ gw'.sessions = gw.sessions
      /\ gw'.gen = gw.gen + 1 /\ gw'.goal = gw.goal /\ gw'.goals = gw.goals
      /\ gw'.handle = 0 /\ gw'.cancel = FALSE /\ gw'.state \in Ended
  <2>1. gw' \in Gateway
    <3> DEFINE s == IF gw.state \in Busy THEN "canceled" ELSE gw.state
               z == [gw EXCEPT !.active = FALSE, !.token = 0, !.handle = 0,
                       !.cancel = FALSE, !.gen = gw.gen + 1, !.state = s,
                       !.pose = "uninitialized"]
    <3>1. s \in Busy \cup Ended /\ gw.gen + 1 \in Nat
      BY <1>1, GatewayFields DEF Ended
    <3>2. gw' = z
      BY DEF Deactivate
    <3>3. 0 \in 0..MaxSessions /\ 0 \in 0..MaxGoals
      BY BoundsAssumption
    <3> HIDE DEF s
    <3>4. z \in Gateway
      BY <1>1, <3>1, <3>3 DEF Gateway
    <3>5. QED BY <3>2, <3>4
  <2>2. /\ gw'.active = FALSE /\ gw'.token = 0 /\ gw'.sessions = gw.sessions
        /\ gw'.gen = gw.gen + 1 /\ gw'.goal = gw.goal /\ gw'.goals = gw.goals
        /\ gw'.handle = 0 /\ gw'.cancel = FALSE
    BY <1>1 DEF Deactivate, Gateway
  <2>3. gw'.state \in Ended
    BY <1>1, GatewayFields DEF Deactivate, Gateway, Ended
  <2>4. QED BY <2>1, <2>2, <2>3
<1>3. /\ mgr' \in Manager /\ mgr'.lease \notin Sessions
      /\ mgr'.moving => mgr'.lease # 0
  <2>1. CASE Owned
    <3>1. mgr' = [mgr EXCEPT !.lease = 0, !.moving = FALSE]
      BY <2>1 DEF Deactivate
    <3>2. 0 \in 0..MANUAL /\ 0 \notin Sessions
      BY BoundsAssumption DEF MANUAL, Sessions
    <3>3. mgr' \in Manager /\ mgr'.lease = 0 /\ ~mgr'.moving
      BY <1>1, <3>1, <3>2, LeaseTyped
    <3>4. QED BY <3>2, <3>3
  <2>2. CASE ~Owned
    BY <1>1, <2>2 DEF Deactivate, Owned, IndInv, SessionPart
  <2>3. QED BY <2>1, <2>2
<1>4. /\ srv' \in [Goals -> Server]
      /\ \A g \in Goals :
           /\ srv'[g].phase = srv[g].phase /\ srv'[g].cb = srv[g].cb
           /\ srv'[g].gen = srv[g].gen /\ srv'[g].unwatched = srv[g].unwatched
           /\ srv[g].asked \/ gw.handle = g => srv'[g].asked
  <2>1. CASE gw.handle = 0
    BY <1>1, <2>1, GoalNumber DEF Deactivate
  <2>2. CASE gw.handle # 0
    <3>1. gw.handle \in Goals
      BY <1>1, <2>2, GatewayFields, GoalNumber
    <3>2. srv' = [srv EXCEPT ![gw.handle].asked = TRUE]
      BY <2>2 DEF Deactivate
    <3>3. QED BY <1>1, <3>1, <3>2, AskedFacts
  <2>3. QED BY <2>1, <2>2
<1>5. TypeOK'
  BY <1>2, <1>3, <1>4 DEF IndInv, TypeOK
<1>6. SessionPart' /\ CurrentPart'
  BY <1>1, <1>2, <1>3, GatewayFields
  DEF IndInv, SessionPart, CurrentPart, Busy, Ended
<1>7. GoalsPart'
  BY <1>1, <1>2, <1>4, ServerFields, GatewayFields DEF IndInv, GoalsPart
<1>8. HeldPart' /\ MotionHasActiveGoal'
  BY <1>3 DEF HeldPart, MotionHasActiveGoal
<1>9. NoOrphanGoal'
  BY <1>4 DEF IndInv, NoOrphanGoal
<1>10. QED BY <1>5, <1>6, <1>7, <1>8, <1>9 DEF IndInv

-----------------------------------------------------------------------------
(* Sessions, inputs and the users of the manager.                          *)

LEMMA ActivateKeeps == ASSUME IndInv, Activate PROVE IndInv'
<1>1. gw \in Gateway /\ mgr \in Manager /\ srv \in [Goals -> Server]
  BY DEF IndInv, TypeOK
<1> DEFINE n == gw.sessions + 1
<1>2. /\ gw.sessions \in Nat /\ n \in 0..MaxSessions /\ n \in Sessions
      /\ n \in 0..MANUAL /\ n # 0 /\ gw.gen + 1 \in Nat /\ 0 \in 0..MaxGoals
      /\ gw.sessions <= n /\ n <= n
  BY <1>1, BoundsAssumption, GatewayFields DEF Activate, Sessions, MANUAL
<1>3. /\ gw' = [gw EXCEPT !.active = TRUE, !.token = n, !.sessions = n,
                  !.gen = gw.gen + 1, !.goal = 0, !.state = "idle",
                  !.handle = 0, !.cancel = FALSE, !.pose = "uninitialized"]
      /\ mgr' = [mgr EXCEPT !.lease = n, !.moving = FALSE]
      /\ held.by = "none" /\ ~gw.active /\ ~gw.localizing
      /\ UNCHANGED <<inp, srv, tail, held, owed>>
  BY DEF Activate, OperationLockFree, NoOwner
<1> HIDE DEF n
<1>4. gw' \in Gateway
  <2> DEFINE z == [gw EXCEPT !.active = TRUE, !.token = n, !.sessions = n,
                  !.gen = gw.gen + 1, !.goal = 0, !.state = "idle",
                  !.handle = 0, !.cancel = FALSE, !.pose = "uninitialized"]
  <2>1. z \in Gateway
    BY <1>1, <1>2 DEF Gateway, Ended
  <2>2. QED BY <1>3, <2>1
<1>5. /\ gw'.active /\ gw'.token = n /\ gw'.sessions = n
      /\ gw'.gen = gw.gen + 1 /\ gw'.goal = 0 /\ gw'.state = "idle"
      /\ gw'.handle = 0 /\ gw'.goals = gw.goals /\ ~gw'.localizing
  BY <1>1, <1>3 DEF Gateway
<1>6. mgr' \in Manager /\ mgr'.lease = n /\ ~mgr'.moving
  BY <1>1, <1>2, <1>3, LeaseTyped
<1>7. TypeOK'
  BY <1>3, <1>4, <1>6 DEF IndInv, TypeOK
<1>8. SessionPart'
  BY <1>2, <1>5, <1>6 DEF SessionPart
<1>9. CurrentPart'
  BY <1>1, <1>5, GatewayFields DEF CurrentPart, Busy
<1>10. GoalsPart'
  BY <1>1, <1>3, <1>5, ServerFields, GatewayFields DEF IndInv, GoalsPart
<1>11. HeldPart' /\ MotionHasActiveGoal' /\ NoOrphanGoal'
  BY <1>3, <1>6 DEF IndInv, HeldPart, MotionHasActiveGoal, NoOrphanGoal
<1>12. QED BY <1>7, <1>8, <1>9, <1>10, <1>11 DEF IndInv

LEMMA StopNavigationKeeps == ASSUME IndInv, StopNavigation PROVE IndInv'
BY DeactivateStep DEF StopNavigation, OperationLockFree, IndInv, TypeOK

LEMMA ControlTickKeeps == ASSUME IndInv, ControlTick PROVE IndInv'
BY DeactivateStep DEF ControlTick, OperationLockFree, IndInv, TypeOK

LEMMA EndLocalizationKeeps ==
  ASSUME IndInv, EndLocalization, UNCHANGED <<mgr, inp, srv, tail, held>>,
         owed' \in {"none", "navigation", "localization"}
  PROVE  IndInv'
BY LocalizationStep DEF EndLocalization, IndInv, TypeOK

LEMMA StopLocalizationKeeps == ASSUME IndInv, StopLocalization PROVE IndInv'
BY EndLocalizationKeeps DEF StopLocalization, IndInv, TypeOK

LEMMA ActivateLocalizationOnlyKeeps ==
  ASSUME IndInv, ActivateLocalizationOnly PROVE IndInv'
BY LocalizationStep DEF ActivateLocalizationOnly, NoOwner, IndInv, TypeOK

\* A pose estimate, manual or by the localiser.
LEMMA PoseKeeps ==
  ASSUME IndInv, NEW p \in {"uninitialized", "localizing", "localized"},
         gw' = [gw EXCEPT !.pose = p], UNCHANGED <<mgr, srv, tail, held, owed>>,
         inp' \in [fresh : BOOLEAN, located : BOOLEAN]
  PROVE  IndInv'
<1>1. gw \in Gateway /\ owed' \in {"none", "navigation", "localization"}
  BY DEF IndInv, TypeOK
<1>2. gw.localizing \in BOOLEAN /\ (gw.active => ~gw.localizing)
  BY <1>1, GatewayFields DEF IndInv, SessionPart
<1>3. gw' = [gw EXCEPT !.localizing = gw.localizing, !.pose = p]
  BY <1>1 DEF Gateway
<1>4. QED BY <1>1, <1>2, <1>3, LocalizationStep

LEMMA SetInitialPoseKeeps == ASSUME IndInv, SetInitialPose PROVE IndInv'
BY PoseKeeps DEF SetInitialPose, IndInv, TypeOK

LEMMA NavigationInputCallbackKeeps ==
  ASSUME IndInv, NavigationInputCallback PROVE IndInv'
<1>1. gw \in Gateway /\ inp \in [fresh : BOOLEAN, located : BOOLEAN]
  BY DEF IndInv, TypeOK
<1>2. inp' \in [fresh : BOOLEAN, located : BOOLEAN]
  BY <1>1 DEF NavigationInputCallback, ValidSample
<1>3. CASE gw' = gw
  BY <1>2, <1>3, ManagerStep
  DEF NavigationInputCallback, IndInv, TypeOK, SessionPart, MotionHasActiveGoal,
      HeldPart
<1>4. CASE gw' = [gw EXCEPT !.pose = "localized"]
  BY <1>2, <1>4, PoseKeeps DEF NavigationInputCallback
<1>5. QED BY <1>3, <1>4 DEF NavigationInputCallback, ValidSample

\* One fault more of the environment.
LEMMA FaultTyped ==
  ASSUME NEW m \in Manager, m.faults < MaxFaults
  PROVE  LET x == [m EXCEPT !.faults = @ + 1]
         IN  /\ x \in Manager /\ x.lease = m.lease /\ (x.moving => m.moving)
<1>1. m.faults + 1 \in 0..MaxFaults
  BY BoundsAssumption DEF Manager
<1>2. [m EXCEPT !.faults = m.faults + 1] \in Manager
  BY <1>1 DEF Manager
<1>3. QED BY <1>2 DEF Manager

\* A step that changes neither the gateway nor what the manager does.
LEMMA EnvironmentKeeps ==
  ASSUME IndInv, mgr.faults < MaxFaults, mgr' = [mgr EXCEPT !.faults = @ + 1],
         UNCHANGED <<gw, srv, tail, held>>,
         inp' \in [fresh : BOOLEAN, located : BOOLEAN],
         owed' \in {"none", "navigation", "localization"}
  PROVE  IndInv'
<1>1. /\ mgr' \in Manager /\ mgr'.lease = mgr.lease
      /\ mgr'.moving => mgr.moving
  BY FaultTyped DEF IndInv, TypeOK
<1>2. mgr'.moving => mgr'.lease # 0
  BY <1>1 DEF IndInv, SessionPart
<1>3. TypeOK' /\ SessionPart' /\ MotionHasActiveGoal'
  BY <1>1, <1>2 DEF IndInv, TypeOK, SessionPart, MotionHasActiveGoal
<1>4. CurrentPart' /\ GoalsPart' /\ HeldPart' /\ NoOrphanGoal'
  BY DEF IndInv, CurrentPart, GoalsPart, HeldPart, NoOrphanGoal
<1>5. QED BY <1>3, <1>4 DEF IndInv

LEMMA InputLostKeeps == ASSUME IndInv, InputLost PROVE IndInv'
<1>1. inp' \in [fresh : BOOLEAN, located : BOOLEAN]
  BY DEF InputLost, IndInv, TypeOK
<1>2. QED BY <1>1, EnvironmentKeeps DEF InputLost, IndInv, TypeOK

LEMMA InvalidSampleKeeps == ASSUME IndInv, InvalidSample PROVE IndInv'
<1>1. inp' \in [fresh : BOOLEAN, located : BOOLEAN]
  BY DEF InvalidSample, IndInv, TypeOK
<1>2. owed' \in {"none", "navigation", "localization"}
  BY DEF InvalidSample
<1>3. QED BY <1>1, <1>2, EnvironmentKeeps DEF InvalidSample

LEMMA CloseAfterInvalidSampleKeeps ==
  ASSUME IndInv, CloseAfterInvalidSample PROVE IndInv'
<1>1. /\ held.by = "none" /\ owed' = "none"
      /\ UNCHANGED <<inp, tail, held>>
      /\ held' \in [by : {"none", "send", "cancel", "velocity"},
                    goal : 0..MaxGoals, state : Busy \cup Ended]
  BY DEF CloseAfterInvalidSample, OperationLockFree, IndInv, TypeOK
<1>2. CASE Deactivate
  BY <1>1, <1>2, DeactivateStep
<1>3. CASE EndLocalization /\ UNCHANGED <<mgr, srv>>
  BY <1>1, <1>3, EndLocalizationKeeps
<1>4. CASE UNCHANGED <<gw, mgr, srv>>
  <2>1. TypeOK'
    BY <1>1, <1>4 DEF IndInv, TypeOK
  <2>2. QED BY <1>1, <1>4, <2>1
            DEF IndInv, SessionPart, CurrentPart, GoalsPart, HeldPart,
                MotionHasActiveGoal, NoOrphanGoal
<1>5. QED BY <1>2, <1>3, <1>4 DEF CloseAfterInvalidSample

LEMMA BadCommandKeeps == ASSUME IndInv, BadCommand PROVE IndInv'
<1>1. /\ held.by = "none" /\ UNCHANGED <<inp, tail, held, owed>>
      /\ owed' \in {"none", "navigation", "localization"}
      /\ held' \in [by : {"none", "send", "cancel", "velocity"},
                    goal : 0..MaxGoals, state : Busy \cup Ended]
  BY DEF BadCommand, OperationLockFree, IndInv, TypeOK
<1>2. CASE Deactivate
  BY <1>1, <1>2, DeactivateStep
<1>3. CASE EndLocalization /\ UNCHANGED <<mgr, srv>>
  BY <1>1, <1>3, EndLocalizationKeeps
<1>4. QED BY <1>2, <1>3 DEF BadCommand

\* The lease is nobody's, or a human's, or keeps its holder.
LEMMA LeaseKeeps ==
  ASSUME IndInv, UNCHANGED <<gw, inp, srv, tail, held, owed>>,
         mgr' \in Manager, mgr'.moving => mgr'.lease # 0,
         \/ mgr'.lease \notin Sessions
         \/ mgr'.lease = mgr.lease /\ ~mgr'.moving
  PROVE  IndInv'
<1>1. TypeOK' /\ SessionPart' /\ MotionHasActiveGoal'
  BY DEF IndInv, TypeOK, SessionPart, MotionHasActiveGoal
<1>2. CurrentPart' /\ GoalsPart' /\ HeldPart' /\ NoOrphanGoal'
  BY DEF IndInv, CurrentPart, GoalsPart, HeldPart, NoOrphanGoal
<1>3. QED BY <1>1, <1>2 DEF IndInv

LEMMA ManualLease == /\ MANUAL \notin Sessions /\ MANUAL # 0
                     /\ MANUAL \in 0..MANUAL /\ 0 \in 0..MANUAL /\ 0 \notin Sessions
BY BoundsAssumption DEF MANUAL, Sessions

LEMMA LeaseEndsKeeps == ASSUME IndInv, LeaseEnds PROVE IndInv'
<1> DEFINE f == [mgr EXCEPT !.faults = @ + 1]
<1>1. mgr \in Manager /\ f \in Manager
  BY FaultTyped DEF LeaseEnds, IndInv, TypeOK
<1>2. mgr' = [f EXCEPT !.lease = 0, !.moving = FALSE]
  BY <1>1 DEF LeaseEnds, Manager
<1> HIDE DEF f
<1>3. mgr' \in Manager /\ mgr'.lease = 0 /\ ~mgr'.moving
  BY <1>1, <1>2, ManualLease, LeaseTyped
<1>4. QED BY <1>3, ManualLease, LeaseKeeps DEF LeaseEnds

LEMMA CommandTimesOutKeeps == ASSUME IndInv, CommandTimesOut PROVE IndInv'
<1>1. mgr' \in Manager /\ mgr'.lease = 0 /\ ~mgr'.moving
  BY ManualLease, LeaseTyped DEF CommandTimesOut, IndInv, TypeOK
<1>2. QED BY <1>1, ManualLease, LeaseKeeps DEF CommandTimesOut

LEMMA ManualAcquireKeeps == ASSUME IndInv, ManualAcquire PROVE IndInv'
<1>1. mgr' \in Manager /\ mgr'.lease = MANUAL
  BY ManualLease DEF ManualAcquire, IndInv, TypeOK, Manager
<1>2. QED BY <1>1, ManualLease, LeaseKeeps DEF ManualAcquire

LEMMA ManualDriveKeeps == ASSUME IndInv, ManualDrive PROVE IndInv'
<1>1. mgr' \in Manager /\ mgr'.lease = MANUAL
  BY ManagerFields DEF ManualDrive, IndInv, TypeOK
<1>2. QED BY <1>1, ManualLease, LeaseKeeps DEF ManualDrive

LEMMA ManualReleaseKeeps == ASSUME IndInv, ManualRelease PROVE IndInv'
<1>1. mgr' \in Manager /\ mgr'.lease = 0 /\ ~mgr'.moving
  BY LeaseTyped, ManualLease DEF ManualRelease, IndInv, TypeOK
<1>2. QED BY <1>1, ManualLease, LeaseKeeps DEF ManualRelease

-----------------------------------------------------------------------------
(* Goals.                                                                  *)

LEMMA SendGoalKeeps == ASSUME IndInv, SendGoal PROVE IndInv'
<1> DEFINE n == gw.goals + 1
           z == [gw EXCEPT !.goals = n, !.goal = n, !.state = "pending",
                           !.gen = gw.gen + 1, !.cancel = FALSE, !.handle = 0]
<1>1. gw \in Gateway /\ srv \in [Goals -> Server]
  BY DEF IndInv, TypeOK
<1>2. /\ n \in Goals /\ n \in 0..MaxGoals /\ n # 0 /\ n \in Nat /\ n > gw.goals
      /\ gw.gen + 1 \in Nat /\ 0 \in 0..MaxGoals /\ gw.goals \in Nat
  BY <1>1, GatewayFields, BoundsAssumption DEF SendGoal, Goals
<1>3. /\ gw' = z /\ held.by = "none" /\ gw.active /\ gw.state \notin Busy
      /\ held' = [by |-> "send", goal |-> n, state |-> "pending"]
      /\ UNCHANGED <<mgr, inp, srv, tail, owed>>
  BY DEF SendGoal, OperationLockFree
<1> HIDE DEF n
<1>4. z \in Gateway
  BY <1>1, <1>2 DEF Gateway, Busy
<1>5. /\ gw'.active = gw.active /\ gw'.localizing = gw.localizing
      /\ gw'.token = gw.token /\ gw'.sessions = gw.sessions
      /\ gw'.gen = gw.gen + 1 /\ gw'.goal = n /\ gw'.goals = n
      /\ gw'.state = "pending" /\ gw'.handle = 0 /\ ~gw'.cancel
  BY <1>1, <1>3 DEF Gateway
<1> HIDE DEF z
<1>6. TypeOK'
  BY <1>2, <1>3, <1>4 DEF IndInv, TypeOK, Busy
<1>7. SessionPart'
  BY <1>3, <1>5 DEF IndInv, SessionPart
<1>8. CurrentPart'
  BY <1>2, <1>3, <1>5 DEF CurrentPart
<1>9. GoalsPart'
  <2> SUFFICES ASSUME NEW g \in Goals
               PROVE  /\ srv[g].gen < gw'.gen
                      /\ g > n => srv[g].phase = "none"
                      /\ srv[g].phase = "none" =>
                           srv[g].cb = "none" /\ tail[g] = "none"
                      /\ srv[g].phase = "requested" => srv[g].cb = "respond"
                      /\ srv[g].cb = "respond" => tail[g] = "none"
    BY <1>3, <1>5, <1>1, ServerFields, GatewayFields DEF GoalsPart
  <2>1. srv[g].gen \in Nat /\ gw.gen \in Nat /\ g \in Nat
    BY <1>1, ServerFields, GatewayFields, GoalNumber, BoundsAssumption DEF Goals
  <2>2. QED BY <1>2, <1>5, <2>1 DEF IndInv, GoalsPart
<1>10. HeldPart'
  BY <1>2, <1>3, <1>5 DEF IndInv, GoalsPart, HeldPart
<1>11. MotionHasActiveGoal'
  BY <1>3, <1>5 DEF IndInv, MotionHasActiveGoal, Busy
<1>12. NoOrphanGoal'
  BY <1>3 DEF IndInv, NoOrphanGoal, Busy
<1>13. QED BY <1>6, <1>7, <1>8, <1>9, <1>10, <1>11, <1>12 DEF IndInv

\* The current goal ends as failed and the robot is stopped.
LEMMA FailedFacts ==
  ASSUME NEW x \in Gateway
  PROVE  LET y == [x EXCEPT !.state = "failed"]
         IN  /\ y \in Gateway /\ y.active = x.active /\ y.token = x.token
             /\ y.localizing = x.localizing /\ y.sessions = x.sessions
             /\ y.gen = x.gen /\ y.goal = x.goal /\ y.goals = x.goals
             /\ y.handle = x.handle /\ y.cancel = x.cancel
             /\ y.state = "failed"
<1>1. [x EXCEPT !.state = "failed"] \in Gateway
  BY DEF Gateway, Ended
<1>2. QED BY <1>1 DEF Gateway

LEMMA SendGoalDispatchKeeps == ASSUME IndInv, SendGoalDispatch PROVE IndInv'
<1>1. gw \in Gateway /\ srv \in [Goals -> Server] /\ mgr \in Manager
  BY DEF IndInv, TypeOK
<1>2. /\ held.by = "send" /\ held' = Free /\ held'.by = "none"
      /\ UNCHANGED <<inp, tail, owed>>
  BY DEF SendGoalDispatch, Free
<1>3. /\ held.goal = gw.goal /\ gw.active /\ gw.goal \in Goals
      /\ gw.state = "pending" /\ gw.handle = 0 /\ srv[gw.goal].phase = "none"
  BY <1>1, <1>2, GatewayFields, GoalNumber DEF IndInv, HeldPart
<1>4. CASE /\ srv' = [srv EXCEPT ![held.goal] =
                        [@ EXCEPT !.phase = "requested", !.cb = "respond",
                                  !.gen = gw.gen]]
           /\ UNCHANGED <<gw, mgr>>
  <2> DEFINE h == gw.goal
             r == [srv[h] EXCEPT !.phase = "requested", !.cb = "respond",
                                 !.gen = gw.gen]
  <2>1. r \in Server
    BY <1>1, <1>3, GatewayFields DEF Server
  <2>2. r.phase = "requested" /\ r.cb = "respond" /\ r.gen = gw.gen
    BY <1>1, <1>3 DEF Server
  <2>3. srv' = [srv EXCEPT ![h] = r]
    BY <1>3, <1>4
  <2> HIDE DEF r
  <2>4. /\ srv' \in [Goals -> Server] /\ srv'[h] = r
        /\ \A g \in Goals : g # h => srv'[g] = srv[g]
    BY <1>1, <1>3, <2>1, <2>3, ServerUpdate
  <2>5. TypeOK'
    BY <1>2, <1>4, <2>4, FreeTyped DEF IndInv, TypeOK
  <2>6. SessionPart' /\ CurrentPart'
    BY <1>4 DEF IndInv, SessionPart, CurrentPart
  <2>7. GoalsPart'
    <3>1. h <= gw.goals /\ h \in Nat /\ gw.goals \in Nat /\ gw.gen \in Nat
      BY <1>1, GatewayFields DEF IndInv, CurrentPart
    <3>2. tail[h] = "none"
      BY <1>3 DEF IndInv, GoalsPart
    <3> SUFFICES ASSUME NEW g \in Goals
        PROVE  /\ srv'[g].gen <= gw.gen
               /\ g > gw.goals => srv'[g].phase = "none"
               /\ srv'[g].phase = "none" =>
                    srv'[g].cb = "none" /\ tail[g] = "none"
               /\ srv'[g].phase = "requested" => srv'[g].cb = "respond"
               /\ srv'[g].cb = "respond" => tail[g] = "none"
               /\ srv'[g].phase # "none" /\ srv'[g].gen = gw.gen => g = h
      BY <1>2, <1>3, <1>4 DEF GoalsPart
    <3>3. CASE g = h
      BY <2>2, <2>4, <3>1, <3>2, <3>3
    <3>4. CASE g # h
      BY <2>4, <3>4 DEF IndInv, GoalsPart
    <3>5. QED BY <3>3, <3>4
  <2>8. HeldPart'
    BY <1>2 DEF HeldPart
  <2>9. MotionHasActiveGoal'
    BY <1>2, <1>3, <1>4 DEF IndInv, MotionHasActiveGoal
  <2>10. NoOrphanGoal'
    BY <1>2, <1>3, <1>4, <2>2, <2>4 DEF IndInv, NoOrphanGoal
  <2>11. QED BY <2>5, <2>6, <2>7, <2>8, <2>9, <2>10 DEF IndInv
<1>5. CASE /\ gw' = IF gw.goal = held.goal
                    THEN [gw EXCEPT !.state = "failed"] ELSE gw
           /\ mgr' = Halted(mgr) /\ UNCHANGED srv
  <2>1. gw' = [gw EXCEPT !.state = "failed"]
    BY <1>3, <1>5
  <2>2. /\ gw' \in Gateway /\ gw'.active = gw.active /\ gw'.token = gw.token
        /\ gw'.localizing = gw.localizing /\ gw'.sessions = gw.sessions
        /\ gw'.gen = gw.gen /\ gw'.goal = gw.goal /\ gw'.goals = gw.goals
        /\ gw'.handle = gw.handle /\ gw'.cancel = gw.cancel
        /\ gw'.state = "failed"
    BY <1>1, <2>1, FailedFacts
  <2>3. /\ mgr' \in Manager /\ mgr'.lease = mgr.lease
        /\ mgr'.moving => mgr.moving
        /\ mgr'.moving => mgr.lease \notin Sessions
    BY <1>5, HaltedFacts
  <2>4. TypeOK'
    BY <1>2, <1>5, <2>2, <2>3, FreeTyped DEF IndInv, TypeOK
  <2>5. SessionPart' /\ CurrentPart'
    BY <2>2, <2>3 DEF IndInv, SessionPart, CurrentPart, Busy
  <2>6. GoalsPart'
    BY <1>2, <1>5, <2>2 DEF IndInv, GoalsPart
  <2>7. HeldPart' /\ MotionHasActiveGoal'
    BY <1>2, <2>3 DEF HeldPart, MotionHasActiveGoal
  <2>8. NoOrphanGoal'
    BY <1>2, <1>3, <1>5, <2>2 DEF IndInv, NoOrphanGoal
  <2>9. QED BY <2>4, <2>5, <2>6, <2>7, <2>8 DEF IndInv
<1>6. QED BY <1>4, <1>5 DEF SendGoalDispatch

LEMMA CancelGoalKeeps == ASSUME IndInv, CancelGoal PROVE IndInv'
<1> DEFINE z == [gw EXCEPT !.state = "canceling", !.cancel = TRUE]
<1>1. gw \in Gateway /\ srv \in [Goals -> Server]
  BY DEF IndInv, TypeOK
<1>2. /\ gw' = z /\ held.by = "none" /\ gw.state \in Busy
      /\ held' = [by |-> "cancel", goal |-> gw.handle, state |-> "canceling"]
      /\ UNCHANGED <<mgr, inp, srv, tail, owed>>
  BY DEF CancelGoal, OperationLockFree
<1>3. z \in Gateway
  BY <1>1 DEF Gateway, Busy
<1>4. /\ gw'.active = gw.active /\ gw'.localizing = gw.localizing
      /\ gw'.token = gw.token /\ gw'.sessions = gw.sessions
      /\ gw'.gen = gw.gen /\ gw'.goal = gw.goal /\ gw'.goals = gw.goals
      /\ gw'.state = "canceling" /\ gw'.handle = gw.handle /\ gw'.cancel
  BY <1>1, <1>2 DEF Gateway
<1> HIDE DEF z
<1>5. TypeOK'
  <2>1. gw.handle \in 0..MaxGoals
    BY <1>1 DEF Gateway
  <2>2. QED BY <1>2, <1>3, <2>1 DEF IndInv, TypeOK, Busy
<1>6. SessionPart' /\ CurrentPart'
  BY <1>2, <1>4 DEF IndInv, SessionPart, CurrentPart
<1>7. held'.by = "cancel" /\ held'.goal = gw.handle
  BY <1>2
<1>8. GoalsPart'
  BY <1>2, <1>4, <1>7 DEF IndInv, GoalsPart
<1>9. HeldPart'
  BY <1>4, <1>7 DEF IndInv, HeldPart, CurrentPart
<1>10. MotionHasActiveGoal' /\ NoOrphanGoal'
  BY <1>2, <1>4, <1>7 DEF IndInv, MotionHasActiveGoal, NoOrphanGoal
<1>11. QED BY <1>5, <1>6, <1>8, <1>9, <1>10 DEF IndInv

\* The goal that was cancelled is asked for here, or by the callback that
\* learned its handle after the cancel.
LEMMA CancelGoalStopKeeps == ASSUME IndInv, CancelGoalStop PROVE IndInv'
<1>1. gw \in Gateway /\ srv \in [Goals -> Server] /\ mgr \in Manager
  BY DEF IndInv, TypeOK
<1>2. /\ held.by = "cancel" /\ held' = Free /\ held'.by = "none"
      /\ mgr' = Halted(mgr) /\ UNCHANGED <<gw, inp, tail, owed>>
  BY DEF CancelGoalStop, Free
<1>3. /\ mgr' \in Manager /\ mgr'.lease = mgr.lease
      /\ mgr'.moving => mgr.moving
      /\ mgr'.moving => mgr.lease \notin Sessions
  BY <1>2, HaltedFacts
<1>4. /\ srv' \in [Goals -> Server]
      /\ \A g \in Goals :
           /\ srv'[g].phase = srv[g].phase /\ srv'[g].cb = srv[g].cb
           /\ srv'[g].gen = srv[g].gen /\ srv'[g].unwatched = srv[g].unwatched
           /\ srv[g].asked \/ held.goal = g => srv'[g].asked
  <2>1. CASE held.goal = 0
    BY <1>1, <2>1, GoalNumber DEF CancelGoalStop
  <2>2. CASE held.goal # 0
    <3>1. held.goal \in Goals
      BY <2>2, GoalNumber, BoundsAssumption DEF IndInv, TypeOK
    <3>2. srv' = [srv EXCEPT ![held.goal].asked = TRUE]
      BY <2>2 DEF CancelGoalStop
    <3>3. QED BY <1>1, <3>1, <3>2, AskedFacts
  <2>3. QED BY <2>1, <2>2
<1>5. TypeOK'
  BY <1>2, <1>3, <1>4, FreeTyped DEF IndInv, TypeOK
<1>6. SessionPart' /\ CurrentPart'
  BY <1>2, <1>3 DEF IndInv, SessionPart, CurrentPart
<1>7. GoalsPart'
  BY <1>2, <1>4 DEF IndInv, GoalsPart
<1>8. HeldPart' /\ MotionHasActiveGoal'
  BY <1>2, <1>3 DEF HeldPart, MotionHasActiveGoal
<1>9. NoOrphanGoal'
  <2> SUFFICES ASSUME NEW g \in Goals, srv[g].phase = "running",
                      ~srv'[g].asked, ~srv[g].unwatched,
                      srv[g].cb # "respond",
                      tail[g] \notin {"cancel", "registerCancel"}
               PROVE  /\ gw.active /\ gw.goal = g /\ gw.handle = g
                      /\ gw.state = "active"
    BY <1>2, <1>4 DEF NoOrphanGoal
  <2>1. ~srv[g].asked /\ held.goal # g
    BY <1>4
  <2>2. gw.active /\ gw.goal = g /\ gw.handle = g
    BY <2>1 DEF IndInv, NoOrphanGoal
  <2>3. held.goal \in {0, gw.goal} /\ g # 0
    BY <1>2, GoalNumber, BoundsAssumption DEF IndInv, HeldPart, Goals
  <2>4. FALSE
    BY <1>2, <2>1, <2>2, <2>3 DEF IndInv, HeldPart
  <2>5. QED BY <2>4
<1>10. QED BY <1>5, <1>6, <1>7, <1>8, <1>9 DEF IndInv

-----------------------------------------------------------------------------
(* The callbacks of the action client.                                     *)

Tails == {"none", "cancel", "register", "registerCancel", "stop"}

LEMMA TailUpdate ==
  ASSUME NEW t \in [Goals -> Tails], NEW g \in Goals, NEW v \in Tails
  PROVE  /\ [t EXCEPT ![g] = v] \in [Goals -> Tails]
         /\ [t EXCEPT ![g] = v][g] = v
         /\ \A h \in Goals : h # g => [t EXCEPT ![g] = v][h] = t[h]
OBVIOUS

\* A callback of goal g is taken.
LEMMA TakenFacts ==
  ASSUME NEW s \in [Goals -> Server], NEW g \in Goals
  PROVE  LET t == [s EXCEPT ![g].cb = "none"]
         IN  /\ t \in [Goals -> Server]
             /\ t[g].phase = s[g].phase /\ t[g].gen = s[g].gen
             /\ t[g].cb = "none" /\ t[g].asked = s[g].asked
             /\ t[g].unwatched = s[g].unwatched
             /\ \A h \in Goals : h # g => t[h] = s[h]
<1> DEFINE r == [s[g] EXCEPT !.cb = "none"]
           t == [s EXCEPT ![g].cb = "none"]
<1>1. r \in Server
  BY DEF Server
<1>2. /\ r.phase = s[g].phase /\ r.gen = s[g].gen /\ r.cb = "none"
      /\ r.asked = s[g].asked /\ r.unwatched = s[g].unwatched
  BY DEF Server
<1>3. t = [s EXCEPT ![g] = r]
  OBVIOUS
<1> HIDE DEF r, t
<1>4. /\ t \in [Goals -> Server] /\ t[g] = r
      /\ \A h \in Goals : h # g => t[h] = s[h]
  BY <1>1, <1>3, ServerUpdate
<1>5. QED BY <1>2, <1>4 DEF t

LEMMA GoalResponseKeeps ==
  ASSUME IndInv, NEW g \in Goals, GoalResponse(g)
  PROVE  IndInv'
<1> DEFINE accepted == srv[g].phase \in {"running", "ended"}
<1>1. /\ gw \in Gateway /\ srv \in [Goals -> Server] /\ tail \in [Goals -> Tails]
      /\ gw.cancel \in BOOLEAN
  BY GatewayFields DEF IndInv, TypeOK, Tails
<1>2. /\ srv[g].cb = "respond" /\ srv[g].phase # "requested" /\ tail[g] = "none"
      /\ srv' = [srv EXCEPT ![g].cb = "none"]
      /\ UNCHANGED <<mgr, inp, held, owed>>
  BY DEF GoalResponse
<1>3. /\ srv' \in [Goals -> Server]
      /\ srv'[g].phase = srv[g].phase /\ srv'[g].gen = srv[g].gen
      /\ srv'[g].cb = "none" /\ srv'[g].asked = srv[g].asked
      /\ srv'[g].unwatched = srv[g].unwatched
      /\ \A h \in Goals : h # g => srv'[h] = srv[h]
  BY <1>1, <1>2, TakenFacts
<1>4. srv[g].phase # "none"
  BY <1>2 DEF IndInv, GoalsPart
<1>5. CASE Stale(g)
  <2> DEFINE v == IF accepted THEN "cancel" ELSE "none"
  <2>1. gw' = gw /\ tail' = [tail EXCEPT ![g] = v] /\ v \in Tails
    BY <1>5 DEF GoalResponse, Tails
  <2> HIDE DEF v
  <2>2. /\ tail' \in [Goals -> Tails] /\ tail'[g] = v
        /\ \A h \in Goals : h # g => tail'[h] = tail[h]
    BY <1>1, <2>1, TailUpdate
  <2>3. TypeOK'
    BY <1>2, <1>3, <2>1, <2>2 DEF IndInv, TypeOK, Tails
  <2>4. SessionPart' /\ CurrentPart'
    BY <1>2, <2>1 DEF IndInv, SessionPart, CurrentPart
  <2>5. GoalsPart'
    BY <1>2, <1>3, <1>4, <2>1, <2>2 DEF IndInv, GoalsPart
  <2>6. HeldPart'
    <3>1. \A h \in Goals : tail[h] = "stop" => tail'[h] = "stop"
      BY <1>2, <2>2
    <3>2. \A h \in Goals :
            srv[h].asked \/ tail[h] = "registerCancel" =>
              srv'[h].asked \/ tail'[h] = "registerCancel"
      BY <1>2, <1>3, <2>2
    <3>3. gw.handle # 0 => gw.handle \in Goals
      BY <1>1, GatewayFields, GoalNumber
    <3>4. gw.goal # 0 => gw.goal \in Goals
      BY <1>1, GatewayFields, GoalNumber
    <3>5. \A h \in Goals : srv'[h].phase = srv[h].phase
      BY <1>3
    <3>6. QED BY <1>2, <2>1, <3>1, <3>2, <3>3, <3>4, <3>5 DEF IndInv, HeldPart
  <2>7. MotionHasActiveGoal'
    BY <1>2, <2>1, <2>2 DEF IndInv, MotionHasActiveGoal
  <2>8. NoOrphanGoal'
    BY <1>2, <1>3, <2>1, <2>2 DEF IndInv, NoOrphanGoal, v
  <2>9. QED BY <2>3, <2>4, <2>5, <2>6, <2>7, <2>8 DEF IndInv
<1>6. CASE ~Stale(g)
  <2>1. /\ srv[g].gen = gw.gen /\ gw.goal = g /\ gw.active /\ held.by # "send"
        /\ gw.handle = 0 /\ gw.state \in {"pending", "canceling"}
    BY <1>2, <1>4, <1>6 DEF Stale, IndInv, GoalsPart
  <2>2. CASE accepted
    <3> DEFINE s == IF gw.cancel THEN "canceling" ELSE "active"
               z == [gw EXCEPT !.handle = g, !.state = s]
               v == IF gw.cancel THEN "registerCancel" ELSE "register"
    <3>1. gw' = z /\ tail' = [tail EXCEPT ![g] = v] /\ v \in Tails
      BY <1>6, <2>2 DEF GoalResponse, Tails
    <3> HIDE DEF v
    <3>2. z \in Gateway
      <4>1. g \in 0..MaxGoals /\ s \in Busy \cup Ended
        BY BoundsAssumption DEF Goals, Busy
      <4> HIDE DEF s
      <4>2. QED BY <1>1, <4>1 DEF Gateway
    <3>3. /\ gw'.active = gw.active /\ gw'.localizing = gw.localizing
          /\ gw'.token = gw.token /\ gw'.sessions = gw.sessions
          /\ gw'.gen = gw.gen /\ gw'.goal = gw.goal /\ gw'.goals = gw.goals
          /\ gw'.handle = g /\ gw'.cancel = gw.cancel /\ gw'.state = s
      BY <1>1, <3>1 DEF Gateway
    <3> HIDE DEF z
    <3>4. /\ tail' \in [Goals -> Tails] /\ tail'[g] = v
          /\ \A h \in Goals : h # g => tail'[h] = tail[h]
      BY <1>1, <3>1, TailUpdate
    <3>5. TypeOK'
      BY <1>2, <1>3, <3>1, <3>2, <3>4 DEF IndInv, TypeOK, Tails
    <3>6. SessionPart' /\ CurrentPart'
      BY <1>2, <2>1, <3>3 DEF IndInv, SessionPart, CurrentPart, Busy
    <3>7. GoalsPart'
      BY <1>2, <1>3, <1>4, <2>1, <3>3, <3>4 DEF IndInv, GoalsPart
    <3>8. \A h \in Goals : tail[h] = "stop" => tail'[h] = "stop"
      BY <1>2, <3>4
    <3>9. HeldPart'
      BY <1>2, <2>1, <3>3, <3>4, <3>8 DEF IndInv, HeldPart, CurrentPart, v
    <3>10. MotionHasActiveGoal'
      BY <1>2, <2>1, <3>3, <3>8 DEF IndInv, MotionHasActiveGoal
    <3>11. NoOrphanGoal'
      BY <1>2, <1>3, <2>1, <3>3, <3>4 DEF IndInv, NoOrphanGoal, v
    <3>12. QED BY <3>5, <3>6, <3>7, <3>9, <3>10, <3>11 DEF IndInv
  <2>3. CASE ~accepted
    <3>1. /\ gw' = [gw EXCEPT !.state = "failed"]
          /\ tail' = [tail EXCEPT ![g] = "stop"] /\ "stop" \in Tails
      BY <1>6, <2>3 DEF GoalResponse, Tails
    <3>2. /\ gw' \in Gateway /\ gw'.active = gw.active /\ gw'.token = gw.token
          /\ gw'.localizing = gw.localizing /\ gw'.sessions = gw.sessions
          /\ gw'.gen = gw.gen /\ gw'.goal = gw.goal /\ gw'.goals = gw.goals
          /\ gw'.handle = gw.handle /\ gw'.cancel = gw.cancel
          /\ gw'.state = "failed"
      BY <1>1, <3>1, FailedFacts
    <3>3. /\ tail' \in [Goals -> Tails] /\ tail'[g] = "stop"
          /\ \A h \in Goals : h # g => tail'[h] = tail[h]
      BY <1>1, <3>1, TailUpdate
    <3>4. TypeOK'
      BY <1>2, <1>3, <3>2, <3>3 DEF IndInv, TypeOK, Tails
    <3>5. SessionPart' /\ CurrentPart'
      BY <1>2, <3>2 DEF IndInv, SessionPart, CurrentPart, Busy
    <3>6. GoalsPart'
      BY <1>2, <1>3, <1>4, <2>1, <3>2, <3>3 DEF IndInv, GoalsPart
    <3>7. HeldPart'
      BY <1>2, <2>1, <3>2, <3>3 DEF IndInv, HeldPart
    <3>8. MotionHasActiveGoal'
      BY <1>2, <3>2, <3>3 DEF IndInv, MotionHasActiveGoal
    <3>9. NoOrphanGoal'
      BY <1>2, <1>3, <2>1, <2>3, <3>2, <3>3 DEF IndInv, NoOrphanGoal
    <3>10. QED BY <3>4, <3>5, <3>6, <3>7, <3>8, <3>9 DEF IndInv
  <2>4. QED BY <2>2, <2>3
<1>7. QED BY <1>5, <1>6

LEMMA AfterResponseKeeps ==
  ASSUME IndInv, NEW g \in Goals, AfterResponse(g)
  PROVE  IndInv'
<1> DEFINE asked == srv[g].asked \/ tail[g] # "register"
           k == IF tail[g] = "cancel" THEN "none" ELSE "result"
<1>1. /\ gw \in Gateway /\ srv \in [Goals -> Server] /\ tail \in [Goals -> Tails]
      /\ asked \in BOOLEAN /\ srv[g].unwatched \in BOOLEAN
  BY ServerFields DEF IndInv, TypeOK, Tails
<1>2. /\ tail[g] \in {"cancel", "register", "registerCancel"}
      /\ UNCHANGED <<mgr, inp, held, owed>>
  BY DEF AfterResponse
<1>3. srv[g].cb # "respond" /\ srv[g].phase \notin {"none", "requested"}
  BY <1>2 DEF IndInv, GoalsPart
<1>4. CASE /\ srv' = [srv EXCEPT ![g].asked = asked, ![g].cb = k]
           /\ tail' = [tail EXCEPT ![g] = "none"] /\ UNCHANGED gw
  <2>1. k \in {"none", "respond", "result"} /\ k # "respond" /\ gw' = gw
    BY <1>4
  <2> HIDE DEF k
  <2>2. /\ srv' \in [Goals -> Server]
        /\ srv'[g].phase = srv[g].phase /\ srv'[g].gen = srv[g].gen
        /\ srv'[g].cb = k /\ srv'[g].asked = asked
        /\ srv'[g].unwatched = srv[g].unwatched
        /\ \A h \in Goals : h # g => srv'[h] = srv[h]
    <3> DEFINE r == [srv[g] EXCEPT !.asked = asked, !.cb = k]
    <3>1. r \in Server
      BY <1>1, <2>1 DEF Server
    <3>2. /\ r.phase = srv[g].phase /\ r.gen = srv[g].gen /\ r.cb = k
          /\ r.asked = asked /\ r.unwatched = srv[g].unwatched
      BY <1>1 DEF Server
    <3>3. srv' = [srv EXCEPT ![g] = r]
      BY <1>1, <1>4
    <3> HIDE DEF r
    <3>4. /\ srv' \in [Goals -> Server] /\ srv'[g] = r
          /\ \A h \in Goals : h # g => srv'[h] = srv[h]
      BY <1>1, <3>1, <3>3, ServerUpdate
    <3>5. QED BY <3>2, <3>4
  <2>3. /\ tail' \in [Goals -> Tails] /\ tail'[g] = "none"
        /\ \A h \in Goals : h # g => tail'[h] = tail[h]
    BY <1>1, <1>4, TailUpdate DEF Tails
  <2>4. TypeOK'
    BY <1>2, <1>4, <2>2, <2>3 DEF IndInv, TypeOK, Tails
  <2>5. SessionPart' /\ CurrentPart'
    BY <1>2, <1>4 DEF IndInv, SessionPart, CurrentPart
  <2>6. GoalsPart'
    BY <1>2, <1>3, <1>4, <2>1, <2>2, <2>3 DEF IndInv, GoalsPart
  <2>7. HeldPart'
    <3>1. \A h \in Goals : tail[h] = "stop" => tail'[h] = "stop"
      BY <1>2, <2>3
    <3>2. \A h \in Goals :
            srv[h].asked \/ tail[h] = "registerCancel" =>
              srv'[h].asked \/ tail'[h] = "registerCancel"
      BY <1>2, <2>2, <2>3
    <3>3. gw.handle # 0 => gw.handle \in Goals
      BY <1>1, GatewayFields, GoalNumber
    <3>4. gw.goal # 0 => gw.goal \in Goals
      BY <1>1, GatewayFields, GoalNumber
    <3>5. \A h \in Goals : srv'[h].phase = srv[h].phase
      BY <2>2
    <3>6. QED BY <1>2, <2>1, <3>1, <3>2, <3>3, <3>4, <3>5 DEF IndInv, HeldPart
  <2>8. MotionHasActiveGoal'
    BY <1>2, <1>4, <2>3 DEF IndInv, MotionHasActiveGoal
  <2>9. NoOrphanGoal'
    <3>1. /\ srv[g].asked => srv'[g].asked
          /\ tail[g] # "register" => srv'[g].asked
      BY <2>2
    <3>2. QED BY <1>2, <1>3, <2>1, <2>2, <2>3, <3>1 DEF IndInv, NoOrphanGoal
  <2>10. QED BY <2>4, <2>5, <2>6, <2>7, <2>8, <2>9 DEF IndInv
<1>5. CASE /\ srv' = [srv EXCEPT ![g].asked = asked, ![g].unwatched = TRUE]
           /\ gw' = IF Stale(g) THEN gw ELSE [gw EXCEPT !.state = "failed"]
           /\ tail' = [tail EXCEPT ![g] = "stop"]
  <2>1. /\ srv' \in [Goals -> Server]
        /\ srv'[g].phase = srv[g].phase /\ srv'[g].gen = srv[g].gen
        /\ srv'[g].cb = srv[g].cb /\ srv'[g].asked = asked
        /\ srv'[g].unwatched
        /\ \A h \in Goals : h # g => srv'[h] = srv[h]
    <3> DEFINE r == [srv[g] EXCEPT !.asked = asked, !.unwatched = TRUE]
    <3>1. r \in Server
      BY <1>1 DEF Server
    <3>2. /\ r.phase = srv[g].phase /\ r.gen = srv[g].gen /\ r.cb = srv[g].cb
          /\ r.asked = asked /\ r.unwatched
      BY <1>1 DEF Server
    <3>3. srv' = [srv EXCEPT ![g] = r]
      BY <1>1, <1>5
    <3> HIDE DEF r
    <3>4. /\ srv' \in [Goals -> Server] /\ srv'[g] = r
          /\ \A h \in Goals : h # g => srv'[h] = srv[h]
      BY <1>1, <3>1, <3>3, ServerUpdate
    <3>5. QED BY <3>2, <3>4
  <2>2. /\ tail' \in [Goals -> Tails] /\ tail'[g] = "stop"
        /\ \A h \in Goals : h # g => tail'[h] = tail[h]
    BY <1>1, <1>5, TailUpdate DEF Tails
  <2>3. /\ gw' \in Gateway /\ gw'.active = gw.active /\ gw'.token = gw.token
        /\ gw'.localizing = gw.localizing /\ gw'.sessions = gw.sessions
        /\ gw'.gen = gw.gen /\ gw'.goal = gw.goal /\ gw'.goals = gw.goals
        /\ gw'.handle = gw.handle /\ gw'.cancel = gw.cancel
    BY <1>1, <1>5, FailedFacts
  <2>4. \/ gw'.state = gw.state
        \/ /\ gw'.state = "failed" /\ srv[g].gen = gw.gen /\ gw.goal = g
           /\ held.by # "send"
    BY <1>1, <1>3, <1>5, FailedFacts DEF Stale, IndInv, GoalsPart
  <2>5. TypeOK'
    BY <1>2, <2>1, <2>2, <2>3 DEF IndInv, TypeOK, Tails
  <2>6. SessionPart' /\ CurrentPart'
    BY <1>2, <2>3, <2>4 DEF IndInv, SessionPart, CurrentPart, Busy
  <2>7. GoalsPart'
    BY <1>2, <1>3, <2>1, <2>2, <2>3, <2>4 DEF IndInv, GoalsPart
  <2>8. HeldPart'
    <3>1. \A h \in Goals :
            srv[h].asked \/ tail[h] = "registerCancel" =>
              srv'[h].asked \/ tail'[h] = "registerCancel"
      BY <1>2, <2>1, <2>2
    <3>2. gw.handle # 0 => gw.handle \in Goals
      BY <1>1, GatewayFields, GoalNumber
    <3>3. gw.goal # 0 => gw.goal \in Goals
      BY <1>1, GatewayFields, GoalNumber
    <3>4. \A h \in Goals : srv'[h].phase = srv[h].phase
      BY <2>1
    <3>5. QED BY <1>2, <2>2, <2>3, <2>4, <3>1, <3>2, <3>3, <3>4
              DEF IndInv, HeldPart
  <2>9. MotionHasActiveGoal'
    BY <1>2, <2>2, <2>3 DEF IndInv, MotionHasActiveGoal
  <2>10. NoOrphanGoal'
    BY <1>2, <1>3, <2>1, <2>2, <2>3, <2>4 DEF IndInv, NoOrphanGoal
  <2>11. QED BY <2>5, <2>6, <2>7, <2>8, <2>9, <2>10 DEF IndInv
<1>6. QED BY <1>4, <1>5 DEF AfterResponse

LEMMA GoalFeedbackKeeps ==
  ASSUME IndInv, NEW g \in Goals, GoalFeedback(g)
  PROVE  IndInv'
<1> DEFINE z == [gw EXCEPT !.state = "active"]
<1>1. gw \in Gateway
  BY DEF IndInv, TypeOK
<1>2. /\ srv[g].phase \in {"running", "ended"} /\ ~Stale(g)
      /\ gw.state \in {"pending", "active"} /\ gw.handle # 0
      /\ gw' = z /\ UNCHANGED <<mgr, inp, srv, tail, held, owed>>
  BY DEF GoalFeedback
<1>3. z \in Gateway
  BY <1>1 DEF Gateway, Busy
<1>4. /\ gw'.active = gw.active /\ gw'.localizing = gw.localizing
      /\ gw'.token = gw.token /\ gw'.sessions = gw.sessions
      /\ gw'.gen = gw.gen /\ gw'.goal = gw.goal /\ gw'.goals = gw.goals
      /\ gw'.state = "active" /\ gw'.handle = gw.handle
      /\ gw'.cancel = gw.cancel
  BY <1>1, <1>2 DEF Gateway
<1> HIDE DEF z
<1>5. held.by \notin {"send", "cancel"}
  BY <1>2 DEF IndInv, HeldPart
<1>6. TypeOK'
  BY <1>2, <1>3 DEF IndInv, TypeOK
<1>7. SessionPart' /\ CurrentPart'
  BY <1>2, <1>4 DEF IndInv, SessionPart, CurrentPart, Busy
<1>8. GoalsPart'
  BY <1>2, <1>4 DEF IndInv, GoalsPart
<1>9. HeldPart' /\ MotionHasActiveGoal' /\ NoOrphanGoal'
  BY <1>2, <1>4, <1>5
  DEF IndInv, HeldPart, MotionHasActiveGoal, NoOrphanGoal
<1>10. QED BY <1>6, <1>7, <1>8, <1>9 DEF IndInv

LEMMA GoalResultKeeps ==
  ASSUME IndInv, NEW g \in Goals, GoalResult(g)
  PROVE  IndInv'
<1>1. gw \in Gateway /\ srv \in [Goals -> Server] /\ tail \in [Goals -> Tails]
  BY DEF IndInv, TypeOK, Tails
<1>2. /\ srv[g].cb = "result" /\ srv[g].phase = "ended"
      /\ srv' = [srv EXCEPT ![g].cb = "none"]
      /\ UNCHANGED <<mgr, inp, held, owed>>
  BY DEF GoalResult
<1>3. /\ srv' \in [Goals -> Server]
      /\ srv'[g].phase = srv[g].phase /\ srv'[g].gen = srv[g].gen
      /\ srv'[g].cb = "none" /\ srv'[g].asked = srv[g].asked
      /\ srv'[g].unwatched = srv[g].unwatched
      /\ \A h \in Goals : h # g => srv'[h] = srv[h]
  BY <1>1, <1>2, TakenFacts
<1>4. CASE UNCHANGED <<gw, tail>>
  <2>1. TypeOK'
    BY <1>2, <1>3, <1>4 DEF IndInv, TypeOK
  <2>2. SessionPart' /\ CurrentPart' /\ MotionHasActiveGoal'
    BY <1>2, <1>4 DEF IndInv, SessionPart, CurrentPart, MotionHasActiveGoal
  <2>3. GoalsPart' /\ NoOrphanGoal'
    BY <1>2, <1>3, <1>4 DEF IndInv, GoalsPart, NoOrphanGoal
  <2>4. HeldPart'
    <3>1. gw.handle # 0 => gw.handle \in Goals
      BY <1>1, GatewayFields, GoalNumber
    <3>2. gw.goal # 0 => gw.goal \in Goals
      BY <1>1, GatewayFields, GoalNumber
    <3>3. \A h \in Goals : /\ srv'[h].phase = srv[h].phase
                           /\ srv'[h].asked = srv[h].asked
      BY <1>3
    <3>4. QED BY <1>2, <1>4, <3>1, <3>2, <3>3 DEF IndInv, HeldPart
  <2>5. QED BY <2>1, <2>2, <2>3, <2>4 DEF IndInv
<1>5. CASE /\ ~Stale(g) /\ tail' = [tail EXCEPT ![g] = "stop"]
           /\ \E s \in {"succeeded", "canceled", "failed"} :
                gw' = [gw EXCEPT !.state = s, !.handle = 0, !.cancel = FALSE]
  <2> PICK s \in {"succeeded", "canceled", "failed"} :
         gw' = [gw EXCEPT !.state = s, !.handle = 0, !.cancel = FALSE]
    BY <1>5
  <2> DEFINE z == [gw EXCEPT !.state = s, !.handle = 0, !.cancel = FALSE]
  <2>1. z \in Gateway
    <3>1. 0 \in 0..MaxGoals
      BY BoundsAssumption
    <3>2. QED BY <1>1, <3>1 DEF Gateway, Ended
  <2>2. /\ gw'.active = gw.active /\ gw'.localizing = gw.localizing
        /\ gw'.token = gw.token /\ gw'.sessions = gw.sessions
        /\ gw'.gen = gw.gen /\ gw'.goal = gw.goal /\ gw'.goals = gw.goals
        /\ gw'.state = s /\ gw'.handle = 0
    BY <1>1 DEF Gateway
  <2>3. gw' \in Gateway
    BY <2>1
  <2> HIDE DEF z
  <2>4. /\ tail' \in [Goals -> Tails] /\ tail'[g] = "stop"
        /\ \A h \in Goals : h # g => tail'[h] = tail[h]
    BY <1>1, <1>5, TailUpdate DEF Tails
  <2>5. srv[g].gen = gw.gen /\ gw.goal = g /\ gw.active /\ held.by # "send"
    BY <1>2, <1>5 DEF Stale, IndInv, GoalsPart
  <2>6. TypeOK'
    BY <1>2, <1>3, <2>3, <2>4 DEF IndInv, TypeOK, Tails
  <2>7. SessionPart' /\ CurrentPart'
    BY <1>2, <2>2 DEF IndInv, SessionPart, CurrentPart, Busy
  <2>8. GoalsPart'
    BY <1>2, <1>3, <2>2, <2>4, <2>5 DEF IndInv, GoalsPart
  <2>9. HeldPart'
    BY <1>2, <2>2, <2>4, <2>5 DEF IndInv, HeldPart
  <2>10. MotionHasActiveGoal'
    BY <1>2, <2>2, <2>4 DEF IndInv, MotionHasActiveGoal
  <2>11. NoOrphanGoal'
    BY <1>2, <1>3, <2>2, <2>4, <2>5 DEF IndInv, NoOrphanGoal
  <2>12. QED BY <2>6, <2>7, <2>8, <2>9, <2>10, <2>11 DEF IndInv
<1>6. QED BY <1>4, <1>5 DEF GoalResult

LEMMA IssueStopKeeps ==
  ASSUME IndInv, NEW g \in Goals, IssueStop(g)
  PROVE  IndInv'
<1>1. tail \in [Goals -> Tails]
  BY DEF IndInv, TypeOK, Tails
<1>2. /\ held.by = "none" /\ tail[g] = "stop" /\ mgr' = Halted(mgr)
      /\ tail' = [tail EXCEPT ![g] = "none"]
      /\ UNCHANGED <<gw, inp, srv, held, owed>>
  BY DEF IssueStop, OperationLockFree
<1>3. /\ mgr' \in Manager /\ mgr'.lease = mgr.lease
      /\ mgr'.moving => mgr.moving
      /\ mgr'.moving => mgr.lease \notin Sessions
  BY <1>2, HaltedFacts
<1>4. /\ tail' \in [Goals -> Tails] /\ tail'[g] = "none"
      /\ \A h \in Goals : h # g => tail'[h] = tail[h]
  BY <1>1, <1>2, TailUpdate DEF Tails
<1>5. TypeOK'
  BY <1>2, <1>3, <1>4 DEF IndInv, TypeOK, Tails
<1>6. SessionPart' /\ CurrentPart'
  BY <1>2, <1>3 DEF IndInv, SessionPart, CurrentPart
<1>7. GoalsPart' /\ NoOrphanGoal'
  BY <1>2, <1>4 DEF IndInv, GoalsPart, NoOrphanGoal
<1>8. HeldPart' /\ MotionHasActiveGoal'
  BY <1>2, <1>3 DEF HeldPart, MotionHasActiveGoal
<1>9. QED BY <1>5, <1>6, <1>7, <1>8 DEF IndInv

-----------------------------------------------------------------------------
(* Velocity commands and Nav2.                                             *)

LEMMA VelocityKeeps == ASSUME IndInv, Velocity PROVE IndInv'
<1>1. gw.goal \in 0..MaxGoals /\ gw.state \in Busy \cup Ended
  BY DEF IndInv, TypeOK, Gateway
<1>2. /\ held.by = "none"
      /\ held' = [by |-> "velocity", goal |-> gw.goal, state |-> gw.state]
      /\ UNCHANGED <<gw, mgr, inp, srv, tail, owed>>
  BY DEF Velocity, OperationLockFree
<1>3. held'.by = "velocity" /\ held'.state = gw.state
  BY <1>2
<1>4. TypeOK'
  BY <1>1, <1>2 DEF IndInv, TypeOK
<1>5. SessionPart' /\ CurrentPart' /\ GoalsPart'
  BY <1>2, <1>3 DEF IndInv, SessionPart, CurrentPart, GoalsPart
<1>6. HeldPart' /\ MotionHasActiveGoal' /\ NoOrphanGoal'
  BY <1>2, <1>3 DEF IndInv, HeldPart, MotionHasActiveGoal, NoOrphanGoal
<1>7. QED BY <1>4, <1>5, <1>6 DEF IndInv

LEMMA VelocitySubmitKeeps == ASSUME IndInv, VelocitySubmit PROVE IndInv'
<1>1. /\ held.by = "velocity" /\ held' = Free /\ held'.by = "none"
      /\ UNCHANGED <<inp, tail, owed>>
      /\ inp' \in [fresh : BOOLEAN, located : BOOLEAN]
      /\ owed' \in {"none", "navigation", "localization"}
  BY DEF VelocitySubmit, Free, IndInv, TypeOK
<1>2. CASE mgr' = Halted(mgr) /\ UNCHANGED <<gw, srv>>
  <2>1. /\ mgr' \in Manager /\ mgr'.lease = mgr.lease
        /\ mgr'.moving => mgr.moving
        /\ mgr'.moving => mgr.lease \notin Sessions
    BY <1>2, HaltedFacts
  <2>2. mgr'.moving => mgr'.lease # 0
    BY <2>1 DEF IndInv, SessionPart
  <2>3. QED BY <1>1, <1>2, <2>1, <2>2, ManagerStep
<1>3. CASE Deactivate
  BY <1>1, <1>3, FreeTyped, DeactivateStep
<1>4. CASE /\ held.state = "active" /\ Owned
           /\ mgr' = [mgr EXCEPT !.moving = TRUE] /\ UNCHANGED <<gw, srv>>
  <2>1. mgr' \in Manager /\ mgr'.lease = mgr.lease
    BY <1>4, ManagerFields DEF IndInv, TypeOK
  <2>2. mgr'.lease # 0
    BY <1>4, <2>1 DEF Owned
  <2>3. gw.state = "active" \/ \E g \in Goals : tail[g] = "stop"
    BY <1>1, <1>4 DEF IndInv, HeldPart
  <2>4. QED BY <1>1, <1>4, <2>1, <2>2, <2>3, ManagerStep
<1>5. QED BY <1>2, <1>3, <1>4 DEF VelocitySubmit

\* Nav2 accepts, refuses or ends goal g.
LEMMA PhaseKeeps ==
  ASSUME IndInv, NEW g \in Goals, NEW p \in {"running", "refused", "ended"},
         srv' = [srv EXCEPT ![g].phase = p],
         srv[g].phase \in {"requested", "running"},
         p = "running" => srv[g].phase = "requested",
         UNCHANGED <<gw, mgr, inp, tail, held, owed>>
  PROVE  IndInv'
<1> DEFINE r == [srv[g] EXCEPT !.phase = p]
<1>1. gw \in Gateway /\ srv \in [Goals -> Server]
  BY DEF IndInv, TypeOK
<1>2. r \in Server
  BY <1>1 DEF Server
<1>3. /\ r.phase = p /\ r.gen = srv[g].gen /\ r.cb = srv[g].cb
      /\ r.asked = srv[g].asked /\ r.unwatched = srv[g].unwatched
  BY <1>1 DEF Server
<1>4. srv' = [srv EXCEPT ![g] = r]
  BY <1>1
<1> HIDE DEF r
<1>5. /\ srv' \in [Goals -> Server] /\ srv'[g] = r
      /\ \A h \in Goals : h # g => srv'[h] = srv[h]
  BY <1>1, <1>2, <1>4, ServerUpdate
<1>6. TypeOK'
  BY <1>5 DEF IndInv, TypeOK
<1>7. SessionPart' /\ CurrentPart' /\ MotionHasActiveGoal'
  BY DEF IndInv, SessionPart, CurrentPart, MotionHasActiveGoal
<1>8. GoalsPart'
  BY <1>3, <1>5 DEF IndInv, GoalsPart
<1>9. HeldPart'
  <2>1. gw.handle # 0 => gw.handle \in Goals
    BY <1>1, GatewayFields, GoalNumber
  <2>2. gw.goal # 0 => gw.goal \in Goals
    BY <1>1, GatewayFields, GoalNumber
  <2>3. \A h \in Goals : /\ srv[h].phase = "none" => srv'[h].phase = "none"
                         /\ srv[h].asked => srv'[h].asked
    BY <1>3, <1>5
  <2>4. QED BY <2>1, <2>2, <2>3 DEF IndInv, HeldPart
<1>10. NoOrphanGoal'
  BY <1>3, <1>5 DEF IndInv, GoalsPart, NoOrphanGoal
<1>11. QED BY <1>6, <1>7, <1>8, <1>9, <1>10 DEF IndInv

LEMMA ServerDecideKeeps ==
  ASSUME IndInv, NEW g \in Goals, ServerDecide(g) PROVE IndInv'
BY PhaseKeeps DEF ServerDecide

LEMMA ServerEndKeeps ==
  ASSUME IndInv, NEW g \in Goals, ServerEnd(g) PROVE IndInv'
BY PhaseKeeps DEF ServerEnd

-----------------------------------------------------------------------------
(* The theorems.                                                           *)

LEMMA InitHolds == ASSUME Init PROVE IndInv
<1>1. 0 \in 0..MaxSessions /\ 0 \in 0..MaxGoals /\ 0 \in 0..MANUAL /\ 0 \in 0..MaxFaults
  BY BoundsAssumption DEF MANUAL
<1>2. gw \in Gateway /\ mgr \in Manager
  BY <1>1 DEF Init, Gateway, Manager, Ended
<1>3. srv \in [Goals -> Server]
  BY DEF Init, Server
<1>4. TypeOK
  BY <1>2, <1>3, FreeTyped DEF Init, TypeOK
<1>5. SessionPart /\ CurrentPart
  BY BoundsAssumption DEF Init, SessionPart, CurrentPart, Sessions, Busy
<1>6. GoalsPart
  BY DEF Init, GoalsPart
<1>7. HeldPart /\ MotionHasActiveGoal /\ NoOrphanGoal
  BY DEF Init, HeldPart, MotionHasActiveGoal, NoOrphanGoal, Free
<1>8. QED BY <1>4, <1>5, <1>6, <1>7 DEF IndInv

LEMMA NextKeeps == ASSUME IndInv, [Next]_vars PROVE IndInv'
<1>1. CASE Operator
  BY <1>1, ActivateKeeps, StopNavigationKeeps, ActivateLocalizationOnlyKeeps,
     StopLocalizationKeeps, SetInitialPoseKeeps, SendGoalKeeps,
     CancelGoalKeeps, ManualAcquireKeeps, ManualDriveKeeps, ManualReleaseKeeps
  DEF Operator
<1>2. CASE Inputs
  BY <1>2, NavigationInputCallbackKeeps, InputLostKeeps, InvalidSampleKeeps,
     CloseAfterInvalidSampleKeeps, VelocityKeeps, BadCommandKeeps DEF Inputs
<1>3. CASE Underway
  BY <1>3, SendGoalDispatchKeeps, CancelGoalStopKeeps, VelocitySubmitKeeps
  DEF Underway
<1>4. CASE ControlTick \/ LeaseEnds \/ CommandTimesOut
  BY <1>4, ControlTickKeeps, LeaseEndsKeeps, CommandTimesOutKeeps
<1>5. ASSUME NEW g \in Goals, Callbacks(g) \/ ServerDecide(g) \/ ServerEnd(g)
      PROVE  IndInv'
  BY <1>5, GoalResponseKeeps, AfterResponseKeeps, GoalFeedbackKeeps,
     GoalResultKeeps, IssueStopKeeps, ServerDecideKeeps, ServerEndKeeps
  DEF Callbacks
<1>6. CASE UNCHANGED vars
  BY <1>6 DEF vars, IndInv, TypeOK, SessionPart, CurrentPart, GoalsPart, HeldPart,
     MotionHasActiveGoal, NoOrphanGoal
<1>7. QED BY <1>1, <1>2, <1>3, <1>4, <1>5, <1>6 DEF Next

\* The invariant holds in every reachable state of the gateway.
THEOREM GatewayInvariant == Spec => []IndInv
<1>1. Init => IndInv
  BY InitHolds
<1>2. IndInv /\ [Next]_vars => IndInv'
  BY NextKeeps
<1>3. QED BY <1>1, <1>2, PTL DEF Spec

\* The gateway's records stay in their ranges; in particular a result callback
\* never writes a goal state without a name.
THEOREM GatewayTypeOK == Spec => []TypeOK
<1>1. IndInv => TypeOK
  BY DEF IndInv
<1>2. QED BY <1>1, GatewayInvariant, PTL

\* The robot moves on behalf of navigation only for the open session and its
\* active goal, or until the stop that a callback or a cancel already owes.
THEOREM MotionAlwaysHasGoal == Spec => []MotionHasActiveGoal
<1>1. IndInv => MotionHasActiveGoal
  BY DEF IndInv
<1>2. QED BY <1>1, GatewayInvariant, PTL

\* No goal runs on in Nav2 without its session, for any number of sessions and
\* goals and any order of requests, responses and results.
THEOREM NoGoalIsOrphaned == Spec => []NoOrphanGoal
<1>1. IndInv => NoOrphanGoal
  BY DEF IndInv
<1>2. QED BY <1>1, GatewayInvariant, PTL

\* A goal that left pending and active does not come back to them.
LEMMA NoStepRevives ==
  ASSUME IndInv, [Next]_vars, gw.goal = gw'.goal,
         gw.state \notin {"pending", "active"}
  PROVE  gw'.state \notin {"pending", "active"}
<1>1. gw \in Gateway /\ gw.goals \in Nat /\ gw.goal \in Nat /\ gw.goal <= gw.goals
  BY GatewayFields DEF IndInv, TypeOK, CurrentPart
<1>2. ASSUME EndLocalization PROVE gw'.state = gw.state
  BY <1>1, <1>2 DEF EndLocalization, Gateway
<1>3. ASSUME Deactivate PROVE gw'.state \notin {"pending", "active"}
  BY <1>1, <1>3 DEF Deactivate, Gateway
<1>4. CASE Activate \/ CancelGoal
  BY <1>1, <1>4 DEF Activate, CancelGoal, Gateway
<1>5. CASE SendGoal
  <2>1. gw'.goal = gw.goals + 1
    BY <1>1, <1>5 DEF SendGoal, Gateway
  <2>2. QED BY <1>1, <2>1
<1>6. CASE ActivateLocalizationOnly \/ SetInitialPose \/ NavigationInputCallback
  BY <1>1, <1>6 DEF ActivateLocalizationOnly, SetInitialPose,
     NavigationInputCallback, ValidSample, Gateway
<1>7. CASE StopNavigation \/ ControlTick \/ BadCommand \/ CloseAfterInvalidSample
  BY <1>2, <1>3, <1>7 DEF StopNavigation, ControlTick, BadCommand,
     CloseAfterInvalidSample
<1>8. CASE StopLocalization
  BY <1>2, <1>8 DEF StopLocalization
<1>9. CASE SendGoalDispatch
  BY <1>1, <1>9 DEF SendGoalDispatch, Gateway
<1>10. CASE VelocitySubmit
  BY <1>3, <1>10 DEF VelocitySubmit
<1>11. CASE \/ ManualAcquire \/ ManualDrive \/ ManualRelease \/ InputLost
            \/ InvalidSample \/ Velocity \/ CancelGoalStop \/ LeaseEnds
            \/ CommandTimesOut \/ UNCHANGED vars
  BY <1>11 DEF ManualAcquire, ManualDrive, ManualRelease, InputLost,
     InvalidSample, Velocity, CancelGoalStop, LeaseEnds, CommandTimesOut, vars
<1>12. ASSUME NEW g \in Goals, GoalResponse(g)
       PROVE  gw'.state \notin {"pending", "active"}
  <2>1. srv[g].cb = "respond" /\ srv[g].phase # "none"
    BY <1>12 DEF GoalResponse, IndInv, GoalsPart
  <2>2. CASE Stale(g)
    BY <1>12, <2>2 DEF GoalResponse
  <2>3. CASE ~Stale(g)
    <3>1. gw.state = "canceling" /\ gw.cancel
      BY <2>1, <2>3 DEF Stale, IndInv, GoalsPart, CurrentPart
    <3>2. QED BY <1>1, <1>12, <2>3, <3>1 DEF GoalResponse, Gateway
  <2>4. QED BY <2>2, <2>3
<1>13. ASSUME NEW g \in Goals, AfterResponse(g) \/ GoalResult(g)
       PROVE  gw'.state \notin {"pending", "active"}
  BY <1>1, <1>13 DEF AfterResponse, GoalResult, Gateway
<1>14. ASSUME NEW g \in Goals, \/ GoalFeedback(g) \/ IssueStop(g)
                                \/ ServerDecide(g) \/ ServerEnd(g)
       PROVE  gw'.state \notin {"pending", "active"}
  BY <1>14 DEF GoalFeedback, IssueStop, ServerDecide, ServerEnd
<1>15. QED BY <1>4, <1>5, <1>6, <1>7, <1>8, <1>9, <1>10, <1>11, <1>12, <1>13, <1>14
           DEF Next, Operator, Inputs, Underway, Callbacks

\* Whatever arrives late, a goal that was cancelled, failed or finished stays
\* so, for any number of sessions and goals.
THEOREM GoalsStayEnded == Spec => GoalNeverRevives
<1>1. IndInv /\ [Next]_vars =>
        [gw.goal = gw'.goal /\ gw.state \notin {"pending", "active"}
           => gw'.state \notin {"pending", "active"}]_vars
  BY NoStepRevives
<1>2. QED BY <1>1, GatewayInvariant, PTL DEF Spec, GoalNeverRevives
=============================================================================
