--------------------- MODULE MissionCoordinatorProofs ----------------------
(***************************************************************************)
(* What the mission coordinator promises, for any catalogue, any number of *)
(* requests, goals, failures of the store and restarts.                    *)
(*                                                                         *)
(* The argument: the owner of the fence is the one mission in an active    *)
(* state (FencePart), and an operation past its admission is the owner's   *)
(* (OpPart).  A goal that may move the robot is the one its mission has    *)
(* recorded, or the mission is marked uncertain (GoalPart), so a cleanup   *)
(* that finds neither a goal nor the mark has nothing to stop.  Goals are  *)
(* numbered, so the goal a mission recorded is the one of its present      *)
(* visit (NavPart).  A mission at an arrival has seen its success, or has  *)
(* moved on to the visit by a departure that was broken off (SteadyPart).  *)
(* What is true of the records is also true of the stored copies           *)
(* (DiskPart), which a restart brings back.                                *)
(***************************************************************************)
EXTENDS MissionCoordinator, SequenceTheorems, TLAPS

-----------------------------------------------------------------------------
(* The inductive invariant.                                                *)

Drivers == {"running", "pausing", "skipping", "canceling"}
TaskKinds == {"monitor", "handler"}

\* Where an operation may be: driving to the next visit, or cleaning up.
Between == {"dispatch", "dispatch_confirmed", "preflight"}
Onward == Between \cup {"send", "finish", "confirmed"}
Cleanup == {"cancel", "canceling"}
Failing == {"fail", "failing"}

Entry == [kind : Requests \cup TaskKinds \cup {"orphan"}, m : Missions, token : 0..Visits]
CloseEntry == [kind |-> "close", m |-> "none", token |-> 0]
Holders == [kind : Requests \cup TaskKinds \cup {"orphan", "close", "free"}, m : Owners,
            token : 0..Visits,
            pc : {"idle", "begin", "down"} \cup Onward \cup Cleanup \cup Failing]

Statuses == {"pending", "running", "completed", "skipped", "failed"}
Bounds == [requests : Nat, goals : 0..MaxGoals, faults : Nat, crashes : Nat]

DataTyped ==
  /\ ms \in [Missions -> MissionRecord] /\ active \in Owners /\ stops \subseteq Missions
  /\ nav \in [id : 0..MaxGoals, state : GoalActive \cup GoalTerminal,
              owner : Owners, visit : 0..Visits, ready : BOOLEAN, busy : BOOLEAN]
  /\ disk \in [ms : [Missions -> MissionRecord], active : Owners]
  /\ left \in Bounds

ControlTyped ==
  /\ op \in Holders
  /\ queue \in Seq(Entry \cup {CloseEntry})
  /\ mon \in [m : Owners, pc : {"none", "sleep", "wait", "handler"}]

\* The visits behind a mission are completed or skipped, and no visit counts
\* as completed whose own goal did not succeed, unless its departure was
\* broken off.
Behind(m, r) ==
  /\ \A v \in 1..Visits : r.status[v] = "completed" => <<m, v>> \in reached \cup broken
  /\ \A v \in 1..Visits : v < r.visit => r.status[v] \in {"completed", "skipped"}

\* A mission keeps a goal only while it drives or cleans up.
Shaped(r) ==
  /\ r.goal # 0 => /\ r.visit <= Visits /\ r.status[r.visit] = "running"
                   /\ r.phase \in {"navigating", "uncertain"} /\ r.state \in Drivers
  /\ r.state = "completed" => r.visit > Visits
  /\ r.state \in {"ready", "starting"} => r.phase \in {"ready", "planning"}
  /\ r.state = "ready" => r.visit <= Visits

RecordOK(m, r) == Behind(m, r) /\ Shaped(r)

RecordPart == \A m \in Missions : RecordOK(m, ms[m])

\* The stored copies, and the owner the document names.
DiskPart == /\ \A m \in Missions : RecordOK(m, disk.ms[m])
            /\ StoredIsLoadable

FencePart == \A m \in Missions : ms[m].state \in ActiveStates <=> active = m

Arrivals == {"holding", "after_arrival"}

\* A mission that drives or waits has a visit, and one that is at an arrival
\* has reached it or came to it by a broken departure, except between two
\* visits.
Steady(m, r) ==
  /\ r.state \in {"ready", "starting"} => r.visit <= Visits
  /\ r.state \in {"running", "pausing", "paused"} =>
       IF r.phase \in Arrivals THEN <<m, r.visit>> \in reached \cup broken
                              ELSE r.visit <= Visits

Underway(m) == op.m = m /\ op.pc \in Between /\ ms[m].state = "running"

SteadyPart == \A m \in Missions : ~Underway(m) => Steady(m, ms[m])

\* The goals that were ever given have the numbers 1 to Used.
Used == MaxGoals - left.goals

NavPart ==
  /\ nav.id = 0 => nav.state = "idle"
  /\ nav.id <= Used /\ \A m \in Missions : ms[m].goal <= Used
  /\ \A m \in Missions : ms[m].goal # 0 /\ ms[m].goal = nav.id =>
       nav.owner = m /\ nav.visit = ms[m].visit
  /\ nav.state = "succeeded" /\ nav.owner # "none" => <<nav.owner, nav.visit>> \in reached

\* A mission may still be driven by the goal the navigation view shows.
Driven(m) == nav.state \in GoalActive /\ nav.owner = m

Covers(r) == r.goal = nav.id \/ (r.state = "canceling" /\ r.phase = "uncertain")

GoalPart == \A m \in Missions : Driven(m) => Covers(ms[m])

\* What the holder of the lock knows at pc of its mission's record.
OpPart ==
  /\ op.pc \in Onward \cup Cleanup \cup Failing => op.m \in Missions /\ active = op.m
  /\ op.pc = "begin" => op.kind # "free" /\ (op.kind # "close" => op.m \in Missions)
  /\ op.pc \in Onward =>
       Me.goal = 0 /\ Me.state \in {"starting", "running", "skipping", "paused", "retrying"}
  /\ op.pc \in {"finish", "confirmed"} =>
       Me.state = "running" /\ Me.phase \in Arrivals
  /\ op.pc \in Between /\ Me.state = "running" => Me.phase \in Arrivals
  /\ op.pc \in {"preflight", "send"} => Me.visit <= Visits
  /\ op.pc = "send" =>
       Me.state = "running" /\ Me.phase = "navigating" /\ Me.status[Me.visit] = "running"
  /\ op.pc \in Cleanup => op.kind \in {"pause", "abort", "skip", "monitor", "close"}
  /\ op.pc \in Cleanup /\ op.kind = "pause" => Me.state = "pausing"
  /\ op.pc \in Cleanup /\ op.kind = "skip" => Me.state = "skipping"
  /\ op.pc \in Cleanup /\ op.kind \in {"abort", "monitor"} => Me.state = "canceling"
  /\ op.pc \in Failing => Me.state = "canceling"
  /\ op.pc \in {"canceling", "failing"} => Me.goal # 0

\* The monitor is one task: asleep, waiting at one place or holding the lock.
TaskPart ==
  /\ \A i, j \in TaskAt : i = j
  /\ op.kind \in TaskKinds => TaskAt = {} /\ mon.pc \in {"wait", "handler"}
  /\ mon.pc \in {"none", "sleep"} => TaskAt = {}
  /\ mon.pc # "none" => mon.m \in Missions

Data == /\ DataTyped /\ RecordPart /\ DiskPart /\ FencePart /\ NavPart /\ GoalPart
Control == ControlTyped /\ TaskPart
IndInv == Data /\ Control /\ SteadyPart /\ OpPart

-----------------------------------------------------------------------------
(* Records, and what a holder's step does to the data.                     *)

LEMMA Constants ==
  /\ Visits \in Nat /\ Visits >= 1 /\ MaxGoals \in Nat /\ 0 \in 0..MaxGoals /\ 0 \in 0..Visits
  /\ "none" \notin Missions /\ ConfirmBefore \subseteq 1..Visits
  /\ ConfirmAfter \subseteq 1..Visits
<1>1. MaxGoals \in Nat /\ Visits \in Nat \ {0}
  BY MissionAssumption
<1> QED
  BY <1>1, MissionAssumption

LEMMA RecordFields ==
  ASSUME NEW r \in MissionRecord
  PROVE  /\ r.state \in ActiveStates \cup {"ready", "completed", "failed"}
         /\ r.visit \in 1..Visits + 1 /\ r.goal \in 0..MaxGoals /\ r.token \in 0..Visits
         /\ r.status \in [1..Visits -> Statuses]
BY DEF MissionRecord, Statuses

LEMMA MissionUpdate ==
  ASSUME ms \in [Missions -> MissionRecord], NEW m \in Missions, NEW r \in MissionRecord,
         ms' = [ms EXCEPT ![m] = r]
  PROVE  /\ ms' \in [Missions -> MissionRecord] /\ ms'[m] = r
         /\ \A n \in Missions : n # m => ms'[n] = ms[n]
OBVIOUS

\* The status of the present visit changes, and the mission may go on to the
\* next one.
LEMMA StatusStep ==
  ASSUME NEW m, NEW r \in MissionRecord, NEW z \in MissionRecord, NEW s \in Statuses,
         Behind(m, r), r.visit <= Visits,
         z.status = [r.status EXCEPT ![r.visit] = s],
         s = "completed" => <<m, r.visit>> \in reached \cup broken,
         z.visit # r.visit => z.visit = r.visit + 1 /\ s \in {"completed", "skipped"}
  PROVE  Behind(m, z)
<1>1. /\ r.visit \in 1..Visits /\ r.status \in [1..Visits -> Statuses]
      /\ Visits \in Nat
  BY RecordFields, MissionAssumption
<1>2. z.status[r.visit] = s
  BY <1>1
<1>3. \A v \in 1..Visits : v # r.visit => z.status[v] = r.status[v]
  BY <1>1
<1>4. z.visit \in {r.visit, r.visit + 1}
  OBVIOUS
<1>5. ASSUME NEW v \in 1..Visits, z.status[v] = "completed"
      PROVE  <<m, v>> \in reached \cup broken
  <2>1. CASE v = r.visit
    BY <1>2, <1>5, <2>1
  <2>2. CASE v # r.visit
    BY <1>3, <1>5, <2>2 DEF Behind
  <2> QED
    BY <2>1, <2>2
<1>6. ASSUME NEW v \in 1..Visits, v < z.visit
      PROVE  z.status[v] \in {"completed", "skipped"}
  <2>1. CASE v = r.visit
    BY <1>1, <1>2, <1>6, <2>1
  <2>2. CASE v # r.visit
    <3>1. v < r.visit
      BY <1>1, <1>4, <1>6, <2>2
    <3> QED
      BY <1>3, <2>2, <3>1 DEF Behind
  <2> QED
    BY <2>1, <2>2
<1> QED
  BY <1>5, <1>6 DEF Behind

\* No mission that was aborted or interrupted changes.
Ended(r) == r.state = "failed" /\ r.outcome \in Barred
Kept == \A m \in Missions : Ended(ms[m]) => ms'[m] = ms[m]

\* The record that the holder gives its mission, and the fence with it, fit
\* the goal the navigation view shows.
Fits(r) ==
  /\ r \in MissionRecord /\ RecordOK(op.m, r)
  /\ r.goal \in {0, Me.goal} /\ (r.goal # 0 => r.visit = Me.visit)
  /\ Driven(op.m) => Covers(r)
  /\ Ended(Me) => r = Me

\* One step of the holder that leaves navigation alone.
LEMMA Turn ==
  ASSUME Data, Control, SteadyPart, op.m \in Missions,
         NEW r, Fits(r), ms' = [ms EXCEPT ![op.m] = r],
         active' # active => {active, active'} \subseteq {"none", op.m},
         r.state \in ActiveStates <=> active' = op.m,
         stops' \subseteq Missions, nav' = nav, UNCHANGED <<reached, broken>>,
         disk' \in {disk, [ms |-> ms', active |-> active']},
         left' \in Bounds, left'.goals = left.goals,
         ~(op'.m = op.m /\ op'.pc \in Between /\ r.state = "running") => Steady(op.m, r)
  PROVE  Data' /\ SteadyPart' /\ Kept
<1>1. r \in MissionRecord /\ RecordOK(op.m, r)
  BY DEF Fits
<1>2. /\ ms' \in [Missions -> MissionRecord] /\ ms'[op.m] = r
      /\ \A n \in Missions : n # op.m => ms'[n] = ms[n]
  BY <1>1, MissionUpdate DEF Data, DataTyped
<1>3. op.m # "none" /\ Me = ms[op.m]
  BY MissionAssumption DEF Me
<1>4. DataTyped'
  <2>1. active' \in Owners
    BY DEF Data, DataTyped, Owners
  <2> QED
    BY <1>2, <2>1 DEF Data, DataTyped
<1>5. RecordPart'
  BY <1>1, <1>2 DEF Data, RecordPart, RecordOK, Behind, Shaped
<1>6. FencePart'
  <2>1. ms'[op.m].state \in ActiveStates <=> active' = op.m
    BY <1>2
  <2>2. ASSUME NEW n \in Missions, n # op.m
        PROVE  ms'[n].state \in ActiveStates <=> active' = n
    <3>1. active = n <=> active' = n
      BY <2>2, MissionAssumption
    <3> QED
      BY <1>2, <2>2, <3>1 DEF Data, FencePart
  <2> QED
    BY <2>1, <2>2 DEF FencePart
<1>7. DiskPart'
  <2>1. CASE disk' = disk
    BY <2>1 DEF Data, DiskPart, RecordOK, Behind, Shaped, StoredIsLoadable
  <2>2. CASE disk' = [ms |-> ms', active |-> active']
    <3>1. disk'.ms = ms' /\ disk'.active = active'
      BY <2>2
    <3>2. \A m \in Missions : RecordOK(m, disk.ms[m])'
      BY <1>5, <3>1 DEF RecordPart, RecordOK, Behind, Shaped
    <3>3. StoredIsLoadable'
      BY <1>4, <1>6, <3>1 DEF StoredIsLoadable, FencePart, DataTyped, Owners
    <3> QED
      BY <3>2, <3>3 DEF DiskPart
  <2> QED
    BY <2>1, <2>2
<1>8. NavPart'
  <2>1. Used' = Used
    BY DEF Used
  <2>2. \A m \in Missions : ms'[m].goal <= Used
    <3>1. r.goal <= Used
      <4>1. Used \in Nat
        BY MissionAssumption DEF Data, DataTyped, Used, Bounds
      <4>2. Me.goal <= Used
        BY <1>3 DEF Data, NavPart
      <4> QED
        BY <4>1, <4>2 DEF Fits
    <3> QED
      BY <1>2, <3>1 DEF Data, NavPart
  <2>3. \A m \in Missions : ms'[m].goal # 0 /\ ms'[m].goal = nav.id =>
          nav.owner = m /\ nav.visit = ms'[m].visit
    BY <1>2, <1>3 DEF Data, NavPart, Fits
  <2> QED
    BY <2>1, <2>2, <2>3 DEF Data, NavPart
<1>9. GoalPart'
  BY <1>2, <1>3 DEF Data, GoalPart, Driven, Covers, Fits
<1>10. SteadyPart'
  BY <1>2, <1>3 DEF SteadyPart, Underway, Steady, Arrivals
<1>11. Kept
  BY <1>2, <1>3 DEF Kept, Fits
<1> QED
  BY <1>4, <1>5, <1>6, <1>7, <1>8, <1>9, <1>10, <1>11 DEF Data

\* A step that leaves the missions alone.
LEMMA Quiet ==
  ASSUME Data, SteadyPart, UNCHANGED <<ms, active, nav, reached, broken, disk>>,
         stops' \subseteq Missions, left' \in Bounds, left'.goals = left.goals,
         op.pc \in Between => op'.m = op.m /\ op'.pc \in Between
  PROVE  Data' /\ SteadyPart' /\ Kept
<1>1. DataTyped'
  BY DEF Data, DataTyped
<1>2. RecordPart' /\ FencePart'
  BY DEF Data, RecordPart, RecordOK, Behind, Shaped, FencePart
<1>3. DiskPart'
  BY DEF Data, DiskPart, RecordOK, Behind, Shaped, StoredIsLoadable
<1>4. NavPart' /\ GoalPart'
  BY DEF Data, NavPart, GoalPart, Driven, Covers, Used
<1>5. SteadyPart' /\ Kept
  BY DEF SteadyPart, Underway, Steady, Arrivals, Kept
<1> QED
  BY <1>1, <1>2, <1>3, <1>4, <1>5 DEF Data

-----------------------------------------------------------------------------
(* The queue, the monitor and the lock.                                    *)

Entries == Entry \cup {CloseEntry}
Plain == {e \in Entries : e.kind \notin TaskKinds}

LEMMA EntryFields ==
  ASSUME NEW e \in Entries
  PROVE  /\ e.kind \in Requests \cup TaskKinds \cup {"orphan", "close"}
         /\ e.kind # "close" => e.m \in Missions
         /\ e.m \in Owners /\ e.token \in 0..Visits
<1>1. CASE e \in Entry
  BY <1>1 DEF Entry, Owners
<1>2. CASE e = CloseEntry
  BY <1>2, MissionAssumption DEF CloseEntry, Owners
<1> QED
  BY <1>1, <1>2 DEF Entries

LEMMA QueueFields ==
  ASSUME Control
  PROVE  /\ queue \in Seq(Entries) /\ Len(queue) \in Nat /\ DOMAIN queue = 1..Len(queue)
         /\ \A i \in 1..Len(queue) : queue[i] \in Entries
         /\ TaskAt = {i \in 1..Len(queue) : queue[i].kind \in TaskKinds}
<1>1. queue \in Seq(Entries)
  BY DEF Control, ControlTyped, Entries
<1> QED
  BY <1>1 DEF TaskAt, TaskKinds

\* A queue without the monitor.
LEMMA PlainQueue ==
  ASSUME queue' \in Seq(Plain)
  PROVE  queue' \in Seq(Entries) /\ TaskAt' = {}
<1>1. DOMAIN queue' = 1..Len(queue') /\ \A i \in 1..Len(queue') : queue'[i] \in Plain
  OBVIOUS
<1>2. TaskAt' = {}
  BY <1>1 DEF TaskAt, Plain, TaskKinds
<1>3. queue' \in Seq(Entries)
  BY <1>1 DEF Plain
<1> QED
  BY <1>2, <1>3

LEMMA WaitingIsPlain ==
  ASSUME Control
  PROVE  Waiting \in Seq(Plain)
<1>1. /\ queue \in Seq(Entries) /\ Len(queue) \in Nat /\ DOMAIN queue = 1..Len(queue)
      /\ \A i \in 1..Len(queue) : queue[i] \in Entries
      /\ TaskAt = {i \in 1..Len(queue) : queue[i].kind \in TaskKinds}
  BY QueueFields
<1>2. CASE TaskAt = {}
  <2>1. \A i \in 1..Len(queue) : queue[i] \in Plain
    BY <1>1, <1>2 DEF Plain
  <2> QED
    BY <1>1, <1>2, <2>1 DEF Waiting
<1>3. CASE TaskAt # {}
  <2> DEFINE k == CHOOSE i \in TaskAt : TRUE
  <2>1. k \in TaskAt
    BY <1>3
  <2>2. Waiting = SubSeq(queue, 1, k - 1) \o SubSeq(queue, k + 1, Len(queue))
    BY <1>3 DEF Waiting
  <2> HIDE DEF k
  <2>3. k \in 1..Len(queue)
    BY <1>1, <2>1
  <2>4. \A i \in 1..Len(queue) : i # k => queue[i] \in Plain
    BY <1>1, <2>1 DEF Plain, Control, TaskPart
  <2>5. SubSeq(queue, 1, k - 1) \in Seq(Plain)
    <3>1. \A i \in 1..(k - 1) : queue[i] \in Plain
      BY <1>1, <2>3, <2>4
    <3>2. 1 \in Int /\ k - 1 \in Int
      BY <2>3
    <3> QED
      BY <3>1, <3>2, SubSeqProperties
  <2>6. SubSeq(queue, k + 1, Len(queue)) \in Seq(Plain)
    <3>1. \A i \in (k + 1)..Len(queue) : queue[i] \in Plain
      BY <1>1, <2>3, <2>4
    <3>2. k + 1 \in Int /\ Len(queue) \in Int
      BY <1>1, <2>3
    <3> QED
      BY <3>1, <3>2, SubSeqProperties
  <2> QED
    BY <2>2, <2>5, <2>6, ConcatProperties
<1> QED
  BY <1>2, <1>3

LEMMA OrphanedIsPlain ==
  ASSUME Control
  PROVE  Orphaned \in Seq(Plain)
<1>1. /\ Len(queue) \in Nat /\ DOMAIN queue = 1..Len(queue)
      /\ \A i \in 1..Len(queue) : queue[i] \in Entries
      /\ TaskAt = {i \in 1..Len(queue) : queue[i].kind \in TaskKinds}
  BY QueueFields
<1>2. CASE \E i \in DOMAIN queue : queue[i].kind = "handler"
  <2> DEFINE s == [i \in 1..Len(queue) |->
                     IF queue[i].kind = "handler" THEN [queue[i] EXCEPT !.kind = "orphan"]
                                                  ELSE queue[i]]
  <2>1. Orphaned = s
    BY <1>1, <1>2 DEF Orphaned
  <2>2. ASSUME NEW i \in 1..Len(queue) PROVE s[i] \in Plain
    <3>1. CASE queue[i].kind = "handler"
      <4>1. queue[i] \in Entry
        BY <1>1, <3>1 DEF Entries, CloseEntry
      <4>2. [queue[i] EXCEPT !.kind = "orphan"] \in Entry
        BY <4>1 DEF Entry
      <4>3. [queue[i] EXCEPT !.kind = "orphan"].kind = "orphan"
        BY <4>1 DEF Entry
      <4> QED
        BY <3>1, <4>2, <4>3 DEF Plain, Entries, TaskKinds
    <3>2. CASE queue[i].kind # "handler"
      <4>1. PICK j \in 1..Len(queue) : queue[j].kind = "handler"
        BY <1>1, <1>2
      <4>2. queue[i].kind \notin TaskKinds
        BY <1>1, <3>2, <4>1 DEF Control, TaskPart, TaskKinds
      <4> QED
        BY <1>1, <3>2, <4>2 DEF Plain
    <3> QED
      BY <3>1, <3>2
  <2>3. s \in [1..Len(queue) -> Plain]
    BY <2>2
  <2> HIDE DEF s
  <2> QED
    BY <1>1, <2>1, <2>3
<1>3. CASE ~\E i \in DOMAIN queue : queue[i].kind = "handler"
  BY <1>3, WaitingIsPlain DEF Orphaned
<1> QED
  BY <1>2, <1>3

\* A task waits in line: the monitor where it is not yet.
LEMMA Appended ==
  ASSUME Control, NEW e \in Entries, queue' = Append(queue, e),
         e.kind \in TaskKinds => TaskAt = {}
  PROVE  /\ queue' \in Seq(Entries) /\ \A i, j \in TaskAt' : i = j
         /\ e.kind \notin TaskKinds => TaskAt' = TaskAt
<1>1. /\ queue \in Seq(Entries) /\ Len(queue) \in Nat
      /\ TaskAt = {i \in 1..Len(queue) : queue[i].kind \in TaskKinds}
  BY QueueFields
<1>2. /\ queue' \in Seq(Entries) /\ DOMAIN queue' = 1..(Len(queue) + 1)
      /\ queue'[Len(queue) + 1] = e
      /\ \A i \in 1..Len(queue) : queue'[i] = queue[i]
  BY <1>1
<1>3. TaskAt' = {i \in 1..(Len(queue) + 1) : queue'[i].kind \in TaskKinds}
  BY <1>2 DEF TaskAt, TaskKinds
<1>4. CASE e.kind \in TaskKinds
  <2>1. TaskAt' \subseteq {Len(queue) + 1}
    BY <1>1, <1>2, <1>3, <1>4
  <2> QED
    BY <1>2, <1>4, <2>1
<1>5. CASE e.kind \notin TaskKinds
  <2>1. TaskAt' = TaskAt
    BY <1>1, <1>2, <1>3, <1>5
  <2> QED
    BY <1>2, <1>5, <2>1 DEF Control, TaskPart
<1> QED
  BY <1>4, <1>5

LEMMA FreeFacts ==
  Free \in Holders /\ Free.pc = "idle" /\ Free.kind = "free" /\ Free.m = "none"
BY MissionAssumption DEF Free, Holders, Owners

LEMMA NoTaskFacts ==
  /\ NoTask \in [m : Owners, pc : {"none", "sleep", "wait", "handler"}]
  /\ NoTask.pc = "none"
BY DEF NoTask, Owners

\* The lock is free.
LEMMA OpFree ==
  ASSUME op' = Free
  PROVE  OpPart'
BY FreeFacts DEF OpPart, Arrivals, Onward, Between, Cleanup, Failing

LEMMA OpAt ==
  ASSUME Control, NEW pc \in Onward \cup Cleanup \cup Failing \cup {"down"},
         op' = [op EXCEPT !.pc = pc]
  PROVE  op' \in Holders /\ op'.pc = pc /\ op'.m = op.m /\ op'.kind = op.kind
BY DEF Control, ControlTyped, Holders

\* The holder goes on.
LEMMA ControlGoto ==
  ASSUME Control, NEW pc \in Onward \cup Cleanup \cup Failing \cup {"down"}, Goto(pc)
  PROVE  Control' /\ op'.pc = pc /\ op'.m = op.m /\ op'.kind = op.kind
<1>1. op' \in Holders /\ op'.pc = pc /\ op'.m = op.m /\ op'.kind = op.kind
  BY OpAt DEF Goto
<1>2. queue' = queue /\ mon' = mon /\ TaskAt' = TaskAt
  BY DEF Goto, TaskAt
<1> QED
  BY <1>1, <1>2 DEF Control, ControlTyped, TaskPart

\* The holder leaves and nothing else happens.
LEMMA ControlFree ==
  ASSUME Control, op' = Free, queue' = queue, mon' = mon
  PROVE  Control'
<1>1. TaskAt' = TaskAt
  BY DEF TaskAt
<1> QED
  BY <1>1, FreeFacts DEF Control, ControlTyped, TaskPart, TaskKinds

\* The holder was the monitor, and the monitor has ended.
LEMMA ControlEnds ==
  ASSUME Control, op.kind \in TaskKinds, op' = Free, queue' = queue, mon' = NoTask
  PROVE  Control'
<1>1. TaskAt' = {}
  BY DEF TaskAt, Control, TaskPart
<1> QED
  BY <1>1, FreeFacts, NoTaskFacts DEF Control, ControlTyped, TaskPart, TaskKinds

\* The monitor is stopped by an operation that is not its own.
LEMMA ControlStops ==
  ASSUME Control, op.kind \notin TaskKinds, mon' = NoTask, queue' = Waiting,
         op' \in Holders, op'.kind \in {"free", op.kind}
  PROVE  Control'
<1>1. queue' \in Seq(Entries) /\ TaskAt' = {}
  BY WaitingIsPlain, PlainQueue
<1> QED
  BY <1>1, NoTaskFacts DEF Control, ControlTyped, TaskPart, TaskKinds, Entries

LEMMA ControlReturn ==
  ASSUME Control, NEW r, Return(r), op.m \in Missions
  PROVE  Control' /\ op' = Free
<1>1. op' = Free
  BY DEF Return
<1>2. CASE op.kind = "monitor"
  <2>1. queue' = queue /\ mon' \in {[mon EXCEPT !.pc = "sleep"], NoTask}
    BY <1>2 DEF Return
  <2>2. op.kind \in TaskKinds /\ mon.pc \in {"wait", "handler"}
    BY <1>2 DEF TaskKinds, Control, TaskPart
  <2>3. CASE mon' = [mon EXCEPT !.pc = "sleep"]
    <3>1. /\ mon' \in [m : Owners, pc : {"none", "sleep", "wait", "handler"}]
          /\ mon'.m = mon.m /\ mon'.pc = "sleep"
      BY <2>3 DEF Control, ControlTyped
    <3>2. TaskAt' = {}
      BY <2>1, <2>2 DEF TaskAt, Control, TaskPart
    <3>3. mon'.m \in Missions
      BY <2>2, <3>1 DEF Control, TaskPart
    <3> QED
      BY <1>1, <2>1, <3>1, <3>2, <3>3, FreeFacts
         DEF Control, ControlTyped, TaskPart, TaskKinds
  <2>4. CASE mon' = NoTask
    BY <1>1, <2>1, <2>2, <2>4, ControlEnds
  <2> QED
    BY <1>1, <2>1, <2>3, <2>4
<1>3. CASE op.kind = "handler"
  <2>1. mon' = NoTask /\ queue' = queue /\ op.kind \in TaskKinds
    BY <1>3 DEF Return, TaskKinds
  <2> QED
    BY <1>1, <2>1, ControlEnds
<1>4. CASE op.kind \in {"start", "resume", "skip", "retry"} /\ r.state = "running"
  <2>1. mon' = [m |-> op.m, pc |-> "sleep"] /\ queue' = Orphaned
    BY <1>4 DEF Return
  <2>2. queue' \in Seq(Entries) /\ TaskAt' = {}
    BY <2>1, OrphanedIsPlain, PlainQueue
  <2>3. /\ mon' \in [m : Owners, pc : {"none", "sleep", "wait", "handler"}]
        /\ mon'.m = op.m /\ mon'.pc = "sleep"
    BY <2>1 DEF Owners
  <2> QED
    BY <1>1, <2>2, <2>3, FreeFacts DEF Control, ControlTyped, TaskPart, TaskKinds, Entries
<1>5. CASE /\ op.kind \notin TaskKinds
           /\ ~(op.kind \in {"start", "resume", "skip", "retry"} /\ r.state = "running")
  <2>1. queue' = queue /\ mon' = mon
    BY <1>5 DEF Return, TaskKinds
  <2> QED
    BY <1>1, <2>1, ControlFree
<1> QED
  BY <1>2, <1>3, <1>4, <1>5 DEF TaskKinds

LEMMA ControlRaise ==
  ASSUME Control, Raise, op.m \in Missions
  PROVE  Control' /\ op' = Free
<1>1. op' = Free
  BY DEF Raise
<1>2. CASE op.kind = "monitor"
  <2> DEFINE e == [kind |-> "handler", m |-> op.m, token |-> 0]
  <2>1. mon' = [mon EXCEPT !.pc = "handler"] /\ queue' = Append(queue, e)
    BY <1>2 DEF Raise
  <2>2. TaskAt = {} /\ mon.pc \in {"wait", "handler"}
    BY <1>2 DEF TaskKinds, Control, TaskPart
  <2>3. e \in Entries /\ e.kind \in TaskKinds
    BY MissionAssumption DEF Entries, Entry, TaskKinds
  <2> HIDE DEF e
  <2>4. queue' \in Seq(Entries) /\ \A i, j \in TaskAt' : i = j
    BY <2>1, <2>2, <2>3, Appended
  <2>5. /\ mon' \in [m : Owners, pc : {"none", "sleep", "wait", "handler"}]
        /\ mon'.m = mon.m /\ mon'.pc = "handler"
    BY <2>1 DEF Control, ControlTyped
  <2>6. mon'.m \in Missions
    BY <2>2, <2>5 DEF Control, TaskPart
  <2> QED
    BY <1>1, <2>4, <2>5, <2>6, FreeFacts
       DEF Control, ControlTyped, TaskPart, TaskKinds, Entries
<1>3. CASE op.kind = "handler"
  <2>1. mon' = NoTask /\ queue' = queue /\ op.kind \in TaskKinds
    BY <1>3 DEF Raise, TaskKinds
  <2> QED
    BY <1>1, <2>1, ControlEnds
<1>4. CASE op.kind \notin TaskKinds
  <2>1. queue' = queue /\ mon' = mon
    BY <1>4 DEF Raise, TaskKinds
  <2> QED
    BY <1>1, <2>1, ControlFree
<1> QED
  BY <1>2, <1>3, <1>4 DEF TaskKinds

-----------------------------------------------------------------------------
(* What every operation uses.                                              *)

Stored == /\ disk' \in {disk, [ms |-> ms', active |-> active']}
          /\ left' \in Bounds /\ left'.goals = left.goals

LEMMA SaveFacts ==
  ASSUME Data, Saved \/ SaveFailed \/ Unsaved
  PROVE  Stored
<1>1. left \in Bounds
  BY DEF Data, DataTyped
<1>2. CASE Saved
  BY <1>1, <1>2 DEF Saved, Stored
<1>3. CASE SaveFailed
  <2>1. left' = [left EXCEPT !.faults = @ - 1] /\ left.faults > 0
    BY <1>3 DEF SaveFailed
  <2>2. left' \in Bounds /\ left'.goals = left.goals
    BY <1>1, <2>1 DEF Bounds
  <2> QED
    BY <1>3, <2>2 DEF SaveFailed, Stored
<1>4. CASE Unsaved
  BY <1>1, <1>4 DEF Unsaved, Stored
<1> QED
  BY <1>2, <1>3, <1>4

LEMMA Done ==
  ASSUME Data', Control', SteadyPart', Kept, op' = Free
  PROVE  IndInv' /\ Kept
BY OpFree DEF IndInv

\* The holder's mission, and the goal that may still drive it.
LEMMA MeFacts ==
  ASSUME Data, op.m \in Missions
  PROVE  /\ Me \in MissionRecord /\ RecordOK(op.m, Me) /\ Me = ms[op.m]
         /\ Me.state \in ActiveStates <=> active = op.m
         /\ Driven(op.m) => Covers(Me)
         /\ Driven(op.m) /\ Me.goal = 0 => Me.state = "canceling" /\ Me.phase = "uncertain"
<1>1. Me = ms[op.m] /\ Me \in MissionRecord /\ RecordOK(op.m, Me)
  BY DEF Me, Data, DataTyped, RecordPart
<1>2. Me.state \in ActiveStates <=> active = op.m
  BY <1>1 DEF Data, FencePart
<1>3. Driven(op.m) => Covers(Me)
  BY <1>1 DEF Data, GoalPart
<1>4. Driven(op.m) => nav.id # 0
  BY DEF Driven, Data, NavPart, GoalActive
<1> QED
  BY <1>1, <1>2, <1>3, <1>4 DEF Covers

LEMMA AllSteady ==
  ASSUME SteadyPart, op.m \in Missions, op.pc \notin Between
  PROVE  Steady(op.m, Me)
BY DEF SteadyPart, Underway, Me

\* The holder's mission is to drive to its next visit.
LEMMA OpOnward ==
  ASSUME op'.pc \in {"dispatch", "dispatch_confirmed"}, op.m \in Missions, op'.m = op.m,
         active' = op.m, ms'[op.m].goal = 0,
         ms'[op.m].state \in {"starting", "running", "skipping", "paused", "retrying"},
         ms'[op.m].state = "running" => ms'[op.m].phase \in Arrivals
  PROVE  OpPart'
BY DEF OpPart, Arrivals, Me, Onward, Between, Cleanup, Failing

\* The holder's mission is to give up its goal.
LEMMA OpCancel ==
  ASSUME op'.pc = "cancel", op.m \in Missions, op'.m = op.m, active' = op.m,
         op'.kind \in {"pause", "abort", "skip", "monitor", "close"},
         op'.kind = "pause" => ms'[op.m].state = "pausing",
         op'.kind = "skip" => ms'[op.m].state = "skipping",
         op'.kind \in {"abort", "monitor"} => ms'[op.m].state = "canceling"
  PROVE  OpPart'
BY DEF OpPart, Arrivals, Me, Onward, Between, Cleanup, Failing

LEMMA BeginFacts ==
  ASSUME IndInv, op.pc = "begin", op.kind # "close"
  PROVE  op.m \in Missions /\ op.pc \notin Between /\ Steady(op.m, Me) /\ op.m # "none"
<1>1. op.m \in Missions /\ op.pc \notin Between
  BY DEF IndInv, OpPart, Between
<1>2. Steady(op.m, Me)
  BY <1>1, AllSteady DEF IndInv
<1>3. op.m # "none"
  BY <1>1, MissionAssumption
<1> QED
  BY <1>1, <1>2, <1>3

LEMMA Refused ==
  ASSUME IndInv, op.pc = "begin", Refuse
  PROVE  IndInv' /\ Kept
<1>1. /\ op' = Free /\ UNCHANGED <<ms, active, nav, reached, broken, disk>>
      /\ queue' = queue /\ mon' = mon /\ stops' = stops /\ left' = left
  BY DEF Refuse
<1>2. stops \subseteq Missions /\ left \in Bounds
  BY DEF IndInv, Data, DataTyped
<1>3. op.pc \notin Between
  BY DEF Between
<1>4. Data' /\ SteadyPart' /\ Kept
  BY <1>1, <1>2, <1>3, Quiet DEF IndInv
<1>5. Control'
  BY <1>1, ControlFree DEF IndInv
<1> QED
  BY <1>1, <1>4, <1>5, Done

\* The context guard raises in the claim.
LEMMA ClaimRaised ==
  ASSUME IndInv, op.pc = "begin", op.kind # "close", ClaimRaises
  PROVE  IndInv' /\ Kept
<1>1. /\ Raise /\ stops' = stops \ {op.m}
      /\ UNCHANGED <<ms, active, nav, reached, broken, disk, left>>
  BY DEF ClaimRaises
<1>2. stops' \subseteq Missions /\ left' \in Bounds
  BY <1>1 DEF IndInv, Data, DataTyped
<1>3. op.m \in Missions /\ op.pc \notin Between
  BY BeginFacts
<1>4. Data' /\ SteadyPart' /\ Kept
  BY <1>1, <1>2, <1>3, Quiet DEF IndInv
<1>5. Control' /\ op' = Free
  BY <1>1, <1>3, ControlRaise DEF IndInv
<1> QED
  BY <1>4, <1>5, Done

\* A departure is broken off: the visit the mission came to is noted, and
\* nothing else changes.
LEMMA BrokenOff ==
  ASSUME IndInv, op.pc \in Between, BreaksOff, Raise,
         UNCHANGED <<ms, active, stops, nav, reached, disk>>,
         left' \in Bounds, left'.goals = left.goals
  PROVE  IndInv' /\ Kept
<1>1. op.m \in Missions
  BY DEF IndInv, OpPart, Onward
<1>2. Control' /\ op' = Free
  BY <1>1, ControlRaise DEF IndInv
<1>3. /\ broken \subseteq broken'
      /\ Me.state = "running" => <<op.m, Me.visit>> \in broken' /\ Me.phase \in Arrivals
  BY DEF BreaksOff, IndInv, OpPart
<1>4. DataTyped' /\ FencePart' /\ NavPart' /\ GoalPart'
  BY DEF IndInv, Data, DataTyped, FencePart, NavPart, GoalPart, Driven, Covers, Used
<1>5. RecordPart'
  BY <1>3 DEF IndInv, Data, RecordPart, RecordOK, Behind, Shaped
<1>6. DiskPart'
  BY <1>3 DEF IndInv, Data, DiskPart, RecordOK, Behind, Shaped, StoredIsLoadable
<1>7. SteadyPart'
  <2>1. ASSUME NEW m \in Missions PROVE Steady(m, ms[m])'
    <3>1. CASE Underway(m)
      BY <1>3, <3>1 DEF Underway, Steady, Arrivals, Me
    <3>2. CASE ~Underway(m)
      BY <1>3, <3>2 DEF IndInv, SteadyPart, Steady, Arrivals
    <3> QED
      BY <3>1, <3>2
  <2> QED
    BY <2>1 DEF SteadyPart
<1>8. Kept
  BY DEF Kept
<1> QED
  BY <1>2, <1>4, <1>5, <1>6, <1>7, <1>8, Done DEF Data

\* An operation that saves its mission's new record z and then drives on, or
\* raises because the save failed.
LEMMA SavesThenDrives ==
  ASSUME IndInv, op.pc = "begin", op.kind # "close", NEW z, Fits(z),
         NEW pc \in {"dispatch", "dispatch_confirmed"}, Becomes(z), SaveThen(pc), Claim,
         active \in {"none", op.m}, UNCHANGED <<nav, reached, broken>>, Steady(op.m, z), z.goal = 0,
         z.state \in {"starting", "skipping", "paused", "retrying"}
  PROVE  IndInv' /\ Kept
<1>1. op.m \in Missions /\ op.m # "none"
  BY BeginFacts
<1>2. ms' = [ms EXCEPT ![op.m] = z] /\ active' = op.m /\ z.state \in ActiveStates
  BY DEF Becomes, Claim, ActiveStates
<1>3. stops' \subseteq Missions
  BY DEF Claim, IndInv, Data, DataTyped
<1>4. Stored
  BY SaveFacts DEF SaveThen, IndInv
<1>5. Data' /\ SteadyPart' /\ Kept
  BY <1>1, <1>2, <1>3, <1>4, Turn DEF IndInv, Stored
<1>6. ms'[op.m] = z
  BY <1>1, <1>2, MissionUpdate DEF Fits, IndInv, Data, DataTyped
<1>7. CASE Goto(pc)
  <2>1. pc \in Onward \cup Cleanup \cup Failing \cup {"down"}
    BY DEF Onward, Between
  <2>2. Control' /\ op'.pc = pc /\ op'.m = op.m
    BY <1>7, <2>1, ControlGoto DEF IndInv
  <2>3. OpPart'
    BY <1>1, <1>2, <1>6, <2>2, OpOnward
  <2> QED
    BY <1>5, <2>2, <2>3 DEF IndInv
<1>8. CASE Raise
  <2>1. Control' /\ op' = Free
    BY <1>1, <1>8, ControlRaise DEF IndInv
  <2> QED
    BY <1>5, <2>1, Done
<1> QED
  BY <1>7, <1>8 DEF SaveThen

-----------------------------------------------------------------------------
(* Requests.                                                               *)

LEMMA StartStep ==
  ASSUME IndInv, Start
  PROVE  IndInv' /\ Kept
<1>1. op.pc = "begin" /\ op.kind # "close"
  BY DEF Start, Begins
<1>2. CASE ~MayStart
  BY <1>1, <1>2, Refused DEF Start
<1>3. CASE MayStart /\ nav.busy
  BY <1>1, <1>3, ClaimRaised DEF Start
<1>4. CASE MayStart /\ ~nav.busy
  <2> DEFINE z == [Me EXCEPT !.state = "starting", !.outcome = "none"]
  <2>1. op.m \in Missions /\ Steady(op.m, Me)
    BY <1>1, BeginFacts
  <2>2. /\ Me \in MissionRecord /\ RecordOK(op.m, Me)
        /\ Driven(op.m) /\ Me.goal = 0 => Me.state = "canceling"
    BY <2>1, MeFacts DEF IndInv
  <2>3. Me.state = "ready" /\ active \in {"none", op.m}
    BY <1>4 DEF MayStart, Claimable
  <2>4. Becomes(z) /\ Claim /\ SaveThen("dispatch") /\ UNCHANGED <<nav, reached, broken>>
    BY <1>4 DEF Start
  <2>5. z \in MissionRecord
    BY <2>2 DEF MissionRecord, ActiveStates
  <2>6. /\ z.state = "starting" /\ z.phase = Me.phase /\ z.visit = Me.visit
        /\ z.status = Me.status /\ z.goal = Me.goal
    BY <2>2 DEF MissionRecord
  <2> HIDE DEF z
  <2>7. Me.goal = 0
    BY <2>2, <2>3 DEF RecordOK, Shaped, Drivers
  <2>8. RecordOK(op.m, z)
    BY <2>2, <2>3, <2>6, <2>7 DEF RecordOK, Behind, Shaped
  <2>9. Fits(z)
    BY <2>2, <2>3, <2>5, <2>6, <2>7, <2>8 DEF Fits, Ended
  <2>10. Steady(op.m, z)
    BY <2>1, <2>3, <2>6 DEF Steady, Arrivals
  <2> QED
    BY <1>1, <2>3, <2>4, <2>6, <2>7, <2>9, <2>10, SavesThenDrives
<1> QED
  BY <1>2, <1>3, <1>4

LEMMA RetryStep ==
  ASSUME IndInv, Retry
  PROVE  IndInv' /\ Kept
<1>1. op.pc = "begin" /\ op.kind # "close"
  BY DEF Retry, Begins
<1>2. CASE ~MayRetry
  BY <1>1, <1>2, Refused DEF Retry
<1>3. CASE MayRetry /\ nav.busy
  BY <1>1, <1>3, ClaimRaised DEF Retry
<1>4. CASE MayRetry /\ ~nav.busy
  <2> DEFINE s == IF Me.visit > Visits THEN Me.status
                  ELSE [Me.status EXCEPT ![Me.visit] = "pending"]
             z == [Me EXCEPT !.state = "retrying", !.outcome = "none", !.goal = 0,
                             !.status = s]
  <2>1. op.m \in Missions
    BY <1>1, BeginFacts
  <2>2. /\ Me \in MissionRecord /\ RecordOK(op.m, Me)
        /\ Driven(op.m) /\ Me.goal = 0 => Me.state = "canceling"
    BY <2>1, MeFacts DEF IndInv
  <2>3. Me.state = "failed" /\ Me.outcome \notin Barred /\ active \in {"none", op.m}
    BY <1>4 DEF MayRetry, Claimable
  <2>4. Becomes(z) /\ Claim /\ SaveThen("dispatch_confirmed") /\ UNCHANGED <<nav, reached, broken>>
    BY <1>4 DEF Retry
  <2>5. Me.visit \in 1..Visits + 1 /\ Me.status \in [1..Visits -> Statuses] /\ Visits \in Nat
    BY <2>2, RecordFields, MissionAssumption
  <2>6. s \in [1..Visits -> Statuses]
    BY <2>5 DEF Statuses
  <2> HIDE DEF s
  <2>7. z \in MissionRecord
    BY <2>2, <2>6, Constants DEF MissionRecord, ActiveStates, Statuses
  <2>8. /\ z.state = "retrying" /\ z.visit = Me.visit /\ z.status = s /\ z.goal = 0
    BY <2>2 DEF MissionRecord
  <2>9. Me.goal = 0
    BY <2>2, <2>3 DEF RecordOK, Shaped, Drivers
  <2>10. Behind(op.m, z)
    <3>1. CASE Me.visit > Visits
      BY <2>2, <2>8, <3>1 DEF RecordOK, Behind, s
    <3>2. CASE ~(Me.visit > Visits)
      <4>1. z.status = [Me.status EXCEPT ![Me.visit] = "pending"] /\ Me.visit <= Visits
        BY <2>5, <2>8, <3>2 DEF s
      <4>2. "pending" \in Statuses
        BY DEF Statuses
      <4> HIDE DEF z
      <4> QED
        BY <2>2, <2>7, <2>8, <4>1, <4>2, StatusStep DEF RecordOK
    <3> QED
      BY <3>1, <3>2
  <2> HIDE DEF z
  <2>11. Fits(z)
    BY <2>2, <2>3, <2>7, <2>8, <2>9, <2>10 DEF Fits, Ended, RecordOK, Shaped
  <2>12. Steady(op.m, z)
    BY <2>8 DEF Steady, Arrivals
  <2> QED
    BY <1>1, <2>3, <2>4, <2>8, <2>11, <2>12, SavesThenDrives
<1> QED
  BY <1>2, <1>3, <1>4

\* pause and abort of the owner.
LEMMA StopsThenCancels ==
  ASSUME IndInv, op.pc = "begin", active = op.m, NEW s, StopThenCancel(s),
         \/ op.kind = "pause" /\ s = "pausing" /\ Me.state \in {"starting", "running"}
         \/ op.kind = "abort" /\ s = "canceling"
  PROVE  IndInv' /\ Kept
<1> DEFINE z == [Me EXCEPT !.state = s]
<1>1. op.m \in Missions /\ Steady(op.m, Me)
  BY BeginFacts
<1>2. /\ Me \in MissionRecord /\ RecordOK(op.m, Me) /\ Me.state \in ActiveStates
      /\ Driven(op.m) => Covers(Me)
  BY <1>1, MeFacts DEF IndInv
<1>3. /\ op' = [op EXCEPT !.pc = "cancel"] /\ mon' = NoTask /\ queue' = Waiting
      /\ ms' = [ms EXCEPT ![op.m] = z] /\ UNCHANGED <<active, stops, nav, reached, broken>>
  BY DEF StopThenCancel, Becomes
<1>4. z \in MissionRecord
  BY <1>2 DEF MissionRecord, ActiveStates
<1>5. /\ z.state = s /\ z.phase = Me.phase /\ z.visit = Me.visit
      /\ z.status = Me.status /\ z.goal = Me.goal
  BY <1>2 DEF MissionRecord
<1> HIDE DEF z
<1>6. RecordOK(op.m, z)
  BY <1>2, <1>5 DEF RecordOK, Behind, Shaped, Drivers
<1>7. Driven(op.m) => Covers(z)
  BY <1>2, <1>5 DEF Covers
<1>8. Fits(z)
  BY <1>2, <1>4, <1>5, <1>6, <1>7 DEF Fits, Ended, ActiveStates
<1>9. Steady(op.m, z)
  BY <1>1, <1>2, <1>5 DEF Steady, Arrivals, RecordOK, Shaped
<1>10. Stored
  BY SaveFacts DEF StopThenCancel, SavedForStop, IndInv
<1>11. z.state \in ActiveStates /\ stops' \subseteq Missions
  BY <1>3, <1>5 DEF ActiveStates, IndInv, Data, DataTyped
<1>12. Data' /\ SteadyPart' /\ Kept
  BY <1>1, <1>3, <1>8, <1>9, <1>10, <1>11, Turn DEF IndInv, Stored
<1>13. ms'[op.m] = z
  BY <1>1, <1>3, <1>4, MissionUpdate DEF IndInv, Data, DataTyped
<1>14. op' \in Holders /\ op'.pc = "cancel" /\ op'.m = op.m /\ op'.kind = op.kind
  BY <1>3, OpAt DEF IndInv, Cleanup
<1>15. Control'
  BY <1>3, <1>14, ControlStops DEF IndInv, TaskKinds
<1>16. OpPart'
  BY <1>1, <1>3, <1>5, <1>13, <1>14, OpCancel
<1> QED
  BY <1>12, <1>15, <1>16 DEF IndInv

LEMMA PauseStep ==
  ASSUME IndInv, Pause
  PROVE  IndInv' /\ Kept
<1>1. op.pc = "begin" /\ op.kind = "pause"
  BY DEF Pause, Begins
<1>2. CASE Me.state \in {"starting", "running"} /\ active = op.m
  BY <1>1, <1>2, StopsThenCancels DEF Pause
<1>3. CASE ~(Me.state \in {"starting", "running"} /\ active = op.m)
  BY <1>1, <1>3, Refused DEF Pause
<1> QED
  BY <1>2, <1>3

LEMMA AbortStep ==
  ASSUME IndInv, Abort
  PROVE  IndInv' /\ Kept
<1>1. op.pc = "begin" /\ op.kind = "abort"
  BY DEF Abort, Begins
<1>2. CASE active = op.m
  BY <1>1, <1>2, StopsThenCancels DEF Abort
<1>3. CASE active # op.m /\ Me.state \in {"completed", "failed"}
  BY <1>1, <1>3, Refused DEF Abort
<1>4. CASE active # op.m /\ Me.state \notin {"completed", "failed"}
  <2> DEFINE z == [Me EXCEPT !.state = "failed", !.phase = "completed",
                             !.outcome = "aborted"]
  <2>1. op.m \in Missions
    BY <1>1, BeginFacts
  <2>2. /\ Me \in MissionRecord /\ RecordOK(op.m, Me) /\ Me.state \notin ActiveStates
        /\ Driven(op.m) /\ Me.goal = 0 => Me.state = "canceling"
    BY <1>4, <2>1, MeFacts DEF IndInv
  <2>3. /\ ms' = [ms EXCEPT ![op.m] = z] /\ op' = Free /\ SavedForStop
        /\ UNCHANGED <<active, stops, queue, mon, nav, reached, broken>>
    BY <1>4 DEF Abort, Becomes
  <2>4. z \in MissionRecord
    BY <2>2 DEF MissionRecord
  <2>5. z.state = "failed" /\ z.visit = Me.visit /\ z.status = Me.status /\ z.goal = Me.goal
    BY <2>2 DEF MissionRecord
  <2> HIDE DEF z
  <2>6. Me.goal = 0
    BY <2>2 DEF RecordOK, Shaped, Drivers, ActiveStates
  <2>7. RecordOK(op.m, z)
    BY <2>2, <2>5, <2>6 DEF RecordOK, Behind, Shaped
  <2>8. Fits(z)
    BY <1>4, <2>2, <2>4, <2>5, <2>6, <2>7 DEF Fits, Ended, ActiveStates
  <2>9. Stored
    BY <2>3, SaveFacts DEF SavedForStop, IndInv
  <2>10. active' # op.m /\ z.state \notin ActiveStates /\ stops' \subseteq Missions
    BY <1>4, <2>3, <2>5 DEF ActiveStates, IndInv, Data, DataTyped
  <2>11. Steady(op.m, z)
    BY <2>5 DEF Steady, Arrivals
  <2>12. Data' /\ SteadyPart' /\ Kept
    BY <2>1, <2>3, <2>8, <2>9, <2>10, <2>11, Turn DEF IndInv, Stored
  <2>13. Control'
    BY <2>3, ControlFree DEF IndInv
  <2> QED
    BY <2>3, <2>12, <2>13, Done
<1> QED
  BY <1>2, <1>3, <1>4

LEMMA ResumeStep ==
  ASSUME IndInv, Resume
  PROVE  IndInv' /\ Kept
<1>1. op.pc = "begin" /\ op.kind = "resume"
  BY DEF Resume, Begins
<1>2. CASE Me.state # "paused" \/ active # op.m
  BY <1>1, <1>2, Refused DEF Resume
<1>3. CASE Me.state = "paused" /\ active = op.m
  <2> DEFINE z == [Me EXCEPT !.state = "running"]
  <2>1. op.m \in Missions /\ Steady(op.m, Me) /\ op.m # "none"
    BY <1>1, BeginFacts
  <2>2. /\ Me \in MissionRecord /\ RecordOK(op.m, Me) /\ Me = ms[op.m]
        /\ Driven(op.m) /\ Me.goal = 0 => Me.state = "canceling"
    BY <2>1, MeFacts DEF IndInv
  <2>3. /\ stops' = stops \ {op.m} /\ UNCHANGED <<active, nav, reached, broken>>
        /\ \/ Me.phase = "after_arrival" /\ Becomes(z) /\ Unsaved /\ Goto("confirmed")
           \/ Becomes(z) /\ Saved /\ Return(z)
           \/ Becomes(z) /\ SaveFailed /\ Raise
           \/ UNCHANGED ms /\ Unsaved /\ Goto("dispatch_confirmed")
           \/ UNCHANGED ms /\ Unsaved /\ Raise
    BY <1>3 DEF Resume, Admitted
  <2>4. z \in MissionRecord
    BY <2>2 DEF MissionRecord, ActiveStates
  <2>5. /\ z.state = "running" /\ z.phase = Me.phase /\ z.visit = Me.visit
        /\ z.status = Me.status /\ z.goal = Me.goal
    BY <2>2 DEF MissionRecord
  <2> HIDE DEF z
  <2>6. Me.goal = 0 /\ ~Driven(op.m)
    BY <1>3, <2>2 DEF RecordOK, Shaped, Drivers
  <2>7. RecordOK(op.m, z)
    BY <2>2, <2>5, <2>6 DEF RecordOK, Behind, Shaped
  <2>8. Fits(z) /\ Fits(Me)
    BY <1>3, <2>2, <2>4, <2>5, <2>6, <2>7 DEF Fits, Ended
  <2>9. Steady(op.m, z)
    BY <1>3, <2>1, <2>5 DEF Steady, Arrivals
  <2>10. stops' \subseteq Missions
    BY <2>3 DEF IndInv, Data, DataTyped
  <2>11. Me.state \in ActiveStates /\ z.state \in ActiveStates
    BY <1>3, <2>5 DEF ActiveStates
  <2>12. ASSUME Becomes(z), Stored PROVE Data' /\ SteadyPart' /\ Kept /\ ms'[op.m] = z
    <3>1. ms' = [ms EXCEPT ![op.m] = z]
      BY <2>12 DEF Becomes
    <3>2. ms'[op.m] = z
      BY <2>1, <2>4, <3>1, MissionUpdate DEF IndInv, Data, DataTyped
    <3>3. Data' /\ SteadyPart' /\ Kept
      BY <1>3, <2>1, <2>3, <2>8, <2>9, <2>10, <2>11, <2>12, <3>1, Turn DEF IndInv, Stored
    <3> QED
      BY <3>2, <3>3
  <2>13. ASSUME ms' = ms, Unsaved PROVE Data' /\ SteadyPart' /\ Kept
    <3>1. UNCHANGED <<ms, active, nav, reached, broken, disk>> /\ left' = left /\ left \in Bounds
      BY <2>3, <2>13 DEF Unsaved, IndInv, Data, DataTyped
    <3>2. op.pc \notin Between
      BY <1>1 DEF Between
    <3> QED
      BY <2>10, <3>1, <3>2, Quiet DEF IndInv
  <2>14. CASE Me.phase = "after_arrival" /\ Becomes(z) /\ Unsaved /\ Goto("confirmed")
    <3>1. Data' /\ SteadyPart' /\ Kept /\ ms'[op.m] = z
      BY <2>12, <2>14, SaveFacts DEF IndInv
    <3>2. Control' /\ op'.pc = "confirmed" /\ op'.m = op.m
      BY <2>14, ControlGoto DEF IndInv, Onward
    <3>3. OpPart'
      BY <1>3, <2>1, <2>3, <2>5, <2>6, <2>14, <3>1, <3>2
         DEF OpPart, Arrivals, Me, Onward, Between, Cleanup, Failing
    <3> QED
      BY <3>1, <3>2, <3>3 DEF IndInv
  <2>15. CASE Becomes(z) /\ Saved /\ Return(z)
    <3>1. Data' /\ SteadyPart' /\ Kept
      BY <2>12, <2>15, SaveFacts DEF IndInv
    <3>2. Control' /\ op' = Free
      BY <1>1, <2>1, <2>15, ControlReturn DEF IndInv
    <3> QED
      BY <3>1, <3>2, Done
  <2>16. CASE Becomes(z) /\ SaveFailed /\ Raise
    <3>1. Data' /\ SteadyPart' /\ Kept
      BY <2>12, <2>16, SaveFacts DEF IndInv
    <3>2. Control' /\ op' = Free
      BY <2>1, <2>16, ControlRaise DEF IndInv
    <3> QED
      BY <3>1, <3>2, Done
  <2>17. CASE UNCHANGED ms /\ Unsaved /\ Goto("dispatch_confirmed")
    <3>1. Data' /\ SteadyPart' /\ Kept
      BY <2>13, <2>17
    <3>2. Control' /\ op'.pc = "dispatch_confirmed" /\ op'.m = op.m
      BY <2>17, ControlGoto DEF IndInv, Onward, Between
    <3>3. OpPart'
      BY <1>3, <2>1, <2>2, <2>3, <2>6, <2>17, <3>2, OpOnward
    <3> QED
      BY <3>1, <3>2, <3>3 DEF IndInv
  <2>18. CASE UNCHANGED ms /\ Unsaved /\ Raise
    <3>1. Data' /\ SteadyPart' /\ Kept
      BY <2>13, <2>18
    <3>2. Control' /\ op' = Free
      BY <2>1, <2>18, ControlRaise DEF IndInv
    <3> QED
      BY <3>1, <3>2, Done
  <2> QED
    BY <2>3, <2>14, <2>15, <2>16, <2>17, <2>18
<1> QED
  BY <1>2, <1>3

LEMMA SkipStep ==
  ASSUME IndInv, Skip
  PROVE  IndInv' /\ Kept
<1>1. op.pc = "begin" /\ op.kind = "skip"
  BY DEF Skip, Begins
<1>2. CASE ~MaySkip
  BY <1>1, <1>2, Refused DEF Skip
<1>3. CASE MaySkip /\ nav.busy
  BY <1>1, <1>3, ClaimRaised DEF Skip
<1>4. CASE MaySkip /\ ~nav.busy
  <2> DEFINE z == [Me EXCEPT !.state = "skipping"]
  <2>1. op.m \in Missions /\ op.m # "none"
    BY <1>1, BeginFacts
  <2>2. /\ Me \in MissionRecord /\ RecordOK(op.m, Me)
        /\ Driven(op.m) => Covers(Me)
    BY <2>1, MeFacts DEF IndInv
  <2>3. /\ Me.state \in {"running", "paused", "failed"} /\ Me.outcome \notin Barred
        /\ active \in {"none", op.m}
    BY <1>4 DEF MaySkip, Claimable
  <2>4. /\ active' = op.m /\ stops' = stops \ {op.m} /\ ms' = [ms EXCEPT ![op.m] = z]
        /\ mon' = NoTask /\ queue' = Waiting /\ UNCHANGED <<nav, reached, broken>>
        /\ Saved \/ SaveFailed
        /\ op' \in {[op EXCEPT !.pc = "cancel"], Free}
    BY <1>4 DEF Skip, Claim, Becomes
  <2>5. z \in MissionRecord
    BY <2>2 DEF MissionRecord, ActiveStates
  <2>6. /\ z.state = "skipping" /\ z.phase = Me.phase /\ z.visit = Me.visit
        /\ z.status = Me.status /\ z.goal = Me.goal
    BY <2>2 DEF MissionRecord
  <2> HIDE DEF z
  <2>7. RecordOK(op.m, z)
    BY <2>2, <2>6 DEF RecordOK, Behind, Shaped, Drivers
  <2>8. Fits(z)
    BY <2>2, <2>3, <2>5, <2>6, <2>7 DEF Fits, Ended, Covers
  <2>9. Steady(op.m, z)
    BY <2>6 DEF Steady, Arrivals
  <2>10. Stored
    BY <2>4, SaveFacts DEF IndInv
  <2>11. z.state \in ActiveStates /\ stops' \subseteq Missions
    BY <2>4, <2>6 DEF ActiveStates, IndInv, Data, DataTyped
  <2>12. Data' /\ SteadyPart' /\ Kept
    BY <2>1, <2>3, <2>4, <2>8, <2>9, <2>10, <2>11, Turn DEF IndInv, Stored
  <2>13. ms'[op.m] = z
    BY <2>1, <2>4, <2>5, MissionUpdate DEF IndInv, Data, DataTyped
  <2>14. CASE op' = [op EXCEPT !.pc = "cancel"]
    <3>1. op' \in Holders /\ op'.pc = "cancel" /\ op'.m = op.m /\ op'.kind = op.kind
      BY <2>14, OpAt DEF IndInv, Cleanup
    <3>2. Control'
      BY <1>1, <2>4, <3>1, ControlStops DEF IndInv, TaskKinds
    <3>3. OpPart'
      BY <1>1, <2>1, <2>4, <2>6, <2>13, <3>1, OpCancel
    <3> QED
      BY <2>12, <3>2, <3>3 DEF IndInv
  <2>15. CASE op' = Free
    <3>1. Control'
      BY <1>1, <2>4, <2>15, FreeFacts, ControlStops DEF IndInv, TaskKinds
    <3> QED
      BY <2>12, <2>15, <3>1, Done
  <2> QED
    BY <2>4, <2>14, <2>15
<1> QED
  BY <1>2, <1>3, <1>4

LEMMA CloseStep ==
  ASSUME IndInv, Close
  PROVE  IndInv' /\ Kept
<1>1. op.pc = "begin" /\ op.kind = "close" /\ op \in Holders
  BY DEF Close, Begins, IndInv, Control, ControlTyped
<1>2. /\ mon' = NoTask /\ queue' = <<>>
      /\ UNCHANGED <<ms, active, stops, nav, reached, broken, disk, left>>
  BY DEF Close
<1>3. Data' /\ SteadyPart' /\ Kept
  <2>1. op.pc \notin Between /\ stops \subseteq Missions /\ left \in Bounds
    BY <1>1 DEF Between, IndInv, Data, DataTyped
  <2> QED
    BY <1>2, <2>1, Quiet DEF IndInv
<1>4. queue' \in Seq(Entries) /\ TaskAt' = {}
  BY <1>2 DEF TaskAt
<1>5. ASSUME op' \in Holders, op'.kind = "close" PROVE Control'
  BY <1>2, <1>4, <1>5, NoTaskFacts DEF Control, ControlTyped, TaskPart, TaskKinds, Entries
<1>6. CASE active # "none" /\ ms[active].state # "paused"
  <2>1. op' = [op EXCEPT !.m = active, !.pc = "cancel"] /\ active \in Missions
    BY <1>6 DEF Close, IndInv, Data, DataTyped, Owners
  <2>2. op' \in Holders /\ op'.pc = "cancel" /\ op'.m = active /\ op'.kind = "close"
    BY <1>1, <2>1 DEF Holders, Owners, Cleanup
  <2>3. OpPart'
    BY <1>2, <2>1, <2>2 DEF OpPart, Arrivals, Me, Onward, Between, Cleanup, Failing
  <2> QED
    BY <1>3, <1>5, <2>2, <2>3 DEF IndInv
<1>7. CASE ~(active # "none" /\ ms[active].state # "paused")
  <2>1. op' = [op EXCEPT !.pc = "down"]
    BY <1>7 DEF Close
  <2>2. op' \in Holders /\ op'.pc = "down" /\ op'.kind = "close"
    BY <1>1, <2>1 DEF Holders
  <2>3. OpPart'
    BY <2>2 DEF OpPart, Arrivals, Onward, Between, Cleanup, Failing
  <2> QED
    BY <1>3, <1>5, <2>2, <2>3 DEF IndInv
<1> QED
  BY <1>6, <1>7

-----------------------------------------------------------------------------
(* Driving to the next visit.                                              *)

\* The owner's operation at a pc past its admission.
LEMMA OwnerFacts ==
  ASSUME IndInv, op.pc \in Onward \cup Cleanup \cup Failing
  PROVE  /\ op.m \in Missions /\ op.m # "none" /\ active = op.m
         /\ Me \in MissionRecord /\ RecordOK(op.m, Me) /\ Me = ms[op.m]
         /\ Me.state \in ActiveStates /\ ~Ended(Me)
         /\ Driven(op.m) => Covers(Me)
         /\ Driven(op.m) /\ Me.goal = 0 => Me.state = "canceling" /\ Me.phase = "uncertain"
<1>1. op.m \in Missions /\ active = op.m
  BY DEF IndInv, OpPart
<1>2. Me.state \in ActiveStates
  BY <1>1, MeFacts DEF IndInv
<1>3. ~Ended(Me) /\ op.m # "none"
  BY <1>1, <1>2, MissionAssumption DEF Ended, ActiveStates
<1> QED
  BY <1>1, <1>2, <1>3, MeFacts DEF IndInv

\* The owner's mission gets the record z; what the lock does is separate.
LEMMA OwnerTurn ==
  ASSUME IndInv, op.pc \in Onward \cup Cleanup \cup Failing, NEW z, Fits(z), Becomes(z),
         active' \in {"none", op.m}, z.state \in ActiveStates <=> active' = op.m,
         UNCHANGED <<stops, nav, reached, broken>>, Stored,
         ~(op'.m = op.m /\ op'.pc \in Between /\ z.state = "running") => Steady(op.m, z)
  PROVE  Data' /\ SteadyPart' /\ Kept /\ ms'[op.m] = z
<1>1. op.m \in Missions /\ active = op.m /\ z \in MissionRecord
  BY OwnerFacts DEF Fits
<1>2. ms' = [ms EXCEPT ![op.m] = z] /\ stops' \subseteq Missions
  BY DEF Becomes, IndInv, Data, DataTyped
<1>3. Data' /\ SteadyPart' /\ Kept
  BY <1>1, <1>2, Turn DEF IndInv, Stored
<1> QED
  BY <1>1, <1>2, <1>3, MissionUpdate DEF IndInv, Data, DataTyped

\* And the operation is over.
LEMMA OwnerEnds ==
  ASSUME IndInv, op.pc \in Onward \cup Cleanup \cup Failing, NEW z, Fits(z), Becomes(z),
         active' \in {"none", op.m}, z.state \in ActiveStates <=> active' = op.m,
         UNCHANGED <<stops, nav, reached, broken>>, Stored, Steady(op.m, z),
         NEW r, Return(r) \/ Raise
  PROVE  IndInv' /\ Kept
<1>1. Data' /\ SteadyPart' /\ Kept
  BY OwnerTurn
<1>2. Control' /\ op' = Free
  BY OwnerFacts, ControlReturn, ControlRaise DEF IndInv
<1> QED
  BY <1>1, <1>2, Done

LEMMA FinishArrivalStep ==
  ASSUME IndInv, FinishArrival
  PROVE  IndInv' /\ Kept
<1>1. op.pc \in {"finish", "confirmed"} /\ UNCHANGED <<active, stops, nav, reached, broken>>
  BY DEF FinishArrival
<1>2. op.pc \in Onward /\ op.pc \notin Between
  BY <1>1 DEF Onward, Between
<1>3. /\ op.m \in Missions /\ op.m # "none" /\ active = op.m /\ ~Ended(Me)
      /\ Me \in MissionRecord /\ RecordOK(op.m, Me)
      /\ Driven(op.m) /\ Me.goal = 0 => Me.state = "canceling"
  BY <1>2, OwnerFacts
<1>4. Me.goal = 0 /\ Me.state = "running" /\ Me.phase \in Arrivals
  BY <1>1, <1>2 DEF IndInv, OpPart
<1>5. <<op.m, Me.visit>> \in reached \cup broken
  BY <1>2, <1>3, <1>4, AllSteady DEF IndInv, Steady
<1>6. Me.visit \in 1..Visits + 1 /\ Me.status \in [1..Visits -> Statuses] /\ Visits \in Nat
  BY <1>3, RecordFields, MissionAssumption
<1>7. CASE Me.visit > Visits
  <2>1. UNCHANGED ms /\ Unsaved /\ Raise
    BY <1>7 DEF FinishArrival
  <2>2. /\ UNCHANGED <<ms, active, nav, reached, broken, disk>> /\ left' = left
        /\ left \in Bounds /\ stops' \subseteq Missions
    BY <1>1, <2>1 DEF Unsaved, IndInv, Data, DataTyped
  <2>3. Data' /\ SteadyPart' /\ Kept
    BY <1>2, <2>2, Quiet DEF IndInv
  <2>4. Control' /\ op' = Free
    BY <1>3, <2>1, ControlRaise DEF IndInv
  <2> QED
    BY <2>3, <2>4, Done
<1>8. CASE ~(Me.visit > Visits) /\ op.pc = "finish" /\ Me.visit \in ConfirmAfter
  <2> DEFINE z == [Me EXCEPT !.state = "paused", !.phase = "after_arrival",
                             !.token = Me.visit]
  <2>1. Becomes(z) /\ (\/ Saved /\ Return(z)
                       \/ SaveFailed /\ Raise)
    BY <1>8 DEF FinishArrival
  <2>2. z \in MissionRecord
    <3>1. Me.visit \in 0..Visits
      BY <1>6, <1>8
    <3> QED
      BY <1>3, <3>1 DEF MissionRecord, ActiveStates
  <2>3. /\ z.state = "paused" /\ z.visit = Me.visit
        /\ z.status = Me.status /\ z.goal = Me.goal
    BY <1>3 DEF MissionRecord
  <2> HIDE DEF z
  <2>4. RecordOK(op.m, z)
    BY <1>3, <1>4, <2>3 DEF RecordOK, Behind, Shaped
  <2>5. Fits(z)
    BY <1>3, <1>4, <2>2, <2>3, <2>4 DEF Fits
  <2>6. Steady(op.m, z)
    BY <1>5, <1>6, <1>8, <2>3 DEF Steady, Arrivals
  <2>7. Stored
    BY <2>1, SaveFacts DEF IndInv
  <2>8. z.state \in ActiveStates
    BY <2>3 DEF ActiveStates
  <2> QED
    BY <1>1, <1>2, <1>3, <2>1, <2>5, <2>6, <2>7, <2>8, OwnerEnds
<1>9. CASE ~(Me.visit > Visits) /\ ~(op.pc = "finish" /\ Me.visit \in ConfirmAfter)
  <2> DEFINE z == [Me EXCEPT !.status[Me.visit] = "completed", !.visit = @ + 1, !.token = 0]
  <2>1. Becomes(z) /\ Unsaved /\ Goto("dispatch")
    BY <1>9 DEF FinishArrival
  <2>2. /\ z.state = Me.state /\ z.visit = Me.visit + 1 /\ z.goal = Me.goal
        /\ z.phase = Me.phase
        /\ z.status = [Me.status EXCEPT ![Me.visit] = "completed"]
    BY <1>3 DEF MissionRecord
  <2>3. z \in MissionRecord
    <3>1. [Me.status EXCEPT ![Me.visit] = "completed"] \in [1..Visits -> Statuses]
      BY <1>6 DEF Statuses
    <3>2. Me.visit + 1 \in 1..Visits + 1
      BY <1>6, <1>9
    <3> QED
      BY <1>3, <3>1, <3>2, Constants DEF MissionRecord, Statuses
  <2> HIDE DEF z
  <2>4. RecordOK(op.m, z)
    <3>1. "completed" \in Statuses /\ Me.visit <= Visits
      BY <1>6, <1>9 DEF Statuses
    <3>2. Behind(op.m, z)
      BY <1>3, <1>5, <2>2, <2>3, <3>1, StatusStep DEF RecordOK
    <3> QED
      BY <1>4, <2>2, <3>2 DEF RecordOK, Shaped
  <2>5. Fits(z)
    BY <1>3, <1>4, <2>2, <2>3, <2>4 DEF Fits
  <2>6. Control' /\ op'.pc = "dispatch" /\ op'.m = op.m
    BY <2>1, ControlGoto DEF IndInv, Onward, Between
  <2>7. Data' /\ SteadyPart' /\ Kept /\ ms'[op.m] = z
    <3>1. Stored
      BY <2>1, SaveFacts DEF IndInv
    <3>2. z.state \in ActiveStates /\ z.state = "running" /\ op'.pc \in Between
      BY <1>4, <2>2, <2>6 DEF ActiveStates, Between
    <3> QED
      BY <1>1, <1>2, <1>3, <2>1, <2>5, <2>6, <3>1, <3>2, OwnerTurn
  <2>8. OpPart'
    BY <1>1, <1>3, <1>4, <2>2, <2>6, <2>7, OpOnward
  <2> QED
    BY <2>6, <2>7, <2>8 DEF IndInv
<1> QED
  BY <1>7, <1>8, <1>9

LEMMA DispatchStep ==
  ASSUME IndInv, Dispatch
  PROVE  IndInv' /\ Kept
<1>1. op.pc \in {"dispatch", "dispatch_confirmed"} /\ UNCHANGED <<stops, nav, reached>>
  BY DEF Dispatch
<1>2. op.pc \in Onward /\ op.pc \in Between
  BY <1>1 DEF Onward, Between
<1>3. /\ op.m \in Missions /\ op.m # "none" /\ active = op.m /\ ~Ended(Me)
      /\ Me \in MissionRecord /\ RecordOK(op.m, Me) /\ Me = ms[op.m]
      /\ Driven(op.m) /\ Me.goal = 0 => Me.state = "canceling"
  BY <1>2, OwnerFacts
<1>4. /\ Me.goal = 0
      /\ Me.state \in {"starting", "running", "skipping", "paused", "retrying"}
  BY <1>2 DEF IndInv, OpPart
<1>5. Me.visit \in 1..Visits + 1 /\ Visits \in Nat
  BY <1>3, RecordFields, MissionAssumption
<1>6. CASE nav.busy
  <2>1. /\ op.pc \in Between /\ BreaksOff /\ Raise /\ left' = left /\ left \in Bounds
        /\ UNCHANGED <<ms, active, stops, nav, reached, disk>>
    BY <1>1, <1>2, <1>6 DEF Dispatch, Unsaved, IndInv, Data, DataTyped
  <2> QED
    BY <2>1, BrokenOff
<1>7. CASE ~nav.busy /\ Me.visit > Visits
  <2> DEFINE z == Completed(Me)
  <2>1. /\ Becomes(z) /\ active' = "none" /\ UNCHANGED broken
        /\ \/ Saved /\ Return(z)
           \/ SaveFailed /\ Raise
    BY <1>7 DEF Dispatch
  <2>2. z \in MissionRecord
    BY <1>3, Constants DEF Completed, MissionRecord
  <2>3. /\ z.state = "completed" /\ z.visit = Me.visit
        /\ z.status = Me.status /\ z.goal = Me.goal
    BY <1>3 DEF Completed, MissionRecord
  <2> HIDE DEF z
  <2>4. RecordOK(op.m, z)
    BY <1>3, <1>4, <1>7, <2>3 DEF RecordOK, Behind, Shaped
  <2>5. Fits(z)
    BY <1>3, <1>4, <2>2, <2>3, <2>4 DEF Fits
  <2>6. Steady(op.m, z)
    BY <2>3 DEF Steady, Arrivals
  <2>7. Stored
    BY <2>1, SaveFacts DEF IndInv
  <2>8. z.state \notin ActiveStates
    BY <2>3 DEF ActiveStates
  <2> QED
    BY <1>1, <1>2, <1>3, <2>1, <2>5, <2>6, <2>7, <2>8, OwnerEnds
<1>8. CASE ~nav.busy /\ ~(Me.visit > Visits) /\ Me.visit \in ConfirmBefore /\ op.pc = "dispatch"
  <2> DEFINE z == [Me EXCEPT !.state = "paused", !.phase = "before_departure",
                             !.token = Me.visit]
  <2>1. /\ Becomes(z) /\ active' = active /\ UNCHANGED broken
        /\ \/ Saved /\ Return(z)
           \/ SaveFailed /\ Raise
    BY <1>8 DEF Dispatch
  <2>2. z \in MissionRecord
    <3>1. Me.visit \in 0..Visits
      BY <1>5, <1>8
    <3> QED
      BY <1>3, <3>1 DEF MissionRecord, ActiveStates
  <2>3. /\ z.state = "paused" /\ z.visit = Me.visit /\ z.phase = "before_departure"
        /\ z.status = Me.status /\ z.goal = Me.goal
    BY <1>3 DEF MissionRecord
  <2> HIDE DEF z
  <2>4. RecordOK(op.m, z)
    BY <1>3, <1>4, <2>3 DEF RecordOK, Behind, Shaped
  <2>5. Fits(z)
    BY <1>3, <1>4, <2>2, <2>3, <2>4 DEF Fits
  <2>6. Steady(op.m, z)
    BY <1>5, <1>8, <2>3 DEF Steady, Arrivals
  <2>7. Stored
    BY <2>1, SaveFacts DEF IndInv
  <2>8. z.state \in ActiveStates
    BY <2>3 DEF ActiveStates
  <2> QED
    BY <1>1, <1>2, <1>3, <2>1, <2>5, <2>6, <2>7, <2>8, OwnerEnds
<1>9. CASE /\ ~nav.busy /\ ~(Me.visit > Visits)
           /\ ~(Me.visit \in ConfirmBefore /\ op.pc = "dispatch")
  <2>1. Goto("preflight") /\ Unsaved /\ UNCHANGED <<ms, active, broken>>
    BY <1>9 DEF Dispatch
  <2>2. Control' /\ op'.pc = "preflight" /\ op'.m = op.m
    BY <2>1, ControlGoto DEF IndInv, Onward, Between
  <2>3. /\ UNCHANGED <<ms, active, nav, reached, broken, disk>> /\ left' = left /\ stops' = stops
        /\ left \in Bounds /\ stops \subseteq Missions
    BY <1>1, <2>1 DEF Unsaved, IndInv, Data, DataTyped
  <2>4. Data' /\ SteadyPart' /\ Kept
    BY <2>2, <2>3, Quiet DEF IndInv, Between
  <2>5. OpPart'
    BY <1>2, <1>3, <1>4, <1>5, <1>9, <2>1, <2>2
       DEF IndInv, OpPart, Arrivals, Me, Onward, Between, Cleanup, Failing
  <2> QED
    BY <2>2, <2>4, <2>5 DEF IndInv
<1> QED
  BY <1>6, <1>7, <1>8, <1>9

\* The caller goes away while the preflight or the end of a goal is awaited.
LEMMA CallerCancelledStep ==
  ASSUME IndInv, CallerCancelled
  PROVE  IndInv' /\ Kept
<1>1. /\ op.pc \in {"preflight", "canceling", "failing"} /\ Raise
      /\ left.faults > 0 /\ left' = [left EXCEPT !.faults = @ - 1]
      /\ UNCHANGED <<ms, active, stops, nav, reached, disk>>
  BY DEF CallerCancelled
<1>2. left' \in Bounds /\ left'.goals = left.goals /\ stops \subseteq Missions
  BY <1>1 DEF IndInv, Data, DataTyped, Bounds
<1>3. CASE op.pc = "preflight"
  <2>1. op.pc \in Between /\ BreaksOff
    BY <1>3 DEF CallerCancelled, Between
  <2> QED
    BY <1>1, <1>2, <2>1, BrokenOff
<1>4. CASE op.pc # "preflight"
  <2>1. op.pc \in Cleanup \cup Failing /\ op.pc \notin Between /\ broken' = broken
    BY <1>1, <1>4 DEF CallerCancelled, Cleanup, Failing, Between
  <2>2. Data' /\ SteadyPart' /\ Kept
    BY <1>1, <1>2, <2>1, Quiet DEF IndInv
  <2>3. Control' /\ op' = Free
    BY <1>1, <2>1, OwnerFacts, ControlRaise DEF IndInv
  <2> QED
    BY <2>2, <2>3, Done
<1> QED
  BY <1>3, <1>4

LEMMA PreflightFacts ==
  ASSUME IndInv, op.pc = "preflight"
  PROVE  /\ op.pc \in Onward /\ op.m \in Missions /\ op.m # "none" /\ active = op.m
         /\ ~Ended(Me) /\ Me \in MissionRecord /\ RecordOK(op.m, Me) /\ ~Driven(op.m)
         /\ Me.goal = 0 /\ Me.visit \in 1..Visits
         /\ Me.status \in [1..Visits -> Statuses]
<1>1. op.pc \in Onward
  BY DEF Onward, Between
<1>2. /\ op.m \in Missions /\ op.m # "none" /\ active = op.m /\ ~Ended(Me)
      /\ Me \in MissionRecord /\ RecordOK(op.m, Me)
      /\ Driven(op.m) /\ Me.goal = 0 => Me.state = "canceling"
  BY <1>1, OwnerFacts
<1>3. Me.goal = 0 /\ Me.state # "canceling" /\ Me.visit <= Visits
  BY <1>1 DEF IndInv, OpPart
<1>4. /\ Me.visit \in 1..Visits + 1 /\ Visits \in Nat
      /\ Me.status \in [1..Visits -> Statuses]
  BY <1>2, RecordFields, MissionAssumption
<1> QED
  BY <1>1, <1>2, <1>3, <1>4

LEMMA PreflightStoppedStep ==
  ASSUME IndInv, PreflightStopped
  PROVE  IndInv' /\ Kept
<1> DEFINE z == [Me EXCEPT !.state = "starting", !.phase = "planning"]
<1>1. /\ op.pc = "preflight" /\ Becomes(z) /\ UNCHANGED <<active, stops, nav, reached, broken>>
      /\ SavedForStop /\ Return(z)
  BY DEF PreflightStopped
<1>2. /\ op.pc \in Onward /\ active = op.m /\ op.m # "none" /\ ~Ended(Me)
      /\ Me \in MissionRecord /\ RecordOK(op.m, Me)
      /\ ~Driven(op.m) /\ Me.goal = 0 /\ Me.visit \in 1..Visits
  BY <1>1, PreflightFacts
<1>3. z \in MissionRecord
  BY <1>2 DEF MissionRecord, ActiveStates
<1>4. /\ z.state = "starting" /\ z.visit = Me.visit /\ z.phase = "planning"
      /\ z.status = Me.status /\ z.goal = Me.goal
  BY <1>2 DEF MissionRecord
<1> HIDE DEF z
<1>5. RecordOK(op.m, z)
  BY <1>2, <1>4 DEF RecordOK, Behind, Shaped
<1>6. Fits(z) /\ Steady(op.m, z) /\ z.state \in ActiveStates
  BY <1>2, <1>3, <1>4, <1>5 DEF Fits, Steady, Arrivals, ActiveStates
<1>7. Stored
  BY <1>1, SaveFacts DEF SavedForStop, IndInv
<1> QED
  BY <1>1, <1>2, <1>6, <1>7, OwnerEnds

LEMMA PreflightFailsStep ==
  ASSUME IndInv, PreflightFails
  PROVE  IndInv' /\ Kept
<1> DEFINE z == [Me EXCEPT !.state = "failed", !.outcome = "failed", !.goal = 0,
                           !.status[Me.visit] = "failed"]
<1>1. /\ op.pc = "preflight" /\ Becomes(z) /\ UNCHANGED <<stops, nav, reached, broken>>
      /\ active' = "none" /\ SavedForStop /\ Raise
  BY DEF PreflightFails
<1>2. /\ op.pc \in Onward /\ op.m # "none" /\ ~Ended(Me)
      /\ Me \in MissionRecord /\ RecordOK(op.m, Me)
      /\ ~Driven(op.m) /\ Me.goal = 0 /\ Me.visit \in 1..Visits
      /\ Me.status \in [1..Visits -> Statuses]
  BY <1>1, PreflightFacts
<1>3. /\ z.state = "failed" /\ z.visit = Me.visit /\ z.goal = 0
      /\ z.status = [Me.status EXCEPT ![Me.visit] = "failed"]
  BY <1>2 DEF MissionRecord
<1>4. z \in MissionRecord
  <2>1. [Me.status EXCEPT ![Me.visit] = "failed"] \in [1..Visits -> Statuses]
    BY <1>2 DEF Statuses
  <2> QED
    BY <1>2, <2>1, Constants DEF MissionRecord, Statuses
<1> HIDE DEF z
<1>5. RecordOK(op.m, z)
  <2>1. "failed" \in Statuses /\ Me.visit <= Visits
    BY <1>2, Constants DEF Statuses
  <2>2. Behind(op.m, Me) /\ Me \in MissionRecord
    BY <1>2 DEF RecordOK
  <2>3. Behind(op.m, z)
    BY <1>3, <1>4, <2>1, <2>2, StatusStep
  <2> QED
    BY <1>3, <2>3 DEF RecordOK, Shaped
<1>6. Fits(z) /\ Steady(op.m, z) /\ z.state \notin ActiveStates
  BY <1>2, <1>3, <1>4, <1>5 DEF Fits, Steady, Arrivals, ActiveStates
<1>7. Stored
  BY <1>1, SaveFacts DEF SavedForStop, IndInv
<1> QED
  BY <1>1, <1>2, <1>6, <1>7, OwnerEnds

LEMMA PreflightPassesStep ==
  ASSUME IndInv, PreflightPasses
  PROVE  IndInv' /\ Kept
<1> DEFINE z == [Me EXCEPT !.state = "running", !.phase = "navigating", !.token = 0,
                           !.outcome = "none", !.goal = 0,
                           !.status[Me.visit] = "running"]
<1>1. /\ op.pc = "preflight" /\ Becomes(z) /\ UNCHANGED <<active, stops, nav, reached, broken>>
      /\ SaveThen("send")
  BY DEF PreflightPasses
<1>2. /\ op.pc \in Onward /\ active = op.m /\ op.m \in Missions /\ op.m # "none"
      /\ ~Ended(Me) /\ Me \in MissionRecord /\ RecordOK(op.m, Me)
      /\ ~Driven(op.m) /\ Me.goal = 0 /\ Me.visit \in 1..Visits
      /\ Me.status \in [1..Visits -> Statuses]
  BY <1>1, PreflightFacts
<1>3. /\ z.state = "running" /\ z.phase = "navigating" /\ z.visit = Me.visit /\ z.goal = 0
      /\ z.status = [Me.status EXCEPT ![Me.visit] = "running"]
  BY <1>2 DEF MissionRecord
<1>4. z \in MissionRecord
  <2>1. [Me.status EXCEPT ![Me.visit] = "running"] \in [1..Visits -> Statuses]
    BY <1>2 DEF Statuses
  <2> QED
    BY <1>2, <2>1, Constants DEF MissionRecord, Statuses, ActiveStates
<1>5. z.status[z.visit] = "running" /\ z.visit <= Visits
  BY <1>2, <1>3, Constants
<1> HIDE DEF z
<1>6. RecordOK(op.m, z)
  <2>1. "running" \in Statuses /\ Me.visit <= Visits
    BY <1>2, Constants DEF Statuses
  <2>2. Behind(op.m, Me) /\ Me \in MissionRecord
    BY <1>2 DEF RecordOK
  <2>3. Behind(op.m, z)
    BY <1>3, <1>4, <2>1, <2>2, StatusStep
  <2> QED
    BY <1>3, <2>3 DEF RecordOK, Shaped
<1>7. Fits(z) /\ Steady(op.m, z) /\ z.state \in ActiveStates
  BY <1>2, <1>3, <1>4, <1>5, <1>6 DEF Fits, Steady, Arrivals, ActiveStates
<1>8. Stored
  BY <1>1, SaveFacts DEF SaveThen, IndInv
<1>9. CASE Raise
  BY <1>1, <1>2, <1>7, <1>8, <1>9, OwnerEnds
<1>10. CASE Goto("send")
  <2>1. Data' /\ SteadyPart' /\ Kept /\ ms'[op.m] = z
    BY <1>1, <1>2, <1>7, <1>8, OwnerTurn
  <2>2. Control' /\ op'.pc = "send" /\ op'.m = op.m
    BY <1>10, ControlGoto DEF IndInv, Onward
  <2>3. OpPart'
    BY <1>1, <1>2, <1>3, <1>5, <2>1, <2>2
       DEF OpPart, Arrivals, Me, Onward, Between, Cleanup, Failing
  <2> QED
    BY <2>1, <2>2, <2>3 DEF IndInv
<1> QED
  BY <1>1, <1>9, <1>10 DEF SaveThen

-----------------------------------------------------------------------------
(* A new goal.                                                             *)

NavRecord == [id : 0..MaxGoals, state : GoalActive \cup GoalTerminal,
              owner : Owners, visit : 0..Visits, ready : BOOLEAN, busy : BOOLEAN]

\* The goal has a number that no mission has recorded.
LEMMA NewGoalFacts ==
  ASSUME Data, NEW owner \in Owners, NEW visit \in 0..Visits, NewGoal(owner, visit)
  PROVE  /\ nav' \in NavRecord /\ nav'.id = Used + 1 /\ nav'.id # 0
         /\ nav'.state = "active" /\ nav'.owner = owner /\ nav'.visit = visit
         /\ Used \in Nat /\ Used + 1 <= MaxGoals
<1>1. /\ left.goals > 0 /\ left.goals \in 0..MaxGoals
      /\ nav' = [nav EXCEPT !.id = MaxGoals - left.goals + 1, !.state = "active",
                            !.owner = owner, !.visit = visit]
  BY DEF NewGoal, Data, DataTyped, Bounds
<1>2. Used \in Nat /\ Used + 1 \in 1..MaxGoals /\ MaxGoals - left.goals + 1 = Used + 1
  BY <1>1, Constants DEF Used
<1>3. nav \in NavRecord
  BY DEF Data, DataTyped, NavRecord
<1>4. nav' \in NavRecord
  <2> DEFINE n == MaxGoals - left.goals + 1
  <2>1. n \in 0..MaxGoals
    BY <1>2
  <2>2. nav' = [nav EXCEPT !.id = n, !.state = "active", !.owner = owner, !.visit = visit]
    BY <1>1
  <2> HIDE DEF n
  <2> QED
    BY <1>3, <2>1, <2>2 DEF NavRecord, GoalActive
<1>5. nav'.id = Used + 1 /\ nav'.state = "active" /\ nav'.owner = owner /\ nav'.visit = visit
  BY <1>1, <1>2, <1>3 DEF NavRecord
<1> QED
  BY <1>2, <1>4, <1>5

LEMMA GoalsLeft ==
  ASSUME Data, left.goals > 0,
         \/ left' = [left EXCEPT !.goals = @ - 1]
         \/ left.faults > 0 /\ left' = [left EXCEPT !.goals = @ - 1, !.faults = @ - 1]
  PROVE  left' \in Bounds /\ left'.goals = left.goals - 1 /\ Used' = Used + 1
<1>1. left \in Bounds
  BY DEF Data, DataTyped
<1>2. left.goals \in 0..MaxGoals /\ left.faults \in Nat
  BY <1>1 DEF Bounds
<1>3. left.goals - 1 \in 0..MaxGoals /\ (left.faults > 0 => left.faults - 1 \in Nat)
  BY <1>2, Constants
<1>4. left' \in Bounds /\ left'.goals = left.goals - 1
  BY <1>1, <1>3 DEF Bounds
<1> QED
  BY <1>2, <1>4, Constants DEF Used

\* Nav2 has accepted a goal for the holder's mission, and its record says so
\* or says that it does not know.
LEMMA GoalTurn ==
  ASSUME Data, SteadyPart, op.m \in Missions, active = op.m, active' = active,
         stops' = stops, UNCHANGED <<reached, broken>>,
         NEW z \in MissionRecord, RecordOK(op.m, z), ms' = [ms EXCEPT ![op.m] = z],
         z.state \in ActiveStates, Steady(op.m, z), ~Ended(Me),
         Me.visit \in 1..Visits, NewGoal(op.m, Me.visit), z.visit = Me.visit,
         z.goal \in {0, nav'.id},
         z.goal = nav'.id \/ (z.state = "canceling" /\ z.phase = "uncertain"),
         disk' \in {disk, [ms |-> ms', active |-> active']},
         left' \in Bounds, Used' = Used + 1
  PROVE  Data' /\ SteadyPart' /\ Kept /\ ms'[op.m] = z
<1>1. /\ ms' \in [Missions -> MissionRecord] /\ ms'[op.m] = z
      /\ \A n \in Missions : n # op.m => ms'[n] = ms[n]
  BY MissionUpdate DEF Data, DataTyped
<1>2. Me = ms[op.m] /\ op.m \in Owners /\ Me.visit \in 0..Visits
  BY Constants DEF Me, Owners
<1>3. /\ nav' \in NavRecord /\ nav'.id = Used + 1 /\ nav'.id # 0
      /\ nav'.state = "active" /\ nav'.owner = op.m /\ nav'.visit = Me.visit
      /\ Used \in Nat /\ Used + 1 <= MaxGoals
  BY <1>2, NewGoalFacts
<1>4. DataTyped'
  BY <1>1, <1>3 DEF Data, DataTyped, NavRecord
<1>5. RecordPart'
  BY <1>1 DEF Data, RecordPart, RecordOK, Behind, Shaped
<1>6. FencePart'
  <2>1. ASSUME NEW n \in Missions PROVE ms'[n].state \in ActiveStates <=> active' = n
    <3>1. CASE n = op.m
      BY <1>1, <3>1
    <3>2. CASE n # op.m
      BY <1>1, <3>2 DEF Data, FencePart
    <3> QED
      BY <3>1, <3>2
  <2> QED
    BY <2>1 DEF FencePart
<1>7. DiskPart'
  <2>1. CASE disk' = disk
    BY <2>1 DEF Data, DiskPart, RecordOK, Behind, Shaped, StoredIsLoadable
  <2>2. CASE disk' = [ms |-> ms', active |-> active']
    <3>1. disk'.ms = ms' /\ disk'.active = active'
      BY <2>2
    <3>2. \A m \in Missions : RecordOK(m, disk.ms[m])'
      BY <1>5, <3>1 DEF RecordPart, RecordOK, Behind, Shaped
    <3>3. StoredIsLoadable'
      BY <1>4, <1>6, <3>1 DEF StoredIsLoadable, FencePart, DataTyped, Owners
    <3> QED
      BY <3>2, <3>3 DEF DiskPart
  <2> QED
    BY <2>1, <2>2
<1>8. \A n \in Missions : ms[n].goal \in Nat /\ ms[n].goal <= Used
  BY RecordFields, Constants DEF Data, DataTyped, NavPart
<1>9. NavPart'
  <2>1. \A n \in Missions : ms'[n].goal <= Used + 1
    BY <1>1, <1>3, <1>8
  <2>2. \A n \in Missions : n # op.m => ms'[n].goal # nav'.id
    BY <1>1, <1>3, <1>8
  <2>3. nav'.id <= Used + 1 /\ nav'.state # "succeeded"
    BY <1>3
  <2>4. \A n \in Missions : ms'[n].goal # 0 /\ ms'[n].goal = nav'.id =>
          nav'.owner = n /\ nav'.visit = ms'[n].visit
    BY <1>1, <1>3, <2>2
  <2> QED
    BY <1>3, <2>1, <2>3, <2>4 DEF NavPart
<1>10. GoalPart'
  BY <1>1, <1>3 DEF GoalPart, Driven, Covers
<1>11. SteadyPart'
  BY <1>1 DEF SteadyPart, Underway, Steady, Arrivals
<1>12. Kept
  BY <1>1, <1>2 DEF Kept
<1> QED
  BY <1>1, <1>4, <1>5, <1>6, <1>7, <1>9, <1>10, <1>11, <1>12 DEF Data

LEMMA SendFacts ==
  ASSUME IndInv, op.pc = "send"
  PROVE  /\ op.pc \in Onward /\ op.m \in Missions /\ op.m # "none" /\ active = op.m
         /\ ~Ended(Me) /\ Me \in MissionRecord /\ RecordOK(op.m, Me) /\ ~Driven(op.m)
         /\ Me.goal = 0 /\ Me.visit \in 1..Visits /\ Me.visit <= Visits
         /\ Me.state = "running" /\ Me.phase = "navigating"
         /\ Me.status[Me.visit] = "running"
<1>1. op.pc \in Onward
  BY DEF Onward
<1>2. /\ op.m \in Missions /\ op.m # "none" /\ active = op.m /\ ~Ended(Me)
      /\ Me \in MissionRecord /\ RecordOK(op.m, Me)
      /\ Driven(op.m) /\ Me.goal = 0 => Me.state = "canceling"
  BY <1>1, OwnerFacts
<1>3. /\ Me.goal = 0 /\ Me.visit <= Visits /\ Me.state = "running"
      /\ Me.phase = "navigating" /\ Me.status[Me.visit] = "running"
  BY <1>1 DEF IndInv, OpPart
<1>4. Me.visit \in 1..Visits + 1 /\ Visits \in Nat
  BY <1>2, RecordFields, MissionAssumption
<1> QED
  BY <1>1, <1>2, <1>3, <1>4

LEMMA SendAcceptedStep ==
  ASSUME IndInv, SendAccepted
  PROVE  IndInv' /\ Kept
<1> DEFINE r == [Me EXCEPT !.goal = nav'.id]
           z == [r EXCEPT !.state = "canceling", !.phase = "uncertain",
                          !.outcome = "failed"]
<1>1. /\ op.pc = "send" /\ NewGoal(op.m, Me.visit) /\ UNCHANGED <<active, stops, reached, broken>>
      /\ \/ /\ Becomes(r) /\ Return(r)
            /\ disk' = [ms |-> ms', active |-> active]
            /\ left' = [left EXCEPT !.goals = @ - 1]
         \/ /\ Becomes(z) /\ Goto("fail") /\ left.faults > 0
            /\ disk' \in {disk, [ms |-> ms', active |-> active]}
            /\ left' = [left EXCEPT !.goals = @ - 1, !.faults = @ - 1]
  BY DEF SendAccepted
<1>2. /\ op.m \in Missions /\ active = op.m /\ op.m # "none"
      /\ ~Ended(Me) /\ Me \in MissionRecord /\ RecordOK(op.m, Me)
      /\ Me.goal = 0 /\ Me.visit \in 1..Visits /\ Me.visit <= Visits
      /\ Me.state = "running" /\ Me.phase = "navigating"
      /\ Me.status[Me.visit] = "running"
  BY <1>1, SendFacts
<1>3. op.m \in Owners /\ Me.visit \in 0..Visits
  BY <1>2, Constants DEF Owners
<1>4. nav' \in NavRecord /\ nav'.id # 0
  BY <1>1, <1>3, NewGoalFacts DEF IndInv
<1>5. left.goals > 0 /\ left \in Bounds
  BY <1>1 DEF NewGoal, IndInv, Data, DataTyped
<1>6. nav'.id \in 0..MaxGoals
  BY <1>4 DEF NavRecord
<1> DEFINE id == nav'.id
<1> HIDE DEF id
<1>7. r \in MissionRecord /\ z \in MissionRecord
  <2>1. id \in 0..MaxGoals /\ r = [Me EXCEPT !.goal = id]
    BY <1>6 DEF id
  <2> HIDE DEF r
  <2>2. r \in MissionRecord
    BY <1>2, <2>1 DEF MissionRecord
  <2> QED
    BY <2>2 DEF MissionRecord, ActiveStates
<1>8. /\ r.state = "running" /\ r.phase = "navigating" /\ r.visit = Me.visit
      /\ r.status = Me.status /\ r.goal = nav'.id
  BY <1>2 DEF MissionRecord
<1>9. /\ z.state = "canceling" /\ z.phase = "uncertain" /\ z.visit = Me.visit
      /\ z.status = Me.status /\ z.goal = nav'.id
  BY <1>2 DEF MissionRecord
<1> HIDE DEF r, z
<1>10. RecordOK(op.m, r) /\ RecordOK(op.m, z)
  BY <1>2, <1>8, <1>9 DEF RecordOK, Behind, Shaped, Drivers
<1>11. Steady(op.m, r) /\ Steady(op.m, z)
  BY <1>2, <1>8, <1>9 DEF Steady, Arrivals
<1>12. r.state \in ActiveStates /\ z.state \in ActiveStates
  BY <1>8, <1>9 DEF ActiveStates
<1>13. CASE /\ Becomes(r) /\ Return(r)
            /\ disk' = [ms |-> ms', active |-> active]
            /\ left' = [left EXCEPT !.goals = @ - 1]
  <2>1. left' \in Bounds /\ Used' = Used + 1
    BY <1>5, <1>13, GoalsLeft DEF IndInv
  <2>2. /\ ms' = [ms EXCEPT ![op.m] = r] /\ active' = active
        /\ disk' \in {disk, [ms |-> ms', active |-> active']}
    BY <1>1, <1>13 DEF Becomes
  <2>3. Data' /\ SteadyPart' /\ Kept
    BY <1>1, <1>2, <1>7, <1>8, <1>10, <1>11, <1>12, <2>1, <2>2, GoalTurn DEF IndInv
  <2>4. Control' /\ op' = Free
    BY <1>2, <1>13, ControlReturn DEF IndInv
  <2> QED
    BY <2>3, <2>4, Done
<1>14. CASE /\ Becomes(z) /\ Goto("fail") /\ left.faults > 0
            /\ disk' \in {disk, [ms |-> ms', active |-> active]}
            /\ left' = [left EXCEPT !.goals = @ - 1, !.faults = @ - 1]
  <2>1. left' \in Bounds /\ Used' = Used + 1
    BY <1>5, <1>14, GoalsLeft DEF IndInv
  <2>2. /\ ms' = [ms EXCEPT ![op.m] = z] /\ active' = active
        /\ disk' \in {disk, [ms |-> ms', active |-> active']}
    BY <1>1, <1>14 DEF Becomes
  <2>3. Data' /\ SteadyPart' /\ Kept /\ ms'[op.m] = z
    BY <1>1, <1>2, <1>7, <1>9, <1>10, <1>11, <1>12, <2>1, <2>2, GoalTurn DEF IndInv
  <2>4. Control' /\ op'.pc = "fail" /\ op'.m = op.m
    BY <1>14, ControlGoto DEF IndInv, Failing
  <2>5. OpPart'
    BY <1>2, <1>9, <2>2, <2>3, <2>4 DEF OpPart, Arrivals, Me, Onward, Between, Cleanup, Failing
  <2> QED
    BY <2>3, <2>4, <2>5 DEF IndInv
<1> QED
  BY <1>1, <1>13, <1>14

\* The record of a mission that does not know which goal is its own.
LEMMA UncertainFacts ==
  ASSUME IndInv, op.pc = "send",
         NEW z, z = [Me EXCEPT !.state = "canceling", !.phase = "uncertain",
                               !.outcome = "failed"]
  PROVE  /\ Fits(z) /\ Steady(op.m, z) /\ z.state \in ActiveStates /\ RecordOK(op.m, z)
         /\ z \in MissionRecord /\ z.visit = Me.visit /\ z.goal = 0
         /\ z.state = "canceling" /\ z.phase = "uncertain"
<1>1. /\ ~Ended(Me) /\ Me \in MissionRecord /\ RecordOK(op.m, Me) /\ Me.goal = 0
  BY SendFacts
<1>2. z \in MissionRecord
  BY <1>1 DEF MissionRecord, ActiveStates
<1>3. /\ z.state = "canceling" /\ z.phase = "uncertain" /\ z.visit = Me.visit
      /\ z.status = Me.status /\ z.goal = 0
  BY <1>1 DEF MissionRecord
<1>4. RecordOK(op.m, z)
  BY <1>1, <1>3 DEF RecordOK, Behind, Shaped
<1>5. Fits(z) /\ Steady(op.m, z) /\ z.state \in ActiveStates
  BY <1>1, <1>2, <1>3, <1>4 DEF Fits, Covers, Steady, Arrivals, ActiveStates
<1> QED
  BY <1>2, <1>3, <1>4, <1>5

LEMMA SendUncertainStep ==
  ASSUME IndInv, SendUncertain
  PROVE  IndInv' /\ Kept
<1> DEFINE z == [Me EXCEPT !.state = "canceling", !.phase = "uncertain",
                           !.outcome = "failed"]
<1>1. /\ op.pc = "send" /\ left.faults > 0 /\ Becomes(z) /\ Raise
      /\ disk' = [ms |-> ms', active |-> active] /\ UNCHANGED <<active, stops, reached, broken>>
      /\ \/ /\ NewGoal(op.m, Me.visit)
            /\ left' = [left EXCEPT !.goals = @ - 1, !.faults = @ - 1]
         \/ UNCHANGED nav /\ left' = [left EXCEPT !.faults = @ - 1]
  BY DEF SendUncertain
<1>2. /\ op.pc \in Onward /\ op.m \in Missions /\ active = op.m /\ op.m # "none"
      /\ ~Ended(Me) /\ Me.visit \in 1..Visits
  BY <1>1, SendFacts
<1>3. /\ Fits(z) /\ Steady(op.m, z) /\ z.state \in ActiveStates /\ RecordOK(op.m, z)
      /\ z \in MissionRecord /\ z.visit = Me.visit /\ z.goal = 0
      /\ z.state = "canceling" /\ z.phase = "uncertain"
  BY <1>1, UncertainFacts
<1> HIDE DEF z
<1>4. left \in Bounds /\ left.faults >= 1
  BY <1>1 DEF IndInv, Data, DataTyped, Bounds
<1>5. /\ ms' = [ms EXCEPT ![op.m] = z] /\ active' = active
      /\ disk' \in {disk, [ms |-> ms', active |-> active']}
  BY <1>1 DEF Becomes
<1>6. CASE /\ NewGoal(op.m, Me.visit)
           /\ left' = [left EXCEPT !.goals = @ - 1, !.faults = @ - 1]
  <2>1. left.goals > 0
    BY <1>6 DEF NewGoal
  <2>2. left' \in Bounds /\ Used' = Used + 1
    BY <1>1, <1>6, <2>1, GoalsLeft DEF IndInv
  <2>3. Data' /\ SteadyPart' /\ Kept
    BY <1>1, <1>2, <1>3, <1>5, <1>6, <2>2, GoalTurn DEF IndInv
  <2>4. Control' /\ op' = Free
    BY <1>1, <1>2, ControlRaise DEF IndInv
  <2> QED
    BY <2>3, <2>4, Done
<1>7. CASE UNCHANGED nav /\ left' = [left EXCEPT !.faults = @ - 1]
  <2>1. left' \in Bounds /\ left'.goals = left.goals
    BY <1>4, <1>7 DEF Bounds
  <2>2. Stored
    BY <1>5, <2>1 DEF Stored
  <2> QED
    BY <1>1, <1>2, <1>3, <1>5, <1>7, <2>2, OwnerEnds
<1> QED
  BY <1>1, <1>6, <1>7

LEMMA SendRefusedStep ==
  ASSUME IndInv, SendRefused
  PROVE  IndInv' /\ Kept
<1> DEFINE z == [Me EXCEPT !.state = "canceling", !.phase = "uncertain",
                           !.outcome = "failed"]
<1>1. /\ op.pc = "send" /\ Becomes(z) /\ Raise /\ SavedForStop
      /\ UNCHANGED <<active, stops, nav, reached, broken>>
  BY DEF SendRefused
<1>2. op.pc \in Onward /\ active = op.m /\ op.m # "none"
  BY <1>1, SendFacts
<1>3. Fits(z) /\ Steady(op.m, z) /\ z.state \in ActiveStates
  BY <1>1, UncertainFacts
<1> HIDE DEF z
<1>4. Stored
  BY <1>1, SaveFacts DEF SavedForStop, IndInv
<1> QED
  BY <1>1, <1>2, <1>3, <1>4, OwnerEnds

-----------------------------------------------------------------------------
(* Cleaning up.                                                            *)

LEMMA GivenUpFacts ==
  ASSUME NEW m, NEW r \in MissionRecord, Behind(m, r), r.goal = 0
  PROVE  /\ GivenUp(r) \in MissionRecord /\ Behind(m, GivenUp(r))
         /\ GivenUp(r).goal = 0 /\ GivenUp(r).visit = r.visit
<1>1. CASE r.visit <= Visits /\ r.status[r.visit] = "running"
  <2> DEFINE z == [r EXCEPT !.status[r.visit] = "failed", !.goal = 0]
  <2>1. GivenUp(r) = z
    BY <1>1 DEF GivenUp
  <2>2. z.visit = r.visit /\ z.goal = 0 /\ z.status = [r.status EXCEPT ![r.visit] = "failed"]
    BY DEF MissionRecord
  <2>3. r.visit \in 1..Visits + 1 /\ r.status \in [1..Visits -> Statuses]
    BY RecordFields
  <2>4. [r.status EXCEPT ![r.visit] = "failed"] \in [1..Visits -> Statuses]
    BY <2>3 DEF Statuses
  <2>5. z \in MissionRecord
    BY <2>4, Constants DEF MissionRecord, Statuses
  <2> HIDE DEF z
  <2>6. "failed" \in Statuses
    BY DEF Statuses
  <2>7. Behind(m, z)
    BY <1>1, <2>2, <2>5, <2>6, StatusStep
  <2> QED
    BY <2>1, <2>2, <2>5, <2>7
<1>2. CASE ~(r.visit <= Visits /\ r.status[r.visit] = "running")
  BY <1>2 DEF GivenUp
<1> QED
  BY <1>1, <1>2

\* A mission that gives up, whatever else its record says.
LEMMA FailedFacts ==
  ASSUME NEW m, NEW r \in MissionRecord, Behind(m, r), r.goal = 0,
         NEW z \in MissionRecord, z.status = r.status, z.visit = r.visit, z.goal = 0,
         z.state = "failed"
  PROVE  Behind(m, z) /\ Steady(m, z)
BY DEF Behind, Steady, Arrivals

LEMMA PausedFacts ==
  ASSUME NEW m, NEW r \in MissionRecord, Behind(m, r), r.goal = 0, r.state = "pausing",
         Steady(m, r), NEW terminal,
         terminal = "succeeded" => <<m, r.visit>> \in reached
  PROVE  /\ Paused(r, terminal) \in MissionRecord /\ Behind(m, Paused(r, terminal))
         /\ Paused(r, terminal).goal = 0 /\ Paused(r, terminal).state = "paused"
         /\ Steady(m, Paused(r, terminal))
<1>1. r.visit \in 1..Visits + 1 /\ Visits \in Nat
  BY RecordFields, Constants
<1>2. CASE r.phase = "holding" \/ r.visit > Visits
  <2> DEFINE z == [r EXCEPT !.state = "paused"]
  <2>1. Paused(r, terminal) = z
    BY <1>2 DEF Paused
  <2>2. z \in MissionRecord
    BY DEF MissionRecord, ActiveStates
  <2>3. /\ z.state = "paused" /\ z.visit = r.visit /\ z.status = r.status /\ z.goal = 0
        /\ z.phase = r.phase
    BY DEF MissionRecord
  <2> HIDE DEF z
  <2> QED
    BY <1>1, <2>1, <2>2, <2>3 DEF Behind, Steady, Arrivals
<1>3. CASE ~(r.phase = "holding" \/ r.visit > Visits) /\ terminal = "succeeded"
  <2> DEFINE z == [Arrived(r) EXCEPT !.state = "paused"]
  <2>1. Paused(r, terminal) = z
    BY <1>3 DEF Paused
  <2>2. z \in MissionRecord
    BY Constants DEF MissionRecord, ActiveStates, Arrived
  <2>3. /\ z.state = "paused" /\ z.visit = r.visit /\ z.status = r.status /\ z.goal = 0
        /\ z.phase = "holding"
    BY DEF MissionRecord, Arrived
  <2> HIDE DEF z
  <2> QED
    BY <1>1, <1>3, <2>1, <2>2, <2>3 DEF Behind, Steady, Arrivals
<1>4. CASE ~(r.phase = "holding" \/ r.visit > Visits) /\ terminal # "succeeded"
  <2> DEFINE y == [r EXCEPT !.status[r.visit] = "pending"]
             z == [y EXCEPT !.state = "paused"]
  <2>1. Paused(r, terminal) = z
    BY <1>4 DEF Paused
  <2>2. r.visit \in 1..Visits + 1 /\ r.status \in [1..Visits -> Statuses]
    BY RecordFields
  <2>3. [r.status EXCEPT ![r.visit] = "pending"] \in [1..Visits -> Statuses]
    BY <2>2 DEF Statuses
  <2>4. /\ y.visit = r.visit /\ y.goal = 0 /\ y.phase = r.phase
        /\ y.status = [r.status EXCEPT ![r.visit] = "pending"]
    BY DEF MissionRecord
  <2>5. y \in MissionRecord
    BY <2>3 DEF MissionRecord, Statuses
  <2> HIDE DEF y
  <2>6. /\ z.state = "paused" /\ z.visit = r.visit /\ z.goal = 0 /\ z.phase = r.phase
        /\ z.status = [r.status EXCEPT ![r.visit] = "pending"]
    BY <2>4, <2>5 DEF MissionRecord
  <2>7. z \in MissionRecord
    BY <2>5 DEF MissionRecord, ActiveStates
  <2> HIDE DEF z
  <2>8. "pending" \in Statuses
    BY DEF Statuses
  <2>9. Behind(m, z)
    BY <1>1, <1>4, <2>6, <2>7, <2>8, StatusStep
  <2>10. Steady(m, z)
    BY <1>1, <1>4, <2>6 DEF Steady, Arrivals
  <2> QED
    BY <2>1, <2>6, <2>7, <2>9, <2>10
<1> QED
  BY <1>2, <1>3, <1>4

LEMMA SkippedFacts ==
  ASSUME NEW m, NEW r \in MissionRecord, Behind(m, r), r.goal = 0, r.state = "skipping",
         NEW z, z = IF r.visit > Visits THEN r
                    ELSE [r EXCEPT !.status[r.visit] = "skipped", !.visit = @ + 1]
  PROVE  /\ z \in MissionRecord /\ Behind(m, z) /\ z.goal = 0 /\ z.state = "skipping"
         /\ Steady(m, z)
<1>1. CASE r.visit > Visits
  BY <1>1 DEF Steady, Arrivals
<1>2. CASE ~(r.visit > Visits)
  <2>1. r.visit \in 1..Visits + 1 /\ r.status \in [1..Visits -> Statuses] /\ Visits \in Nat
    BY RecordFields, Constants
  <2>2. [r.status EXCEPT ![r.visit] = "skipped"] \in [1..Visits -> Statuses]
    BY <2>1 DEF Statuses
  <2>3. /\ z.visit = r.visit + 1 /\ z.goal = 0 /\ z.state = "skipping"
        /\ z.status = [r.status EXCEPT ![r.visit] = "skipped"]
    BY <1>2 DEF MissionRecord
  <2>4. r.visit + 1 \in 1..Visits + 1 /\ r.visit <= Visits
    BY <1>2, <2>1
  <2>5. z \in MissionRecord
    BY <1>2, <2>2, <2>4 DEF MissionRecord, Statuses
  <2>6. "skipped" \in Statuses
    BY DEF Statuses
  <2>7. Behind(m, z)
    BY <2>3, <2>4, <2>5, <2>6, StatusStep
  <2> QED
    BY <2>3, <2>5, <2>7 DEF Steady, Arrivals
<1> QED
  BY <1>1, <1>2

\* The record after the confirmed end of the goal, for every operation.
LEMMA CleanedFacts ==
  ASSUME IndInv, op.pc \in Cleanup \cup Failing, NEW terminal,
         terminal = "succeeded" => <<op.m, Me.visit>> \in reached,
         NEW z, z = Cleaned(GoalCleared(Me), terminal)
  PROVE  /\ z \in MissionRecord /\ Behind(op.m, z) /\ z.goal = 0 /\ Steady(op.m, z)
         /\ op.pc \in Failing \/ op.kind \notin {"pause", "skip"} => z.state = "failed"
         /\ op.pc \in Cleanup /\ op.kind = "pause" => z.state = "paused"
         /\ op.pc \in Cleanup /\ op.kind = "skip" => z.state = "skipping"
<1> DEFINE g == GoalCleared(Me)
<1>1. /\ op.m \in Missions /\ Me \in MissionRecord /\ RecordOK(op.m, Me)
  BY OwnerFacts
<1>2. g \in MissionRecord
  BY <1>1, Constants DEF GoalCleared, MissionRecord
<1>3. /\ g.goal = 0 /\ g.visit = Me.visit /\ g.status = Me.status /\ g.state = Me.state
      /\ g.phase = Me.phase
  BY <1>1 DEF GoalCleared, MissionRecord
<1> HIDE DEF g
<1>4. Behind(op.m, g)
  BY <1>1, <1>3 DEF RecordOK, Behind
<1>5. op.pc \notin Between
  BY DEF Cleanup, Failing, Between
<1>6. Steady(op.m, g)
  BY <1>1, <1>3, <1>5, AllSteady DEF IndInv, Steady, Arrivals
<1>7. GivenUp(g) \in MissionRecord /\ Behind(op.m, GivenUp(g)) /\ GivenUp(g).goal = 0
  BY <1>2, <1>3, <1>4, GivenUpFacts
<1>8. z = Cleaned(g, terminal) /\ (op.pc \in Failing <=> op.pc \in {"fail", "failing"})
  BY DEF g, Failing
<1>9. op.pc \in Failing => op.pc \notin Cleanup
  BY DEF Failing, Cleanup
<1>10. CASE op.pc \in Failing
  <2> DEFINE y == GivenUp(g)
  <2>1. z = [y EXCEPT !.state = "failed", !.phase = "failed", !.token = 0]
    BY <1>8, <1>10 DEF Cleaned
  <2>2. y \in MissionRecord /\ Behind(op.m, y) /\ y.goal = 0
    BY <1>7
  <2> HIDE DEF y
  <2>3. z \in MissionRecord
    BY <2>1, <2>2, Constants DEF MissionRecord
  <2>4. z.state = "failed" /\ z.status = y.status /\ z.visit = y.visit /\ z.goal = 0
    BY <2>1, <2>2 DEF MissionRecord
  <2>5. Behind(op.m, z) /\ Steady(op.m, z)
    BY <2>2, <2>3, <2>4, FailedFacts
  <2> QED
    BY <1>9, <1>10, <2>3, <2>4, <2>5
<1>11. CASE op.pc \notin Failing /\ op.kind = "pause"
  <2>1. z = Paused(g, terminal) /\ g.state = "pausing"
    BY <1>3, <1>8, <1>11 DEF Cleaned, IndInv, OpPart
  <2> QED
    BY <1>2, <1>3, <1>4, <1>6, <1>11, <2>1, PausedFacts
<1>12. CASE op.pc \notin Failing /\ op.kind = "abort"
  <2> DEFINE y == GivenUp(g)
  <2>1. z = [y EXCEPT !.state = "failed", !.outcome = "aborted", !.token = 0]
    BY <1>8, <1>12 DEF Cleaned
  <2>2. y \in MissionRecord /\ Behind(op.m, y) /\ y.goal = 0
    BY <1>7
  <2> HIDE DEF y
  <2>3. z \in MissionRecord
    BY <2>1, <2>2, Constants DEF MissionRecord
  <2>4. z.state = "failed" /\ z.status = y.status /\ z.visit = y.visit /\ z.goal = 0
    BY <2>1, <2>2 DEF MissionRecord
  <2>5. Behind(op.m, z) /\ Steady(op.m, z)
    BY <2>2, <2>3, <2>4, FailedFacts
  <2> QED
    BY <1>12, <2>3, <2>4, <2>5
<1>13. CASE op.pc \notin Failing /\ op.kind = "skip"
  <2>1. z = IF g.visit > Visits THEN g
            ELSE [g EXCEPT !.status[g.visit] = "skipped", !.visit = @ + 1]
    BY <1>8, <1>13 DEF Cleaned
  <2>2. g.state = "skipping"
    BY <1>3, <1>13 DEF IndInv, OpPart
  <2>3. /\ z \in MissionRecord /\ Behind(op.m, z) /\ z.goal = 0 /\ z.state = "skipping"
        /\ Steady(op.m, z)
    BY <1>2, <1>3, <1>4, <2>1, <2>2, SkippedFacts
  <2> QED
    BY <1>13, <2>3
<1>14. CASE op.pc \notin Failing /\ op.kind \in {"monitor", "close"}
  <2>1. \E o \in {"failed", "interrupted"} : z = [g EXCEPT !.state = "failed", !.outcome = o]
    BY <1>8, <1>14 DEF Cleaned
  <2>2. z \in MissionRecord
    BY <1>2, <2>1 DEF MissionRecord
  <2>3. z.state = "failed" /\ z.status = g.status /\ z.visit = g.visit /\ z.goal = 0
    BY <1>2, <1>3, <2>1 DEF MissionRecord
  <2>4. Behind(op.m, z) /\ Steady(op.m, z)
    BY <1>2, <1>3, <1>4, <2>2, <2>3, FailedFacts
  <2> QED
    BY <1>14, <2>2, <2>3, <2>4
<1>15. op.pc \notin Failing => op.kind \in {"pause", "abort", "skip", "monitor", "close"}
  BY DEF IndInv, OpPart
<1> QED
  BY <1>10, <1>11, <1>12, <1>13, <1>14, <1>15

\* The end is confirmed, so nothing drives the mission.
LEMMA CancelDoneStep ==
  ASSUME IndInv, op.pc \in Cleanup \cup Failing, NEW terminal, CancelDone(terminal),
         ~Driven(op.m), terminal = "succeeded" => <<op.m, Me.visit>> \in reached
  PROVE  IndInv' /\ Kept
<1> DEFINE z == Cleaned(GoalCleared(Me), terminal)
<1>1. /\ Becomes(z) /\ UNCHANGED <<stops, nav, reached, broken>>
      /\ active' = IF op.pc \in {"cancel", "canceling"} /\ op.kind \in {"pause", "skip"}
                     THEN active ELSE "none"
      /\ IF op.pc \in {"fail", "failing"} THEN SavedForStop /\ Raise
         ELSE CASE op.kind = "skip"  -> Unsaved /\ Goto("dispatch")
                [] op.kind = "close" -> SavedForStop /\ Goto("down")
                [] op.kind = "monitor" -> \/ Saved /\ Return(z)
                                          \/ SaveFailed /\ Raise
                [] OTHER -> SavedForStop /\ Return(z)
  BY DEF CancelDone
<1>2. /\ op.m \in Missions /\ op.m # "none" /\ active = op.m /\ Me \in MissionRecord
      /\ ~Ended(Me)
  BY OwnerFacts
<1>3. /\ z \in MissionRecord /\ Behind(op.m, z) /\ z.goal = 0 /\ Steady(op.m, z)
      /\ op.pc \in Failing \/ op.kind \notin {"pause", "skip"} => z.state = "failed"
      /\ op.pc \in Cleanup /\ op.kind = "pause" => z.state = "paused"
      /\ op.pc \in Cleanup /\ op.kind = "skip" => z.state = "skipping"
  BY CleanedFacts
<1> HIDE DEF z
<1>4. /\ op.pc \in Failing <=> op.pc \in {"fail", "failing"}
      /\ op.pc \in Cleanup <=> op.pc \in {"cancel", "canceling"}
      /\ op.pc \in Failing <=> op.pc \notin Cleanup
  BY DEF Failing, Cleanup
<1>5. z.state \in {"failed", "paused", "skipping"}
  BY <1>3, <1>4
<1>6. Fits(z)
  BY <1>2, <1>3, <1>5 DEF Fits, RecordOK, Shaped
<1>7. active' \in {"none", op.m} /\ (z.state \in ActiveStates <=> active' = op.m)
  <2>1. CASE op.pc \in Cleanup /\ op.kind \in {"pause", "skip"}
    BY <1>1, <1>2, <1>3, <1>4, <2>1 DEF ActiveStates
  <2>2. CASE ~(op.pc \in Cleanup /\ op.kind \in {"pause", "skip"})
    BY <1>1, <1>2, <1>3, <1>4, <2>2 DEF ActiveStates
  <2> QED
    BY <2>1, <2>2
<1>8. CASE Goto("dispatch") /\ Unsaved /\ op.kind = "skip" /\ op.pc \in Cleanup
  <2>1. Stored
    BY <1>8, SaveFacts DEF IndInv
  <2>2. Data' /\ SteadyPart' /\ Kept /\ ms'[op.m] = z
    BY <1>1, <1>3, <1>6, <1>7, <2>1, OwnerTurn
  <2>3. Control' /\ op'.pc = "dispatch" /\ op'.m = op.m
    BY <1>8, ControlGoto DEF IndInv, Onward, Between
  <2>4. OpPart'
    BY <1>1, <1>2, <1>3, <1>4, <1>8, <2>2, <2>3, OpOnward
  <2> QED
    BY <2>2, <2>3, <2>4 DEF IndInv
<1>9. CASE Goto("down") /\ SavedForStop
  <2>1. Stored
    BY <1>9, SaveFacts DEF IndInv, SavedForStop
  <2>2. Data' /\ SteadyPart' /\ Kept
    BY <1>1, <1>3, <1>6, <1>7, <2>1, OwnerTurn
  <2>3. Control' /\ op'.pc = "down"
    BY <1>9, ControlGoto DEF IndInv
  <2>4. OpPart'
    BY <2>3 DEF OpPart, Arrivals, Onward, Between, Cleanup, Failing
  <2> QED
    BY <2>2, <2>3, <2>4 DEF IndInv
<1>10. CASE (Return(z) \/ Raise) /\ (Saved \/ SaveFailed)
  <2>1. Stored
    BY <1>10, SaveFacts DEF IndInv
  <2> QED
    BY <1>1, <1>3, <1>6, <1>7, <1>10, <2>1, OwnerEnds
<1> QED
  BY <1>1, <1>4, <1>8, <1>9, <1>10 DEF SavedForStop

\* The end is not confirmed: the fence stays, and the mission is uncertain.
LEMMA CancelRaisesStep ==
  ASSUME IndInv, op.pc \in Cleanup \cup Failing, CancelRaises
  PROVE  IndInv' /\ Kept
<1>1. UNCHANGED <<active, stops, nav, reached, broken>>
  BY DEF CancelRaises
<1>2. /\ op.m \in Missions /\ op.m # "none" /\ active = op.m /\ Me \in MissionRecord
      /\ ~Ended(Me) /\ RecordOK(op.m, Me)
  BY OwnerFacts
<1>3. op.pc \in Failing => Me.state = "canceling"
  BY DEF IndInv, OpPart
<1>4. ASSUME NEW z,
             \/ op.pc \in Failing /\ z = [Me EXCEPT !.phase = "uncertain"]
             \/ z = [Me EXCEPT !.state = "canceling", !.phase = "uncertain"]
      PROVE  Fits(z) /\ Steady(op.m, z) /\ z.state \in ActiveStates
  <2>1. z \in MissionRecord
    BY <1>2, <1>4 DEF MissionRecord, ActiveStates
  <2>2. /\ z.state = "canceling" /\ z.phase = "uncertain" /\ z.visit = Me.visit
        /\ z.status = Me.status /\ z.goal = Me.goal
    BY <1>2, <1>3, <1>4 DEF MissionRecord
  <2>3. RecordOK(op.m, z)
    BY <1>2, <2>2 DEF RecordOK, Behind, Shaped, Drivers
  <2> QED
    BY <1>2, <2>1, <2>2, <2>3 DEF Fits, Covers, Steady, Arrivals, ActiveStates
<1>5. CASE op.pc \in Failing
  <2> DEFINE z == [Me EXCEPT !.phase = "uncertain"]
  <2>1. Becomes(z) /\ SavedForStop /\ Raise
    BY <1>5 DEF CancelRaises, Failing
  <2>2. Fits(z) /\ Steady(op.m, z) /\ z.state \in ActiveStates
    BY <1>4, <1>5
  <2> HIDE DEF z
  <2>3. Stored
    BY <2>1, SaveFacts DEF IndInv, SavedForStop
  <2> QED
    BY <1>1, <1>2, <2>1, <2>2, <2>3, OwnerEnds
<1>6. CASE op.pc \notin Failing /\ op.kind = "close"
  <2> DEFINE z == [Me EXCEPT !.state = "canceling", !.phase = "uncertain"]
  <2>1. Becomes(z) /\ SavedForStop /\ Goto("down")
    BY <1>6 DEF CancelRaises, Failing
  <2>2. Fits(z) /\ Steady(op.m, z) /\ z.state \in ActiveStates
    BY <1>4
  <2> HIDE DEF z
  <2>3. Stored
    BY <2>1, SaveFacts DEF IndInv, SavedForStop
  <2>4. Data' /\ SteadyPart' /\ Kept
    BY <1>1, <1>2, <2>1, <2>2, <2>3, OwnerTurn
  <2>5. Control' /\ op'.pc = "down"
    BY <2>1, ControlGoto DEF IndInv
  <2>6. OpPart'
    BY <2>5 DEF OpPart, Arrivals, Onward, Between, Cleanup, Failing
  <2> QED
    BY <2>4, <2>5, <2>6 DEF IndInv
<1>7. CASE op.pc \notin Failing /\ op.kind # "close"
  <2>1. UNCHANGED ms /\ Unsaved /\ Raise
    BY <1>7 DEF CancelRaises, Failing
  <2>2. /\ UNCHANGED <<ms, active, nav, reached, broken, disk>> /\ left' = left /\ left \in Bounds
        /\ stops' \subseteq Missions
    BY <1>1, <2>1 DEF Unsaved, IndInv, Data, DataTyped
  <2>3. op.pc \notin Between
    BY DEF Between, Cleanup, Failing
  <2>4. Data' /\ SteadyPart' /\ Kept
    BY <2>2, <2>3, Quiet DEF IndInv
  <2>5. Control' /\ op' = Free
    BY <1>2, <2>1, ControlRaise DEF IndInv
  <2> QED
    BY <2>4, <2>5, Done
<1> QED
  BY <1>5, <1>6, <1>7

\* The goal goes on or ends, and no mission changes.
LEMMA GoalMoves ==
  ASSUME Data, SteadyPart, UNCHANGED <<ms, active, stops, disk>>,
         nav' \in NavRecord, nav'.id = nav.id, nav'.owner = nav.owner, nav'.visit = nav.visit,
         nav'.state \in GoalActive => nav.state \in GoalActive,
         nav.id = 0 => nav'.state = "idle",
         reached \subseteq reached', broken' = broken,
         nav'.state = "succeeded" /\ nav.owner # "none" => <<nav.owner, nav.visit>> \in reached',
         left' \in Bounds, left'.goals = left.goals,
         op.pc \in Between => op'.m = op.m /\ op'.pc \in Between
  PROVE  Data' /\ SteadyPart' /\ Kept
<1>1. DataTyped'
  BY DEF Data, DataTyped, NavRecord
<1>2. RecordPart' /\ FencePart'
  BY DEF Data, RecordPart, RecordOK, Behind, Shaped, FencePart
<1>3. DiskPart'
  BY DEF Data, DiskPart, RecordOK, Behind, Shaped, StoredIsLoadable
<1>4. NavPart'
  BY DEF Data, NavPart, Used
<1>5. GoalPart'
  BY DEF Data, GoalPart, Driven, Covers
<1>6. SteadyPart' /\ Kept
  BY DEF SteadyPart, Underway, Steady, Arrivals, Kept
<1> QED
  BY <1>1, <1>2, <1>3, <1>4, <1>5, <1>6 DEF Data

LEMMA CancelBeginStep ==
  ASSUME IndInv, CancelBegin
  PROVE  IndInv' /\ Kept
<1>1. op.pc \in {"cancel", "fail"} /\ op.pc \in Cleanup \cup Failing
  BY DEF CancelBegin, Cleanup, Failing
<1>2. /\ op.m \in Missions /\ active = op.m /\ Me = ms[op.m]
      /\ Driven(op.m) /\ Me.goal = 0 => Me.phase = "uncertain"
  BY <1>1, OwnerFacts
<1>3. CASE Me.goal = 0
  <2>1. CASE Me.phase = "uncertain"
    BY <1>1, <1>3, <2>1, CancelRaisesStep DEF CancelBegin
  <2>2. CASE Me.phase # "uncertain"
    <3>1. CancelDone("idle") /\ ~Driven(op.m)
      BY <1>2, <1>3, <2>2 DEF CancelBegin
    <3> QED
      BY <1>1, <3>1, CancelDoneStep
  <2> QED
    BY <2>1, <2>2
<1>4. CASE Me.goal # 0 /\ ~OwnGoal
  BY <1>1, <1>4, CancelRaisesStep DEF CancelBegin
<1>5. CASE Me.goal # 0 /\ OwnGoal
  <2> DEFINE s == IF nav.state \in GoalActive THEN "canceling" ELSE nav.state
             pc == IF op.pc = "fail" THEN "failing" ELSE "canceling"
  <2>1. /\ nav' = [nav EXCEPT !.state = s] /\ Goto(pc)
        /\ UNCHANGED <<ms, active, stops, reached, broken, disk, left>>
    BY <1>5 DEF CancelBegin
  <2>2. nav \in NavRecord /\ left \in Bounds
    BY DEF IndInv, Data, DataTyped, NavRecord
  <2>3. s \in GoalActive \cup GoalTerminal
    BY <2>2 DEF NavRecord, GoalActive
  <2>4. nav.id # 0
    BY <1>5 DEF OwnGoal
  <2>5. /\ s \in GoalActive => nav.state \in GoalActive
        /\ s = "succeeded" => nav.state = "succeeded"
    OBVIOUS
  <2>6. pc \in Cleanup \cup Failing /\ pc \in {"canceling", "failing"}
    BY DEF Cleanup, Failing
  <2>7. pc = "failing" <=> op.pc = "fail"
    OBVIOUS
  <2> HIDE DEF s, pc
  <2>8. nav' \in NavRecord
    BY <2>1, <2>2, <2>3 DEF NavRecord
  <2>9. /\ nav'.state = s /\ nav'.id = nav.id /\ nav'.owner = nav.owner
         /\ nav'.visit = nav.visit
    BY <2>1, <2>2 DEF NavRecord
  <2>10. Control' /\ op'.pc = pc /\ op'.m = op.m /\ op'.kind = op.kind
    BY <2>1, <2>6, ControlGoto DEF IndInv
  <2>11. Data' /\ SteadyPart' /\ Kept
    <3>1. op.pc \notin Between
      BY <1>1 DEF Between
    <3>2. /\ nav'.state = "succeeded" /\ nav.owner # "none"
               => <<nav.owner, nav.visit>> \in reached'
      BY <2>1, <2>5, <2>9 DEF IndInv, Data, NavPart
    <3>3. reached \subseteq reached' /\ left' = left
      BY <2>1
    <3> QED
      BY <2>1, <2>2, <2>4, <2>5, <2>8, <2>9, <3>1, <3>2, <3>3, GoalMoves DEF IndInv
  <2>12. OpPart'
    <3>1. Me' = Me /\ active' = active
      BY <2>1, <2>10 DEF Me
    <3>2. CASE op.pc = "cancel"
      BY <1>2, <1>5, <2>6, <2>7, <2>10, <3>1, <3>2
         DEF OpPart, Arrivals, IndInv, Onward, Between, Cleanup, Failing
    <3>3. CASE op.pc = "fail"
      BY <1>2, <1>5, <2>6, <2>7, <2>10, <3>1, <3>3
         DEF OpPart, Arrivals, IndInv, Onward, Between, Cleanup, Failing
    <3> QED
      BY <1>1, <3>2, <3>3
  <2> QED
    BY <2>10, <2>11, <2>12 DEF IndInv
<1> QED
  BY <1>3, <1>4, <1>5

LEMMA CancelPollStep ==
  ASSUME IndInv, CancelPoll
  PROVE  IndInv' /\ Kept
<1>1. op.pc \in {"canceling", "failing"} /\ op.pc \in Cleanup \cup Failing
  BY DEF CancelPoll, Cleanup, Failing
<1>2. op.m \in Missions /\ op.m # "none" /\ Me = ms[op.m] /\ Me.goal # 0
  BY <1>1, OwnerFacts DEF IndInv, OpPart
<1>3. CASE OwnGoal /\ nav.state \in GoalTerminal /\ CancelDone(nav.state)
  <2>1. ~Driven(op.m)
    BY <1>3 DEF Driven, GoalTerminal, GoalActive
  <2>2. nav.owner = op.m /\ nav.visit = Me.visit
    BY <1>2, <1>3 DEF OwnGoal, IndInv, Data, NavPart
  <2>3. nav.state = "succeeded" => <<op.m, Me.visit>> \in reached
    BY <1>2, <2>2 DEF IndInv, Data, NavPart
  <2> QED
    BY <1>1, <1>3, <2>1, <2>3, CancelDoneStep
<1>4. CASE ~OwnGoal /\ CancelRaises
  BY <1>1, <1>4, CancelRaisesStep
<1> QED
  BY <1>3, <1>4 DEF CancelPoll

LEMMA CancelRefusedStep ==
  ASSUME IndInv, CancelRefused \/ CancelTimeout
  PROVE  IndInv' /\ Kept
<1>1. op.pc \in Cleanup \cup Failing /\ CancelRaises
  BY DEF CancelRefused, CancelTimeout, Cleanup, Failing
<1> QED
  BY <1>1, CancelRaisesStep

-----------------------------------------------------------------------------
(* The monitor.                                                            *)

\* The monitor gives its mission the record z and ends, or raises.
LEMMA MonitorTurn ==
  ASSUME IndInv, Begins("monitor"), active = op.m, NEW z, Fits(z), Becomes(z),
         active' \in {"none", op.m}, z.state \in ActiveStates <=> active' = op.m,
         UNCHANGED <<stops, nav, reached, broken>>, Stored, Steady(op.m, z)
  PROVE  /\ Data' /\ SteadyPart' /\ Kept /\ ms'[op.m] = z
         /\ Return(z) \/ Raise => IndInv'
<1>1. op.m \in Missions /\ z \in MissionRecord
  BY BeginFacts DEF Begins, Fits
<1>2. ms' = [ms EXCEPT ![op.m] = z] /\ stops' \subseteq Missions
  BY DEF Becomes, IndInv, Data, DataTyped
<1>3. Data' /\ SteadyPart' /\ Kept
  BY <1>1, <1>2, Turn DEF IndInv, Stored
<1>4. ms'[op.m] = z
  BY <1>1, <1>2, MissionUpdate DEF IndInv, Data, DataTyped
<1>5. ASSUME Return(z) \/ Raise PROVE Control' /\ op' = Free
  BY <1>1, <1>5, ControlReturn, ControlRaise DEF IndInv
<1> QED
  BY <1>3, <1>4, <1>5, Done

LEMMA MonitorPollsStep ==
  ASSUME IndInv, MonitorPolls
  PROVE  IndInv' /\ Kept
<1>1. Begins("monitor") /\ op.pc = "begin" /\ op.kind = "monitor"
  BY DEF MonitorPolls, Begins
<1>2. op.m \in Missions /\ op.m # "none" /\ op.pc \notin Between /\ Steady(op.m, Me)
  BY <1>1, BeginFacts
<1>3. /\ Me \in MissionRecord /\ RecordOK(op.m, Me) /\ Me = ms[op.m]
      /\ Driven(op.m) => Covers(Me)
      /\ Driven(op.m) /\ Me.goal = 0 => Me.state = "canceling"
  BY <1>2, MeFacts DEF IndInv
<1>4. ASSUME UNCHANGED <<ms, active, stops, nav, reached, broken, disk, left>>
      PROVE  Data' /\ SteadyPart' /\ Kept
  <2>1. left \in Bounds /\ stops \subseteq Missions
    BY DEF IndInv, Data, DataTyped
  <2> QED
    BY <1>2, <1>4, <2>1, Quiet DEF IndInv
<1> DEFINE Polled == Me.state = "running" /\ active = op.m /\ nav.ready /\ ~nav.busy
<1>5. CASE Me.state # "running" \/ active # op.m
  <2>1. /\ op' = Free /\ mon' = NoTask /\ queue' = queue
        /\ UNCHANGED <<ms, active, stops, nav, reached, broken, disk, left>>
    BY <1>5 DEF MonitorPolls
  <2>2. Control'
    BY <1>1, <2>1, ControlEnds DEF IndInv, TaskKinds
  <2> QED
    BY <1>4, <2>1, <2>2, Done
<1>6. ASSUME UNCHANGED <<ms, active, stops, nav, reached, broken, disk, left>>, Return(Me)
      PROVE  IndInv' /\ Kept
  <2>1. Control' /\ op' = Free
    BY <1>2, <1>6, ControlReturn DEF IndInv
  <2> QED
    BY <1>4, <1>6, <2>1, Done
<1>7. ASSUME Me.state = "running", active = op.m
      PROVE  ~Ended(Me)
  BY <1>7 DEF Ended
<1>8. CASE Me.state = "running" /\ active = op.m /\ (~nav.ready \/ nav.busy)
  <2> DEFINE z == [Me EXCEPT !.state = "canceling"]
  <2>1. /\ Becomes(z) /\ UNCHANGED <<active, stops, nav, reached, broken>>
        /\ \/ Saved /\ Goto("cancel")
           \/ SaveFailed /\ Raise
    BY <1>8 DEF MonitorPolls, MonitorSaves
  <2>2. z \in MissionRecord
    BY <1>3 DEF MissionRecord, ActiveStates
  <2>3. /\ z.state = "canceling" /\ z.phase = Me.phase /\ z.visit = Me.visit
        /\ z.status = Me.status /\ z.goal = Me.goal
    BY <1>3 DEF MissionRecord
  <2> HIDE DEF z
  <2>4. RecordOK(op.m, z)
    BY <1>3, <2>3 DEF RecordOK, Behind, Shaped, Drivers
  <2>5. Driven(op.m) => Covers(z)
    BY <1>3, <1>8, <2>3 DEF Covers
  <2>6. Fits(z) /\ Steady(op.m, z) /\ z.state \in ActiveStates
    BY <1>7, <1>8, <2>2, <2>3, <2>4, <2>5 DEF Fits, Steady, Arrivals, ActiveStates
  <2>7. Stored
    BY <2>1, SaveFacts DEF IndInv
  <2>8. /\ Data' /\ SteadyPart' /\ Kept /\ ms'[op.m] = z
        /\ Return(z) \/ Raise => IndInv'
    BY <1>1, <1>2, <1>8, <2>1, <2>6, <2>7, MonitorTurn
  <2>9. CASE Goto("cancel")
    <3>1. Control' /\ op'.pc = "cancel" /\ op'.m = op.m /\ op'.kind = op.kind
      BY <2>9, ControlGoto DEF IndInv, Cleanup
    <3>2. OpPart'
      BY <1>1, <1>2, <1>8, <2>1, <2>3, <2>8, <3>1, OpCancel
    <3> QED
      BY <2>8, <3>1, <3>2 DEF IndInv
  <2> QED
    BY <2>1, <2>8, <2>9
<1>9. CASE Polled /\ Me.phase = "holding"
  <2>1. /\ Return(Me) \/ Goto("finish")
        /\ UNCHANGED <<ms, active, stops, nav, reached, broken, disk, left>>
    BY <1>9 DEF MonitorPolls
  <2>2. CASE Goto("finish")
    <3>1. Control' /\ op'.pc = "finish" /\ op'.m = op.m
      BY <2>2, ControlGoto DEF IndInv, Onward
    <3>2. Me.goal = 0
      BY <1>3, <1>9 DEF RecordOK, Shaped
    <3>3. OpPart'
      BY <1>2, <1>9, <2>1, <3>1, <3>2
         DEF OpPart, Arrivals, Me, Onward, Between, Cleanup, Failing
    <3> QED
      BY <1>4, <2>1, <3>1, <3>3 DEF IndInv
  <2> QED
    BY <1>6, <2>1, <2>2
<1>10. CASE Polled /\ Me.phase # "holding" /\ Me.visit > Visits
  <2>1. Raise /\ UNCHANGED <<ms, active, stops, nav, reached, broken, disk, left>>
    BY <1>10 DEF MonitorPolls
  <2>2. Control' /\ op' = Free
    BY <1>2, <2>1, ControlRaise DEF IndInv
  <2> QED
    BY <1>4, <2>1, <2>2, Done
<1>11. CASE /\ Polled /\ Me.phase # "holding" /\ ~(Me.visit > Visits)
            /\ ~OwnGoal
  <2> DEFINE z == [Me EXCEPT !.state = "canceling", !.phase = "uncertain"]
  <2>1. /\ Becomes(z) /\ UNCHANGED <<active, stops, nav, reached, broken>>
        /\ \/ Saved /\ Return(z)
           \/ SaveFailed /\ Raise
    BY <1>11 DEF MonitorPolls, MonitorSaves
  <2>2. z \in MissionRecord
    BY <1>3 DEF MissionRecord, ActiveStates
  <2>3. /\ z.state = "canceling" /\ z.phase = "uncertain" /\ z.visit = Me.visit
        /\ z.status = Me.status /\ z.goal = Me.goal
    BY <1>3 DEF MissionRecord
  <2> HIDE DEF z
  <2>4. RecordOK(op.m, z)
    BY <1>3, <2>3 DEF RecordOK, Behind, Shaped, Drivers
  <2>5. Fits(z) /\ Steady(op.m, z) /\ z.state \in ActiveStates
    BY <1>7, <1>11, <2>2, <2>3, <2>4 DEF Fits, Covers, Steady, Arrivals, ActiveStates
  <2>6. Stored
    BY <2>1, SaveFacts DEF IndInv
  <2> QED
    BY <1>1, <1>2, <1>11, <2>1, <2>5, <2>6, MonitorTurn
<1>12. CASE /\ Polled /\ Me.phase # "holding" /\ ~(Me.visit > Visits)
            /\ OwnGoal /\ nav.state \in GoalActive
  BY <1>6, <1>12 DEF MonitorPolls, GoalActive
<1>13. CASE /\ Polled /\ Me.phase # "holding" /\ ~(Me.visit > Visits)
            /\ OwnGoal /\ nav.state = "succeeded"
  <2> DEFINE z == Arrived(Me)
  <2>1. /\ Becomes(z) /\ UNCHANGED <<active, stops, nav, reached, broken>>
        /\ \/ Saved /\ (Return(z) \/ Goto("finish"))
           \/ SaveFailed /\ Raise
    BY <1>13 DEF MonitorPolls, MonitorSaves, GoalActive
  <2>2. z \in MissionRecord
    BY <1>3, Constants DEF MissionRecord, Arrived
  <2>3. /\ z.state = "running" /\ z.phase = "holding" /\ z.visit = Me.visit
        /\ z.status = Me.status /\ z.goal = 0
    BY <1>3, <1>13 DEF MissionRecord, Arrived
  <2> HIDE DEF z
  <2>4. RecordOK(op.m, z)
    BY <1>3, <2>3 DEF RecordOK, Behind, Shaped
  <2>5. ~Driven(op.m)
    BY <1>13 DEF Driven, GoalActive
  <2>6. <<op.m, Me.visit>> \in reached
    <3>1. Me.goal = nav.id /\ nav.id # 0
      BY <1>13 DEF OwnGoal, IndInv, Data, NavPart
    <3>2. nav.owner = op.m /\ nav.visit = Me.visit
      BY <1>2, <1>3, <3>1 DEF IndInv, Data, NavPart
    <3> QED
      BY <1>2, <1>13, <3>2 DEF IndInv, Data, NavPart
  <2>7. Fits(z) /\ Steady(op.m, z) /\ z.state \in ActiveStates
    BY <1>7, <1>13, <2>2, <2>3, <2>4, <2>5, <2>6 DEF Fits, Steady, Arrivals, ActiveStates
  <2>8. Stored
    BY <2>1, SaveFacts DEF IndInv
  <2>9. /\ Data' /\ SteadyPart' /\ Kept /\ ms'[op.m] = z
        /\ Return(z) \/ Raise => IndInv'
    BY <1>1, <1>2, <1>13, <2>1, <2>7, <2>8, MonitorTurn
  <2>10. CASE Goto("finish")
    <3>1. Control' /\ op'.pc = "finish" /\ op'.m = op.m
      BY <2>10, ControlGoto DEF IndInv, Onward
    <3>2. OpPart'
      BY <1>2, <1>13, <2>1, <2>3, <2>9, <3>1
         DEF OpPart, Arrivals, Me, Onward, Between, Cleanup, Failing
    <3> QED
      BY <2>9, <3>1, <3>2 DEF IndInv
  <2> QED
    BY <2>1, <2>9, <2>10
<1>14. CASE /\ Polled /\ Me.phase # "holding" /\ ~(Me.visit > Visits)
            /\ OwnGoal /\ nav.state \notin GoalActive /\ nav.state # "succeeded"
  <2> DEFINE z == [Me EXCEPT !.status[Me.visit] = "failed", !.goal = 0,
                             !.state = "failed", !.outcome = "failed"]
  <2>1. /\ Becomes(z) /\ active' = "none" /\ UNCHANGED <<stops, nav, reached, broken>>
        /\ \/ Saved /\ Return(z)
           \/ SaveFailed /\ Raise
    BY <1>14 DEF MonitorPolls, MonitorSaves
  <2>2. /\ z.state = "failed" /\ z.visit = Me.visit /\ z.goal = 0
        /\ z.status = [Me.status EXCEPT ![Me.visit] = "failed"]
    BY <1>3 DEF MissionRecord
  <2>3. z \in MissionRecord
    <3>1. Me.visit \in 1..Visits + 1 /\ Me.status \in [1..Visits -> Statuses]
      BY <1>3, RecordFields
    <3>2. [Me.status EXCEPT ![Me.visit] = "failed"] \in [1..Visits -> Statuses]
      BY <3>1 DEF Statuses
    <3> QED
      BY <1>3, <3>2, Constants DEF MissionRecord, Statuses
  <2> HIDE DEF z
  <2>4. RecordOK(op.m, z)
    <3>1. "failed" \in Statuses /\ Me.visit <= Visits
      BY <1>3, <1>14, RecordFields, Constants DEF Statuses
    <3>2. Behind(op.m, Me) /\ Me \in MissionRecord
      BY <1>3 DEF RecordOK
    <3>3. Behind(op.m, z)
      BY <2>2, <2>3, <3>1, <3>2, StatusStep
    <3> QED
      BY <2>2, <3>3 DEF RecordOK, Shaped
  <2>5. ~Driven(op.m)
    BY <1>14 DEF Driven
  <2>6. Fits(z) /\ Steady(op.m, z) /\ z.state \notin ActiveStates
    BY <1>7, <1>14, <2>2, <2>3, <2>4, <2>5 DEF Fits, Steady, Arrivals, ActiveStates
  <2>7. Stored
    BY <2>1, SaveFacts DEF IndInv
  <2> QED
    BY <1>1, <1>2, <1>14, <2>1, <2>6, <2>7, MonitorTurn
<1> QED
  BY <1>5, <1>8, <1>9, <1>10, <1>11, <1>12, <1>13, <1>14

LEMMA MonitorFailsStep ==
  ASSUME IndInv, MonitorFails
  PROVE  IndInv' /\ Kept
<1>1. /\ op.pc = "begin" /\ op.kind # "close"
      /\ UNCHANGED <<active, stops, nav, reached, broken>>
  BY DEF MonitorFails
<1>2. op.m \in Missions /\ op.m # "none" /\ op.pc \notin Between
  BY <1>1, BeginFacts
<1>3. /\ Me \in MissionRecord /\ RecordOK(op.m, Me) /\ Me = ms[op.m]
      /\ Driven(op.m) => Covers(Me)
  BY <1>2, MeFacts DEF IndInv
<1>4. CASE Me.state \in ActiveStates /\ active = op.m
  <2> DEFINE z == [Me EXCEPT !.state = "canceling", !.outcome = "failed"]
  <2>1. ms' = [ms EXCEPT ![op.m] = z] /\ SavedForStop /\ Goto("fail")
    BY <1>4 DEF MonitorFails, Becomes
  <2>2. z \in MissionRecord
    BY <1>3 DEF MissionRecord, ActiveStates
  <2>3. /\ z.state = "canceling" /\ z.phase = Me.phase /\ z.visit = Me.visit
        /\ z.status = Me.status /\ z.goal = Me.goal
    BY <1>3 DEF MissionRecord
  <2> HIDE DEF z
  <2>4. RecordOK(op.m, z)
    BY <1>3, <2>3 DEF RecordOK, Behind, Shaped, Drivers
  <2>5. Driven(op.m) => Covers(z)
    BY <1>3, <2>3 DEF Covers
  <2>6. Fits(z) /\ Steady(op.m, z) /\ z.state \in ActiveStates
    BY <1>4, <2>2, <2>3, <2>4, <2>5 DEF Fits, Ended, Steady, Arrivals, ActiveStates
  <2>7. Stored /\ stops' \subseteq Missions
    BY <1>1, <2>1, SaveFacts DEF IndInv, SavedForStop, Data, DataTyped
  <2>8. Data' /\ SteadyPart' /\ Kept
    BY <1>1, <1>2, <1>4, <2>1, <2>6, <2>7, Turn DEF IndInv, Stored
  <2>9. ms'[op.m] = z
    BY <1>2, <2>1, <2>2, MissionUpdate DEF IndInv, Data, DataTyped
  <2>10. Control' /\ op'.pc = "fail" /\ op'.m = op.m
    BY <2>1, ControlGoto DEF IndInv, Failing
  <2>11. OpPart'
    BY <1>1, <1>2, <1>4, <2>3, <2>9, <2>10
       DEF OpPart, Arrivals, Me, Onward, Between, Cleanup, Failing
  <2> QED
    BY <2>8, <2>10, <2>11 DEF IndInv
<1>5. CASE ~(Me.state \in ActiveStates /\ active = op.m)
  <2>1. UNCHANGED ms /\ Unsaved /\ Raise
    BY <1>5 DEF MonitorFails
  <2>2. /\ UNCHANGED <<ms, active, nav, reached, broken, disk>> /\ left' = left /\ left \in Bounds
        /\ stops' \subseteq Missions
    BY <1>1, <2>1 DEF Unsaved, IndInv, Data, DataTyped
  <2>3. Data' /\ SteadyPart' /\ Kept
    BY <1>2, <2>2, Quiet DEF IndInv
  <2>4. Control' /\ op' = Free
    BY <1>2, <2>1, ControlRaise DEF IndInv
  <2> QED
    BY <2>3, <2>4, Done
<1> QED
  BY <1>4, <1>5

-----------------------------------------------------------------------------
(* The lock, navigation and the restart.                                   *)

LEMMA RequestStep ==
  ASSUME IndInv, Request
  PROVE  IndInv' /\ Kept
<1>1. /\ left.requests > 0 /\ left' = [left EXCEPT !.requests = @ - 1]
      /\ UNCHANGED <<ms, active, op, mon, nav, reached, broken, disk>>
  BY DEF Request
<1>2. left' \in Bounds /\ left'.goals = left.goals
  BY <1>1 DEF IndInv, Data, DataTyped, Bounds
<1>3. \E e \in Entries : /\ queue' = Append(queue, e) /\ e.kind \notin TaskKinds
                         /\ stops' \subseteq Missions
  <2>1. stops \subseteq Missions /\ ms \in [Missions -> MissionRecord]
    BY DEF IndInv, Data, DataTyped
  <2>2. CASE \E kind \in Requests, m \in Missions :
               /\ queue' = Append(queue, [kind |-> kind, m |-> m,
                                    token |-> IF kind = "resume" THEN ms[m].token ELSE 0])
               /\ stops' = IF kind \in {"pause", "abort"} /\ active = m
                             THEN stops \cup {m} ELSE stops
    <3>1. PICK kind \in Requests, m \in Missions :
               /\ queue' = Append(queue, [kind |-> kind, m |-> m,
                                    token |-> IF kind = "resume" THEN ms[m].token ELSE 0])
               /\ stops' = IF kind \in {"pause", "abort"} /\ active = m
                             THEN stops \cup {m} ELSE stops
      BY <2>2
    <3> DEFINE t == IF kind = "resume" THEN ms[m].token ELSE 0
               e == [kind |-> kind, m |-> m, token |-> t]
    <3>2. t \in 0..Visits
      BY <2>1, RecordFields, Constants
    <3>3. queue' = Append(queue, e)
      BY <3>1
    <3> HIDE DEF t
    <3>4. e \in Entries /\ e.kind \notin TaskKinds
      BY <3>2 DEF Entries, Entry, TaskKinds, Requests
    <3>5. stops' \subseteq Missions
      BY <2>1, <3>1
    <3> QED
      BY <3>3, <3>4, <3>5
  <2>3. CASE /\ queue' = Append(queue, [kind |-> "close", m |-> "none", token |-> 0])
             /\ UNCHANGED stops
    <3>1. CloseEntry \in Entries /\ CloseEntry.kind \notin TaskKinds
      BY DEF Entries, CloseEntry, TaskKinds
    <3>2. queue' = Append(queue, CloseEntry) /\ stops' \subseteq Missions
      BY <2>1, <2>3 DEF CloseEntry
    <3> QED
      BY <3>1, <3>2
  <2> QED
    BY <2>2, <2>3 DEF Request
<1>4. PICK e \in Entries : /\ queue' = Append(queue, e) /\ e.kind \notin TaskKinds
                           /\ stops' \subseteq Missions
  BY <1>3
<1>5. Data' /\ SteadyPart' /\ Kept
  BY <1>1, <1>2, <1>4, Quiet DEF IndInv
<1>6. Control'
  <2>1. queue' \in Seq(Entries) /\ (\A i, j \in TaskAt' : i = j) /\ TaskAt' = TaskAt
    BY <1>4, Appended DEF IndInv
  <2> QED
    BY <1>1, <2>1 DEF IndInv, Control, ControlTyped, TaskPart, Entries
<1>7. OpPart'
  BY <1>1 DEF IndInv, OpPart, Me
<1> QED
  BY <1>5, <1>6, <1>7 DEF IndInv

LEMMA MonitorWakesStep ==
  ASSUME IndInv, MonitorWakes
  PROVE  IndInv' /\ Kept
<1> DEFINE e == [kind |-> "monitor", m |-> mon.m, token |-> 0]
<1>1. /\ mon.pc = "sleep" /\ mon' = [mon EXCEPT !.pc = "wait"] /\ queue' = Append(queue, e)
      /\ UNCHANGED <<ms, active, stops, op, nav, reached, broken, disk, left>>
  BY DEF MonitorWakes
<1>2. TaskAt = {} /\ mon.m \in Missions /\ op.kind \notin TaskKinds
  BY <1>1 DEF IndInv, Control, TaskPart
<1>3. e \in Entries /\ e.kind \in TaskKinds
  BY <1>2, Constants DEF Entries, Entry, TaskKinds
<1> HIDE DEF e
<1>4. queue' \in Seq(Entries) /\ \A i, j \in TaskAt' : i = j
  BY <1>1, <1>2, <1>3, Appended DEF IndInv
<1>5. /\ mon' \in [m : Owners, pc : {"none", "sleep", "wait", "handler"}]
      /\ mon'.m = mon.m /\ mon'.pc = "wait"
  BY <1>1 DEF IndInv, Control, ControlTyped
<1>6. Control'
  BY <1>1, <1>2, <1>4, <1>5 DEF IndInv, Control, ControlTyped, TaskPart, Entries
<1>7. left \in Bounds /\ stops \subseteq Missions
  BY DEF IndInv, Data, DataTyped
<1>8. Data' /\ SteadyPart' /\ Kept
  BY <1>1, <1>7, Quiet DEF IndInv
<1>9. OpPart'
  BY <1>1 DEF IndInv, OpPart, Me
<1> QED
  BY <1>6, <1>8, <1>9 DEF IndInv

LEMMA AcquireStep ==
  ASSUME IndInv, Acquire
  PROVE  IndInv' /\ Kept
<1> DEFINE e == Head(queue)
<1>1. /\ op = Free /\ queue # <<>> /\ queue' = Tail(queue)
      /\ op' = [kind |-> e.kind, m |-> e.m, token |-> e.token, pc |-> "begin"]
      /\ UNCHANGED <<ms, active, stops, mon, nav, reached, broken, disk, left>>
  BY DEF Acquire
<1>2. /\ queue \in Seq(Entries) /\ Len(queue) \in Nat
      /\ TaskAt = {i \in 1..Len(queue) : queue[i].kind \in TaskKinds}
  BY QueueFields DEF IndInv
<1>3. /\ e \in Entries /\ queue' \in Seq(Entries) /\ Len(queue') = Len(queue) - 1
      /\ \A i \in 1..Len(queue') : queue'[i] = queue[i + 1]
  BY <1>1, <1>2, HeadTailProperties
<1>4. e = queue[1] /\ Len(queue) >= 1
  BY <1>1, <1>2
<1> HIDE DEF e
<1>5. /\ e.kind \in Requests \cup TaskKinds \cup {"orphan", "close"}
      /\ e.kind # "close" => e.m \in Missions
      /\ e.m \in Owners /\ e.token \in 0..Visits
  BY <1>3, EntryFields
<1>6. op' \in Holders /\ op'.kind = e.kind /\ op'.m = e.m /\ op'.pc = "begin"
  BY <1>1, <1>5 DEF Holders
<1>7. TaskAt' = {i \in 1..Len(queue') : queue'[i].kind \in TaskKinds}
  BY <1>3 DEF TaskAt, TaskKinds
<1>8. \A i \in TaskAt' : i \in Nat /\ i + 1 \in TaskAt /\ i + 1 # 1
  BY <1>2, <1>3, <1>7
<1>9. \A i, j \in TaskAt' : i = j
  BY <1>8 DEF IndInv, Control, TaskPart
<1>10. e.kind \in TaskKinds => 1 \in TaskAt
  BY <1>2, <1>4
<1>11. e.kind \in TaskKinds => TaskAt' = {}
  BY <1>8, <1>10 DEF IndInv, Control, TaskPart
<1>12. mon.pc \in {"none", "sleep", "wait", "handler"}
  BY DEF IndInv, Control, ControlTyped
<1>13. e.kind \in TaskKinds => mon.pc \in {"wait", "handler"}
  BY <1>10, <1>12 DEF IndInv, Control, TaskPart
<1>14. mon.pc \in {"none", "sleep"} => TaskAt' = {}
  BY <1>8 DEF IndInv, Control, TaskPart
<1>15. Control'
  BY <1>1, <1>3, <1>6, <1>9, <1>11, <1>13, <1>14
     DEF IndInv, Control, ControlTyped, TaskPart, Entries
<1>16. Data' /\ SteadyPart' /\ Kept
  <2>1. op.pc \notin Between /\ left \in Bounds /\ stops \subseteq Missions
    BY <1>1, FreeFacts DEF Between, IndInv, Data, DataTyped
  <2> QED
    BY <1>1, <2>1, Quiet DEF IndInv
<1>17. e.kind # "free"
  BY <1>5 DEF Requests, TaskKinds
<1>18. OpPart'
  BY <1>5, <1>6, <1>17 DEF OpPart, Arrivals, Onward, Between, Cleanup, Failing
<1> QED
  BY <1>15, <1>16, <1>18 DEF IndInv

\* Navigation moves; the lock, the queue and the missions do not.
LEMMA Outside ==
  ASSUME IndInv, Data', SteadyPart', Kept, UNCHANGED <<ms, active, op, queue, mon>>
  PROVE  IndInv' /\ Kept
<1>1. TaskAt' = TaskAt /\ Me' = Me
  BY DEF TaskAt, Me
<1>2. Control'
  BY <1>1 DEF IndInv, Control, ControlTyped, TaskPart
<1>3. OpPart'
  BY <1>1 DEF IndInv, OpPart
<1> QED
  BY <1>2, <1>3 DEF IndInv

LEMMA StopAbandonedStep ==
  ASSUME IndInv, StopAbandoned
  PROVE  IndInv' /\ Kept
<1>1. /\ active # "none" /\ stops' = stops \cup {active}
      /\ left.faults > 0 /\ left' = [left EXCEPT !.faults = @ - 1]
      /\ UNCHANGED <<ms, active, op, queue, mon, nav, reached, broken, disk>>
  BY DEF StopAbandoned
<1>2. stops' \subseteq Missions /\ left' \in Bounds /\ left'.goals = left.goals
  BY <1>1 DEF IndInv, Data, DataTyped, Bounds, Owners
<1>3. Data' /\ SteadyPart' /\ Kept
  BY <1>1, <1>2, Quiet DEF IndInv
<1> QED
  BY <1>1, <1>3, Outside

LEMMA NavFacts ==
  ASSUME IndInv
  PROVE  /\ nav \in NavRecord /\ left \in Bounds
         /\ nav.state \in GoalActive => nav.id # 0
         /\ nav.id = 0 => nav.state = "idle"
BY DEF IndInv, Data, DataTyped, NavRecord, NavPart, GoalActive

LEMMA GoalEndsStep ==
  ASSUME IndInv, GoalEnds
  PROVE  IndInv' /\ Kept
<1>1. /\ nav.state \in GoalActive
      /\ UNCHANGED <<ms, active, stops, op, queue, mon, broken, disk, left>>
  BY DEF GoalEnds
<1>2. PICK s \in {"succeeded", "failed", "canceled"} :
        /\ nav' = [nav EXCEPT !.state = s]
        /\ reached' = IF s = "succeeded" /\ nav.owner # "none"
                        THEN reached \cup {<<nav.owner, nav.visit>>} ELSE reached
  BY DEF GoalEnds
<1>3. nav \in NavRecord /\ left \in Bounds /\ nav.id # 0
  BY <1>1, NavFacts
<1>4. s \in GoalTerminal /\ s \notin GoalActive
  BY DEF GoalTerminal, GoalActive
<1>5. nav' \in NavRecord
  BY <1>2, <1>3, <1>4 DEF NavRecord
<1>6. nav'.state = s /\ nav'.id = nav.id /\ nav'.owner = nav.owner /\ nav'.visit = nav.visit
  BY <1>2, <1>3 DEF NavRecord
<1>7. /\ reached \subseteq reached'
      /\ s = "succeeded" /\ nav.owner # "none" => <<nav.owner, nav.visit>> \in reached'
  BY <1>2
<1>8. Data' /\ SteadyPart' /\ Kept
  BY <1>1, <1>3, <1>4, <1>5, <1>6, <1>7, GoalMoves DEF IndInv
<1> QED
  BY <1>1, <1>8, Outside

LEMMA NavLostStep ==
  ASSUME IndInv, NavLost
  PROVE  IndInv' /\ Kept
<1>1. /\ left.faults > 0 /\ left' = [left EXCEPT !.faults = @ - 1]
      /\ UNCHANGED <<ms, active, stops, op, queue, mon, reached, broken, disk>>
  BY DEF NavLost
<1>2. PICK s \in {nav.state} \cup (IF nav.state \in GoalActive THEN {"canceled"} ELSE {}) :
        nav' = [nav EXCEPT !.ready = FALSE, !.state = s]
  BY DEF NavLost
<1>3. /\ nav \in NavRecord /\ left \in Bounds
      /\ nav.id = 0 => nav.state = "idle"
  BY NavFacts
<1>4. /\ s \in GoalActive \cup GoalTerminal /\ (s \in GoalActive => nav.state \in GoalActive)
      /\ s = "succeeded" => nav.state = "succeeded"
      /\ nav.state = "idle" => s = "idle"
  BY <1>3 DEF NavRecord, GoalTerminal, GoalActive
<1>5. nav' \in NavRecord
  BY <1>2, <1>3, <1>4 DEF NavRecord
<1>6. nav'.state = s /\ nav'.id = nav.id /\ nav'.owner = nav.owner /\ nav'.visit = nav.visit
  BY <1>2, <1>3 DEF NavRecord
<1>7. left' \in Bounds /\ left'.goals = left.goals
  BY <1>1, <1>3 DEF Bounds
<1>8. nav'.state = "succeeded" /\ nav.owner # "none" => <<nav.owner, nav.visit>> \in reached'
  BY <1>1, <1>4, <1>6 DEF IndInv, Data, NavPart
<1>9. Data' /\ SteadyPart' /\ Kept
  BY <1>1, <1>3, <1>4, <1>5, <1>6, <1>7, <1>8, GoalMoves DEF IndInv
<1> QED
  BY <1>1, <1>9, Outside

\* Readiness comes back, or the context is taken or given back; the goal is
\* what it was.
LEMMA ViewChanges ==
  ASSUME IndInv, nav' \in NavRecord, nav'.id = nav.id, nav'.owner = nav.owner,
         nav'.visit = nav.visit, nav'.state = nav.state,
         left' \in Bounds, left'.goals = left.goals,
         UNCHANGED <<ms, active, stops, op, queue, mon, reached, broken, disk>>
  PROVE  IndInv' /\ Kept
<1>1. /\ nav.id = 0 => nav'.state = "idle"
      /\ nav'.state = "succeeded" /\ nav.owner # "none" => <<nav.owner, nav.visit>> \in reached'
  BY NavFacts DEF IndInv, Data, NavPart
<1>2. Data' /\ SteadyPart' /\ Kept
  BY <1>1, GoalMoves DEF IndInv
<1> QED
  BY <1>2, Outside

LEMMA ContextStep ==
  ASSUME IndInv, ContextTaken \/ ContextFreed
  PROVE  IndInv' /\ Kept
<1>1. /\ \E b \in BOOLEAN : nav' = [nav EXCEPT !.busy = b]
      /\ left' = left \/ (left.faults > 0 /\ left' = [left EXCEPT !.faults = @ - 1])
      /\ UNCHANGED <<ms, active, stops, op, queue, mon, reached, broken, disk>>
  BY DEF ContextTaken, ContextFreed
<1>2. nav \in NavRecord /\ left \in Bounds
  BY NavFacts
<1>3. /\ nav' \in NavRecord /\ nav'.state = nav.state /\ nav'.id = nav.id
      /\ nav'.owner = nav.owner /\ nav'.visit = nav.visit
  BY <1>1, <1>2 DEF NavRecord
<1>4. left' \in Bounds /\ left'.goals = left.goals
  BY <1>1, <1>2 DEF Bounds
<1> QED
  BY <1>1, <1>3, <1>4, ViewChanges

\* A step after which the view shows no mission's goal.
LEMMA NobodyDriven ==
  ASSUME Data, SteadyPart, UNCHANGED <<ms, active, stops, op, reached, broken, disk>>,
         nav' \in NavRecord, nav'.owner = "none", nav'.id = 0 => nav'.state = "idle",
         nav'.id <= Used', nav'.id # 0 => nav'.id > Used, Used <= Used', left' \in Bounds
  PROVE  Data' /\ SteadyPart' /\ Kept
<1>1. DataTyped'
  BY DEF Data, DataTyped, NavRecord
<1>2. RecordPart' /\ FencePart'
  BY DEF Data, RecordPart, RecordOK, Behind, Shaped, FencePart
<1>3. DiskPart'
  BY DEF Data, DiskPart, RecordOK, Behind, Shaped, StoredIsLoadable
<1>4. \A m \in Missions : ms[m].goal \in Nat /\ ms[m].goal <= Used
  BY RecordFields, Constants DEF Data, DataTyped, NavPart
<1>5. Used \in Int /\ Used' \in Int /\ nav'.id \in Nat
  BY <1>1, Constants DEF Data, DataTyped, Used, Bounds, NavRecord
<1>6. \A m \in Missions : ms'[m].goal <= Used' /\ (ms'[m].goal # 0 => ms'[m].goal # nav'.id)
  BY <1>4, <1>5
<1>7. NavPart'
  BY <1>6 DEF NavPart
<1>8. GoalPart'
  BY MissionAssumption DEF GoalPart, Driven
<1>9. SteadyPart' /\ Kept
  BY DEF SteadyPart, Underway, Steady, Arrivals, Kept
<1> QED
  BY <1>1, <1>2, <1>3, <1>7, <1>8, <1>9 DEF Data

LEMMA NavBackStep ==
  ASSUME IndInv, NavBack
  PROVE  IndInv' /\ Kept
<1>1. UNCHANGED <<ms, active, stops, op, queue, mon, reached, broken, disk, left>>
  BY DEF NavBack
<1>2. nav \in NavRecord /\ left \in Bounds
  BY NavFacts
<1>3. CASE nav' = [nav EXCEPT !.ready = TRUE]
  <2>1. /\ nav' \in NavRecord /\ nav'.state = nav.state /\ nav'.id = nav.id
        /\ nav'.owner = nav.owner /\ nav'.visit = nav.visit
    BY <1>2, <1>3 DEF NavRecord
  <2> QED
    BY <1>1, <1>2, <2>1, ViewChanges
<1>4. CASE nav' = [NoGoal EXCEPT !.ready = TRUE, !.busy = nav.busy]
  <2>1. nav' \in NavRecord /\ nav'.owner = "none" /\ nav'.id = 0 /\ nav'.state = "idle"
    BY <1>2, <1>4, Constants DEF NoGoal, NavRecord, Owners, GoalTerminal
  <2>2. Used' = Used /\ Used \in Nat
    BY <1>1, <1>2, Constants DEF Used, Bounds
  <2>3. Data' /\ SteadyPart' /\ Kept
    BY <1>1, <1>2, <2>1, <2>2, NobodyDriven DEF IndInv
  <2> QED
    BY <1>1, <2>3, Outside
<1> QED
  BY <1>3, <1>4 DEF NavBack

LEMMA ForeignGoalStep ==
  ASSUME IndInv, ForeignGoal
  PROVE  IndInv' /\ Kept
<1>1. /\ left.faults > 0 /\ NewGoal("none", 0) /\ left.goals > 0
      /\ left' = [left EXCEPT !.goals = @ - 1, !.faults = @ - 1]
      /\ UNCHANGED <<ms, active, stops, op, queue, mon, reached, broken, disk>>
  BY DEF ForeignGoal, NewGoal
<1>2. "none" \in Owners /\ 0 \in 0..Visits
  BY Constants DEF Owners
<1>3. /\ nav' \in NavRecord /\ nav'.id = Used + 1 /\ nav'.id # 0
      /\ nav'.owner = "none" /\ Used \in Nat
  BY <1>1, <1>2, NewGoalFacts DEF IndInv
<1>4. left' \in Bounds /\ Used' = Used + 1
  BY <1>1, GoalsLeft DEF IndInv
<1>5. nav'.id <= Used' /\ nav'.id > Used /\ Used <= Used'
  BY <1>3, <1>4
<1>6. Data' /\ SteadyPart' /\ Kept
  BY <1>1, <1>3, <1>4, <1>5, NobodyDriven DEF IndInv
<1> QED
  BY <1>1, <1>6, Outside

LEMMA RecoveredFacts ==
  ASSUME NEW m, NEW r \in MissionRecord, RecordOK(m, r)
  PROVE  /\ Recovered(r) \in MissionRecord /\ RecordOK(m, Recovered(r))
         /\ Recovered(r).goal = 0 /\ Recovered(r).state \notin ActiveStates
         /\ Steady(m, Recovered(r))
<1>1. /\ r.visit \in 1..Visits + 1 /\ r.status \in [1..Visits -> Statuses]
      /\ r.state \in ActiveStates \cup {"ready", "completed", "failed"}
  BY RecordFields
<1>2. CASE r.state \in ActiveStates
  <2> DEFINE s == [v \in 1..Visits |-> IF r.status[v] = "running" THEN "failed"
                                                                ELSE r.status[v]]
             z == [r EXCEPT !.state = "failed", !.outcome = "interrupted", !.goal = 0,
                            !.status = s]
  <2>1. Recovered(r) = z
    BY <1>2 DEF Recovered
  <2>2. s \in [1..Visits -> Statuses]
    BY <1>1 DEF Statuses
  <2>3. \A v \in 1..Visits : s[v] = r.status[v] \/ (s[v] = "failed" /\ r.status[v] = "running")
    OBVIOUS
  <2> HIDE DEF s
  <2>4. z \in MissionRecord
    BY <2>2, Constants DEF MissionRecord, Statuses
  <2>5. z.state = "failed" /\ z.goal = 0 /\ z.visit = r.visit /\ z.status = s
    BY DEF MissionRecord
  <2> HIDE DEF z
  <2>6. Behind(m, z)
    BY <2>3, <2>5 DEF RecordOK, Behind
  <2> QED
    BY <2>1, <2>4, <2>5, <2>6 DEF RecordOK, Shaped, Steady, Arrivals, ActiveStates
<1>3. CASE r.state \notin ActiveStates
  <2>1. Recovered(r) = r /\ r.state \in {"ready", "completed", "failed"}
    BY <1>1, <1>3 DEF Recovered
  <2>2. r.goal = 0
    BY <2>1 DEF RecordOK, Shaped, Drivers
  <2>3. Steady(m, r)
    BY <2>1 DEF RecordOK, Shaped, Steady, Arrivals
  <2> QED
    BY <1>3, <2>1, <2>2, <2>3
<1> QED
  BY <1>2, <1>3

LEMMA CrashStep ==
  ASSUME IndInv, Crash
  PROVE  IndInv'
<1>1. /\ left.crashes > 0 /\ left' = [left EXCEPT !.crashes = @ - 1]
      /\ ms' = [m \in Missions |-> Recovered(disk.ms[m])] /\ active' = "none"
      /\ disk' = [ms |-> ms', active |-> active']
      /\ stops' = {} /\ op' = Free /\ queue' = <<>> /\ mon' = NoTask
      /\ nav' = NoGoal /\ UNCHANGED <<reached, broken>>
  BY DEF Crash
<1>2. \A m \in Missions : disk.ms[m] \in MissionRecord /\ RecordOK(m, disk.ms[m])
  BY DEF IndInv, Data, DataTyped, DiskPart
<1>3. \A m \in Missions :
        /\ ms'[m] \in MissionRecord /\ RecordOK(m, ms'[m])
        /\ ms'[m].goal = 0 /\ ms'[m].state \notin ActiveStates /\ Steady(m, ms'[m])
  BY <1>1, <1>2, RecoveredFacts
<1>4. ms' \in [Missions -> MissionRecord]
  BY <1>1, <1>3
<1>5. left' \in Bounds /\ left'.goals = left.goals /\ left \in Bounds
  BY <1>1 DEF IndInv, Data, DataTyped, Bounds
<1>6. disk'.ms = ms' /\ disk'.active = "none"
  BY <1>1
<1>7. nav' \in NavRecord /\ nav'.owner = "none" /\ nav'.id = 0 /\ nav'.state = "idle"
  BY <1>1, Constants DEF NoGoal, NavRecord, Owners, GoalTerminal
<1>8. DataTyped'
  BY <1>1, <1>4, <1>5, <1>7 DEF DataTyped, NavRecord, Owners
<1>9. RecordPart'
  BY <1>1, <1>3 DEF RecordPart, RecordOK, Behind, Shaped
<1>10. DiskPart'
  BY <1>1, <1>3, <1>6 DEF DiskPart, StoredIsLoadable, RecordOK, Behind, Shaped
<1>11. FencePart'
  BY <1>1, <1>3, MissionAssumption DEF FencePart
<1>12. NavPart'
  <2>1. Used' \in Nat
    BY <1>5, Constants DEF Used, Bounds
  <2> QED
    BY <1>3, <1>7, <2>1 DEF NavPart
<1>13. GoalPart'
  BY <1>7, MissionAssumption DEF GoalPart, Driven
<1>14. SteadyPart'
  BY <1>1, <1>3 DEF SteadyPart, Underway, Steady, Arrivals
<1>15. Control'
  <2>1. queue' \in Seq(Entries) /\ TaskAt' = {}
    BY <1>1 DEF TaskAt
  <2> QED
    BY <1>1, <2>1, FreeFacts, NoTaskFacts
       DEF Control, ControlTyped, TaskPart, TaskKinds, Entries
<1>16. OpPart'
  BY <1>1, OpFree
<1> QED
  BY <1>8, <1>9, <1>10, <1>11, <1>12, <1>13, <1>14, <1>15, <1>16 DEF IndInv, Data

-----------------------------------------------------------------------------
(* The theorems.                                                           *)

LEMMA InitialState ==
  ASSUME Init
  PROVE  IndInv
<1>1. /\ ms = [m \in Missions |-> Draft] /\ active = "none" /\ stops = {}
      /\ op = Free /\ queue = <<>> /\ mon = NoTask
      /\ reached = {} /\ broken = {}
      /\ nav = [NoGoal EXCEPT !.ready = TRUE] /\ disk = [ms |-> ms, active |-> active]
      /\ left = [requests |-> MaxRequests, goals |-> MaxGoals,
                 faults |-> MaxFaults, crashes |-> MaxCrashes]
  BY DEF Init
<1>2. Draft \in MissionRecord
  <2> DEFINE s == [v \in 1..Visits |-> "pending"]
  <2>1. s \in [1..Visits -> Statuses]
    BY DEF Statuses
  <2>2. Draft = [state |-> "ready", phase |-> "ready", outcome |-> "none", visit |-> 1,
                 status |-> s, goal |-> 0, token |-> 0]
    BY DEF Draft
  <2> HIDE DEF s
  <2>3. 1 \in 1..Visits + 1
    BY Constants
  <2> QED
    BY <2>1, <2>2, <2>3, Constants DEF MissionRecord, Statuses
<1>3. /\ Draft.state = "ready" /\ Draft.phase = "ready" /\ Draft.goal = 0
      /\ Draft.visit = 1 /\ \A v \in 1..Visits : Draft.status[v] = "pending"
  BY DEF Draft
<1>4. \A m \in Missions : RecordOK(m, Draft) /\ Steady(m, Draft)
  BY <1>3, Constants DEF RecordOK, Behind, Shaped, Steady, Arrivals
<1>5. ms \in [Missions -> MissionRecord] /\ \A m \in Missions : ms[m] = Draft
  BY <1>1, <1>2
<1>6. left \in Bounds /\ Used = 0
  <2>1. {MaxRequests, MaxGoals, MaxFaults, MaxCrashes} \subseteq Nat
    BY MissionAssumption
  <2> QED
    BY <1>1, <2>1 DEF Bounds, Used
<1>7. nav \in NavRecord /\ nav.owner = "none" /\ nav.id = 0 /\ nav.state = "idle"
  BY <1>1, Constants DEF NoGoal, NavRecord, Owners, GoalTerminal
<1>8. disk.ms = ms /\ disk.active = "none" /\ disk = [ms |-> ms, active |-> "none"]
  BY <1>1
<1>9. DataTyped
  BY <1>1, <1>5, <1>6, <1>7, <1>8 DEF DataTyped, NavRecord, Owners
<1>10. RecordPart /\ DiskPart
  BY <1>4, <1>5, <1>8 DEF RecordPart, DiskPart, StoredIsLoadable
<1>11. FencePart
  BY <1>1, <1>3, <1>5, MissionAssumption DEF FencePart, ActiveStates
<1>12. NavPart /\ GoalPart
  BY <1>3, <1>5, <1>6, <1>7, MissionAssumption DEF NavPart, GoalPart, Driven
<1>13. SteadyPart
  BY <1>4, <1>5 DEF SteadyPart, Underway
<1>14. Control
  <2>1. queue \in Seq(Entries) /\ TaskAt = {}
    BY <1>1 DEF TaskAt
  <2> QED
    BY <1>1, <2>1, FreeFacts, NoTaskFacts
       DEF Control, ControlTyped, TaskPart, TaskKinds, Entries
<1>15. OpPart
  BY <1>1, FreeFacts DEF OpPart, Arrivals, Onward, Between, Cleanup, Failing
<1> QED
  BY <1>9, <1>10, <1>11, <1>12, <1>13, <1>14, <1>15 DEF IndInv, Data

LEMMA EveryStep ==
  ASSUME IndInv, Next
  PROVE  /\ IndInv'
         /\ Kept \/ left'.crashes < left.crashes
<1>1. CASE Holder
  BY <1>1, StartStep, PauseStep, AbortStep, ResumeStep, SkipStep, RetryStep, CloseStep,
     FinishArrivalStep, DispatchStep, PreflightStoppedStep, PreflightFailsStep,
     PreflightPassesStep, SendAcceptedStep, SendUncertainStep, SendRefusedStep,
     CancelBeginStep, CancelPollStep, CancelRefusedStep, MonitorPollsStep,
     MonitorFailsStep DEF Holder
<1>2. CASE Request \/ StopAbandoned \/ MonitorWakes \/ Acquire \/ CallerCancelled
  BY <1>2, RequestStep, StopAbandonedStep, MonitorWakesStep, AcquireStep, CallerCancelledStep
<1>3. CASE \/ GoalEnds \/ NavLost \/ NavBack \/ ContextTaken \/ ContextFreed
           \/ ForeignGoal
  BY <1>3, GoalEndsStep, NavLostStep, NavBackStep, ContextStep, ForeignGoalStep
<1>4. CASE Crash
  <2>1. left'.crashes < left.crashes
    BY <1>4 DEF Crash, IndInv, Data, DataTyped, Bounds
  <2> QED
    BY <1>4, <2>1, CrashStep
<1> QED
  BY <1>1, <1>2, <1>3, <1>4 DEF Next

\* A step that changes nothing.
LEMMA Stutters ==
  ASSUME IndInv, UNCHANGED vars
  PROVE  IndInv' /\ Kept
<1>1. /\ UNCHANGED <<ms, active, nav, reached, broken, disk>> /\ stops' = stops /\ left' = left
      /\ UNCHANGED <<op, queue, mon>>
  BY DEF vars
<1>2. left \in Bounds /\ stops \subseteq Missions
  BY DEF IndInv, Data, DataTyped
<1>3. Data' /\ SteadyPart' /\ Kept
  BY <1>1, <1>2, Quiet DEF IndInv
<1> QED
  BY <1>1, <1>3, Outside

\* The invariant: the fence has the one active mission, the holder of the lock
\* is its owner, a goal that may move the robot is recorded or the mission is
\* uncertain, a mission at an arrival has reached its visit or came to it by a
\* departure that was broken off, and the stored copies are as true as the
\* live ones.
THEOREM MissionInvariant == Spec => []IndInv
<1>1. Init => IndInv
  BY InitialState
<1>2. IndInv /\ [Next]_vars => IndInv'
  BY EveryStep, Stutters
<1> QED
  BY <1>1, <1>2, PTL DEF Spec

\* Every record stays in its set, and a goal is kept only for a visit that is
\* being driven to (_normalize_waypoint and _validate_document would refuse
\* anything else).
THEOREM MissionTypeOK == Spec => []TypeOK
<1>1. IndInv => TypeOK
  <2> SUFFICES ASSUME IndInv PROVE TypeOK
    OBVIOUS
  <2>1. op.m \in Owners /\ mon.m \in Owners
    BY DEF IndInv, Control, ControlTyped, Holders
  <2>2. disk.ms \in [Missions -> MissionRecord] /\ disk.active \in Owners
    BY DEF IndInv, Data, DataTyped
  <2>3. \A m \in Missions : ms[m].goal # 0 =>
          ms[m].visit <= Visits /\ ms[m].status[ms[m].visit] = "running"
    BY DEF IndInv, Data, RecordPart, RecordOK, Shaped
  <2> QED
    BY <2>1, <2>2, <2>3 DEF TypeOK, IndInv, Data, DataTyped
<1> QED
  BY <1>1, MissionInvariant, PTL

\* Whatever a save leaves on disk, also one that reported a failure, the owner
\* the document names is in an active state.
THEOREM StoredDocumentIsLoadable == Spec => []StoredIsLoadable
<1>1. IndInv => StoredIsLoadable
  BY DEF IndInv, Data, DiskPart
<1> QED
  BY <1>1, MissionInvariant, PTL

\* As long as a goal that a mission submitted may move the robot, also one
\* whose submission was never acknowledged, that mission owns the fence.
THEOREM FenceOutlivesGoal == Spec => []FenceCoversGoal
<1>1. IndInv => FenceCoversGoal
  <2> SUFFICES ASSUME IndInv, nav.state \in GoalActive, nav.owner # "none"
               PROVE  /\ active = nav.owner
                      /\ ms[nav.owner].state \in ActiveStates \ {"paused", "retrying"}
    BY DEF FenceCoversGoal
  <2>1. nav.owner \in Missions /\ nav.id # 0
    BY NavFacts DEF IndInv, Data, DataTyped, Owners
  <2>2. Covers(ms[nav.owner]) /\ RecordOK(nav.owner, ms[nav.owner])
    BY <2>1 DEF IndInv, Data, GoalPart, Driven, RecordPart
  <2>3. ms[nav.owner].state \in Drivers
    BY <2>1, <2>2 DEF Covers, RecordOK, Shaped, Drivers
  <2>4. ms[nav.owner].state \in ActiveStates \ {"paused", "retrying"}
    BY <2>3 DEF Drivers, ActiveStates
  <2> QED
    BY <2>1, <2>4 DEF IndInv, Data, FencePart
<1> QED
  BY <1>1, MissionInvariant, PTL

\* A visit counts as completed only if the goal sent for this very visit has
\* succeeded, or if the mission came to it by a departure that the context
\* guard or the cancellation of the caller broke off; and a mission completes
\* only when every visit was completed or skipped.  A restart does not change
\* that.
THEOREM CompletionIsEarned == Spec => []CompletedIsExplained
<1>1. IndInv => CompletedIsExplained
  <2> SUFFICES ASSUME IndInv, NEW m \in Missions
               PROVE  /\ \A v \in 1..Visits :
                           ms[m].status[v] = "completed" => <<m, v>> \in reached \cup broken
                      /\ ms[m].state = "completed" =>
                           \A v \in 1..Visits : ms[m].status[v] \in {"completed", "skipped"}
    BY DEF CompletedIsExplained
  <2>1. RecordOK(m, ms[m]) /\ ms[m] \in MissionRecord
    BY DEF IndInv, Data, DataTyped, RecordPart
  <2>2. ms[m].visit \in 1..Visits + 1 /\ Visits \in Nat
    BY <2>1, RecordFields, Constants
  <2>3. ms[m].state = "completed" => \A v \in 1..Visits : v < ms[m].visit
    BY <2>1, <2>2 DEF RecordOK, Shaped
  <2> QED
    BY <2>1, <2>3 DEF RecordOK, Behind
<1> QED
  BY <1>1, MissionInvariant, PTL

\* A run that was aborted or interrupted never changes again, except that a
\* restart may bring back a document older than the end.
THEOREM EndedMissionsStayEnded == Spec => EndedStaysEnded
<1>1. IndInv /\ [Next]_vars =>
        [ \A m \in Missions :
            ms[m].state = "failed" /\ ms[m].outcome \in Barred =>
                ms'[m] = ms[m] \/ left'.crashes < left.crashes ]_vars
  <2> SUFFICES ASSUME IndInv, Next
               PROVE  \A m \in Missions :
                        ms[m].state = "failed" /\ ms[m].outcome \in Barred =>
                            ms'[m] = ms[m] \/ left'.crashes < left.crashes
    OBVIOUS
  <2> QED
    BY EveryStep DEF Kept, Ended
<1> QED
  BY <1>1, MissionInvariant, PTL DEF Spec, EndedStaysEnded
=============================================================================
