------------------------ MODULE DatasetCaptureProofs ------------------------
(***************************************************************************)
(* What DatasetCapture promises, for any number of samples, sessions,      *)
(* crashes and faults and any length of the queue.                         *)
(*                                                                         *)
(* The argument: the place of the writer determines how far the sample     *)
(* directories, the counter and the two manifests (the visible and the     *)
(* durable one) may be apart (CountPart).  The request thread may write a  *)
(* manifest beside a running writer only when its start failed, and then   *)
(* no sampler ever ran and every count is zero (StartPart).  A process     *)
(* that has started no session yet looks at a disk a crash left behind     *)
(* (IdlePart).                                                             *)
(***************************************************************************)
EXTENDS DatasetCapture, TLAPS

-----------------------------------------------------------------------------
(* The inductive invariant.                                                *)

Opening  == {"open", "payload", "manifest", "writer"}
Starting == Opening \cup {"sampler", "failed", "failpayload", "failmanifest"}
InHand   == {"temp", "rename", "sync", "count"}
Working  == InHand \cup {"payload", "replace", "flush"}
Owning   == Working \cup {"get", "finish", "release"}
Ending   == {"finish", "release", "complete", "endpayload", "endreplace",
             "endflush", "done"}

\* A process that has started no session: what it finds was left by a crash.
IdlePart ==
  state = "idle" =>
    /\ writer = IdleWriter /\ sampler = "none" /\ main \notin Starting
    /\ disk.synced = disk.samples /\ disk.durable = disk.manifest
    /\ disk.manifest.count <= disk.samples
    /\ disk.samples <= disk.manifest.count + 1
    /\ disk.manifest.state \in {"interrupted", "completed"}
         => disk.manifest.count = disk.samples

\* The request thread, and a session whose sampler has not run.
StartPart ==
  /\ main \in {"recover", "clean"} => state = "idle"
  /\ main \in Starting => sampler = "none"
  /\ main \in Opening => state = "starting" /\ writer = IdleWriter /\ queue = <<>>
  /\ main = "sampler" => state = "starting" /\ writer.pc = "get" /\ queue = <<>>
  /\ main \in {"failpayload", "failmanifest"} => state = "failed"
  /\ main \in {"manifest", "failmanifest"}
       => mainPay.count = 0 /\ mainPay.state \in {"starting", "failed"}
  /\ sampler = "none" =>
       /\ saved = 0 /\ accepted = 0 /\ writer.pc \notin Working /\ ~writer.err
       /\ queue = <<>> \/ queue = <<"end">>
       /\ state # "idle" => /\ disk.samples = 0 /\ disk.synced = 0
                            /\ disk.manifest.count = 0 /\ disk.durable.count = 0

\* Samples, synced samples and the counts of both manifests against _saved.
Counts(samples, synced, visible, durable) ==
  /\ disk.samples = samples /\ disk.synced = synced
  /\ disk.manifest.count = visible /\ disk.durable.count = durable

CountPart ==
  state # "idle" =>
    /\ writer.pc \in {"none", "get", "temp", "rename"}
         => Counts(saved, saved, saved, saved)
    /\ writer.pc = "sync" => Counts(saved + 1, saved, saved, saved)
    /\ writer.pc = "count" => Counts(saved + 1, saved + 1, saved, saved)
    /\ writer.pc \in {"payload", "replace"}
         => Counts(saved, saved, saved - 1, saved - 1)
    /\ writer.pc = "flush" => Counts(saved, saved, saved, saved - 1)
    /\ writer.pc \in {"replace", "endreplace", "endflush"}
         => writer.pay.count = saved
    /\ writer.pc \in Ending =>
         /\ \/ Counts(saved, saved, saved, saved)
            \/ Counts(saved, saved, saved, saved - 1)
            \/ Counts(saved, saved, saved - 1, saved - 1)
            \/ Counts(saved + 1, saved, saved, saved)
         /\ ~writer.err => Counts(saved, saved, saved, saved)

\* Which states a session and its manifests may be in.
StatePart ==
  state # "idle" =>
    /\ {disk.manifest.state, disk.durable.state, writer.pay.state}
         \cap {"interrupted"} = {}
    /\ state = "finalizing" => ~writer.err /\ writer.pc \in {"release", "complete"}
    /\ state = "completed" =>
         ~writer.err /\ writer.pc \in {"endpayload", "endreplace", "endflush", "done"}
    /\ writer.pay.state = "completed" =>
         ~writer.err /\ writer.pc \in {"endreplace", "endflush", "done"}
    /\ "completed" \in {disk.manifest.state, disk.durable.state} =>
         ~writer.err /\ writer.pc \in {"endflush", "done"}

\* Where the accepted bundles are.
DrainPart ==
  /\ sampler \in {"run", "end"} =>
       /\ \A i \in 1..Len(queue) : queue[i] = "bundle"
       /\ writer.pc \in Ending => writer.err
       /\ writer.pc # "none"
  /\ sampler = "done" =>
       /\ writer.pc # "none"
       /\ writer.pc \notin Ending =>
            /\ Len(queue) > 0 /\ queue[Len(queue)] = "end"
            /\ \A i \in 1..(Len(queue) - 1) : queue[i] = "bundle"
  /\ sampler # "none" /\ writer.pc \notin Ending =>
       accepted = saved + Len(queue) + (IF writer.pc \in InHand THEN 1 ELSE 0)
                                     - (IF sampler = "done" THEN 1 ELSE 0)
  /\ writer.pc \in Ending /\ ~writer.err => queue = <<>> /\ accepted = saved

\* Who holds the cameras.
CameraPart ==
  /\ main # "open" => tokens = cameras
  /\ cameras # {} => main \in Opening \/ writer.pc \in Owning

IndInv == /\ TypeOK /\ IdlePart /\ StartPart /\ CountPart /\ StatePart
          /\ DrainPart /\ CameraPart
-----------------------------------------------------------------------------
(* Typing of the records, and the two ends of a queue.                     *)

\* The writer, the disk and the budget stay records of their kind.
LEMMA WriterTyped ==
  ASSUME NEW w \in Writers, NEW pc \in WriterPlaces, NEW m \in AnyManifest
  PROVE  /\ [w EXCEPT !.pc = pc] \in Writers
         /\ [w EXCEPT !.pc = pc, !.err = TRUE] \in Writers
         /\ [w EXCEPT !.pc = pc, !.pay = m] \in Writers
BY DEF Writers

LEMMA DiskTyped ==
  ASSUME NEW d \in Disks, NEW n \in Nat, NEW t \in BOOLEAN, NEW m \in AnyManifest
  PROVE  /\ [d EXCEPT !.temp = t] \in Disks
         /\ [d EXCEPT !.temp = t, !.samples = n] \in Disks
         /\ [d EXCEPT !.synced = n] \in Disks
         /\ [d EXCEPT !.manifest = m] \in Disks
         /\ [d EXCEPT !.durable = m] \in Disks
         /\ [[d EXCEPT !.manifest = m] EXCEPT !.durable = m] \in Disks
BY DEF Disks

LEMMA BudgetTyped ==
  ASSUME NEW b \in Budgets, NEW n \in Nat, NEW k \in Nat
  PROVE  /\ [b EXCEPT !.starts = n] \in Budgets
         /\ [b EXCEPT !.starts = n, !.faults = k] \in Budgets
         /\ [b EXCEPT !.crashes = n] \in Budgets
         /\ [b EXCEPT !.faults = n] \in Budgets
BY DEF Budgets

LEMMA FaultTyped ==
  ASSUME budget \in Budgets, Fault
  PROVE  budget' \in Budgets
<1>1. budget.faults \in Nat /\ budget.faults > 0
  BY DEF Fault, Budgets
<1>2. budget.faults - 1 \in Nat
  BY <1>1
<1>3. QED BY <1>2, BudgetTyped DEF Fault

LEMMA StartBudgetTyped ==
  ASSUME budget \in Budgets, StartBegin
  PROVE  budget' \in Budgets
<1>1. budget.starts - 1 \in Nat
  BY DEF StartBegin, Budgets
<1>2. CASE budget' = [budget EXCEPT !.starts = @ - 1]
  BY <1>1, <1>2, BudgetTyped
<1>3. CASE /\ budget.faults > 0
           /\ budget' = [budget EXCEPT !.starts = @ - 1, !.faults = @ - 1]
  <2>1. budget.faults - 1 \in Nat
    BY <1>3 DEF Budgets
  <2>2. QED BY <1>1, <1>3, <2>1, BudgetTyped
<1>4. QED BY <1>2, <1>3 DEF StartBegin

\* What a new session starts with.
LEMMA StartingIsTyped ==
  NoManifest \in AnyManifest /\ IdleWriter \in Writers /\ EmptyDisk \in Disks
<1>1. NoManifest \in AnyManifest
  BY DEF AnyManifest
<1>2. IdleWriter \in Writers
  BY <1>1 DEF IdleWriter, Writers, WriterPlaces
<1>3. EmptyDisk \in Disks
  BY <1>1 DEF EmptyDisk, Disks
<1>4. QED BY <1>1, <1>2, <1>3

\* The manifest of a session that exists is a manifest.
LEMMA PayloadTyped ==
  ASSUME TypeOK, state # "idle"
  PROVE  /\ Payload \in AnyManifest
         /\ Payload.state = state /\ Payload.count = saved
BY DEF TypeOK, Payload, AnyManifest, Manifests

\* So is what the boot writes.
LEMMA RecoveredTyped ==
  ASSUME TypeOK
  PROVE  Recovered \in AnyManifest
BY DEF TypeOK, Recovered, Disks, AnyManifest, Manifests, NoManifest, ActiveStates

\* What the boot makes of an active manifest counts what is on the disk.
LEMMA RecoveredExact ==
  ASSUME TypeOK, IdlePart, state = "idle"
  PROVE  \/ Recovered = disk.manifest
         \/ Recovered.count = disk.samples
<1>1. disk.samples \in Nat /\ disk.manifest.count \in Nat
  BY DEF TypeOK, Disks, AnyManifest, Manifests, NoManifest
<1>2. disk.manifest.count <= disk.samples /\ disk.samples <= disk.manifest.count + 1
  BY DEF IdlePart
<1>3. QED BY <1>1, <1>2 DEF Recovered

\* Whichever of the visible and the durable a crash leaves can be recovered.
LEMMA DiskIsRecoverable ==
  ASSUME IndInv,
         NEW n \in {disk.synced, disk.samples}, NEW m \in {disk.durable, disk.manifest}
  PROVE  /\ m.count <= n /\ n <= m.count + 1
         /\ m.state \in {"interrupted", "completed"} => m.count = n
<1>1. /\ disk.samples \in Nat /\ disk.synced \in Nat /\ saved \in Nat
      /\ disk.manifest.count \in Nat /\ disk.durable.count \in Nat
  BY DEF IndInv, TypeOK, Disks, AnyManifest, Manifests, NoManifest
<1>2. CASE state = "idle"
  BY <1>1, <1>2 DEF IndInv, IdlePart
<1>3. CASE state # "idle"
  <2>1. m.count <= n /\ n <= m.count + 1
    <3>1. writer.pc \in WriterPlaces
      BY DEF IndInv, TypeOK, Writers
    <3>2. \/ Counts(saved, saved, saved, saved)
          \/ Counts(saved, saved, saved, saved - 1)
          \/ Counts(saved, saved, saved - 1, saved - 1)
          \/ Counts(saved + 1, saved, saved, saved)
          \/ Counts(saved + 1, saved + 1, saved, saved)
      BY <1>3, <3>1 DEF IndInv, WriterPlaces, CountPart, Ending
    <3>3. QED BY <1>1, <3>2 DEF Counts
  <2>2. m.state # "interrupted"
    BY <1>3 DEF IndInv, StatePart
  <2>3. m.state = "completed" => m.count = n
    BY <1>1, <1>3 DEF IndInv, StatePart, CountPart, Counts, Ending
  <2>4. QED BY <2>1, <2>2, <2>3
<1>4. QED BY <1>2, <1>3

\* What put and get do to the queue.
LEMMA QueueGrows ==
  ASSUME NEW q \in Seq({"bundle", "end"}), NEW x \in {"bundle", "end"}
  PROVE  /\ Append(q, x) \in Seq({"bundle", "end"})
         /\ Len(q) \in Nat /\ Len(Append(q, x)) = Len(q) + 1
         /\ Append(q, x)[Len(q) + 1] = x
         /\ \A i \in 1..Len(q) : Append(q, x)[i] = q[i]
OBVIOUS

LEMMA QueueShrinks ==
  ASSUME NEW q \in Seq({"bundle", "end"}), q # <<>>
  PROVE  /\ Tail(q) \in Seq({"bundle", "end"})
         /\ Len(q) \in Nat \ {0} /\ Len(Tail(q)) = Len(q) - 1
         /\ Head(q) = q[1] /\ Head(q) \in {"bundle", "end"}
         /\ \A i \in 1..(Len(q) - 1) : Tail(q)[i] = q[i + 1]
OBVIOUS

LEMMA QueueEmpty ==
  ASSUME NEW q \in Seq({"bundle", "end"})
  PROVE  (q = <<>>) <=> Len(q) = 0
OBVIOUS

LEMMA QueueEnd ==
  /\ Tail(<<"end">>) = <<>> /\ Head(<<"end">>) = "end"
  /\ Append(<<>>, "end") = <<"end">> /\ Len(<<"end">>) = 1
OBVIOUS

-----------------------------------------------------------------------------
(* Every action keeps the invariant.                                       *)

LEMMA StartBeginKeeps ==
  ASSUME IndInv, StartBegin
  PROVE  IndInv'
<1>1. TypeOK'
  <2>1. budget' \in Budgets
    BY StartBudgetTyped DEF IndInv, TypeOK
  <2>2. queue' \in Seq({"bundle", "end"}) /\ Len(queue') <= QueueSize
    BY DatasetAssumption DEF StartBegin
  <2>3. QED BY <2>1, <2>2, StartingIsTyped
        DEF IndInv, TypeOK, StartBegin, ActiveStates
<1>2. IdlePart'
  BY DEF IndInv, StartBegin, IdlePart, IsActive, IdleWriter, EmptyDisk,
     NoManifest, Starting, WorkersAlive, ActiveStates, Opening
<1>3. StartPart'
  BY DEF IndInv, StartBegin, StartPart, IsActive, IdleWriter, EmptyDisk,
     NoManifest, Opening, Starting, Working, WorkersAlive, ActiveStates,
     InHand
<1>4. CountPart'
  BY DEF IndInv, StartBegin, CountPart, IsActive, IdleWriter, EmptyDisk,
     NoManifest, Counts, Ending, WorkersAlive, ActiveStates
<1>5. StatePart'
  BY DEF IndInv, StartBegin, StatePart, IsActive, IdleWriter, EmptyDisk,
     NoManifest, WorkersAlive, ActiveStates
<1>6. DrainPart'
  BY DEF IndInv, StartBegin, DrainPart, IsActive, IdleWriter, EmptyDisk,
     NoManifest, InHand, Ending, WorkersAlive, ActiveStates
<1>7. CameraPart'
  BY DEF IndInv, StartBegin, CameraPart, IsActive, IdleWriter, EmptyDisk,
     NoManifest, Opening, Owning, WorkersAlive, ActiveStates, Working, InHand
<1>8. QED BY <1>1, <1>2, <1>3, <1>4, <1>5, <1>6, <1>7 DEF IndInv

LEMMA StartOpenKeeps ==
  ASSUME IndInv, StartOpen
  PROVE  IndInv'
<1>1. TypeOK'
  BY DEF IndInv, StartOpen, TypeOK, ActiveStates
<1>2. IdlePart'
  BY DEF IndInv, StartOpen, IdlePart, Starting, IdleWriter, Opening, NoManifest
<1>3. StartPart'
  BY DEF IndInv, StartOpen, StartPart, Opening, Starting, Working, IdleWriter,
     InHand, NoManifest
<1>4. CameraPart'
  BY DEF IndInv, StartOpen, CameraPart, Opening, Owning, Working, InHand
<1>5. CountPart' /\ StatePart' /\ DrainPart'
  BY DEF IndInv, StartOpen, CountPart, StatePart, DrainPart, Counts
<1>6. QED BY <1>1, <1>2, <1>3, <1>4, <1>5 DEF IndInv

LEMMA StartOpenFailsKeeps ==
  ASSUME IndInv, StartOpenFails
  PROVE  IndInv'
<1>1. TypeOK'
  <2>1. budget' \in Budgets
    BY FaultTyped DEF IndInv, TypeOK, StartOpenFails
  <2>2. QED BY <2>1 DEF IndInv, TypeOK, StartOpenFails, ActiveStates
<1>2. IdlePart'
  BY DEF IndInv, StartOpenFails, IdlePart, Fault, Starting, IdleWriter, Opening,
     NoManifest
<1>3. StartPart'
  BY DEF IndInv, StartOpenFails, StartPart, Fault, Opening, Starting, Working,
     IdleWriter, InHand, NoManifest
<1>4. CameraPart'
  BY DEF IndInv, StartOpenFails, CameraPart, Fault, Opening, Owning, Working,
     InHand
<1>5. CountPart' /\ StatePart' /\ DrainPart'
  BY DEF IndInv, StartOpenFails, CountPart, StatePart, DrainPart, Counts
<1>6. QED BY <1>1, <1>2, <1>3, <1>4, <1>5 DEF IndInv

LEMMA StartPayloadKeeps ==
  ASSUME IndInv, StartPayload
  PROVE  IndInv'
<1>1. TypeOK'
  <2>1. Payload \in AnyManifest
    BY PayloadTyped DEF IndInv, StartPart, Opening, StartPayload
  <2>2. QED BY <2>1 DEF IndInv, TypeOK, StartPayload, ActiveStates
<1>2. IdlePart'
  BY DEF IndInv, StartPayload, IdlePart, Payload, Starting, IdleWriter, Opening,
     NoManifest
<1>3. StartPart'
  BY DEF IndInv, StartPayload, StartPart, Payload, Opening, Starting, Working,
     IdleWriter, InHand, NoManifest
<1>4. CameraPart'
  BY DEF IndInv, StartPayload, CameraPart, Payload, Opening, Owning, Working,
     InHand
<1>5. CountPart' /\ StatePart' /\ DrainPart'
  BY DEF IndInv, StartPayload, CountPart, StatePart, DrainPart, Counts
<1>6. QED BY <1>1, <1>2, <1>3, <1>4, <1>5 DEF IndInv

LEMMA StartManifestKeeps ==
  ASSUME IndInv, StartManifest
  PROVE  IndInv'
<1>1. TypeOK'
  <2>1. disk' \in Disks
    BY DiskTyped DEF IndInv, TypeOK, StartManifest, Replaced
  <2>2. QED BY <2>1 DEF IndInv, TypeOK, StartManifest, ActiveStates
<1>2. IdlePart'
  BY DEF IndInv, StartManifest, IdlePart, Replaced, Starting, IdleWriter, Opening,
     NoManifest
<1>3. StartPart'
  BY DEF IndInv, StartManifest, StartPart, Replaced, Opening, Starting, Working,
     IdleWriter, InHand, NoManifest
<1>4. CountPart'
  BY DEF IndInv, StartManifest, StartPart, CountPart, Replaced, Counts, Ending,
     Opening, Starting, Working, IdleWriter, InHand, NoManifest
<1>5. StatePart'
  BY DEF IndInv, StartManifest, StartPart, StatePart, Replaced, Opening, Starting,
     Working, IdleWriter, InHand, NoManifest
<1>6. CameraPart'
  BY DEF IndInv, StartManifest, CameraPart, Replaced, Opening, Owning, Working,
     InHand
<1>7. DrainPart'
  BY DEF IndInv, StartManifest, DrainPart
<1>8. QED BY <1>1, <1>2, <1>3, <1>4, <1>5, <1>6, <1>7 DEF IndInv

LEMMA StartManifestFailsKeeps ==
  ASSUME IndInv, StartManifestFails
  PROVE  IndInv'
<1>1. TypeOK'
  <2>1. disk' \in Disks
    BY DiskTyped DEF IndInv, TypeOK, StartManifestFails, Replaced
  <2>2. budget' \in Budgets
    BY FaultTyped DEF IndInv, TypeOK, StartManifestFails
  <2>3. QED BY <2>1, <2>2 DEF IndInv, TypeOK, StartManifestFails, ActiveStates
<1>2. IdlePart'
  BY DEF IndInv, StartManifestFails, IdlePart, Fault, Replaced, Starting,
     IdleWriter, Opening, NoManifest
<1>3. StartPart'
  BY DEF IndInv, StartManifestFails, TypeOK, StartPart, Fault, Replaced, Opening,
     Starting, Working, IdleWriter, ActiveStates, InHand, NoManifest, Disks
<1>4. CountPart'
  BY DEF IndInv, StartManifestFails, TypeOK, StartPart, CountPart, Fault,
     Replaced, Counts, Ending, ActiveStates, Opening, Starting, Working,
     IdleWriter, InHand, NoManifest, Disks
<1>5. StatePart'
  BY DEF IndInv, StartManifestFails, TypeOK, StartPart, StatePart, Fault,
     Replaced, ActiveStates, Opening, Starting, Working, IdleWriter, InHand,
     NoManifest, Disks
<1>6. CameraPart'
  <2>1. main = "failmanifest" => writer' = writer /\ UNCHANGED <<cameras, tokens>>
    BY DEF StartManifestFails
  <2>2. main = "manifest" => cameras' = {} /\ tokens' = {}
    BY DEF StartManifestFails
  <2>3. QED BY <2>1, <2>2 DEF IndInv, CameraPart, StartManifestFails, Opening, Owning
<1>7. DrainPart'
  BY DEF IndInv, StartManifestFails, DrainPart
<1>8. QED BY <1>1, <1>2, <1>3, <1>4, <1>5, <1>6, <1>7 DEF IndInv

LEMMA StartWriterKeeps ==
  ASSUME IndInv, StartWriter
  PROVE  IndInv'
<1>1. TypeOK'
  <2>1. writer' \in Writers
    BY StartingIsTyped, WriterTyped DEF StartWriter, WriterPlaces
  <2>2. QED BY <2>1 DEF IndInv, TypeOK, StartWriter, ActiveStates
<1>2. IdlePart'
  BY DEF IndInv, StartWriter, IdlePart, IdleWriter, Starting, NoManifest, Opening
<1>3. StartPart'
  BY DEF IndInv, StartWriter, StartPart, IdleWriter, Opening, Starting, Working,
     NoManifest, InHand
<1>4. CountPart'
  BY DEF IndInv, StartWriter, StartPart, CountPart, IdleWriter, Counts, Ending,
     Opening, Starting, Working, NoManifest, InHand
<1>5. StatePart'
  BY DEF IndInv, StartWriter, StartPart, StatePart, IdleWriter, Opening, Starting,
     Working, NoManifest, InHand
<1>6. DrainPart'
  BY DEF IndInv, StartWriter, StartPart, DrainPart, IdleWriter, InHand, Ending,
     Opening, Starting, Working, NoManifest
<1>7. CameraPart'
  BY DEF IndInv, StartWriter, CameraPart, IdleWriter, Opening, Owning, NoManifest,
     Working, InHand
<1>8. QED BY <1>1, <1>2, <1>3, <1>4, <1>5, <1>6, <1>7 DEF IndInv

LEMMA StartWriterFailsKeeps ==
  ASSUME IndInv, StartWriterFails
  PROVE  IndInv'
<1>1. TypeOK'
  <2>1. budget' \in Budgets
    BY FaultTyped DEF IndInv, TypeOK, StartWriterFails
  <2>2. QED BY <2>1 DEF IndInv, TypeOK, StartWriterFails, ActiveStates
<1>2. IdlePart'
  BY DEF IndInv, StartWriterFails, IdlePart, Fault, Starting, IdleWriter, Opening,
     NoManifest
<1>3. StartPart'
  BY DEF IndInv, StartWriterFails, StartPart, Fault, Opening, Starting, Working,
     IdleWriter, InHand, NoManifest
<1>4. CameraPart'
  BY DEF IndInv, StartWriterFails, CameraPart, Fault, Opening, Owning, Working,
     InHand
<1>5. CountPart' /\ StatePart' /\ DrainPart'
  BY DEF IndInv, StartWriterFails, CountPart, StatePart, DrainPart, Counts
<1>6. QED BY <1>1, <1>2, <1>3, <1>4, <1>5 DEF IndInv

LEMMA StartSamplerKeeps ==
  ASSUME IndInv, StartSampler
  PROVE  IndInv'
<1>1. TypeOK'
  BY DEF IndInv, StartSampler, TypeOK, ActiveStates
<1>2. IdlePart'
  BY DEF IndInv, StartSampler, IdlePart, Starting, IdleWriter, Opening, NoManifest
<1>3. StartPart'
  BY DEF IndInv, StartSampler, StartPart, Opening, Starting, Working, IdleWriter,
     InHand, NoManifest
<1>4. DrainPart'
  BY DEF IndInv, StartSampler, StartPart, DrainPart, InHand, Ending, Opening,
     Starting, Working, IdleWriter, NoManifest
<1>5. CameraPart'
  BY DEF IndInv, StartSampler, CameraPart, Opening, Owning, Working, InHand
<1>6. CountPart' /\ StatePart'
  BY DEF IndInv, StartSampler, CountPart, StatePart, Counts
<1>7. QED BY <1>1, <1>2, <1>3, <1>4, <1>5, <1>6 DEF IndInv

LEMMA StartSamplerFailsKeeps ==
  ASSUME IndInv, StartSamplerFails
  PROVE  IndInv'
<1>1. TypeOK'
  <2>1. budget' \in Budgets
    BY FaultTyped DEF IndInv, TypeOK, StartSamplerFails
  <2>2. queue' = <<"end">>
    BY QueueEnd DEF IndInv, StartPart, StartSamplerFails
  <2>3. queue' \in Seq({"bundle", "end"}) /\ Len(queue') <= QueueSize
    BY <2>2, QueueEnd, DatasetAssumption
  <2>4. QED BY <2>1, <2>2, <2>3
        DEF IndInv, TypeOK, StartSamplerFails, ActiveStates
<1>2. IdlePart'
  BY DEF IndInv, StartSamplerFails, IdlePart, Fault, Starting, IdleWriter,
     Opening, NoManifest
<1>3. StartPart'
  BY DEF IndInv, StartSamplerFails, StartPart, Fault, Opening, Starting, Working,
     IdleWriter, InHand, NoManifest
<1>4. DrainPart'
  BY DEF IndInv, StartSamplerFails, StartPart, DrainPart, Fault, InHand, Ending,
     Opening, Starting, Working, IdleWriter, NoManifest
<1>5. CameraPart'
  BY DEF IndInv, StartSamplerFails, CameraPart, Fault, Opening, Owning, Working,
     InHand
<1>6. CountPart' /\ StatePart'
  BY DEF IndInv, StartSamplerFails, CountPart, StatePart, Counts
<1>7. QED BY <1>1, <1>2, <1>3, <1>4, <1>5, <1>6 DEF IndInv

LEMMA StartFailedKeeps ==
  ASSUME IndInv, StartFailed
  PROVE  IndInv'
<1>1. TypeOK'
  BY DEF IndInv, StartFailed, TypeOK, ActiveStates
<1>2. IdlePart'
  BY DEF IndInv, StartFailed, IdlePart, Starting, IdleWriter, Opening, NoManifest
<1>3. StartPart'
  BY DEF IndInv, StartFailed, IdlePart, StartPart, Opening, Starting, Working,
     IdleWriter, InHand, NoManifest
<1>4. CountPart'
  BY DEF IndInv, StartFailed, IdlePart, CountPart, Counts, Ending, Starting,
     IdleWriter, Opening, NoManifest
<1>5. StatePart'
  BY DEF IndInv, StartFailed, IdlePart, StatePart, Starting, IdleWriter, Opening,
     NoManifest
<1>6. CameraPart'
  BY DEF IndInv, StartFailed, CameraPart, Opening, Owning, Working, InHand
<1>7. DrainPart'
  BY DEF IndInv, StartFailed, DrainPart
<1>8. QED BY <1>1, <1>2, <1>3, <1>4, <1>5, <1>6, <1>7 DEF IndInv

LEMMA StopKeeps ==
  ASSUME IndInv, Stop
  PROVE  IndInv'
<1>1. TypeOK'
  BY DEF IndInv, Stop, TypeOK, IsActive, ActiveStates, WorkersAlive
<1>2. IdlePart'
  BY DEF IndInv, Stop, IdlePart, IsActive, ActiveStates, Starting, IdleWriter,
     WorkersAlive, Opening, NoManifest
<1>3. StartPart'
  BY DEF IndInv, Stop, StartPart, IsActive, ActiveStates, Opening, Starting,
     Working, IdleWriter, WorkersAlive, InHand, NoManifest
<1>4. CountPart'
  BY DEF IndInv, Stop, CountPart, IsActive, ActiveStates, Counts, Ending,
     WorkersAlive
<1>5. StatePart'
  BY DEF IndInv, Stop, StatePart, IsActive, ActiveStates, WorkersAlive
<1>6. DrainPart' /\ CameraPart'
  BY DEF IndInv, Stop, DrainPart, CameraPart
<1>7. QED BY <1>1, <1>2, <1>3, <1>4, <1>5, <1>6 DEF IndInv

LEMMA CloseKeeps ==
  ASSUME IndInv, Close
  PROVE  IndInv'
<1>1. TypeOK'
  BY DEF IndInv, Close, TypeOK, IsActive, ActiveStates, WorkersAlive
<1>2. IdlePart'
  BY DEF IndInv, Close, IdlePart, IsActive, ActiveStates, Starting, IdleWriter,
     WorkersAlive, Opening, NoManifest
<1>3. StartPart'
  BY DEF IndInv, Close, StartPart, IsActive, ActiveStates, Opening, Starting,
     Working, IdleWriter, WorkersAlive, InHand, NoManifest
<1>4. CountPart'
  BY DEF IndInv, Close, CountPart, IsActive, ActiveStates, Counts, Ending,
     WorkersAlive
<1>5. StatePart'
  BY DEF IndInv, Close, StatePart, IsActive, ActiveStates, WorkersAlive
<1>6. CameraPart'
  BY DEF IndInv, Close, CameraPart, IsActive, ActiveStates, Opening, Owning,
     WorkersAlive, Working, InHand
<1>7. DrainPart'
  BY DEF IndInv, Close, DrainPart
<1>8. QED BY <1>1, <1>2, <1>3, <1>4, <1>5, <1>6, <1>7 DEF IndInv

LEMMA CloseReleaseKeeps ==
  ASSUME IndInv, CloseRelease
  PROVE  IndInv'
<1>1. TypeOK'
  BY DEF IndInv, CloseRelease, TypeOK, ActiveStates
<1>2. IdlePart'
  BY DEF IndInv, CloseRelease, IdlePart, Starting, IdleWriter, Opening, NoManifest
<1>3. StartPart'
  BY DEF IndInv, CloseRelease, StartPart, Opening, Starting, Working, IdleWriter,
     InHand, NoManifest
<1>4. CameraPart'
  BY DEF IndInv, CloseRelease, CameraPart, Opening, Owning, Working, InHand
<1>5. CountPart' /\ StatePart' /\ DrainPart'
  BY DEF IndInv, CloseRelease, CountPart, StatePart, DrainPart, Counts
<1>6. QED BY <1>1, <1>2, <1>3, <1>4, <1>5 DEF IndInv

LEMMA StartupDeadlineKeeps ==
  ASSUME IndInv, StartupDeadline
  PROVE  IndInv'
<1>1. TypeOK'
  BY DEF IndInv, StartupDeadline, TypeOK, ActiveStates
<1>2. IdlePart' /\ StartPart' /\ CountPart' /\ StatePart' /\ DrainPart' /\ CameraPart'
  BY DEF IndInv, StartupDeadline, IdlePart, StartPart, CountPart, StatePart,
     DrainPart, CameraPart, Counts
<1>3. QED BY <1>1, <1>2 DEF IndInv

LEMMA SampleKeeps ==
  ASSUME IndInv, Sample
  PROVE  IndInv'
<1>1. TypeOK'
  <2>1. queue' \in Seq({"bundle", "end"}) /\ Len(queue') <= QueueSize
    BY QueueGrows, DatasetAssumption DEF IndInv, TypeOK, Sample
  <2>2. QED BY <2>1 DEF IndInv, TypeOK, Sample, ActiveStates
<1>2. StartPart'
  BY DEF IndInv, Sample, StartPart, Opening, Starting, Working, IdleWriter,
     InHand, NoManifest
<1>3. DrainPart'
  BY DEF IndInv, Sample, TypeOK, DrainPart, InHand, Ending, ActiveStates
<1>4. IdlePart' /\ CountPart' /\ StatePart' /\ CameraPart'
  BY DEF IndInv, Sample, IdlePart, CountPart, StatePart, CameraPart, Counts
<1>5. QED BY <1>1, <1>2, <1>3, <1>4 DEF IndInv

LEMMA SampleMissingKeeps ==
  ASSUME IndInv, SampleMissing
  PROVE  IndInv'
<1>1. TypeOK'
  BY DEF IndInv, SampleMissing, TypeOK, ActiveStates
<1>2. IdlePart'
  BY DEF IndInv, SampleMissing, IdlePart, Starting, IdleWriter, Opening,
     NoManifest
<1>3. StartPart'
  BY DEF IndInv, SampleMissing, StartPart, Opening, Starting, Working, IdleWriter,
     InHand, NoManifest
<1>4. CountPart'
  BY DEF IndInv, SampleMissing, CountPart, Counts, Ending
<1>5. StatePart'
  BY DEF IndInv, SampleMissing, StatePart
<1>6. DrainPart'
  BY DEF IndInv, SampleMissing, DrainPart, InHand, Ending
<1>7. CameraPart'
  BY DEF IndInv, SampleMissing, CameraPart
<1>8. QED BY <1>1, <1>2, <1>3, <1>4, <1>5, <1>6, <1>7 DEF IndInv

LEMMA SamplerSeesStopKeeps ==
  ASSUME IndInv, SamplerSeesStop
  PROVE  IndInv'
<1>1. TypeOK'
  BY DEF IndInv, SamplerSeesStop, TypeOK, ActiveStates
<1>2. IdlePart'
  BY DEF IndInv, SamplerSeesStop, IdlePart, Starting, IdleWriter, Opening,
     NoManifest
<1>3. StartPart'
  BY DEF IndInv, SamplerSeesStop, StartPart, Opening, Starting, Working,
     IdleWriter, InHand, NoManifest
<1>4. DrainPart'
  BY DEF IndInv, SamplerSeesStop, DrainPart, InHand, Ending
<1>5. CountPart' /\ StatePart' /\ CameraPart'
  BY DEF IndInv, SamplerSeesStop, CountPart, StatePart, CameraPart, Counts
<1>6. QED BY <1>1, <1>2, <1>3, <1>4, <1>5 DEF IndInv

LEMMA SamplerEndsKeeps ==
  ASSUME IndInv, SamplerEnds
  PROVE  IndInv'
<1>1. TypeOK'
  <2>1. queue' \in Seq({"bundle", "end"}) /\ Len(queue') <= QueueSize
    BY QueueGrows, DatasetAssumption DEF IndInv, TypeOK, SamplerEnds
  <2>2. QED BY <2>1 DEF IndInv, TypeOK, SamplerEnds, ActiveStates
<1>2. IdlePart'
  BY DEF IndInv, SamplerEnds, IdlePart, Starting, IdleWriter, Opening, NoManifest
<1>3. StartPart'
  BY DEF IndInv, SamplerEnds, StartPart, Opening, Starting, Working, IdleWriter,
     InHand, NoManifest
<1>4. DrainPart'
  <2>1. /\ sampler = "end" /\ sampler' = "done"
        /\ UNCHANGED <<writer, saved, accepted>>
    BY DEF SamplerEnds
  <2>2. CASE writer.pc = "done" /\ UNCHANGED queue
    BY <2>1, <2>2 DEF IndInv, DrainPart, Ending
  <2>3. CASE writer.pc # "done" /\ queue' = Append(queue, "end")
    <3>1. /\ Len(queue) \in Nat /\ Len(queue') = Len(queue) + 1
          /\ queue'[Len(queue')] = "end"
          /\ \A i \in 1..Len(queue) : queue'[i] = queue[i]
      BY <2>3, QueueGrows DEF IndInv, TypeOK
    <3>2. accepted \in Nat /\ saved \in Nat
      BY DEF IndInv, TypeOK
    <3>3. QED BY <2>1, <3>1, <3>2 DEF IndInv, DrainPart, Ending, InHand
  <2>4. QED BY <2>2, <2>3 DEF SamplerEnds
<1>5. CountPart' /\ StatePart' /\ CameraPart'
  BY DEF IndInv, SamplerEnds, CountPart, StatePart, CameraPart, Counts
<1>6. QED BY <1>1, <1>2, <1>3, <1>4, <1>5 DEF IndInv

LEMMA WriterGetsKeeps ==
  ASSUME IndInv, WriterGets
  PROVE  IndInv'
<1>1. TypeOK'
  <2>1. writer' \in Writers
    BY WriterTyped DEF IndInv, TypeOK, WriterGets, At,
       WriterPlaces
  <2>2. queue' \in Seq({"bundle", "end"}) /\ Len(queue') <= QueueSize
    BY QueueShrinks, DatasetAssumption DEF IndInv, TypeOK, WriterGets
  <2>3. QED BY <2>1, <2>2 DEF IndInv, TypeOK, WriterGets, ActiveStates
<1>2. IdlePart'
  BY DEF IndInv, WriterGets, IdlePart, At, Starting, IdleWriter, Opening,
     NoManifest
<1>3. StartPart'
  BY DEF IndInv, WriterGets, TypeOK, StartPart, At, Opening, Starting, Working,
     IdleWriter, ActiveStates, InHand, NoManifest
<1>4. CountPart'
  BY DEF IndInv, WriterGets, CountPart, At, Counts, Ending
<1>5. StatePart'
  BY DEF IndInv, WriterGets, StatePart, At
<1>6. DrainPart'
  <2>1. /\ writer.pc = "get" /\ writer'.err = writer.err
        /\ writer'.pc = IF Head(queue) = "end" THEN "finish" ELSE "temp"
        /\ UNCHANGED <<sampler, saved, accepted>>
    BY DEF IndInv, TypeOK, Writers, WriterGets, At
  <2>2. /\ Len(queue) \in Nat \ {0} /\ Len(queue') = Len(queue) - 1
        /\ Head(queue) = queue[1]
        /\ \A i \in 1..(Len(queue) - 1) : queue'[i] = queue[i + 1]
    BY QueueShrinks DEF IndInv, TypeOK, WriterGets
  <2>3. queue' = <<>> <=> Len(queue') = 0
    BY <1>1, QueueEmpty DEF TypeOK
  <2>4. accepted \in Nat /\ saved \in Nat
    BY DEF IndInv, TypeOK
  <2>5. CASE sampler = "none"
    <3>1. queue = <<"end">> /\ saved = 0 /\ accepted = 0
      BY <2>5 DEF IndInv, StartPart, WriterGets
    <3>2. Head(queue) = "end" /\ queue' = <<>>
      BY <3>1, QueueEnd DEF WriterGets
    <3>3. QED BY <2>1, <2>5, <3>1, <3>2 DEF DrainPart, Ending, InHand
  <2>6. CASE sampler \in {"run", "end"}
    <3>1. Head(queue) = "bundle" /\ writer'.pc = "temp"
      BY <2>1, <2>2, <2>6 DEF IndInv, DrainPart
    <3>2. QED BY <2>1, <2>2, <2>4, <2>6, <3>1 DEF IndInv, DrainPart, Ending, InHand
  <2>7. CASE sampler = "done" /\ Len(queue) = 1
    <3>1. Head(queue) = "end" /\ queue' = <<>>
      BY <2>1, <2>2, <2>3, <2>7 DEF IndInv, DrainPart, Ending
    <3>2. QED BY <2>1, <2>2, <2>4, <2>7, <3>1 DEF IndInv, DrainPart, Ending, InHand
  <2>8. CASE sampler = "done" /\ Len(queue) # 1
    <3>1. Head(queue) = "bundle" /\ writer'.pc = "temp"
      BY <2>1, <2>2, <2>8 DEF IndInv, DrainPart, Ending
    <3>2. queue'[Len(queue')] = "end"
      BY <2>1, <2>2, <2>8 DEF IndInv, DrainPart, Ending
    <3>3. \A i \in 1..(Len(queue') - 1) : queue'[i] = "bundle"
      BY <2>1, <2>2, <2>8 DEF IndInv, DrainPart, Ending
    <3>4. Len(queue') > 0 /\ accepted = saved + Len(queue') + 1 - 1
      BY <2>1, <2>2, <2>4, <2>8 DEF IndInv, DrainPart, Ending, InHand
    <3>5. QED BY <2>1, <2>8, <3>1, <3>2, <3>3, <3>4 DEF DrainPart, Ending, InHand
  <2>9. QED BY <2>5, <2>6, <2>7, <2>8 DEF IndInv, TypeOK
<1>7. CameraPart'
  BY DEF IndInv, WriterGets, CameraPart, At, Opening, Owning, Working, InHand
<1>8. QED BY <1>1, <1>2, <1>3, <1>4, <1>5, <1>6, <1>7 DEF IndInv

LEMMA WriterTempKeeps ==
  ASSUME IndInv, WriterTemp
  PROVE  IndInv'
<1>1. TypeOK'
  <2>1. writer' \in Writers
    BY WriterTyped DEF IndInv, TypeOK, WriterTemp, At,
       WriterPlaces
  <2>2. disk' \in Disks
    BY DiskTyped DEF IndInv, TypeOK, WriterTemp, Replaced
  <2>3. QED BY <2>1, <2>2 DEF IndInv, TypeOK, WriterTemp, ActiveStates
<1>2. IdlePart'
  BY DEF IndInv, WriterTemp, IdlePart, At, Starting, IdleWriter, Opening,
     NoManifest
<1>3. StartPart'
  BY DEF IndInv, WriterTemp, StartPart, At, Opening, Starting, Working,
     IdleWriter, InHand, NoManifest
<1>4. CountPart'
  BY DEF IndInv, WriterTemp, CountPart, At, Counts, Ending
<1>5. StatePart'
  BY DEF IndInv, WriterTemp, StatePart, At
<1>6. DrainPart'
  BY DEF IndInv, WriterTemp, DrainPart, At, InHand, Ending
<1>7. CameraPart'
  BY DEF IndInv, WriterTemp, CameraPart, At, Opening, Owning, Working, InHand
<1>8. QED BY <1>1, <1>2, <1>3, <1>4, <1>5, <1>6, <1>7 DEF IndInv

LEMMA WriterRenameKeeps ==
  ASSUME IndInv, WriterRename
  PROVE  IndInv'
<1>1. TypeOK'
  <2>1. writer' \in Writers
    BY WriterTyped DEF IndInv, TypeOK, WriterRename, At,
       WriterPlaces
  <2>2. disk.samples + 1 \in Nat
    BY DEF IndInv, TypeOK, Disks
  <2>3. disk' \in Disks
    BY DiskTyped, <2>2 DEF IndInv, TypeOK, WriterRename, Replaced
  <2>4. QED BY <2>1, <2>2, <2>3 DEF IndInv, TypeOK, WriterRename, ActiveStates
<1>2. IdlePart'
  BY DEF IndInv, WriterRename, IdlePart, At, Starting, IdleWriter, Opening,
     NoManifest
<1>3. StartPart'
  BY DEF IndInv, WriterRename, StartPart, At, Opening, Starting, Working,
     IdleWriter, InHand, NoManifest
<1>4. CountPart'
  BY DEF IndInv, WriterRename, CountPart, At, Counts, Ending
<1>5. StatePart'
  BY DEF IndInv, WriterRename, StatePart, At
<1>6. DrainPart'
  BY DEF IndInv, WriterRename, DrainPart, At, InHand, Ending
<1>7. CameraPart'
  BY DEF IndInv, WriterRename, CameraPart, At, Opening, Owning, Working, InHand
<1>8. QED BY <1>1, <1>2, <1>3, <1>4, <1>5, <1>6, <1>7 DEF IndInv

LEMMA WriterSyncKeeps ==
  ASSUME IndInv, WriterSync
  PROVE  IndInv'
<1>1. TypeOK'
  <2>1. writer' \in Writers
    BY WriterTyped DEF IndInv, TypeOK, WriterSync, At,
       WriterPlaces
  <2>2. disk.samples \in Nat
    BY DEF IndInv, TypeOK, Disks
  <2>3. disk' \in Disks
    BY DiskTyped, <2>2 DEF IndInv, TypeOK, WriterSync, Replaced
  <2>4. QED BY <2>1, <2>2, <2>3 DEF IndInv, TypeOK, WriterSync, ActiveStates
<1>2. IdlePart'
  BY DEF IndInv, WriterSync, IdlePart, At, Starting, IdleWriter, Opening,
     NoManifest
<1>3. StartPart'
  BY DEF IndInv, WriterSync, StartPart, At, Opening, Starting, Working,
     IdleWriter, InHand, NoManifest
<1>4. CountPart'
  BY DEF IndInv, WriterSync, CountPart, At, Counts, Ending
<1>5. StatePart'
  BY DEF IndInv, WriterSync, StatePart, At
<1>6. DrainPart'
  BY DEF IndInv, WriterSync, DrainPart, At, InHand, Ending
<1>7. CameraPart'
  BY DEF IndInv, WriterSync, CameraPart, At, Opening, Owning, Working, InHand
<1>8. QED BY <1>1, <1>2, <1>3, <1>4, <1>5, <1>6, <1>7 DEF IndInv

LEMMA WriterCountKeeps ==
  ASSUME IndInv, WriterCount
  PROVE  IndInv'
<1>1. TypeOK'
  <2>1. writer' \in Writers
    BY WriterTyped DEF IndInv, TypeOK, WriterCount, At,
       WriterPlaces
  <2>2. QED BY <2>1 DEF IndInv, TypeOK, WriterCount, ActiveStates
<1>2. IdlePart'
  BY DEF IndInv, WriterCount, IdlePart, At, Starting, IdleWriter, Opening,
     NoManifest
<1>3. StartPart'
  BY DEF IndInv, WriterCount, StartPart, At, Opening, Starting, Working,
     IdleWriter, InHand, NoManifest
<1>4. CountPart'
  BY DEF IndInv, WriterCount, TypeOK, CountPart, StatePart, At, Counts, Ending,
     ActiveStates
<1>5. StatePart'
  BY DEF IndInv, WriterCount, StatePart, At
<1>6. DrainPart'
  BY DEF IndInv, WriterCount, TypeOK, DrainPart, At, InHand, Ending, ActiveStates
<1>7. CameraPart'
  BY DEF IndInv, WriterCount, CameraPart, At, Opening, Owning, Working, InHand
<1>8. QED BY <1>1, <1>2, <1>3, <1>4, <1>5, <1>6, <1>7 DEF IndInv

LEMMA WriterPayloadKeeps ==
  ASSUME IndInv, WriterPayload
  PROVE  IndInv'
<1>1. TypeOK'
  <2>1. Payload \in AnyManifest
    BY PayloadTyped DEF IndInv, IdlePart, IdleWriter, WriterPayload
  <2>2. writer' \in Writers
    BY <2>1, WriterTyped DEF IndInv, TypeOK, WriterPayload, WriterPlaces
  <2>3. QED BY <2>1, <2>2 DEF IndInv, TypeOK, WriterPayload, ActiveStates
<1>2. IdlePart'
  BY DEF IndInv, WriterPayload, IdlePart, Payload, Starting, IdleWriter, Opening,
     NoManifest
<1>3. StartPart'
  BY DEF IndInv, WriterPayload, StartPart, Payload, Opening, Starting, Working,
     IdleWriter, InHand, NoManifest
<1>4. CountPart'
  BY DEF IndInv, WriterPayload, CountPart, Payload, Counts, Ending
<1>5. StatePart'
  BY DEF IndInv, WriterPayload, StatePart, Payload
<1>6. DrainPart'
  BY DEF IndInv, WriterPayload, DrainPart, Payload, InHand, Ending
<1>7. CameraPart'
  BY DEF IndInv, WriterPayload, CameraPart, Payload, Opening, Owning, Working,
     InHand
<1>8. QED BY <1>1, <1>2, <1>3, <1>4, <1>5, <1>6, <1>7 DEF IndInv

LEMMA WriterReplaceKeeps ==
  ASSUME IndInv, WriterReplace
  PROVE  IndInv'
<1>1. TypeOK'
  <2>1. writer' \in Writers
    BY WriterTyped DEF IndInv, TypeOK, WriterReplace, At,
       WriterPlaces
  <2>2. writer.pay \in AnyManifest
    BY DEF IndInv, TypeOK, Writers
  <2>3. disk' \in Disks
    BY DiskTyped, <2>2 DEF IndInv, TypeOK, WriterReplace, Replaced
  <2>4. QED BY <2>1, <2>2, <2>3 DEF IndInv, TypeOK, WriterReplace, ActiveStates
<1>2. IdlePart'
  BY DEF IndInv, WriterReplace, IdlePart, Replaced, At, Starting, IdleWriter,
     Opening, NoManifest
<1>3. StartPart'
  BY DEF IndInv, WriterReplace, StartPart, CountPart, Replaced, At, Opening,
     Starting, Working, IdleWriter, Counts, Ending, InHand, NoManifest
<1>4. CountPart'
  BY DEF IndInv, WriterReplace, CountPart, Replaced, At, Counts, Ending
<1>5. StatePart'
  BY DEF IndInv, WriterReplace, StatePart, Replaced, At
<1>6. DrainPart'
  BY DEF IndInv, WriterReplace, DrainPart, Replaced, At, InHand, Ending
<1>7. CameraPart'
  BY DEF IndInv, WriterReplace, CameraPart, Replaced, At, Opening, Owning,
     Working, InHand
<1>8. QED BY <1>1, <1>2, <1>3, <1>4, <1>5, <1>6, <1>7 DEF IndInv

LEMMA WriterFlushKeeps ==
  ASSUME IndInv, WriterFlush
  PROVE  IndInv'
<1>1. TypeOK'
  <2>1. writer' \in Writers
    BY WriterTyped DEF IndInv, TypeOK, WriterFlush, At,
       WriterPlaces
  <2>2. disk.manifest \in AnyManifest
    BY DEF IndInv, TypeOK, Disks
  <2>3. disk' \in Disks
    BY DiskTyped, <2>2 DEF IndInv, TypeOK, WriterFlush, Replaced
  <2>4. QED BY <2>1, <2>2, <2>3 DEF IndInv, TypeOK, WriterFlush, ActiveStates
<1>2. IdlePart'
  BY DEF IndInv, WriterFlush, IdlePart, At, Starting, IdleWriter, Opening,
     NoManifest
<1>3. StartPart'
  BY DEF IndInv, WriterFlush, StartPart, At, Opening, Starting, Working,
     IdleWriter, InHand, NoManifest
<1>4. CountPart'
  BY DEF IndInv, WriterFlush, CountPart, At, Counts, Ending
<1>5. StatePart'
  BY DEF IndInv, WriterFlush, StatePart, At
<1>6. DrainPart'
  BY DEF IndInv, WriterFlush, DrainPart, At, InHand, Ending
<1>7. CameraPart'
  BY DEF IndInv, WriterFlush, CameraPart, At, Opening, Owning, Working, InHand
<1>8. QED BY <1>1, <1>2, <1>3, <1>4, <1>5, <1>6, <1>7 DEF IndInv

LEMMA WriterFailsKeeps ==
  ASSUME IndInv, WriterFails
  PROVE  IndInv'
<1>1. TypeOK'
  <2>1. writer' \in Writers
    BY WriterTyped DEF IndInv, TypeOK, WriterFails, At,
       WriterPlaces, Failing
  <2>2. disk.temp \in BOOLEAN
    BY DEF IndInv, TypeOK, Disks
  <2>3. disk' \in Disks
    BY DiskTyped, <2>2 DEF IndInv, TypeOK, WriterFails, Replaced
  <2>4. budget' \in Budgets
    BY FaultTyped DEF IndInv, TypeOK, WriterFails
  <2>5. QED BY <2>1, <2>2, <2>3, <2>4
        DEF IndInv, TypeOK, WriterFails, ActiveStates
<1>2. IdlePart'
  BY DEF IndInv, WriterFails, IdlePart, Fault, Failing, Starting, IdleWriter,
     Opening, NoManifest
<1>3. StartPart'
  BY DEF IndInv, WriterFails, StartPart, Fault, Failing, Opening, Starting,
     Working, IdleWriter, InHand, NoManifest
<1>4. CountPart'
  BY DEF IndInv, WriterFails, CountPart, Fault, Failing, Counts, Ending
<1>5. StatePart'
  BY DEF IndInv, WriterFails, StatePart, Fault, Failing
<1>6. DrainPart'
  BY DEF IndInv, WriterFails, DrainPart, Fault, Failing, InHand, Ending
<1>7. CameraPart'
  BY DEF IndInv, WriterFails, CameraPart, Fault, Failing, Opening, Owning,
     Working, InHand
<1>8. QED BY <1>1, <1>2, <1>3, <1>4, <1>5, <1>6, <1>7 DEF IndInv

LEMMA WriterFinishKeeps ==
  ASSUME IndInv, WriterFinish
  PROVE  IndInv'
<1>1. TypeOK'
  <2>1. writer' \in Writers
    BY WriterTyped DEF IndInv, TypeOK, WriterFinish, At,
       WriterPlaces
  <2>2. QED BY <2>1 DEF IndInv, TypeOK, WriterFinish, ActiveStates
<1>2. IdlePart'
  BY DEF IndInv, WriterFinish, IdlePart, At, Starting, IdleWriter, Opening,
     NoManifest
<1>3. StartPart'
  BY DEF IndInv, WriterFinish, IdlePart, StartPart, At, Opening, Starting,
     Working, IdleWriter, InHand, NoManifest
<1>4. CountPart'
  BY DEF IndInv, WriterFinish, IdlePart, CountPart, At, Counts, Ending, Starting,
     IdleWriter, Opening, NoManifest
<1>5. StatePart'
  BY DEF IndInv, WriterFinish, IdlePart, StatePart, At, Starting, IdleWriter,
     Opening, NoManifest
<1>6. DrainPart'
  BY DEF IndInv, WriterFinish, DrainPart, At, InHand, Ending
<1>7. CameraPart'
  BY DEF IndInv, WriterFinish, CameraPart, At, Opening, Owning, Working, InHand
<1>8. QED BY <1>1, <1>2, <1>3, <1>4, <1>5, <1>6, <1>7 DEF IndInv

LEMMA WriterReleaseKeeps ==
  ASSUME IndInv, WriterRelease
  PROVE  IndInv'
<1>1. TypeOK'
  <2>1. writer' \in Writers
    BY WriterTyped DEF IndInv, TypeOK, WriterRelease, At,
       WriterPlaces
  <2>2. QED BY <2>1 DEF IndInv, TypeOK, WriterRelease, ActiveStates
<1>2. IdlePart'
  BY DEF IndInv, WriterRelease, IdlePart, At, Starting, IdleWriter, Opening,
     NoManifest
<1>3. StartPart'
  BY DEF IndInv, WriterRelease, StartPart, At, Opening, Starting, Working,
     IdleWriter, InHand, NoManifest
<1>4. CountPart'
  BY DEF IndInv, WriterRelease, CountPart, At, Counts, Ending
<1>5. StatePart'
  BY DEF IndInv, WriterRelease, StatePart, At
<1>6. DrainPart'
  BY DEF IndInv, WriterRelease, DrainPart, At, InHand, Ending
<1>7. CameraPart'
  BY DEF IndInv, WriterRelease, CameraPart, At, Opening, Owning, Working, InHand
<1>8. QED BY <1>1, <1>2, <1>3, <1>4, <1>5, <1>6, <1>7 DEF IndInv

LEMMA WriterCompletesKeeps ==
  ASSUME IndInv, WriterCompletes
  PROVE  IndInv'
<1>1. TypeOK'
  <2>1. writer' \in Writers
    BY WriterTyped DEF IndInv, TypeOK, WriterCompletes, At,
       WriterPlaces
  <2>2. QED BY <2>1 DEF IndInv, TypeOK, WriterCompletes, ActiveStates
<1>2. IdlePart'
  BY DEF IndInv, WriterCompletes, IdlePart, At, Starting, IdleWriter, Opening,
     NoManifest
<1>3. StartPart'
  BY DEF IndInv, WriterCompletes, StartPart, At, Opening, Starting, Working,
     IdleWriter, InHand, NoManifest
<1>4. CountPart'
  BY DEF IndInv, WriterCompletes, CountPart, At, Counts, Ending
<1>5. StatePart'
  BY DEF IndInv, WriterCompletes, StatePart, At
<1>6. DrainPart'
  BY DEF IndInv, WriterCompletes, DrainPart, At, InHand, Ending
<1>7. CameraPart'
  BY DEF IndInv, WriterCompletes, CameraPart, At, Opening, Owning, Working, InHand
<1>8. QED BY <1>1, <1>2, <1>3, <1>4, <1>5, <1>6, <1>7 DEF IndInv

LEMMA WriterFinalFailsKeeps ==
  ASSUME IndInv, WriterFinalFails
  PROVE  IndInv'
<1>1. TypeOK'
  <2>1. writer' \in Writers
    BY WriterTyped DEF IndInv, TypeOK, WriterFinalFails, At,
       WriterPlaces
  <2>2. budget' \in Budgets
    BY FaultTyped DEF IndInv, TypeOK, WriterFinalFails
  <2>3. QED BY <2>1, <2>2 DEF IndInv, TypeOK, WriterFinalFails, ActiveStates
<1>2. IdlePart'
  BY DEF IndInv, WriterFinalFails, IdlePart, Fault, At, Starting, IdleWriter,
     Opening, NoManifest
<1>3. StartPart'
  BY DEF IndInv, WriterFinalFails, IdlePart, StartPart, Fault, At, Opening,
     Starting, Working, IdleWriter, InHand, NoManifest
<1>4. CountPart'
  BY DEF IndInv, WriterFinalFails, IdlePart, CountPart, Fault, At, Counts, Ending,
     Starting, IdleWriter, Opening, NoManifest
<1>5. StatePart'
  BY DEF IndInv, WriterFinalFails, IdlePart, StatePart, Fault, At, Starting,
     IdleWriter, Opening, NoManifest
<1>6. DrainPart'
  BY DEF IndInv, WriterFinalFails, DrainPart, Fault, At, InHand, Ending
<1>7. CameraPart'
  BY DEF IndInv, WriterFinalFails, CameraPart, Fault, At, Opening, Owning,
     Working, InHand
<1>8. QED BY <1>1, <1>2, <1>3, <1>4, <1>5, <1>6, <1>7 DEF IndInv

LEMMA CrashKeeps ==
  ASSUME IndInv, Crash
  PROVE  IndInv'
<1>1. TypeOK'
  <2>1. disk.samples \in Nat /\ disk.synced \in Nat /\ disk.temp \in BOOLEAN
    BY DEF IndInv, TypeOK, Disks
  <2>2. disk.manifest \in AnyManifest /\ disk.durable \in AnyManifest
    BY DEF IndInv, TypeOK, Disks
  <2>3. PICK n \in {disk.synced, disk.samples}, m \in {disk.durable, disk.manifest},
            t \in {FALSE, disk.temp \/ disk.synced < disk.samples} :
         disk' = [samples |-> n, synced |-> n, temp |-> t, manifest |-> m, durable |-> m]
    BY DEF Crash
  <2>4. disk' \in Disks
    BY <2>1, <2>2, <2>3 DEF Disks
  <2>5. budget.crashes - 1 \in Nat
    BY DEF IndInv, TypeOK, Budgets, Crash
  <2>6. budget' \in Budgets
    BY <2>5, BudgetTyped DEF IndInv, TypeOK, Crash
  <2>7. queue' \in Seq({"bundle", "end"}) /\ Len(queue') <= QueueSize
    BY DatasetAssumption DEF Crash
  <2>8. QED BY <2>1, <2>2, <2>3, <2>4, <2>5, <2>6, <2>7, StartingIsTyped
        DEF IndInv, TypeOK, Crash, ActiveStates
<1>2. IdlePart'
  <2>1. PICK n \in {disk.synced, disk.samples}, m \in {disk.durable, disk.manifest},
            t \in {FALSE, disk.temp \/ disk.synced < disk.samples} :
         disk' = [samples |-> n, synced |-> n, temp |-> t, manifest |-> m, durable |-> m]
    BY DEF Crash
  <2>2. /\ disk'.samples = n /\ disk'.synced = n
        /\ disk'.manifest = m /\ disk'.durable = m
    BY <2>1
  <2>3. /\ m.count <= n /\ n <= m.count + 1
        /\ m.state \in {"interrupted", "completed"} => m.count = n
    BY DiskIsRecoverable
  <2>4. QED BY <2>2, <2>3 DEF Crash, IdlePart, IdleWriter, Starting, Opening
<1>3. StartPart'
  BY DEF IndInv, Crash, StartPart, IdleWriter, NoManifest, Opening, Starting,
     Working, InHand
<1>4. CountPart'
  BY DEF IndInv, Crash, CountPart, IdleWriter, NoManifest, Counts, Ending
<1>5. StatePart'
  BY DEF IndInv, Crash, StatePart, IdleWriter, NoManifest
<1>6. DrainPart'
  BY DEF IndInv, Crash, DrainPart, IdleWriter, NoManifest, InHand, Ending
<1>7. CameraPart'
  BY DEF IndInv, Crash, CameraPart, IdleWriter, NoManifest, Opening, Owning,
     Working, InHand
<1>8. QED BY <1>1, <1>2, <1>3, <1>4, <1>5, <1>6, <1>7 DEF IndInv

LEMMA RecoverKeeps ==
  ASSUME IndInv, Recover
  PROVE  IndInv'
<1>1. TypeOK'
  <2>1. Recovered \in AnyManifest
    BY RecoveredTyped DEF IndInv
  <2>2. disk' \in Disks
    BY <2>1, DiskTyped DEF IndInv, TypeOK, Recover, Replaced
  <2>3. budget' \in Budgets
    BY FaultTyped DEF IndInv, TypeOK, Recover
  <2>4. QED BY <2>1, <2>2, <2>3 DEF IndInv, TypeOK, Recover, ActiveStates
<1>2. IdlePart'
  <2>1. state = "idle" /\ state' = "idle"
    BY DEF IndInv, StartPart, Recover
  <2>2. CASE UNCHANGED disk
    BY <2>1, <2>2 DEF IndInv, IdlePart, Recover, Starting, Opening
  <2>3. CASE disk' = [Replaced(Recovered) EXCEPT !.durable = Recovered]
    <3>1. /\ disk'.samples = disk.samples /\ disk'.synced = disk.synced
          /\ disk'.manifest = Recovered /\ disk'.durable = Recovered
      BY <2>3 DEF IndInv, TypeOK, Disks, Replaced
    <3>2. \/ Recovered = disk.manifest
          \/ Recovered.count = disk.samples
      BY <2>1, RecoveredExact DEF IndInv
    <3>3. disk.samples \in Nat
      BY DEF IndInv, TypeOK, Disks
    <3>4. QED BY <2>1, <3>1, <3>2, <3>3 DEF IndInv, IdlePart, Recover, Starting, Opening
  <2>4. QED BY <2>2, <2>3 DEF Recover
<1>3. StartPart'
  BY DEF IndInv, Recover, StartPart, Fault, Replaced, Recovered, Opening,
     Starting, Working, IdleWriter, ActiveStates, InHand, NoManifest
<1>4. CountPart'
  BY DEF IndInv, Recover, StartPart, CountPart, Fault, Replaced, Recovered,
     Counts, Ending, Opening, Starting, Working, IdleWriter, ActiveStates,
     InHand, NoManifest
<1>5. StatePart'
  BY DEF IndInv, Recover, StartPart, StatePart, Fault, Replaced, Recovered,
     Opening, Starting, Working, IdleWriter, ActiveStates, InHand, NoManifest
<1>6. CameraPart'
  BY DEF IndInv, Recover, CameraPart, Fault, Replaced, Recovered, Opening, Owning,
     ActiveStates, Working, InHand
<1>7. DrainPart'
  BY DEF IndInv, Recover, DrainPart
<1>8. QED BY <1>1, <1>2, <1>3, <1>4, <1>5, <1>6, <1>7 DEF IndInv

LEMMA CleanTempsKeeps ==
  ASSUME IndInv, CleanTemps
  PROVE  IndInv'
<1>1. TypeOK'
  <2>1. disk.temp \in BOOLEAN
    BY DEF IndInv, TypeOK, Disks
  <2>2. disk' \in Disks
    BY DiskTyped, <2>1 DEF IndInv, TypeOK, CleanTemps, Replaced
  <2>3. QED BY <2>1, <2>2 DEF IndInv, TypeOK, CleanTemps, ActiveStates
<1>2. IdlePart'
  BY DEF IndInv, CleanTemps, IdlePart, Starting, IdleWriter, Opening, NoManifest
<1>3. StartPart'
  BY DEF IndInv, CleanTemps, StartPart, Opening, Starting, Working, IdleWriter,
     InHand, NoManifest
<1>4. CountPart'
  BY DEF IndInv, CleanTemps, CountPart, Counts, Ending
<1>5. StatePart'
  BY DEF IndInv, CleanTemps, StatePart
<1>6. CameraPart'
  BY DEF IndInv, CleanTemps, CameraPart, Opening, Owning, Working, InHand
<1>7. DrainPart'
  BY DEF IndInv, CleanTemps, DrainPart
<1>8. QED BY <1>1, <1>2, <1>3, <1>4, <1>5, <1>6, <1>7 DEF IndInv

-----------------------------------------------------------------------------
(* The theorems.                                                           *)

LEMMA InitHolds == ASSUME Init PROVE IndInv
<1>1. TypeOK
  <2>1. budget \in Budgets
    BY DatasetAssumption DEF Init, Budgets
  <2>2. queue \in Seq({"bundle", "end"}) /\ Len(queue) <= QueueSize
    BY DatasetAssumption DEF Init
  <2>3. QED BY <2>1, <2>2, StartingIsTyped DEF Init, TypeOK
<1>2. IdlePart /\ StartPart /\ CountPart /\ StatePart
  BY DEF Init, IdlePart, StartPart, CountPart, StatePart, IdleWriter, EmptyDisk,
     NoManifest, Starting, Opening, Working, InHand
<1>3. DrainPart /\ CameraPart
  BY DEF Init, DrainPart, CameraPart, IdleWriter, Ending
<1>4. QED BY <1>1, <1>2, <1>3 DEF IndInv

LEMMA NextKeeps == ASSUME IndInv, [Next]_vars PROVE IndInv'
<1>1. CASE StartBegin \/ Stop \/ Close
  BY <1>1, StartBeginKeeps, StopKeeps, CloseKeeps
<1>2. CASE Request
  BY <1>2, StartOpenKeeps, StartOpenFailsKeeps, StartPayloadKeeps, StartManifestKeeps,
     StartManifestFailsKeeps, StartWriterKeeps, StartWriterFailsKeeps,
     StartSamplerKeeps, StartSamplerFailsKeeps, StartFailedKeeps,
     CloseReleaseKeeps, RecoverKeeps, CleanTempsKeeps DEF Request
<1>3. CASE StartupDeadline \/ Sample \/ Sampler
  BY <1>3, StartupDeadlineKeeps, SampleKeeps, SampleMissingKeeps,
     SamplerSeesStopKeeps, SamplerEndsKeeps DEF Sampler
<1>4. CASE Writer
  BY <1>4, WriterGetsKeeps, WriterTempKeeps, WriterRenameKeeps, WriterSyncKeeps,
     WriterCountKeeps, WriterPayloadKeeps, WriterReplaceKeeps, WriterFlushKeeps,
     WriterFailsKeeps, WriterFinishKeeps, WriterReleaseKeeps,
     WriterCompletesKeeps, WriterFinalFailsKeeps DEF Writer
<1>5. CASE Crash
  BY <1>5, CrashKeeps
<1>6. CASE UNCHANGED vars
  BY <1>6 DEF vars, IndInv, TypeOK, IdlePart, StartPart, CountPart, StatePart,
     DrainPart, CameraPart, Counts
<1>7. QED BY <1>1, <1>2, <1>3, <1>4, <1>5, <1>6 DEF Next

\* The invariant holds in every reachable state of the capture service.
THEOREM DatasetInvariant == Spec => []IndInv
<1>1. Init => IndInv
  BY InitHolds
<1>2. IndInv /\ [Next]_vars => IndInv'
  BY NextKeeps
<1>3. QED BY <1>1, <1>2, PTL DEF Spec

\* Every variable of the service stays in its range, and the queue of bundles
\* within its bound although the failing start puts its sentinel unasked.
THEOREM DatasetTypeOK == Spec => []TypeOK
<1>1. IndInv => TypeOK
  BY DEF IndInv
<1>2. QED BY <1>1, DatasetInvariant, PTL

\* A crash at any point, also one during recovery, leaves a manifest that is
\* at most one sample behind the surviving samples and never ahead of them:
\* what _recover_interrupted needs to repair it by one increment.
THEOREM CrashesAreRecoverable == Spec => []CrashIsRecoverable
<1>1. IndInv => CrashIsRecoverable
  BY DiskIsRecoverable DEF CrashIsRecoverable
<1>2. QED BY <1>1, DatasetInvariant, PTL

\* The manifest of a session the boot has marked interrupted counts exactly
\* the samples on the disk.
THEOREM RecoveryIsExact == Spec => []InterruptedIsExact
<1>1. IndInv => InterruptedIsExact
  BY DiskIsRecoverable DEF InterruptedIsExact
<1>2. QED BY <1>1, DatasetInvariant, PTL

\* A completed session lost none of the bundles the sampler had accepted, and
\* its manifest, before and after a restart, counts the samples on the disk.
THEOREM CompletedSessionsAreDrained == Spec => []CompletedIsDrained
<1>1. IndInv => CompletedIsDrained
  <2>1. SUFFICES ASSUME IndInv PROVE CompletedIsDrained
    OBVIOUS
  <2>2. state \in {"finalizing", "completed"} => saved = accepted /\ queue = <<>>
    BY <2>1 DEF IndInv, StatePart, DrainPart, Ending
  <2>3. disk.manifest.state = "completed" => disk.manifest.count = disk.samples
    BY <2>1, DiskIsRecoverable
  <2>4. QED BY <2>2, <2>3 DEF CompletedIsDrained
<1>2. QED BY <1>1, DatasetInvariant, PTL

\* However a start fails and whoever of the request thread and the writer owns
\* the tokens by then, an inactive service holds no camera.
THEOREM InactiveServiceHoldsNoCamera == Spec => []InactiveHoldsNoCamera
<1>1. IndInv => InactiveHoldsNoCamera
  BY DEF IndInv, StartPart, CameraPart, InactiveHoldsNoCamera, IsActive,
     WorkersAlive, ActiveStates, Owning, Working, InHand
<1>2. QED BY <1>1, DatasetInvariant, PTL
=============================================================================
