--------------------------- MODULE DatasetCapture ---------------------------
(***************************************************************************)
(* The dataset capture service (robot_dashboard/dataset_capture.py).  A    *)
(* sampler thread puts camera bundles on a bounded queue; a writer thread  *)
(* commits each one as a sample directory and then replaces the manifest;  *)
(* the request thread starts and stops the session under a lifecycle lock  *)
(* and, when the service boots, recovers a session a crash interrupted.    *)
(*                                                                         *)
(* The disk is modelled with what a crash may lose: a rename or a replace  *)
(* whose directory was not yet fsynced may or may not survive.  A session  *)
(* has a directory of its own, so only the latest one is kept here.        *)
(***************************************************************************)
EXTENDS Integers, Sequences, FiniteSets

CONSTANTS
  Sources,      \* camera sources of a session
  QueueSize,    \* bound of the sample queue
  ScanLimit,    \* directory entries the temp cleanup inspects at boot
  MaxSamples,   \* bound: bundles accepted in one session
  MaxStarts,    \* bound: sessions started
  MaxCrashes,   \* bound: crashes of the host or the service
  MaxFaults     \* bound: failures of the disk, a camera or a thread start

ASSUME DatasetAssumption ==
  /\ IsFiniteSet(Sources) /\ Sources # {}
  /\ QueueSize \in Nat \ {0} /\ ScanLimit \in Nat
  /\ {MaxSamples, MaxStarts, MaxCrashes, MaxFaults} \subseteq Nat

VARIABLES
  state,    \* _state of the service
  saved,    \* _saved, the samples the service has counted
  stop,     \* _stop_event
  tokens,   \* _tokens, the camera demands the service believes it holds
  cameras,  \* camera demands that are really open (external)
  queue,    \* _sample_queue, with "end" for the sentinel None
  main,     \* where the request thread (or the boot) is
  sampler,  \* where the sampler thread is
  late,     \* the startup deadline has passed
  writer,   \* where the writer thread is, its error, its manifest payload
  mainPay,  \* the manifest payload of the request thread
  disk,     \* samples, temp directory and manifest, with what is durable
  accepted, \* history: bundles put on the queue in this session
  budget    \* starts, crashes and faults left

vars == <<state, saved, stop, tokens, cameras, queue, main, sampler, late,
          writer, mainPay, disk, accepted, budget>>

ActiveStates == {"starting", "capturing", "stopping", "finalizing"}
Manifests == [state : ActiveStates \cup {"completed", "failed", "interrupted"},
              count : Nat]
NoManifest == [state |-> "none", count |-> 0]
EmptyDisk == [samples |-> 0, synced |-> 0, temp |-> FALSE,
              manifest |-> NoManifest, durable |-> NoManifest]

IdleWriter == [pc |-> "none", err |-> FALSE, pay |-> NoManifest]

\* _workers_alive_locked
WorkersAlive == sampler \in {"run", "end"} \/ writer.pc \notin {"none", "done"}

\* is_active, by which the dashboard refuses a restart or a stop of its service
IsActive == state \in ActiveStates \/ WorkersAlive

\* _manifest_locked
Payload == [state |-> state, count |-> saved]

\* One I/O failure, while the bound lasts.
Fault == budget.faults > 0 /\ budget' = [budget EXCEPT !.faults = @ - 1]

Init ==
  /\ state = "idle" /\ saved = 0 /\ stop = FALSE
  /\ tokens = {} /\ cameras = {} /\ queue = <<>>
  /\ main = "idle" /\ sampler = "none" /\ late = FALSE /\ writer = IdleWriter
  /\ mainPay = NoManifest /\ disk = EmptyDisk /\ accepted = 0
  /\ budget = [starts |-> MaxStarts, crashes |-> MaxCrashes, faults |-> MaxFaults]

-----------------------------------------------------------------------------
(* The request thread: _start, step by step under the lifecycle lock.      *)

\* The lock section: everything of the earlier session is reset and the new
\* directory is made, or its creation fails.
StartBegin ==
  /\ main = "idle" /\ ~IsActive /\ budget.starts > 0
  /\ saved' = 0 /\ stop' = FALSE /\ tokens' = {} /\ queue' = <<>>
  /\ disk' = EmptyDisk /\ accepted' = 0 /\ writer' = IdleWriter
  /\ sampler' = "none" /\ late' = FALSE /\ mainPay' = NoManifest
  /\ \/ /\ state' = "starting" /\ main' = "open"
        /\ budget' = [budget EXCEPT !.starts = @ - 1]
     \/ /\ state' = "failed" /\ main' = "idle" /\ budget.faults > 0
        /\ budget' = [budget EXCEPT !.starts = @ - 1, !.faults = @ - 1]
  /\ UNCHANGED cameras

\* A camera is opened; when all are, the tokens are stored.
StartOpen ==
  /\ main = "open"
  /\ \E s \in Sources \ cameras :
       /\ cameras' = cameras \cup {s}
       /\ IF cameras' = Sources
            THEN tokens' = Sources /\ main' = "payload"
            ELSE UNCHANGED <<tokens, main>>
  /\ UNCHANGED <<state, saved, stop, queue, sampler, late, writer, mainPay,
                 disk, accepted, budget>>

\* A camera refuses: the opened ones are closed again before the failure shows.
StartOpenFails ==
  /\ main = "open" /\ Fault
  /\ cameras' = {} /\ tokens' = {} /\ main' = "failed"
  /\ UNCHANGED <<state, saved, stop, queue, sampler, late, writer, mainPay,
                 disk, accepted>>

\* The first manifest: payload taken under the lock, file replaced outside it.
StartPayload ==
  /\ main \in {"payload", "failpayload"}
  /\ mainPay' = Payload
  /\ main' = IF main = "payload" THEN "manifest" ELSE "failmanifest"
  /\ UNCHANGED <<state, saved, stop, tokens, cameras, queue, sampler, late,
                 writer, disk, accepted, budget>>

\* os.replace of manifest.json by a new file that is already fsynced.
Replaced(pay) == [disk EXCEPT !.manifest = pay]

\* _atomic_json of the request thread: replace and fsync of the directory (a
\* crash between them leaves what a crash before or after both leaves).
StartManifest ==
  /\ main \in {"manifest", "failmanifest"}
  /\ disk' = [Replaced(mainPay) EXCEPT !.durable = mainPay]
  /\ main' = IF main = "manifest" THEN "writer" ELSE "idle"
  /\ UNCHANGED <<state, saved, stop, tokens, cameras, queue, sampler, late,
                 writer, mainPay, accepted, budget>>

\* A manifest that cannot be written fails the start; the cameras are closed
\* because the writer does not own their tokens yet.  The failure path itself
\* ignores a second failure.
StartManifestFails ==
  /\ main \in {"manifest", "failmanifest"} /\ Fault
  /\ \/ UNCHANGED disk
     \/ disk' = Replaced(mainPay)
  /\ IF main = "manifest"
       THEN cameras' = {} /\ tokens' = {} /\ main' = "failed"
       ELSE main' = "idle" /\ UNCHANGED <<cameras, tokens>>
  /\ UNCHANGED <<state, saved, stop, queue, sampler, late, writer, mainPay, accepted>>

\* The writer thread starts and owns the tokens from here on.
StartWriter ==
  /\ main = "writer" /\ main' = "sampler"
  /\ writer' = [IdleWriter EXCEPT !.pc = "get"]
  /\ UNCHANGED <<state, saved, stop, tokens, cameras, queue, sampler, late,
                 mainPay, disk, accepted, budget>>

\* The writer thread cannot be started: as any failure before it runs.
StartWriterFails ==
  /\ main = "writer" /\ Fault
  /\ cameras' = {} /\ tokens' = {} /\ main' = "failed"
  /\ UNCHANGED <<state, saved, stop, queue, sampler, late, writer, mainPay,
                 disk, accepted>>

StartSampler ==
  /\ main = "sampler" /\ main' = "idle" /\ sampler' = "run"
  /\ UNCHANGED <<state, saved, stop, tokens, cameras, queue, late, writer,
                 mainPay, disk, accepted, budget>>

\* The sampler cannot be started: the writer is told to end and joined for at
\* most two seconds, so the failure below may overtake it.
StartSamplerFails ==
  /\ main = "sampler" /\ Fault
  /\ stop' = TRUE /\ queue' = Append(queue, "end") /\ main' = "failed"
  /\ UNCHANGED <<state, saved, tokens, cameras, sampler, late, writer, mainPay,
                 disk, accepted>>

\* Fault: the failure path clears the tokens the writer has yet to release.
StartFailedClears ==
  /\ main = "failed" /\ main' = "failpayload"
  /\ state' = "failed" /\ tokens' = {}
  /\ UNCHANGED <<saved, stop, cameras, queue, sampler, late, writer, mainPay,
                 disk, accepted, budget>>

\* The failure path of _start; only a writer that never ran leaves its tokens.
StartFailed ==
  /\ main = "failed" /\ main' = "failpayload"
  /\ state' = "failed"
  /\ tokens' = IF writer.pc = "none" THEN {} ELSE tokens
  /\ UNCHANGED <<saved, stop, cameras, queue, sampler, late, writer, mainPay,
                 disk, accepted, budget>>

\* _stop: sets the event and waits for the threads at most timeout_s, which
\* changes nothing more of the state.
Stop ==
  /\ main = "idle" /\ IsActive
  /\ state' = IF state \in ActiveStates \ {"finalizing"} THEN "stopping" ELSE state
  /\ stop' = TRUE
  /\ UNCHANGED <<saved, tokens, cameras, queue, main, sampler, late, writer,
                 mainPay, disk, accepted, budget>>

\* close, when the service shuts down: _stop for at most ten seconds, then the
\* tokens are released even if the threads are still at work.  The lifecycle
\* lock is not needed again: the process ends with a Crash step.
Close ==
  /\ main = "idle" /\ budget.crashes > 0 /\ main' = "closing"
  /\ state' = IF state \in ActiveStates \ {"finalizing"} THEN "stopping" ELSE state
  /\ stop' = (stop \/ IsActive)
  /\ UNCHANGED <<saved, tokens, cameras, queue, sampler, late, writer, mainPay,
                 disk, accepted, budget>>

CloseRelease ==
  /\ main = "closing" /\ main' = "closed"
  /\ tokens' = {} /\ cameras' = cameras \ tokens
  /\ UNCHANGED <<state, saved, stop, queue, sampler, late, writer, mainPay,
                 disk, accepted, budget>>

-----------------------------------------------------------------------------
(* The sampler thread: _sampler_loop.                                      *)

\* Ten seconds after its start a missing frame no longer counts as waiting.
StartupDeadline ==
  /\ sampler = "run" /\ ~late /\ late' = TRUE
  /\ UNCHANGED <<state, saved, stop, tokens, cameras, queue, main, sampler,
                 writer, mainPay, disk, accepted, budget>>

\* A valid bundle is queued if there is room and dropped otherwise.
Sample ==
  /\ sampler = "run" /\ ~stop /\ accepted < MaxSamples
  /\ Len(queue) < QueueSize
  /\ queue' = Append(queue, "bundle") /\ accepted' = accepted + 1
  /\ UNCHANGED <<state, saved, stop, tokens, cameras, main, sampler, late,
                 writer, mainPay, disk, budget>>

\* No valid bundle after the deadline: a session still starting has failed,
\* any other simply ends.
SampleMissing ==
  /\ sampler = "run" /\ ~stop /\ late
  /\ state' = IF state = "starting" THEN "failed" ELSE state
  /\ stop' = TRUE /\ sampler' = "end"
  /\ UNCHANGED <<saved, tokens, cameras, queue, main, late, writer, mainPay,
                 disk, accepted, budget>>

SamplerSeesStop ==
  /\ sampler = "run" /\ stop /\ sampler' = "end"
  /\ UNCHANGED <<state, saved, stop, tokens, cameras, queue, main, late,
                 writer, mainPay, disk, accepted, budget>>

\* Fault: the sentinel waits for room of a writer that may be gone.
SamplerEndsBlocking ==
  /\ sampler = "end" /\ sampler' = "done"
  /\ Len(queue) < QueueSize /\ queue' = Append(queue, "end")
  /\ UNCHANGED <<state, saved, stop, tokens, cameras, main, late, writer,
                 mainPay, disk, accepted, budget>>

\* The sentinel waits for room, unless the writer is already gone.
SamplerEnds ==
  /\ sampler = "end" /\ sampler' = "done"
  /\ \/ /\ writer.pc = "done" /\ UNCHANGED queue
     \/ /\ writer.pc # "done" /\ Len(queue) < QueueSize
        /\ queue' = Append(queue, "end")
  /\ UNCHANGED <<state, saved, stop, tokens, cameras, main, late, writer,
                 mainPay, disk, accepted, budget>>

-----------------------------------------------------------------------------
(* The writer thread: _writer_loop and _commit_bundle.                     *)

At(pc) == [writer EXCEPT !.pc = pc]
Failing == [writer EXCEPT !.pc = "finish", !.err = TRUE]

\* Fault: a stop ends the writer without draining the queue.
WriterGetsUntilStop ==
  /\ writer.pc = "get" /\ queue # <<>>
  /\ queue' = Tail(queue)
  /\ writer' = At(IF stop \/ Head(queue) = "end" THEN "finish" ELSE "temp")
  /\ UNCHANGED <<state, saved, stop, tokens, cameras, main, sampler, late,
                 mainPay, disk, accepted, budget>>

WriterGets ==
  /\ writer.pc = "get" /\ queue # <<>>
  /\ queue' = Tail(queue)
  /\ writer' = At(IF Head(queue) = "end" THEN "finish" ELSE "temp")
  /\ UNCHANGED <<state, saved, stop, tokens, cameras, main, sampler, late,
                 mainPay, disk, accepted, budget>>

\* The temp directory with its images and metadata, each file fsynced.
WriterTemp ==
  /\ writer.pc = "temp" /\ writer' = At("rename")
  /\ disk' = [disk EXCEPT !.temp = TRUE]
  /\ UNCHANGED <<state, saved, stop, tokens, cameras, queue, main, sampler,
                 late, mainPay, accepted, budget>>

\* Fault: the sample is counted before its directory entry is durable.
WriterRenameUnsynced ==
  /\ writer.pc = "rename" /\ writer' = At("count")
  /\ disk' = [disk EXCEPT !.temp = FALSE, !.samples = @ + 1]
  /\ UNCHANGED <<state, saved, stop, tokens, cameras, queue, main, sampler,
                 late, mainPay, accepted, budget>>

\* os.rename publishes the sample under the next index.
WriterRename ==
  /\ writer.pc = "rename" /\ writer' = At("sync")
  /\ disk' = [disk EXCEPT !.temp = FALSE, !.samples = @ + 1]
  /\ UNCHANGED <<state, saved, stop, tokens, cameras, queue, main, sampler,
                 late, mainPay, accepted, budget>>

WriterSync ==
  /\ writer.pc = "sync" /\ writer' = At("count")
  /\ disk' = [disk EXCEPT !.synced = disk.samples]
  /\ UNCHANGED <<state, saved, stop, tokens, cameras, queue, main, sampler,
                 late, mainPay, accepted, budget>>

\* Only a durable sample is counted; the first one ends the waiting.
WriterCount ==
  /\ writer.pc = "count" /\ writer' = At("payload")
  /\ saved' = saved + 1
  /\ state' = IF state = "starting" THEN "capturing" ELSE state
  /\ UNCHANGED <<stop, tokens, cameras, queue, main, sampler, late, mainPay,
                 disk, accepted, budget>>

\* _write_manifest of a sample and of the end of the session, in three steps.
WriterPayload ==
  /\ writer.pc \in {"payload", "endpayload"}
  /\ writer' = [writer EXCEPT !.pc = IF @ = "payload" THEN "replace" ELSE "endreplace",
                              !.pay = Payload]
  /\ UNCHANGED <<state, saved, stop, tokens, cameras, queue, main, sampler,
                 late, mainPay, disk, accepted, budget>>

WriterReplace ==
  /\ writer.pc \in {"replace", "endreplace"}
  /\ writer' = At(IF writer.pc = "replace" THEN "flush" ELSE "endflush")
  /\ disk' = Replaced(writer.pay)
  /\ UNCHANGED <<state, saved, stop, tokens, cameras, queue, main, sampler,
                 late, mainPay, accepted, budget>>

WriterFlush ==
  /\ writer.pc \in {"flush", "endflush"}
  /\ writer' = At(IF writer.pc = "flush" THEN "get" ELSE "done")
  /\ disk' = [disk EXCEPT !.durable = disk.manifest]
  /\ UNCHANGED <<state, saved, stop, tokens, cameras, queue, main, sampler,
                 late, mainPay, accepted, budget>>

\* A quota, the free-space reserve or the disk fails a commit.  The temp
\* directory is removed if it can be; a sample already renamed stays.
WriterFails ==
  /\ writer.pc \in {"temp", "rename", "sync", "replace", "flush"} /\ Fault
  /\ writer' = Failing /\ stop' = TRUE
  /\ \E left \in {FALSE, disk.temp} : disk' = [disk EXCEPT !.temp = left]
  /\ UNCHANGED <<state, saved, tokens, cameras, queue, main, sampler, late,
                 mainPay, accepted>>

\* The end of the writer: state, tokens, state again, last manifest.
WriterFinish ==
  /\ writer.pc = "finish" /\ writer' = At("release")
  /\ state' = IF writer.err \/ state = "failed" THEN "failed" ELSE "finalizing"
  /\ UNCHANGED <<saved, stop, tokens, cameras, queue, main, sampler, late,
                 mainPay, disk, accepted, budget>>

\* _release_tokens closes what _tokens holds, and nothing else.
WriterRelease ==
  /\ writer.pc = "release" /\ writer' = At("complete")
  /\ tokens' = {} /\ cameras' = cameras \ tokens
  /\ UNCHANGED <<state, saved, stop, queue, main, sampler, late, mainPay, disk,
                 accepted, budget>>

WriterCompletes ==
  /\ writer.pc = "complete" /\ writer' = At("endpayload")
  /\ state' = IF state = "finalizing" THEN "completed" ELSE state
  /\ UNCHANGED <<saved, stop, tokens, cameras, queue, main, sampler, late,
                 mainPay, disk, accepted, budget>>

WriterFinalFails ==
  /\ writer.pc \in {"endreplace", "endflush"} /\ Fault
  /\ writer' = At("done") /\ state' = "failed"
  /\ UNCHANGED <<saved, stop, tokens, cameras, queue, main, sampler, late,
                 mainPay, disk, accepted>>

-----------------------------------------------------------------------------
(* A crash, and the boot that recovers the session it interrupted.         *)

\* Memory and threads are gone; of what was not fsynced anything may survive.
Crash ==
  /\ budget.crashes > 0 /\ budget' = [budget EXCEPT !.crashes = @ - 1]
  /\ \E n \in {disk.synced, disk.samples}, m \in {disk.durable, disk.manifest},
        t \in {FALSE, disk.temp \/ disk.synced < disk.samples} :
       disk' = [samples |-> n, synced |-> n, temp |-> t, manifest |-> m, durable |-> m]
  /\ state' = "idle" /\ saved' = 0 /\ stop' = FALSE /\ tokens' = {}
  /\ cameras' = {} /\ queue' = <<>> /\ accepted' = 0
  /\ sampler' = "none" /\ late' = FALSE /\ writer' = IdleWriter
  /\ mainPay' = NoManifest
  /\ main' = "recover"

\* An active manifest becomes "interrupted" and counts the one sample that may
\* be ahead of it.
Recovered ==
  LET m == disk.manifest
      extra == IF disk.samples > m.count THEN 1 ELSE 0
  IN  IF m.state \in ActiveStates
        THEN [state |-> "interrupted", count |-> m.count + extra]
        ELSE m

Recover ==
  /\ main = "recover"
  /\ \/ /\ disk' = [Replaced(Recovered) EXCEPT !.durable = Recovered]
        /\ main' = IF Recovered.state = "interrupted" THEN "clean" ELSE "idle"
        /\ UNCHANGED budget
     \/ Fault /\ main' = "idle" /\ UNCHANGED disk
  /\ UNCHANGED <<state, saved, stop, tokens, cameras, queue, sampler, late,
                 writer, mainPay, accepted>>

\* The temp directory is removed, unless the scan ends before it meets it.
CleanTemps ==
  /\ main = "clean" /\ main' = "idle"
  /\ \E left \in IF disk.samples + 1 > ScanLimit THEN {FALSE, disk.temp} ELSE {FALSE} :
       disk' = [disk EXCEPT !.temp = left]
  /\ UNCHANGED <<state, saved, stop, tokens, cameras, queue, sampler, late,
                 writer, mainPay, accepted, budget>>

-----------------------------------------------------------------------------

Request == \/ StartOpen \/ StartOpenFails \/ StartPayload \/ StartManifest
           \/ StartManifestFails \/ StartWriter \/ StartWriterFails
           \/ StartSampler \/ StartSamplerFails \/ StartFailed
           \/ CloseRelease \/ Recover \/ CleanTemps
Sampler == SampleMissing \/ SamplerSeesStop \/ SamplerEnds
Writer == \/ WriterGets \/ WriterTemp \/ WriterRename \/ WriterSync
          \/ WriterCount \/ WriterPayload \/ WriterReplace \/ WriterFlush
          \/ WriterFails \/ WriterFinish \/ WriterRelease \/ WriterCompletes
          \/ WriterFinalFails

Next == \/ StartBegin \/ Stop \/ Close \/ Request
        \/ StartupDeadline \/ Sample \/ Sampler \/ Writer \/ Crash

\* The threads the interpreter schedules keep running; nobody has to start or
\* stop a session and no frame has to be missing.
Fairness == /\ WF_vars(Request)
            /\ WF_vars(SamplerSeesStop \/ SamplerEnds)
            /\ WF_vars(Writer)

Spec == Init /\ [][Next]_vars /\ Fairness

-----------------------------------------------------------------------------
(* Properties.                                                             *)

AnyManifest == Manifests \cup {NoManifest}
WriterPlaces ==
  {"none", "get", "temp", "rename", "sync", "count", "payload", "replace",
   "flush", "finish", "release", "complete", "endpayload", "endreplace",
   "endflush", "done"}
Writers == [pc : WriterPlaces, err : BOOLEAN, pay : AnyManifest]
Disks   == [samples : Nat, synced : Nat, temp : BOOLEAN,
            manifest : AnyManifest, durable : AnyManifest]
Budgets == [starts : Nat, crashes : Nat, faults : Nat]

\* Types: every variable stays in its range and the queue below its bound.
TypeOK ==
  /\ state \in ActiveStates \cup {"idle", "completed", "failed"}
  /\ saved \in Nat /\ accepted \in Nat
  /\ stop \in BOOLEAN /\ late \in BOOLEAN
  /\ tokens \subseteq Sources /\ cameras \subseteq Sources
  /\ queue \in Seq({"bundle", "end"}) /\ Len(queue) <= QueueSize
  /\ main \in {"idle", "open", "payload", "manifest", "writer", "sampler",
               "failed", "failpayload", "failmanifest", "recover", "clean",
               "closing", "closed"}
  /\ sampler \in {"none", "run", "end", "done"}
  /\ writer \in Writers /\ mainPay \in AnyManifest
  /\ disk \in Disks /\ budget \in Budgets

\* What the boot relies on ("a crash can leave at most one committed directory
\* ahead of the durable count"): whatever survives a crash now, the manifest
\* counts every surviving sample but at most the last, and never one that is
\* not there.
CrashIsRecoverable ==
  \A m \in {disk.manifest, disk.durable}, n \in {disk.samples, disk.synced} :
    m.state # "none" => m.count <= n /\ n <= m.count + 1

\* A session the boot has marked interrupted lists exactly the samples that
\* are on the disk.
InterruptedIsExact ==
  disk.manifest.state = "interrupted" => disk.manifest.count = disk.samples

\* "The writer drains every accepted bundle before finalising": a session that
\* completes, in memory or on disk, has saved every bundle the sampler queued.
CompletedIsDrained ==
  /\ state \in {"finalizing", "completed"} => saved = accepted /\ queue = <<>>
  /\ main = "idle" /\ disk.manifest.state = "completed"
       => disk.manifest.count = disk.samples

\* A service that reports itself inactive holds no camera demand: whichever
\* step of the start failed and whoever owned the tokens by then.
InactiveHoldsNoCamera == ~IsActive => cameras = {}

\* A stop, or any other end of the session, is carried through: both threads
\* finish and the service becomes inactive, with the queue full or the writer
\* already gone.
StopEnds == stop ~> ~IsActive
=============================================================================
