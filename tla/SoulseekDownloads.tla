------------------------- MODULE SoulseekDownloads -------------------------
(***************************************************************************)
(* The Soulseek provider of Peerphonic: download jobs that are enqueued at *)
(* slskd and polled, the gate that limits them, cancellation and retries,  *)
(* cached files with their readers and their eviction, and the records     *)
(* that survive a restart.                                                 *)
(*                                                                         *)
(* Source: adapters/providers/soulseek/{download,monitoring,persistence}.go*)
(*                                                                         *)
(* A job object has at most one goroutine: pc[j] is where startEnqueue and *)
(* then monitorDownload are.  finishJob, whoever calls it, does its work   *)
(* once per job: fin[j] is how far it has come.  A critical section of a   *)
(* job's mutex, of the coordinator's mutex or of persistMu is one step.    *)
(***************************************************************************)
EXTENDS Naturals, FiniteSets

CONSTANTS
  Keys,           \* remote files (source keys; one record each)
  Paths, PathOf,  \* where the complete files of the keys are; the alternatives of a track
                  \* that have the same filename (and, here, the same size) share a path
  Pinned,         \* the keys whose track an account has pinned
  Jobs,           \* downloadJob objects (a bound of the instance)
  Transfers,      \* batches of slskd with their one transfer (likewise)
  Requests,       \* goroutines of requests (likewise)
  MaxActive,      \* DownloadPolicy.MaxActive
  RetryAttempts,  \* DownloadPolicy.RetryAttempts
  NoKey, NoJob, NoTransfer,
  Scenarios       \* which keys are asked for, by how many requests at a time, how many
                  \* transfers slskd knows at a time, and which events happen

\* "outage": slskd answers with errors; "refuse": it accepts no transfer for a batch,
\* or lists none for it later; "pruneAtStart": the cache exceeds its capacity already
\* when the process starts.
Environment == {"cancel", "evict", "pruneAtStart", "outage", "refuse", "close", "crash"}

ASSUME ConstantsAssumption ==
  /\ Pinned \subseteq Keys /\ PathOf \in [Keys -> Paths]
  /\ IsFiniteSet(Keys) /\ IsFiniteSet(Jobs) /\ IsFiniteSet(Requests)
  /\ MaxActive \in Nat \ {0} /\ RetryAttempts \in Nat \ {0}
  /\ NoKey \notin Keys /\ NoJob \notin Jobs /\ NoTransfer \notin Transfers
  /\ \A s \in Scenarios : /\ s.events \subseteq Environment /\ s.keys \subseteq Keys
                           /\ s.requests \in Nat /\ s.transfers \in Nat

VARIABLES
  saved,       \* the persisted record of a key
  final,       \* paths of the downloads directory with a complete file
  transfer,    \* slskd: key and state of every transfer
  jobs,        \* unfinished (or finishing) job of a key
  records,     \* latest job of a key
  job,         \* the fields of a job object
  pc, fin,     \* its goroutine, and its finishJob
  gate,        \* downloadGate.active
  active,      \* readers of a key
  cacheMu,     \* an eviction is in progress
  candidates,  \* jobs it may evict
  removed,     \* the job whose file it has just removed
  req,         \* what a request is doing
  phase,       \* of the process
  scenario     \* the scenario of this behaviour

disk == <<saved, final>>
coordinator == <<jobs, records, job, pc, fin, gate>>
cache == <<active, cacheMu, candidates, removed>>
vars == <<disk, transfer, coordinator, cache, req, phase, scenario>>

-----------------------------------------------------------------------------
ActiveStates == {"waiting", "queued", "downloading"}
Retryable == {"failed", "cancelled", "evicted"}
States == ActiveStates \cup Retryable \cup {"cached"}
TransferStates == {"queued", "inProgress", "succeeded", "aborted", "rejected", "cancelled",
                   "gone"}

NoRecord == [state |-> "none", batch |-> NoTransfer, retries |-> 0]
NoTransferYet == [key |-> NoKey, state |-> "none"]
NoRequest == [pc |-> "idle", key |-> NoKey, job |-> NoJob, batch |-> NoTransfer, reads |-> FALSE]

\* A new downloadJob for key k in state s.
NewJob(k, s) ==
  [key |-> k, state |-> s, batch |-> NoTransfer, retries |-> 0, attempt |-> 1,
   finished |-> FALSE, err |-> FALSE, slotHeld |-> FALSE, ready |-> FALSE,
   cancelled |-> FALSE, monitoring |-> FALSE]
NoJobYet == NewJob(NoKey, "waiting")

Snapshot(j) == [state |-> job[j].state, batch |-> job[j].batch, retries |-> job[j].retries]

JobPC == {"none", "created", "restored", "gate", "slotted", "persistSlot", "posting",
          "persistBackoff", "backoff", "persistBatch", "monitor", "persistProgress",
          "persistRetry", "notify"}
FinPC == {"none", "slot", "noSlot", "persist", "remove"}
RequestPC == {"idle", "ensure", "persist", "waiting", "reading", "stopping",
              "cancelling"}

DiskTypeOK ==
  /\ \A k \in Keys : /\ saved[k].state \in States \cup {"none"}
                     /\ saved[k].batch \in Transfers \cup {NoTransfer}
                     /\ saved[k].retries \in 0 .. (RetryAttempts - 1)
  /\ final \subseteq Paths
TransferTypeOK ==
  \A x \in Transfers : /\ transfer[x].state \in TransferStates \cup {"none"}
                        /\ transfer[x].state # "none" => transfer[x].key \in Keys
CoordinatorTypeOK ==
  /\ jobs \in [Keys -> Jobs \cup {NoJob}] /\ records \in [Keys -> Jobs \cup {NoJob}]
  /\ pc \in [Jobs -> JobPC] /\ fin \in [Jobs -> FinPC] /\ gate \in Nat
  /\ \A j \in Jobs : /\ job[j].key \in Keys \cup {NoKey} /\ job[j].state \in States
                     /\ job[j].batch \in Transfers \cup {NoTransfer}
                     /\ job[j].retries \in 0 .. (RetryAttempts - 1)
                     /\ job[j].attempt \in 1 .. RetryAttempts
                     /\ pc[j] \in {"persistBackoff", "backoff"} => job[j].attempt < RetryAttempts
                     /\ pc[j] # "none" \/ fin[j] # "none" => job[j].key \in Keys
CacheTypeOK ==
  /\ active \in [Keys -> Nat] /\ cacheMu \in BOOLEAN
  /\ candidates \subseteq Jobs /\ removed \in Jobs \cup {NoJob}
TypeOK ==
  /\ DiskTypeOK /\ TransferTypeOK /\ CoordinatorTypeOK /\ CacheTypeOK
  /\ \A r \in Requests : req[r].pc \in RequestPC
  /\ phase \in {"loaded", "running", "closing", "closed"}

-----------------------------------------------------------------------------
Happens(event) == event \in scenario.events
Closing == phase \in {"closing", "closed"}
KeyOf(j) == job[j].key
HasFile(k) == PathOf[k] \in final
Recorded(j) == \E k \in Keys : records[k] = j

\* An object nobody refers to any more can serve as a new one.
Free(j) ==
  /\ pc[j] = "none" /\ fin[j] = "none"
  /\ \A k \in Keys : jobs[k] # j /\ records[k] # j
  /\ \A r \in Requests : req[r].job # j
  /\ j \notin candidates /\ removed # j

\* Likewise a transfer that has ended and that nobody refers to any more.
Unused(x) ==
  /\ transfer[x].state \notin {"queued", "inProgress"}
  /\ \A k \in Keys : saved[k].batch # x
  /\ \A j \in Jobs : job[j].batch = x => Free(j)
  /\ \A r \in Requests : req[r].batch # x
MayServe(x) ==
  /\ Unused(x)
  /\ Cardinality({y \in Transfers : ~Unused(y)}) < scenario.transfers

Goto(j, p) == pc' = [pc EXCEPT ![j] = p]

\* persistJob writes what the job is now, not what it was when the caller decided.
Persist(j) == saved' = [saved EXCEPT ![KeyOf(j)] = Snapshot(j)]

\* A job's goroutine that only persists, and goes on.
PersistThen(j, next) ==
  /\ Persist(j) /\ Goto(j, next)
  /\ UNCHANGED <<final, transfer, jobs, records, job, fin, gate, cache, req, phase>>

\* finishJob, up to its unlock: the first caller finishes the job.
FinishJob(j, state, err) ==
  IF job[j].finished THEN UNCHANGED <<job, fin>>
  ELSE /\ job' = [job EXCEPT ![j].finished = TRUE, ![j].state = state, ![j].err = err,
                             ![j].slotHeld = FALSE, ![j].cancelled = TRUE]
       /\ fin' = [fin EXCEPT ![j] = IF job[j].slotHeld THEN "slot" ELSE "noSlot"]

\* The rest of finishJob: release the slot and wake the waiters, persist, forget.
ReleaseSlotLeaks(j) == gate' = gate
ReleaseSlot(j) == gate' = IF fin[j] = "slot" THEN gate - 1 ELSE gate

FinishForgetsWaiters(j) ==
  /\ fin[j] \in {"slot", "noSlot"}
  /\ ReleaseSlot(j)
  /\ fin' = [fin EXCEPT ![j] = "persist"]
  /\ UNCHANGED <<disk, transfer, jobs, records, job, pc, cache, req, phase>>

FinishRelease(j) ==
  /\ fin[j] \in {"slot", "noSlot"}
  /\ ReleaseSlot(j)
  /\ job' = [job EXCEPT ![j].ready = TRUE]
  /\ fin' = [fin EXCEPT ![j] = "persist"]
  /\ UNCHANGED <<disk, transfer, jobs, records, pc, cache, req, phase>>

FinishPersist(j) ==
  /\ fin[j] = "persist"
  /\ Persist(j)
  /\ fin' = [fin EXCEPT ![j] = "remove"]
  /\ UNCHANGED <<final, transfer, jobs, records, job, pc, gate, cache, req, phase>>

FinishRemove(j) ==
  /\ fin[j] = "remove"
  /\ jobs' = [jobs EXCEPT ![KeyOf(j)] = IF @ = j THEN NoJob ELSE @]
  /\ fin' = [fin EXCEPT ![j] = "none"]
  /\ UNCHANGED <<disk, transfer, records, job, pc, gate, cache, req, phase>>

-----------------------------------------------------------------------------
\* startEnqueue: the job waits for the gate, then posts its batch.

GateFree == gate < MaxActive

\* The goroutine takes a free slot, cancelled or not.
AcquireSlot(j) ==
  /\ pc[j] = "gate" /\ GateFree
  /\ gate' = gate + 1
  /\ Goto(j, "slotted")
  /\ UNCHANGED <<disk, transfer, jobs, records, job, fin, cache, req, phase>>

GateIgnoresClose(j) ==
  /\ pc[j] = "gate" /\ job[j].cancelled
  /\ Goto(j, "none")
  /\ UNCHANGED <<disk, transfer, jobs, records, job, fin, gate, cache, req, phase>>

\* It was waiting for a slot when its context ended.
GateCancelled(j) ==
  /\ pc[j] = "gate"
  /\ job[j].cancelled \/ Closing
  /\ Goto(j, "none")
  /\ UNCHANGED <<disk, transfer, jobs, records, job, fin, gate, cache, req, phase>>

SlotUnused(j) ==
  /\ pc[j] = "slotted" /\ job[j].finished
  /\ gate' = gate - 1
  /\ Goto(j, "none")
  /\ UNCHANGED <<disk, transfer, jobs, records, job, fin, cache, req, phase>>

SlotTaken(j) ==
  /\ pc[j] = "slotted" /\ ~job[j].finished
  /\ job' = [job EXCEPT ![j].slotHeld = TRUE, ![j].state = "queued", ![j].attempt = 1]
  /\ Goto(j, "persistSlot")
  /\ UNCHANGED <<disk, transfer, jobs, records, fin, gate, cache, req, phase>>

SlotPersisted(j) == pc[j] = "persistSlot" /\ PersistThen(j, "posting")

\* The context of enqueueWithRetry: the job's own for its first batch, the
\* coordinator's when the monitor enqueues the file again.
ContextDone(j) == Closing \/ (job[j].cancelled /\ ~job[j].monitoring)

\* enqueue: slskd accepts the batch.  The answer may arrive although the context
\* has ended, and then it counts.
Posted(j, x) ==
  /\ pc[j] = "posting"
  /\ MayServe(x)
  /\ transfer' = [transfer EXCEPT ![x] = [key |-> KeyOf(j), state |-> "queued"]]
  /\ job' = [job EXCEPT ![j].batch = x, ![j].state = "queued"]
  /\ Goto(j, "persistBatch")
  /\ UNCHANGED <<disk, jobs, records, fin, gate, cache, req, phase>>

\* An error, although slskd may have accepted the batch.
AnswerLost(j) ==
  \/ UNCHANGED transfer
  \/ \E x \in Transfers :
       /\ MayServe(x)
       /\ transfer' = [transfer EXCEPT ![x] = [key |-> KeyOf(j), state |-> "queued"]]

\* enqueueWithRetry gives up: a permanent error (slskd refuses the file is one), the
\* end of the context, or the last attempt; the job fails.
PostFailed(j) ==
  /\ pc[j] = "posting"
  /\ \/ (Happens("outage") \/ ContextDone(j)) /\ AnswerLost(j)
     \/ Happens("refuse") /\ UNCHANGED transfer
  /\ FinishJob(j, "failed", TRUE)
  /\ Goto(j, "none")
  /\ UNCHANGED <<disk, jobs, records, gate, cache, req, phase>>

\* A temporary error: the job waits and tries again.
PostBackoff(j) ==
  /\ pc[j] = "posting"
  /\ Happens("outage") /\ job[j].attempt < RetryAttempts
  /\ AnswerLost(j)
  /\ job' = [job EXCEPT ![j].state = "waiting"]
  /\ Goto(j, "persistBackoff")
  /\ UNCHANGED <<disk, jobs, records, fin, gate, cache, req, phase>>

BackoffPersisted(j) == pc[j] = "persistBackoff" /\ PersistThen(j, "backoff")

BackoffOver(j) ==
  /\ pc[j] = "backoff"
  /\ job' = [job EXCEPT ![j].state = "queued", ![j].attempt = @ + 1]
  /\ Goto(j, "posting")
  /\ UNCHANGED <<disk, transfer, jobs, records, fin, gate, cache, req, phase>>

BackoffCancelled(j) ==
  /\ pc[j] = "backoff" /\ ContextDone(j)
  /\ FinishJob(j, "failed", TRUE)
  /\ Goto(j, "none")
  /\ UNCHANGED <<disk, transfer, jobs, records, gate, cache, req, phase>>

\* The batch is persisted; the waiters are woken, and the monitor starts unless
\* the job has been finished, or goes on.
BatchPersisted(j) ==
  /\ pc[j] = "persistBatch"
  /\ Persist(j)
  /\ IF job[j].monitoring
       THEN Goto(j, "monitor") /\ UNCHANGED job
       ELSE /\ job' = [job EXCEPT ![j].ready = TRUE, ![j].monitoring = ~job[j].finished]
            /\ Goto(j, IF job[j].finished THEN "none" ELSE "monitor")
  /\ UNCHANGED <<final, transfer, jobs, records, fin, gate, cache, req, phase>>

-----------------------------------------------------------------------------
\* monitorDownload: one poll of the batch.

Monitored(j) == pc[j] = "monitor" /\ ~job[j].finished
TransferOf(j) == transfer[job[j].batch].state

\* The job was finished by a cancellation, or the coordinator is closing.  (What
\* endMonitoring resets is not looked at again: the job, or the process, is over.)
MonitorStops(j) ==
  /\ pc[j] = "monitor"
  /\ job[j].finished \/ Closing
  /\ Goto(j, "none")
  /\ UNCHANGED <<disk, transfer, jobs, records, job, fin, gate, cache, req, phase>>

\* updateTransfer: progress, which is persisted if the last time is long ago.
MonitorProgress(j) ==
  /\ Monitored(j) /\ TransferOf(j) \in {"queued", "inProgress"}
  /\ job' = [job EXCEPT ![j].state = IF TransferOf(j) = "queued" THEN "queued" ELSE "downloading"]
  /\ job' # job
  /\ \E next \in {"monitor", "persistProgress"} : Goto(j, next)
  /\ UNCHANGED <<disk, transfer, jobs, records, fin, gate, cache, req, phase>>

ProgressPersisted(j) == pc[j] = "persistProgress" /\ PersistThen(j, "monitor")

\* The goroutine finishes the job, and ends or goes on to the completion handlers.
MonitorFinishes(j, state, next) ==
  /\ FinishJob(j, state, state # "cached")
  /\ Goto(j, next)
  /\ UNCHANGED <<disk, transfer, jobs, records, gate, cache, req, phase>>

MonitorSucceeded(j) ==
  /\ Monitored(j) /\ TransferOf(j) = "succeeded" /\ HasFile(KeyOf(j))
  /\ MonitorFinishes(j, "cached", "notify")

\* The file does not appear (waitForFinalFile): it has been evicted meanwhile.
MonitorFileMissing(j) ==
  /\ Monitored(j) /\ TransferOf(j) = "succeeded" /\ ~HasFile(KeyOf(j))
  /\ MonitorFinishes(j, "failed", "none")

\* prepareAutomaticRetry, for failures that may be temporary.
RetryKeepsBatch(j) ==
  job' = [job EXCEPT ![j].retries = @ + 1, ![j].state = "waiting", ![j].attempt = 1]
PrepareAutomaticRetry(j) ==
  job' = [job EXCEPT ![j].retries = @ + 1, ![j].state = "waiting", ![j].attempt = 1,
                     ![j].batch = NoTransfer]
MayRetry(j) == job[j].retries < RetryAttempts - 1

MonitorRetries(j) ==
  /\ Monitored(j) /\ TransferOf(j) = "aborted" /\ MayRetry(j)
  /\ PrepareAutomaticRetry(j)
  /\ Goto(j, "persistRetry")
  /\ UNCHANGED <<disk, transfer, jobs, records, fin, gate, cache, req, phase>>

RetryPersisted(j) == pc[j] = "persistRetry" /\ PersistThen(j, "posting")

MonitorFailsEarly(j) ==
  /\ Monitored(j) /\ TransferOf(j) \notin {"queued", "succeeded"}
  /\ MonitorFinishes(j, "failed", "none")

MonitorFailed(j) ==
  /\ Monitored(j)
  /\ \/ TransferOf(j) \in {"rejected", "gone"} \/ (TransferOf(j) = "aborted" /\ ~MayRetry(j))
     \/ Happens("outage")       \* five polls in a row have failed
  /\ MonitorFinishes(j, "failed", "none")

MonitorCancelled(j) ==
  /\ Monitored(j) /\ TransferOf(j) = "cancelled"
  /\ MonitorFinishes(j, "cancelled", "none")

\* notifyCompleted: enrichment and a prune of the cache (see EvictCollect).
NotifyCompleted(j) ==
  /\ pc[j] = "notify" /\ fin[j] = "none"
  /\ Goto(j, "none")
  /\ UNCHANGED <<disk, transfer, jobs, records, job, fin, gate, cache, req, phase>>

-----------------------------------------------------------------------------
\* slskd.

TransferAdvances(x, from, to) ==
  /\ transfer[x].state = from
  /\ transfer' = [transfer EXCEPT ![x].state = to]

\* A transfer starts, is turned down, breaks, or is no longer listed.
TransferStep(x) ==
  /\ \/ TransferAdvances(x, "queued", "inProgress")
     \/ TransferAdvances(x, "queued", "rejected")
     \/ TransferAdvances(x, "inProgress", "aborted")
     \/ Happens("refuse") /\ TransferAdvances(x, "queued", "gone")
  /\ UNCHANGED <<disk, coordinator, cache, req, phase>>

\* The complete file moves to the downloads directory.
TransferSucceeds(x) ==
  /\ TransferAdvances(x, "inProgress", "succeeded")
  /\ final' = final \cup {PathOf[transfer[x].key]}
  /\ UNCHANGED <<saved, coordinator, cache, req, phase>>

-----------------------------------------------------------------------------
\* Playback (resolve, ensureDownload, the reader) and RetryTrackDownload.

NewRequest(r) ==
  /\ phase = "running" /\ req[r] = NoRequest
  /\ Cardinality({q \in Requests : req[q] # NoRequest}) < scenario.requests
EndRequest(r) == req' = [req EXCEPT ![r] = NoRequest]

\* beginRead, endRead: the readers that keep the file of a key.
ReaderBegins(k) == active' = [active EXCEPT ![k] = @ + 1]
ReaderEnds(k) == active' = [active EXCEPT ![k] = IF @ <= 1 THEN 0 ELSE @ - 1]
LeaveRequest(r) ==
  /\ EndRequest(r)
  /\ IF req[r].reads THEN ReaderEnds(req[r].key) ELSE UNCHANGED active

\* cacheMu orders the look at the file, and the registration of the reader,
\* against evictions.
UnlockedCache == TRUE
CacheFree == ~cacheMu

\* rememberCached: the job of the key, or a finished one made for it, is cached.
RememberKnown(k, j) ==
  /\ records[k] = j
  /\ job' = [job EXCEPT ![j].state = "cached"]
  /\ saved' = [saved EXCEPT ![k] = [Snapshot(j) EXCEPT !.state = "cached"]]
  /\ UNCHANGED records
RememberNew(k, j) ==
  /\ records[k] = NoJob /\ Free(j)
  /\ job' = [job EXCEPT ![j] = [NewJob(k, "cached") EXCEPT !.finished = TRUE, !.ready = TRUE]]
  /\ saved' = [saved EXCEPT ![k] = [NoRecord EXCEPT !.state = "cached"]]
  /\ records' = [records EXCEPT ![k] = j]

\* The file is there, and gets a reader.
ResolveCached(r, k) ==
  /\ NewRequest(r) /\ CacheFree /\ HasFile(k)
  /\ \E j \in Jobs : RememberKnown(k, j) \/ RememberNew(k, j)
  /\ ReaderBegins(k)
  /\ req' = [req EXCEPT ![r] = [NoRequest EXCEPT !.pc = "reading", !.key = k, !.reads = TRUE]]
  /\ UNCHANGED <<final, transfer, jobs, pc, fin, gate, cacheMu, candidates, removed, phase>>

ResolveMissing(r, k) ==
  /\ NewRequest(r) /\ CacheFree /\ ~HasFile(k)
  /\ ReaderBegins(k)
  /\ req' = [req EXCEPT ![r] = [NoRequest EXCEPT !.pc = "ensure", !.key = k, !.reads = TRUE]]
  /\ UNCHANGED <<disk, transfer, coordinator, cacheMu, candidates, removed, phase>>

RetryTrackDownload(r, k) ==
  /\ NewRequest(r)
  /\ records[k] # NoJob /\ job[records[k]].state \in Retryable
  /\ req' = [req EXCEPT ![r] = [NoRequest EXCEPT !.pc = "ensure", !.key = k]]
  /\ UNCHANGED <<disk, transfer, coordinator, cache, phase>>

\* ensureDownload: the job of the key, or a new one.
EnsureExisting(r) ==
  /\ req[r].pc = "ensure" /\ jobs[req[r].key] # NoJob
  /\ req' = [req EXCEPT ![r].pc = "waiting", ![r].job = jobs[req[r].key]]
  /\ UNCHANGED <<disk, transfer, coordinator, cache, phase>>

NoJobOf(k) == jobs[k] = NoJob
EnsureNew(r, j) ==
  /\ req[r].pc = "ensure" /\ NoJobOf(req[r].key) /\ Free(j)
  /\ job' = [job EXCEPT ![j] = NewJob(req[r].key, "waiting")]
  /\ jobs' = [jobs EXCEPT ![req[r].key] = j]
  /\ records' = [records EXCEPT ![req[r].key] = j]
  /\ Goto(j, "created")
  /\ req' = [req EXCEPT ![r].pc = "persist", ![r].job = j]
  /\ UNCHANGED <<disk, transfer, fin, gate, cache, phase>>

EnsureStartUnsaved(r) ==
  LET j == req[r].job
  IN  /\ req[r].pc = "persist"
      /\ job' = [job EXCEPT ![j].cancelled = FALSE]
      /\ Goto(j, "gate")
      /\ req' = [req EXCEPT ![r].pc = "waiting"]
      /\ UNCHANGED <<disk, transfer, jobs, records, fin, gate, cache, phase>>

\* The new job is persisted and its goroutine starts, with a context of its own.
EnsureStart(r) ==
  LET j == req[r].job
  IN  /\ req[r].pc = "persist"
      /\ Persist(j)
      /\ job' = [job EXCEPT ![j].cancelled = FALSE]
      /\ Goto(j, "gate")
      /\ req' = [req EXCEPT ![r].pc = "waiting"]
      /\ UNCHANGED <<final, transfer, jobs, records, fin, gate, cache, phase>>

\* waitUntilEnqueued, waitForInitialData: the stream opens, or the request fails.
OpenStream(r) ==
  /\ req[r].pc = "waiting" /\ job[req[r].job].ready /\ ~job[req[r].job].err
  /\ IF req[r].reads
       THEN req' = [req EXCEPT ![r].pc = "reading"] /\ UNCHANGED active
       ELSE EndRequest(r) /\ UNCHANGED active
  /\ UNCHANGED <<disk, transfer, coordinator, cacheMu, candidates, removed, phase>>

OpenFails(r) ==
  /\ req[r].pc = "waiting" /\ job[req[r].job].ready /\ job[req[r].job].err
  /\ LeaveRequest(r)
  /\ UNCHANGED <<disk, transfer, coordinator, cacheMu, candidates, removed, phase>>

\* The client has gone.
WaitCancelled(r) ==
  /\ req[r].pc = "waiting"
  /\ LeaveRequest(r)
  /\ UNCHANGED <<disk, transfer, coordinator, cacheMu, candidates, removed, phase>>

\* trackedReader.Close; the prune of the cache that follows is EvictCollect.
CloseReader(r) ==
  /\ req[r].pc = "reading"
  /\ LeaveRequest(r)
  /\ UNCHANGED <<disk, transfer, coordinator, cacheMu, candidates, removed, phase>>

-----------------------------------------------------------------------------
\* The dashboard: TrackDownloads and CancelTrackDownload.

\* snapshot: a cached file that is not there was evicted.
TrackDownloads(j) ==
  /\ phase = "running" /\ Recorded(j)
  /\ job[j].state = "cached" /\ ~HasFile(KeyOf(j))
  /\ job' = [job EXCEPT ![j].state = "evicted"]
  /\ saved' = [saved EXCEPT ![KeyOf(j)].state = "evicted"]
  /\ UNCHANGED <<final, transfer, jobs, records, pc, fin, gate, cache, req, phase>>

\* cancel looks at the job, and at its transfer and its context, and acts on what it saw.
Stoppable(j) == job[j].batch = NoTransfer /\ pc[j] # "created"
CancelTrackDownload(r, k) ==
  /\ Happens("cancel") /\ NewRequest(r)
  /\ records[k] # NoJob /\ job[records[k]].state \in ActiveStates
  /\ req' = [req EXCEPT ![r] =
       [NoRequest EXCEPT !.pc = IF Stoppable(records[k]) THEN "stopping" ELSE "cancelling",
                         !.key = k, !.job = records[k], !.batch = job[records[k]].batch]]
  /\ UNCHANGED <<disk, transfer, coordinator, cache, phase>>

\* There was no transfer to cancel: the job's context is cancelled, and the job is
\* finished afterwards, by this request or by its goroutine, whoever comes first.
CancelStops(r) ==
  /\ req[r].pc = "stopping"
  /\ job' = [job EXCEPT ![req[r].job].cancelled = TRUE]
  /\ req' = [req EXCEPT ![r].pc = "cancelling"]
  /\ UNCHANGED <<disk, transfer, jobs, records, pc, fin, gate, cache, phase>>

\* slskd cancels a transfer that has not ended.
CancelTransfer(batch) ==
  transfer' = [x \in Transfers |->
    IF x = batch /\ transfer[x].state \in {"queued", "inProgress"}
      THEN [transfer[x] EXCEPT !.state = "cancelled"] ELSE transfer[x]]

\* slskd cancels the transfer if there was one; then the job is finished.
CancelFinishes(r) ==
  /\ req[r].pc = "cancelling"
  /\ CancelTransfer(req[r].batch)
  /\ FinishJob(req[r].job, "cancelled", TRUE)
  /\ EndRequest(r)
  /\ UNCHANGED <<disk, jobs, records, pc, gate, cache, phase>>

CancelFails(r) ==
  /\ req[r].pc = "cancelling" /\ req[r].batch # NoTransfer /\ Happens("outage")
  /\ EndRequest(r)
  /\ UNCHANGED <<disk, transfer, coordinator, cache, phase>>

-----------------------------------------------------------------------------
\* Eviction.  Every release of either provider, every completed file and the
\* start of the process call CacheStatus.Prune, which evicts if it has to.

\* SetTrackPinChecker is called once the jobs are resumed.
IsTrackPinned(k) == phase # "loaded" /\ k \in Pinned

Evictable(j) == job[j].state = "cached" /\ active[KeyOf(j)] = 0 /\ ~IsTrackPinned(KeyOf(j))

EvictCollect ==
  /\ IF phase = "loaded" THEN Happens("pruneAtStart") ELSE Happens("evict")
  /\ phase # "closed" /\ ~cacheMu
  /\ cacheMu' = TRUE
  /\ candidates' = {j \in Jobs : Recorded(j) /\ Evictable(j)}
  /\ UNCHANGED <<disk, transfer, coordinator, active, removed, req, phase>>

\* The next candidate, in the order of last access (any order here); its file may
\* be missing.  Other keys may have the same path, and readers.
EvictRemove(j) ==
  /\ j \in candidates /\ removed = NoJob
  /\ final' = final \ {PathOf[KeyOf(j)]}
  /\ candidates' = candidates \ {j}
  /\ removed' = j
  /\ UNCHANGED <<saved, transfer, coordinator, active, cacheMu, req, phase>>

MarkEvicted(j) ==
  /\ removed = j
  /\ job' = [job EXCEPT ![j].state = "evicted"]
  /\ saved' = [saved EXCEPT ![KeyOf(j)] = [Snapshot(j) EXCEPT !.state = "evicted"]]
  /\ removed' = NoJob
  /\ UNCHANGED <<final, transfer, jobs, records, pc, fin, gate, active, cacheMu,
                 candidates, req, phase>>

\* No candidate is left, or enough is freed.
EvictDone ==
  /\ cacheMu /\ removed = NoJob
  /\ cacheMu' = FALSE /\ candidates' = {}
  /\ UNCHANGED <<disk, transfer, coordinator, active, removed, req, phase>>

-----------------------------------------------------------------------------
\* The process: resume, close, crash and restart.

ResumeWaiting(j) ==
  /\ job[j].state = "waiting"
  /\ Goto(j, "gate")
  /\ UNCHANGED <<job, gate>>

\* restore does not look at the limit.
ResumeTransfer(j) ==
  /\ job[j].state # "waiting"
  /\ gate' = gate + 1
  /\ job' = [job EXCEPT ![j].slotHeld = TRUE, ![j].monitoring = TRUE]
  /\ Goto(j, "monitor")

ResumeTrackDownloads(j) ==
  /\ phase = "loaded" /\ pc[j] = "restored"
  /\ ResumeWaiting(j) \/ ResumeTransfer(j)
  /\ UNCHANGED <<disk, transfer, jobs, records, fin, cache, req, phase>>

Serve ==
  /\ phase = "loaded" /\ \A j \in Jobs : pc[j] # "restored"
  /\ phase' = "running"
  /\ UNCHANGED <<disk, transfer, coordinator, cache, req>>

\* close cancels the coordinator's context and waits for the goroutines of the
\* jobs; requests that outlive the server's shutdown are not waited for.
Close ==
  /\ Happens("close")
  /\ phase = "running"
  /\ phase' = "closing"
  /\ UNCHANGED <<disk, transfer, coordinator, cache, req>>

CloseWaited ==
  /\ phase = "closing" /\ ~cacheMu
  /\ \A j \in Jobs : pc[j] \in {"none", "created"} /\ fin[j] = "none"
  /\ phase' = "closed"
  /\ UNCHANGED <<disk, transfer, coordinator, cache, req>>

\* restoreJob: what becomes of the record of key k.
Restored(k) ==
  LET rec == saved[k]
      restored == [NewJob(k, rec.state) EXCEPT !.batch = rec.batch, !.retries = rec.retries]
      finished(s) == [restored EXCEPT !.state = s, !.finished = TRUE, !.ready = TRUE]
  IN  CASE HasFile(k) -> finished("cached")
        [] ~HasFile(k) /\ rec.state = "waiting" /\ rec.batch = NoTransfer -> restored
        [] ~HasFile(k) /\ rec.state \in {"queued", "downloading"} ->
             IF rec.batch = NoTransfer THEN finished("failed")
                                       ELSE [restored EXCEPT !.ready = TRUE]
        [] ~HasFile(k) /\ rec.state = "cached" -> finished("evicted")
        [] OTHER -> finished(rec.state)

Idle == [j \in Jobs |-> "none"]

\* loadRecords: object id[k] is the job of key k, and a job that is not finished is taken up.
Kept == {k \in Keys : saved[k] # NoRecord}
Unfinished == {k \in Kept : ~Restored(k).finished}
Load(id) ==
  /\ job' = [j \in Jobs |-> IF \E k \in Kept : id[k] = j
                              THEN Restored(CHOOSE k \in Kept : id[k] = j) ELSE NoJobYet]
  /\ records' = [k \in Keys |-> IF k \in Kept THEN id[k] ELSE NoJob]
  /\ jobs' = [k \in Keys |-> IF k \in Unfinished THEN id[k] ELSE NoJob]
  /\ pc' = [j \in Jobs |-> IF \E k \in Unfinished : id[k] = j THEN "restored" ELSE "none"]
  /\ saved' = [k \in Keys |-> IF k \in Kept THEN [saved[k] EXCEPT !.state = Restored(k).state]
                                             ELSE saved[k]]

\* The process dies at any moment, or exits after close, and the next one loads
\* the records.
Restart ==
  /\ Happens("crash") \/ phase = "closed"
  /\ \E id \in [Keys -> Jobs] : (\A k, l \in Keys : id[k] = id[l] => k = l) /\ Load(id)
  /\ fin' = Idle /\ gate' = 0
  /\ active' = [k \in Keys |-> 0] /\ cacheMu' = FALSE /\ candidates' = {} /\ removed' = NoJob
  /\ req' = [r \in Requests |-> NoRequest]
  /\ phase' = "loaded"
  /\ UNCHANGED <<final, transfer>>

\* The downloads directory may hold files of which no record is left.
Init ==
  /\ scenario \in Scenarios
  /\ saved = [k \in Keys |-> NoRecord] /\ final \in SUBSET {PathOf[k] : k \in scenario.keys}
  /\ transfer = [x \in Transfers |-> NoTransferYet]
  /\ jobs = [k \in Keys |-> NoJob] /\ records = [k \in Keys |-> NoJob]
  /\ job = [j \in Jobs |-> NoJobYet] /\ pc = Idle /\ fin = Idle
  /\ gate = 0 /\ active = [k \in Keys |-> 0]
  /\ cacheMu = FALSE /\ candidates = {} /\ removed = NoJob
  /\ req = [r \in Requests |-> NoRequest] /\ phase = "loaded"

EnqueueStep(j) ==
  \/ AcquireSlot(j) \/ GateCancelled(j) \/ SlotUnused(j) \/ SlotTaken(j) \/ SlotPersisted(j)
  \/ PostFailed(j) \/ PostBackoff(j) \/ \E x \in Transfers : Posted(j, x)
  \/ BackoffPersisted(j) \/ BackoffOver(j) \/ BackoffCancelled(j) \/ BatchPersisted(j)

MonitorStep(j) ==
  \/ MonitorStops(j) \/ MonitorProgress(j) \/ ProgressPersisted(j)
  \/ MonitorSucceeded(j) \/ MonitorFileMissing(j) \/ MonitorRetries(j) \/ RetryPersisted(j)
  \/ MonitorFailed(j) \/ MonitorCancelled(j) \/ NotifyCompleted(j)

FinishStep(j) == FinishRelease(j) \/ FinishPersist(j) \/ FinishRemove(j)

\* What a request begins, and how it goes on.
RequestBegins(r) ==
  \E k \in scenario.keys :
    \/ ResolveCached(r, k) \/ ResolveMissing(r, k)
    \/ RetryTrackDownload(r, k) \/ CancelTrackDownload(r, k)
RequestStep(r) ==
  \/ EnsureExisting(r) \/ EnsureStart(r) \/ OpenStream(r) \/ OpenFails(r)
  \/ \E j \in Jobs : EnsureNew(r, j)
  \/ CancelStops(r) \/ CancelFinishes(r) \/ CancelFails(r)

Steps ==
  \/ /\ phase # "closed"
     /\ \/ \E j \in Jobs : \/ EnqueueStep(j) \/ MonitorStep(j) \/ FinishStep(j)
                           \/ TrackDownloads(j) \/ EvictRemove(j) \/ MarkEvicted(j)
                           \/ ResumeTrackDownloads(j)
        \/ \E r \in Requests : RequestBegins(r) \/ RequestStep(r) \/ WaitCancelled(r) \/ CloseReader(r)
        \/ EvictCollect \/ EvictDone \/ Serve \/ Close \/ CloseWaited
  \/ \E x \in Transfers : TransferStep(x) \/ TransferSucceeds(x)
  \/ Restart

Next == Steps /\ UNCHANGED scenario

Spec == Init /\ [][Next]_vars

-----------------------------------------------------------------------------
\* Safety.

\* Every slot of the gate belongs to a job that will give it back.
SlotHolders == {j \in Jobs : job[j].slotHeld \/ pc[j] = "slotted" \/ fin[j] = "slot"}
SlotsHeld == gate = Cardinality(SlotHolders)

\* While slskd answers, a job that slskd has accepted fails only when slskd has ended its
\* transfer, which was rejected, broke off, is no longer listed, or succeeded and its file
\* was evicted before the monitor looked for it; in particular not because the server
\* stops, in order or not, and not because somebody cancels it.  One that slskd has not
\* accepted fails only when slskd refuses it, or the server stops or somebody cancels it
\* while it is sent.
MayFailUnsent == Happens("refuse") \/ Happens("cancel") \/ Happens("close") \/ Happens("crash")
FailuresExplained ==
  ~Happens("outage") =>
    \A j \in Jobs : Recorded(j) /\ job[j].state = "failed" =>
      IF job[j].batch = NoTransfer THEN MayFailUnsent
      ELSE TransferOf(j) \in {"rejected", "aborted", "gone", "succeeded"}

\* The record of a job in progress is one of a job in progress, or says that the
\* file is there, so that a restart takes it up again, or marks it failed if it died
\* while the file was sent ("queued", without a batch).  (A cancelled or evicted job may
\* write its record after its successor has.)
Undisturbed == ~Happens("cancel") /\ ~Happens("evict") /\ ~Happens("pruneAtStart")
JobsRecorded ==
  Undisturbed => \A k \in Keys :
    jobs[k] # NoJob /\ ~job[jobs[k]].finished /\ pc[jobs[k]] # "created"
      => saved[k].state \in ActiveStates \/ (saved[k].state = "cached" /\ HasFile(k))

\* What restoreJob expects of a record: one that waits has no batch, one that downloads
\* has one; and no unfinished job is left without its goroutine, unless a cancellation
\* that has stopped it is about to finish it.
BeingCancelled(j) ==
  \E r \in Requests : req[r].pc = "cancelling" /\ req[r].job = j /\ req[r].batch = NoTransfer
RecordsRestorable ==
  /\ \A k \in Keys : /\ saved[k].state = "waiting" => saved[k].batch = NoTransfer
                     /\ saved[k].state = "downloading" => saved[k].batch # NoTransfer
  /\ \A k \in Keys : records[k] # NoJob /\ ~job[records[k]].finished /\ ~Closing
                       => /\ jobs[k] = records[k]
                          /\ pc[jobs[k]] # "none" \/ BeingCancelled(jobs[k])

\* No file is evicted under a reader of its key, or under a request that is about to read
\* it.  Readers are counted per key: the file goes under one of another key with the same
\* path, and then only because a key that nobody reads was evicted.
EvictedAs(j, p) == j \in candidates \ candidates' /\ PathOf[KeyOf(j)] = p /\ active[KeyOf(j)] = 0
ActiveKept ==
  [][\A p \in final \ final' : \E j \in Jobs :
       /\ EvictedAs(j, p)
       /\ \A r \in Requests : req[r].reads => req[r].key # KeyOf(j)]_vars

\* "Active streams are protected": no file is evicted while somebody reads it.
StreamsProtected ==
  [][\A p \in final \ final' : \A r \in Requests : req[r].reads => PathOf[req[r].key] # p]_vars

-----------------------------------------------------------------------------
\* Liveness.  The goroutine of a job runs, a request that has begun goes on, an
\* eviction ends and slskd ends its transfers.  A released slot wakes all that wait
\* for one: a job that newcomers beat to it for ever is left out.  A process that is
\* to be closed is closed at some time.
Within(A) == A /\ UNCHANGED scenario
Fairness ==
  /\ \A j \in Jobs :
       /\ WF_vars(Within(EnqueueStep(j))) /\ WF_vars(Within(MonitorStep(j)))
       /\ WF_vars(Within(FinishStep(j))) /\ SF_vars(Within(AcquireSlot(j)))
       /\ WF_vars(Within(MarkEvicted(j))) /\ WF_vars(Within(ResumeTrackDownloads(j)))
  /\ \A r \in Requests : WF_vars(Within(RequestStep(r)))
  /\ \A x \in Transfers : WF_vars(Within(TransferStep(x) \/ TransferSucceeds(x)))
  /\ WF_vars(Within(EvictDone)) /\ WF_vars(Within(Serve))
  /\ WF_vars(Within(Close)) /\ WF_vars(Within(CloseWaited))

FairSpec == Spec /\ Fairness

\* A request that waits for a job is answered: every way in which a job begins its
\* transfer or ends wakes the requests that wait for it.
RequestsAnswered ==
  \A r \in Requests : req[r].pc = "waiting" ~> req[r].pc # "waiting" \/ Closing

\* A job comes to an end: it leaves the map, and the next request makes a new one.
JobsEnd == \A j \in Jobs : pc[j] = "gate" ~> (pc[j] = "none" /\ fin[j] = "none") \/ Closing

\* Close ends.
CloseFinishes == phase = "closing" ~> phase = "closed"
=============================================================================
