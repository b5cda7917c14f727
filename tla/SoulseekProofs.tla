---------------------------- MODULE SoulseekProofs ----------------------------
(* Theorems about SoulseekDownloads, for every value of its constants. *)
EXTENDS SoulseekDownloads, Counting

-----------------------------------------------------------------------------
\* The inductive invariant.

\* The fields of the structures, and what refers to what.
Shape ==
  /\ DOMAIN saved = Keys /\ DOMAIN transfer = Transfers /\ DOMAIN job = Jobs
  /\ DOMAIN req = Requests /\ DOMAIN active = Keys
  /\ \A k \in Keys : DOMAIN saved[k] = {"state", "batch", "retries"}
  /\ \A x \in Transfers : DOMAIN transfer[x] = {"key", "state"}
  /\ \A j \in Jobs : DOMAIN job[j] = {"key", "state", "batch", "retries", "attempt", "finished",
                                      "err", "slotHeld", "ready", "cancelled", "monitoring"}
  /\ \A r \in Requests : DOMAIN req[r] = {"pc", "key", "job", "batch", "reads"}
  /\ scenario \in Scenarios

CancelPC == {"stopping", "cancelling"}
RequestsOK == \A r \in Requests :
  /\ req[r].pc # "idle" => req[r].key \in Keys
  /\ req[r].pc \in {"persist", "waiting"} \cup CancelPC => req[r].job \in Jobs
  /\ req[r].pc \in CancelPC => ~req[r].reads /\ Happens("cancel")
  /\ req[r].pc = "stopping" => req[r].batch = NoTransfer
  /\ req[r].job \in Jobs \cup {NoJob}
  /\ req[r].batch \in Transfers \cup {NoTransfer}

\* A job that ensureDownload has made, and whose goroutine it has not started, is its own.
CreatedOwned ==
  /\ \A r \in Requests : req[r].pc = "persist" => pc[req[r].job] = "created"
  /\ \A r, q \in Requests : req[r].pc = "persist" /\ req[q].pc = "persist"
                               /\ req[r].job = req[q].job => r = q

\* An object that someone still works with.
InUse(j) == pc[j] # "none" \/ job[j].slotHeld \/ Recorded(j) \/ \E r \in Requests : req[r].job = j

\* The maps agree, and an unfinished job, or one that is finishing, is in both.
MapsOK ==
  /\ \A k \in Keys : jobs[k] # NoJob => records[k] = jobs[k]
  /\ \A k \in Keys : records[k] # NoJob => KeyOf(records[k]) = k
  /\ \A j \in Jobs : InUse(j) /\ ~job[j].finished => KeyOf(j) \in Keys /\ jobs[KeyOf(j)] = j
  /\ \A j \in Jobs : fin[j] # "none" => KeyOf(j) \in Keys /\ jobs[KeyOf(j)] = j /\ job[j].finished

\* Before it has its slot.
EarlyPC == {"created", "restored", "gate", "slotted"}

\* A job holds its slot itself, or its goroutine is about to give it the slot, or
\* finishJob is about to release it.
SlotsOK == \A j \in Jobs :
  /\ job[j].slotHeld => ~job[j].finished
  /\ pc[j] \in EarlyPC => ~job[j].slotHeld /\ fin[j] # "slot"
  /\ job[j].cancelled => job[j].finished \/ BeingCancelled(j)
  /\ pc[j] = "notify" => job[j].finished

\* What SlotsHeld says of a single slot.
SlotsCounted == \A j \in SlotHolders : gate > 0

\* What a step does to the slots and to the readers.
SlotsMove == Counted(SlotHolders, SlotHolders', gate, gate')

\* Readers are counted, and an eviction keeps them out.
Readers(k) == {r \in Requests : req[r].reads /\ req[r].key = k}
ReadersCounted == \A k \in Keys : active[k] = Cardinality(Readers(k))
ReadersMove == \A s \in Keys : Counted(Readers(s), Readers(s)', active[s], active'[s])
EvictionOK ==
  /\ ~cacheMu => candidates = {} /\ removed = NoJob
  /\ \A j \in candidates : KeyOf(j) \in Keys /\ active[KeyOf(j)] = 0
  /\ removed # NoJob => KeyOf(removed) \in Keys
  /\ \A j \in candidates \cup {removed} : j \in Jobs => pc[j] # "restored"

\* Where the goroutine is while the file has not been accepted, and after it has.
UnsentPC == {"created", "gate", "slotted", "persistSlot", "posting", "persistBackoff",
             "backoff", "persistRetry"}
SentPC == {"persistBatch", "monitor", "persistProgress"}

\* What a state of a job and of a record says about the batch.
BatchesOK ==
  /\ \A j \in Jobs :
       /\ job[j].state = "waiting" => job[j].batch = NoTransfer
       /\ job[j].state = "downloading" => job[j].batch # NoTransfer
       /\ pc[j] \in UnsentPC => job[j].batch = NoTransfer
       /\ pc[j] \in SentPC => job[j].batch # NoTransfer
       /\ pc[j] = "restored" =>
            /\ phase = "loaded" /\ ~job[j].finished /\ job[j].state \in ActiveStates
            /\ job[j].state # "waiting" => job[j].batch # NoTransfer
  /\ \A k \in Keys : /\ saved[k].state = "waiting" => saved[k].batch = NoTransfer
                     /\ saved[k].state = "downloading" => saved[k].batch # NoTransfer
                     /\ saved[k].state = "none" => saved[k] = NoRecord

\* An unfinished job has its goroutine, unless it is being cancelled or the server is stopping.
JobsManned ==
  \A j \in Jobs : Recorded(j) /\ ~job[j].finished /\ ~Closing
                    => pc[j] # "none" \/ BeingCancelled(j)

\* Without cancellations and evictions a job is finished by its own goroutine only, and
\* what it leaves in the record of its key stays right.
RecordsOK ==
  Undisturbed =>
    /\ candidates = {} /\ removed = NoJob
    /\ \A r \in Requests : req[r].pc \notin CancelPC
    /\ \A j \in Jobs :
         /\ job[j].finished => pc[j] \in {"none", "notify"}
         /\ ~job[j].finished => job[j].state \in ActiveStates \cup {"cached"}
         /\ job[j].state = "cached" => HasFile(KeyOf(j))
    /\ \A k \in Keys : saved[k].state = "cached" => HasFile(k)
    /\ \A k \in Keys : jobs[k] # NoJob /\ ~job[jobs[k]].finished /\ pc[jobs[k]] # "created"
                         => saved[k].state \in ActiveStates \cup {"cached"}

\* What may be the reason of a failure of the download with batch b.
Explained(b) ==
  IF b = NoTransfer THEN MayFailUnsent
  ELSE transfer[b].state \in {"rejected", "aborted", "gone", "succeeded"}
FailuresOK ==
  /\ Closing => Happens("close")
  /\ \A j \in Jobs : job[j].state = "failed" => job[j].finished /\ pc[j] = "none"
  /\ ~Happens("outage") =>
       /\ \A j \in Jobs : Recorded(j) /\ job[j].state = "failed" => Explained(job[j].batch)
       /\ \A k \in Keys : saved[k].state = "failed" => Explained(saved[k].batch)

IInv ==
  /\ TypeOK /\ Shape /\ RequestsOK /\ CreatedOwned /\ MapsOK /\ SlotsOK /\ SlotsHeld
  /\ ReadersCounted /\ EvictionOK /\ BatchesOK /\ JobsManned /\ RecordsOK /\ FailuresOK

-----------------------------------------------------------------------------
\* The steps, in groups.
EvictStep(j) == TrackDownloads(j) \/ EvictRemove(j) \/ MarkEvicted(j)
RequestAction(r) == RequestBegins(r) \/ RequestStep(r) \/ WaitCancelled(r) \/ CloseReader(r)
ProcessStep == EvictCollect \/ EvictDone \/ Serve \/ Close \/ CloseWaited
SlskdStep(x) == TransferStep(x) \/ TransferSucceeds(x)
Moves ==
  \/ \E j \in Jobs : \/ EnqueueStep(j) \/ MonitorStep(j) \/ FinishStep(j)
                      \/ EvictStep(j) \/ ResumeTrackDownloads(j)
  \/ \E r \in Requests : RequestAction(r)
  \/ ProcessStep
  \/ \E x \in Transfers : SlskdStep(x)

\* A cancellation leaves a transfer as it is, or ends one that has not ended.
LEMMA CancelledTransfers ==
  ASSUME Shape, NEW b, CancelTransfer(b)
  PROVE  /\ DOMAIN transfer' = Transfers
         /\ \A x \in Transfers :
              /\ DOMAIN transfer'[x] = {"key", "state"}
              /\ transfer'[x].key = transfer[x].key
              /\ \/ transfer'[x].state = transfer[x].state
                 \/ transfer[x].state \in {"queued", "inProgress"} /\ transfer'[x].state = "cancelled"
BY DEF Shape, CancelTransfer

\* Types are kept. The gate stays a natural because whoever gives a slot back is counted.
LEMMA TypeOKStep ==
  ASSUME TypeOK, Shape, RequestsOK, CreatedOwned, MapsOK, EvictionOK, SlotsCounted,
         BatchesOK, Moves, UNCHANGED scenario
  PROVE  TypeOK'
<1> USE ConstantsAssumption DEF Shape, TypeOK, DiskTypeOK, TransferTypeOK,
          CoordinatorTypeOK, CacheTypeOK, Goto, Persist, Snapshot, KeyOf
<1> USE DEF JobPC, FinPC, RequestPC, States, ActiveStates, Retryable, TransferStates,
          NoTransferYet, NoRequest, NoRecord, NewJob, HasFile, CancelPC
<1> USE DEF disk, coordinator, cache
<1> USE DEF RequestsOK, CreatedOwned, EvictionOK, SlotsCounted, SlotHolders, Recorded,
          Monitored
<1>1. ASSUME NEW j \in Jobs, EnqueueStep(j) PROVE TypeOK'
  <2>1. CASE AcquireSlot(j)
    BY <2>1 DEF AcquireSlot
  <2>2. CASE GateCancelled(j)
    BY <2>2 DEF GateCancelled
  <2>3. CASE SlotUnused(j)
    BY <2>3 DEF SlotUnused
  <2>4. CASE SlotTaken(j)
    BY <2>4 DEF SlotTaken
  <2>5. CASE SlotPersisted(j)
    BY <2>5 DEF SlotPersisted, PersistThen
  <2>6. CASE PostFailed(j)
    <3> HIDE DEF EvictionOK, CreatedOwned, RequestsOK, SlotsCounted, Recorded
    <3>1. TransferTypeOK'
      BY <2>6 DEF PostFailed, AnswerLost
    <3>2. CoordinatorTypeOK'
      BY <2>6 DEF PostFailed, FinishJob
    <3> QED BY <2>6, <3>1, <3>2 DEF PostFailed
  <2>7. CASE PostBackoff(j)
    <3> HIDE DEF EvictionOK, CreatedOwned, RequestsOK, SlotsCounted, Recorded
    <3> QED BY <2>7 DEF PostBackoff, AnswerLost
  <2>8. ASSUME NEW x \in Transfers, Posted(j, x) PROVE TypeOK'
    BY <2>8 DEF Posted
  <2>9. CASE BackoffPersisted(j)
    BY <2>9 DEF BackoffPersisted, PersistThen
  <2>10. CASE BackoffOver(j)
    BY <2>10 DEF BackoffOver
  <2>11. CASE BackoffCancelled(j)
    BY <2>11 DEF BackoffCancelled, FinishJob
  <2>12. CASE BatchPersisted(j)
    BY <2>12 DEF BatchPersisted
  <2> QED BY <1>1, <2>1, <2>2, <2>3, <2>4, <2>5, <2>6, <2>7, <2>8, <2>9, <2>10, <2>11, <2>12 DEF EnqueueStep
<1>2. ASSUME NEW j \in Jobs, MonitorStep(j) PROVE TypeOK'
  <2>1. CASE MonitorStops(j)
    BY <2>1 DEF MonitorStops
  <2>2. CASE MonitorProgress(j)
    BY <2>2 DEF MonitorProgress
  <2>3. CASE ProgressPersisted(j)
    BY <2>3 DEF ProgressPersisted, PersistThen
  <2>4. CASE MonitorSucceeded(j)
    BY <2>4 DEF MonitorSucceeded, MonitorFinishes, FinishJob
  <2>5. CASE MonitorFileMissing(j)
    <3> HIDE DEF EvictionOK, CreatedOwned, RequestsOK, SlotsCounted, Recorded
    <3> QED BY <2>5 DEF MonitorFileMissing, MonitorFinishes, FinishJob
  <2>6. CASE MonitorRetries(j)
    BY <2>6 DEF MonitorRetries, PrepareAutomaticRetry, MayRetry
  <2>7. CASE RetryPersisted(j)
    BY <2>7 DEF RetryPersisted, PersistThen
  <2>8. CASE MonitorFailed(j)
    BY <2>8 DEF MonitorFailed, MonitorFinishes, FinishJob
  <2>9. CASE MonitorCancelled(j)
    BY <2>9 DEF MonitorCancelled, MonitorFinishes, FinishJob
  <2>10. CASE NotifyCompleted(j)
    BY <2>10 DEF NotifyCompleted
  <2> QED BY <1>2, <2>1, <2>2, <2>3, <2>4, <2>5, <2>6, <2>7, <2>8, <2>9, <2>10 DEF MonitorStep
<1>3. ASSUME NEW j \in Jobs, FinishStep(j) PROVE TypeOK'
  <2>1. CASE FinishRelease(j)
    BY <2>1 DEF FinishRelease, ReleaseSlot
  <2>2. CASE FinishPersist(j)
    BY <2>2 DEF FinishPersist
  <2>3. CASE FinishRemove(j)
    BY <2>3 DEF FinishRemove
  <2> QED BY <1>3, <2>1, <2>2, <2>3 DEF FinishStep
<1>4. ASSUME NEW j \in Jobs, EvictStep(j) PROVE TypeOK'
  <2>1. CASE TrackDownloads(j)
    BY <2>1 DEF TrackDownloads
  <2>2. CASE EvictRemove(j)
    BY <2>2 DEF EvictRemove
  <2>3. CASE MarkEvicted(j)
    BY <2>3 DEF MarkEvicted
  <2> QED BY <1>4, <2>1, <2>2, <2>3 DEF EvictStep
<1>5. ASSUME NEW j \in Jobs, ResumeTrackDownloads(j) PROVE TypeOK'
  BY <1>5 DEF ResumeTrackDownloads, ResumeWaiting, ResumeTransfer
<1>6. ASSUME NEW r \in Requests, RequestAction(r) PROVE TypeOK'
  <2>1. ASSUME NEW k \in scenario.keys, ResolveCached(r, k) PROVE TypeOK'
    <3>1. ASSUME NEW j \in Jobs, RememberKnown(k, j) PROVE TypeOK'
      BY <2>1, <3>1 DEF ResolveCached, NewRequest, ReaderBegins, RememberKnown
    <3>2. ASSUME NEW j \in Jobs, RememberNew(k, j) PROVE TypeOK'
      BY <2>1, <3>2 DEF ResolveCached, NewRequest, ReaderBegins, RememberNew
    <3> QED BY <2>1, <3>1, <3>2 DEF ResolveCached
  <2>2. ASSUME NEW k \in scenario.keys, ResolveMissing(r, k) PROVE TypeOK'
    BY <2>2 DEF ResolveMissing, NewRequest, ReaderBegins
  <2>3. ASSUME NEW k \in scenario.keys, RetryTrackDownload(r, k) PROVE TypeOK'
    BY <2>3 DEF RetryTrackDownload, NewRequest
  <2>4. ASSUME NEW k \in scenario.keys, CancelTrackDownload(r, k) PROVE TypeOK'
    BY <2>4 DEF CancelTrackDownload, NewRequest
  <2>5. CASE EnsureExisting(r)
    BY <2>5 DEF EnsureExisting
  <2>6. CASE EnsureStart(r)
    BY <2>6 DEF EnsureStart
  <2>7. CASE OpenStream(r)
    BY <2>7 DEF OpenStream, EndRequest
  <2>8. CASE OpenFails(r)
    BY <2>8 DEF OpenFails, LeaveRequest, EndRequest, ReaderEnds
  <2>9. ASSUME NEW j \in Jobs, EnsureNew(r, j) PROVE TypeOK'
    BY <2>9 DEF EnsureNew
  <2>10. CASE CancelFinishes(r)
    <3>1. PICK j \in Jobs : j = req[r].job
      BY <2>10 DEF CancelFinishes, RequestsOK
    <3>2. req[r].pc = "cancelling" /\ FinishJob(j, "cancelled", TRUE) /\ EndRequest(r)
      BY <2>10, <3>1 DEF CancelFinishes
    <3>3. UNCHANGED <<disk, jobs, records, pc, gate, cache, phase>>
      BY <2>10 DEF CancelFinishes
    <3>4. CancelTransfer(req[r].batch)
      BY <2>10 DEF CancelFinishes
    <3>5. TransferTypeOK'
      BY <3>4, CancelledTransfers
    <3>6. DiskTypeOK' /\ CacheTypeOK'
      BY <3>3
    <3>7. CoordinatorTypeOK'
      <4>1. ~job[j].finished => job[j].key \in Keys
        BY <3>1 DEF MapsOK, InUse
      <4>2. CASE job[j].finished
        BY <3>2, <3>3, <4>2 DEF FinishJob
      <4>3. CASE ~job[j].finished
        <5>1. /\ job' = [job EXCEPT ![j].finished = TRUE, ![j].state = "cancelled", ![j].err = TRUE,
                                    ![j].slotHeld = FALSE, ![j].cancelled = TRUE]
              /\ fin' = [fin EXCEPT ![j] = IF job[j].slotHeld THEN "slot" ELSE "noSlot"]
          BY <3>2, <4>3 DEF FinishJob
        <5> HIDE DEF EvictionOK, CreatedOwned, RequestsOK, SlotsCounted, Recorded, JobPC
        <5> QED BY <3>3, <4>1, <4>3, <5>1
      <4> QED BY <4>2, <4>3
    <3> QED BY <3>2, <3>3, <3>5, <3>6, <3>7 DEF EndRequest
  <2>11. CASE CancelFails(r)
    BY <2>11 DEF CancelFails, EndRequest
  <2>12. CASE WaitCancelled(r)
    BY <2>12 DEF WaitCancelled, LeaveRequest, EndRequest, ReaderEnds
  <2>13. CASE CloseReader(r)
    BY <2>13 DEF CloseReader, LeaveRequest, EndRequest, ReaderEnds
  <2>14. CASE CancelStops(r)
    BY <2>14 DEF CancelStops
  <2> QED BY <1>6, <2>1, <2>2, <2>3, <2>4, <2>5, <2>6, <2>7, <2>8, <2>9, <2>10, <2>11, <2>12, <2>13, <2>14 DEF RequestAction, RequestBegins, RequestStep
<1>7. CASE ProcessStep
  <2>1. CASE EvictCollect
    BY <2>1 DEF EvictCollect, Evictable
  <2>2. CASE EvictDone
    BY <2>2 DEF EvictDone
  <2>3. CASE Serve
    BY <2>3 DEF Serve
  <2>4. CASE Close
    BY <2>4 DEF Close
  <2>5. CASE CloseWaited
    BY <2>5 DEF CloseWaited
  <2> QED BY <1>7, <2>1, <2>2, <2>3, <2>4, <2>5 DEF ProcessStep
<1>8. ASSUME NEW x \in Transfers, SlskdStep(x) PROVE TypeOK'
  BY <1>8 DEF SlskdStep, TransferStep, TransferAdvances, TransferSucceeds
<1> QED BY <1>1, <1>2, <1>3, <1>4, <1>5, <1>6, <1>7, <1>8 DEF Moves

\* The structures keep their fields.
LEMMA ShapeStep ==
  ASSUME TypeOK, Shape, RequestsOK, Moves, UNCHANGED scenario
  PROVE  Shape'
<1> USE ConstantsAssumption DEF Shape, TypeOK, DiskTypeOK, TransferTypeOK,
          CoordinatorTypeOK, CacheTypeOK, Goto, Persist, Snapshot, KeyOf
<1> USE DEF JobPC, FinPC, RequestPC, States, ActiveStates, Retryable, TransferStates,
          NoTransferYet, NoRequest, NoRecord, NewJob, HasFile, CancelPC
<1> USE DEF disk, coordinator, cache
<1> USE DEF RequestsOK
<1>1. ASSUME NEW j \in Jobs, EnqueueStep(j) PROVE Shape'
  <2>1. CASE AcquireSlot(j)
    BY <2>1 DEF AcquireSlot
  <2>2. CASE GateCancelled(j)
    BY <2>2 DEF GateCancelled
  <2>3. CASE SlotUnused(j)
    BY <2>3 DEF SlotUnused
  <2>4. CASE SlotTaken(j)
    BY <2>4 DEF SlotTaken
  <2>5. CASE SlotPersisted(j)
    BY <2>5 DEF SlotPersisted, PersistThen
  <2>6. CASE PostFailed(j)
    BY <2>6 DEF PostFailed, AnswerLost, FinishJob
  <2>7. CASE PostBackoff(j)
    BY <2>7 DEF PostBackoff, AnswerLost
  <2>8. ASSUME NEW x \in Transfers, Posted(j, x) PROVE Shape'
    BY <2>8 DEF Posted
  <2>9. CASE BackoffPersisted(j)
    BY <2>9 DEF BackoffPersisted, PersistThen
  <2>10. CASE BackoffOver(j)
    BY <2>10 DEF BackoffOver
  <2>11. CASE BackoffCancelled(j)
    BY <2>11 DEF BackoffCancelled, FinishJob
  <2>12. CASE BatchPersisted(j)
    BY <2>12 DEF BatchPersisted
  <2> QED BY <1>1, <2>1, <2>2, <2>3, <2>4, <2>5, <2>6, <2>7, <2>8, <2>9, <2>10, <2>11, <2>12 DEF EnqueueStep
<1>2. ASSUME NEW j \in Jobs, MonitorStep(j) PROVE Shape'
  <2>1. CASE MonitorStops(j)
    BY <2>1 DEF MonitorStops
  <2>2. CASE MonitorProgress(j)
    BY <2>2 DEF MonitorProgress
  <2>3. CASE ProgressPersisted(j)
    BY <2>3 DEF ProgressPersisted, PersistThen
  <2>4. CASE MonitorSucceeded(j)
    BY <2>4 DEF MonitorSucceeded, MonitorFinishes, FinishJob
  <2>5. CASE MonitorFileMissing(j)
    BY <2>5 DEF MonitorFileMissing, MonitorFinishes, FinishJob
  <2>6. CASE MonitorRetries(j)
    BY <2>6 DEF MonitorRetries, PrepareAutomaticRetry, MayRetry
  <2>7. CASE RetryPersisted(j)
    BY <2>7 DEF RetryPersisted, PersistThen
  <2>8. CASE MonitorFailed(j)
    BY <2>8 DEF MonitorFailed, MonitorFinishes, FinishJob
  <2>9. CASE MonitorCancelled(j)
    BY <2>9 DEF MonitorCancelled, MonitorFinishes, FinishJob
  <2>10. CASE NotifyCompleted(j)
    BY <2>10 DEF NotifyCompleted
  <2> QED BY <1>2, <2>1, <2>2, <2>3, <2>4, <2>5, <2>6, <2>7, <2>8, <2>9, <2>10 DEF MonitorStep
<1>3. ASSUME NEW j \in Jobs, FinishStep(j) PROVE Shape'
  BY <1>3 DEF FinishStep, FinishRelease, ReleaseSlot, FinishPersist, FinishRemove
<1>4. ASSUME NEW j \in Jobs, EvictStep(j) PROVE Shape'
  BY <1>4 DEF EvictStep, TrackDownloads, EvictRemove, MarkEvicted
<1>5. ASSUME NEW j \in Jobs, ResumeTrackDownloads(j) PROVE Shape'
  BY <1>5 DEF ResumeTrackDownloads, ResumeWaiting, ResumeTransfer
<1>6. ASSUME NEW r \in Requests, RequestAction(r) PROVE Shape'
  <2>1. ASSUME NEW k \in scenario.keys, ResolveCached(r, k) PROVE Shape'
    <3>1. ASSUME NEW j \in Jobs, RememberKnown(k, j) PROVE Shape'
      BY <2>1, <3>1 DEF ResolveCached, NewRequest, ReaderBegins, RememberKnown
    <3>2. ASSUME NEW j \in Jobs, RememberNew(k, j) PROVE Shape'
      BY <2>1, <3>2 DEF ResolveCached, NewRequest, ReaderBegins, RememberNew
    <3> QED BY <2>1, <3>1, <3>2 DEF ResolveCached
  <2>2. ASSUME NEW k \in scenario.keys, ResolveMissing(r, k) PROVE Shape'
    BY <2>2 DEF ResolveMissing, NewRequest, ReaderBegins
  <2>3. ASSUME NEW k \in scenario.keys, RetryTrackDownload(r, k) PROVE Shape'
    BY <2>3 DEF RetryTrackDownload, NewRequest
  <2>4. ASSUME NEW k \in scenario.keys, CancelTrackDownload(r, k) PROVE Shape'
    BY <2>4 DEF CancelTrackDownload, NewRequest
  <2>5. CASE EnsureExisting(r)
    BY <2>5 DEF EnsureExisting
  <2>6. CASE EnsureStart(r)
    BY <2>6 DEF EnsureStart
  <2>7. CASE OpenStream(r)
    BY <2>7 DEF OpenStream, EndRequest
  <2>8. CASE OpenFails(r)
    BY <2>8 DEF OpenFails, LeaveRequest, EndRequest, ReaderEnds
  <2>9. ASSUME NEW j \in Jobs, EnsureNew(r, j) PROVE Shape'
    BY <2>9 DEF EnsureNew
  <2>10. CASE CancelFinishes(r)
    <3>1. PICK j \in Jobs : j = req[r].job
      BY <2>10 DEF CancelFinishes, RequestsOK
    <3>2. req[r].pc = "cancelling" /\ FinishJob(j, "cancelled", TRUE) /\ EndRequest(r)
      BY <2>10, <3>1 DEF CancelFinishes
    <3>3. UNCHANGED <<disk, jobs, records, pc, gate, cache, phase>>
      BY <2>10 DEF CancelFinishes
    <3>4. CancelTransfer(req[r].batch)
      BY <2>10 DEF CancelFinishes
    <3>5. DOMAIN job' = Jobs /\ \A i \in Jobs : DOMAIN job'[i] = DOMAIN job[i]
      BY <3>2 DEF FinishJob
    <3> QED BY <3>2, <3>3, <3>4, <3>5, CancelledTransfers DEF EndRequest
  <2>11. CASE CancelFails(r)
    BY <2>11 DEF CancelFails, EndRequest
  <2>12. CASE WaitCancelled(r)
    BY <2>12 DEF WaitCancelled, LeaveRequest, EndRequest, ReaderEnds
  <2>13. CASE CloseReader(r)
    BY <2>13 DEF CloseReader, LeaveRequest, EndRequest, ReaderEnds
  <2>14. CASE CancelStops(r)
    BY <2>14 DEF CancelStops
  <2> QED BY <1>6, <2>1, <2>2, <2>3, <2>4, <2>5, <2>6, <2>7, <2>8, <2>9, <2>10, <2>11, <2>12, <2>13, <2>14 DEF RequestAction, RequestBegins, RequestStep
<1>7. CASE ProcessStep
  BY <1>7 DEF ProcessStep, EvictCollect, Evictable, EvictDone, Serve, Close, CloseWaited
<1>8. ASSUME NEW x \in Transfers, SlskdStep(x) PROVE Shape'
  BY <1>8 DEF SlskdStep, TransferStep, TransferAdvances, TransferSucceeds
<1> QED BY <1>1, <1>2, <1>3, <1>4, <1>5, <1>6, <1>7, <1>8 DEF Moves

\* A request keeps what it needs for its next step.
LEMMA RequestsOKStep ==
  ASSUME TypeOK, Shape, RequestsOK, Moves, UNCHANGED scenario
  PROVE  RequestsOK'
<1> USE ConstantsAssumption DEF Shape, TypeOK, DiskTypeOK, TransferTypeOK,
          CoordinatorTypeOK, CacheTypeOK, Goto, Persist, Snapshot, KeyOf
<1> USE DEF JobPC, FinPC, RequestPC, States, ActiveStates, Retryable, TransferStates,
          NoTransferYet, NoRequest, NoRecord, NewJob, HasFile, CancelPC
<1> USE DEF disk, coordinator, cache
<1> USE DEF RequestsOK, Happens
<1>1. ASSUME NEW j \in Jobs, EnqueueStep(j) PROVE RequestsOK'
  <2>1. req' = req
    BY <1>1 DEF EnqueueStep, AcquireSlot, GateCancelled, SlotUnused, SlotTaken, SlotPersisted,
          PersistThen, PostFailed, AnswerLost, FinishJob, PostBackoff, Posted,
          BackoffPersisted, BackoffOver, BackoffCancelled, BatchPersisted
  <2> QED BY <2>1
<1>2. ASSUME NEW j \in Jobs, MonitorStep(j) PROVE RequestsOK'
  BY <1>2 DEF MonitorStep, MonitorStops, MonitorProgress, ProgressPersisted, PersistThen,
        MonitorSucceeded, MonitorFinishes, FinishJob, MonitorFileMissing, MonitorRetries,
        PrepareAutomaticRetry, MayRetry, RetryPersisted, MonitorFailed, MonitorCancelled,
        NotifyCompleted
<1>3. ASSUME NEW j \in Jobs, FinishStep(j) PROVE RequestsOK'
  BY <1>3 DEF FinishStep, FinishRelease, ReleaseSlot, FinishPersist, FinishRemove
<1>4. ASSUME NEW j \in Jobs, EvictStep(j) PROVE RequestsOK'
  BY <1>4 DEF EvictStep, TrackDownloads, EvictRemove, MarkEvicted
<1>5. ASSUME NEW j \in Jobs, ResumeTrackDownloads(j) PROVE RequestsOK'
  BY <1>5 DEF ResumeTrackDownloads, ResumeWaiting, ResumeTransfer
<1>6. ASSUME NEW r \in Requests, RequestAction(r) PROVE RequestsOK'
  <2>1. ASSUME NEW k \in scenario.keys, ResolveCached(r, k) PROVE RequestsOK'
    <3>1. ASSUME NEW j \in Jobs, RememberKnown(k, j) PROVE RequestsOK'
      BY <2>1, <3>1 DEF ResolveCached, NewRequest, ReaderBegins, RememberKnown
    <3>2. ASSUME NEW j \in Jobs, RememberNew(k, j) PROVE RequestsOK'
      BY <2>1, <3>2 DEF ResolveCached, NewRequest, ReaderBegins, RememberNew
    <3> QED BY <2>1, <3>1, <3>2 DEF ResolveCached
  <2>2. ASSUME NEW k \in scenario.keys, ResolveMissing(r, k) PROVE RequestsOK'
    BY <2>2 DEF ResolveMissing, NewRequest, ReaderBegins
  <2>3. ASSUME NEW k \in scenario.keys, RetryTrackDownload(r, k) PROVE RequestsOK'
    BY <2>3 DEF RetryTrackDownload, NewRequest
  <2>4. ASSUME NEW k \in scenario.keys, CancelTrackDownload(r, k) PROVE RequestsOK'
    BY <2>4 DEF CancelTrackDownload, NewRequest, Stoppable
  <2>5. CASE EnsureExisting(r)
    BY <2>5 DEF EnsureExisting
  <2>6. CASE EnsureStart(r)
    BY <2>6 DEF EnsureStart
  <2>7. CASE OpenStream(r)
    BY <2>7 DEF OpenStream, EndRequest
  <2>8. CASE OpenFails(r)
    BY <2>8 DEF OpenFails, LeaveRequest, EndRequest, ReaderEnds
  <2>9. ASSUME NEW j \in Jobs, EnsureNew(r, j) PROVE RequestsOK'
    BY <2>9 DEF EnsureNew
  <2>10. CASE CancelFinishes(r)
    <3>1. PICK j \in Jobs : j = req[r].job
      BY <2>10 DEF CancelFinishes, RequestsOK
    <3>2. req[r].pc = "cancelling" /\ FinishJob(j, "cancelled", TRUE) /\ EndRequest(r)
      BY <2>10, <3>1 DEF CancelFinishes
    <3>3. UNCHANGED <<disk, jobs, records, pc, gate, cache, phase>>
      BY <2>10 DEF CancelFinishes
    <3>4. CancelTransfer(req[r].batch)
      BY <2>10 DEF CancelFinishes
    <3> QED BY <3>1, <3>2, <3>3, <3>4, CancelledTransfers DEF EndRequest, FinishJob
  <2>11. CASE CancelFails(r)
    BY <2>11 DEF CancelFails, EndRequest
  <2>12. CASE WaitCancelled(r)
    BY <2>12 DEF WaitCancelled, LeaveRequest, EndRequest, ReaderEnds
  <2>13. CASE CloseReader(r)
    BY <2>13 DEF CloseReader, LeaveRequest, EndRequest, ReaderEnds
  <2>14. CASE CancelStops(r)
    BY <2>14 DEF CancelStops
  <2> QED BY <1>6, <2>1, <2>2, <2>3, <2>4, <2>5, <2>6, <2>7, <2>8, <2>9, <2>10, <2>11, <2>12, <2>13, <2>14 DEF RequestAction, RequestBegins, RequestStep
<1>7. CASE ProcessStep
  BY <1>7 DEF ProcessStep, EvictCollect, Evictable, EvictDone, Serve, Close, CloseWaited
<1>8. ASSUME NEW x \in Transfers, SlskdStep(x) PROVE RequestsOK'
  BY <1>8 DEF SlskdStep, TransferStep, TransferAdvances, TransferSucceeds
<1> QED BY <1>1, <1>2, <1>3, <1>4, <1>5, <1>6, <1>7, <1>8 DEF Moves

\* A job object is new to the request that makes it.
LEMMA CreatedOwnedStep ==
  ASSUME TypeOK, Shape, RequestsOK, CreatedOwned, Moves, UNCHANGED scenario
  PROVE  CreatedOwned'
<1> USE ConstantsAssumption DEF Shape, TypeOK, DiskTypeOK, TransferTypeOK,
          CoordinatorTypeOK, CacheTypeOK, Goto, Persist, Snapshot, KeyOf
<1> USE DEF JobPC, FinPC, RequestPC, States, ActiveStates, Retryable, TransferStates,
          NoTransferYet, NoRequest, NoRecord, NewJob, HasFile, CancelPC
<1> USE DEF disk, coordinator, cache
<1> USE DEF RequestsOK, CreatedOwned, Free, Monitored
<1>1. ASSUME NEW j \in Jobs, EnqueueStep(j) PROVE CreatedOwned'
  <2>1. CASE AcquireSlot(j)
    BY <2>1 DEF AcquireSlot
  <2>2. CASE GateCancelled(j)
    BY <2>2 DEF GateCancelled
  <2>3. CASE SlotUnused(j)
    BY <2>3 DEF SlotUnused
  <2>4. CASE SlotTaken(j)
    BY <2>4 DEF SlotTaken
  <2>5. CASE SlotPersisted(j)
    BY <2>5 DEF SlotPersisted, PersistThen
  <2>6. CASE PostFailed(j)
    BY <2>6 DEF PostFailed, AnswerLost, FinishJob
  <2>7. CASE PostBackoff(j)
    BY <2>7 DEF PostBackoff, AnswerLost
  <2>8. ASSUME NEW x \in Transfers, Posted(j, x) PROVE CreatedOwned'
    BY <2>8 DEF Posted
  <2>9. CASE BackoffPersisted(j)
    BY <2>9 DEF BackoffPersisted, PersistThen
  <2>10. CASE BackoffOver(j)
    BY <2>10 DEF BackoffOver
  <2>11. CASE BackoffCancelled(j)
    BY <2>11 DEF BackoffCancelled, FinishJob
  <2>12. CASE BatchPersisted(j)
    BY <2>12 DEF BatchPersisted
  <2> QED BY <1>1, <2>1, <2>2, <2>3, <2>4, <2>5, <2>6, <2>7, <2>8, <2>9, <2>10, <2>11, <2>12 DEF EnqueueStep
<1>2. ASSUME NEW j \in Jobs, MonitorStep(j) PROVE CreatedOwned'
  BY <1>2 DEF MonitorStep, MonitorStops, MonitorProgress, ProgressPersisted, PersistThen,
        MonitorSucceeded, MonitorFinishes, FinishJob, MonitorFileMissing, MonitorRetries,
        PrepareAutomaticRetry, MayRetry, RetryPersisted, MonitorFailed, MonitorCancelled,
        NotifyCompleted
<1>3. ASSUME NEW j \in Jobs, FinishStep(j) PROVE CreatedOwned'
  BY <1>3 DEF FinishStep, FinishRelease, ReleaseSlot, FinishPersist, FinishRemove
<1>4. ASSUME NEW j \in Jobs, EvictStep(j) PROVE CreatedOwned'
  BY <1>4 DEF EvictStep, TrackDownloads, EvictRemove, MarkEvicted
<1>5. ASSUME NEW j \in Jobs, ResumeTrackDownloads(j) PROVE CreatedOwned'
  BY <1>5 DEF ResumeTrackDownloads, ResumeWaiting, ResumeTransfer
<1>6. ASSUME NEW r \in Requests, RequestAction(r) PROVE CreatedOwned'
  <2>1. ASSUME NEW k \in scenario.keys, ResolveCached(r, k) PROVE CreatedOwned'
    <3>1. ASSUME NEW j \in Jobs, RememberKnown(k, j) PROVE CreatedOwned'
      BY <2>1, <3>1 DEF ResolveCached, NewRequest, ReaderBegins, RememberKnown
    <3>2. ASSUME NEW j \in Jobs, RememberNew(k, j) PROVE CreatedOwned'
      BY <2>1, <3>2 DEF ResolveCached, NewRequest, ReaderBegins, RememberNew
    <3> QED BY <2>1, <3>1, <3>2 DEF ResolveCached
  <2>2. ASSUME NEW k \in scenario.keys, ResolveMissing(r, k) PROVE CreatedOwned'
    BY <2>2 DEF ResolveMissing, NewRequest, ReaderBegins
  <2>3. ASSUME NEW k \in scenario.keys, RetryTrackDownload(r, k) PROVE CreatedOwned'
    BY <2>3 DEF RetryTrackDownload, NewRequest
  <2>4. ASSUME NEW k \in scenario.keys, CancelTrackDownload(r, k) PROVE CreatedOwned'
    BY <2>4 DEF CancelTrackDownload, NewRequest
  <2>5. CASE EnsureExisting(r)
    BY <2>5 DEF EnsureExisting
  <2>6. CASE EnsureStart(r)
    BY <2>6 DEF EnsureStart
  <2>7. CASE OpenStream(r)
    BY <2>7 DEF OpenStream, EndRequest
  <2>8. CASE OpenFails(r)
    BY <2>8 DEF OpenFails, LeaveRequest, EndRequest, ReaderEnds
  <2>9. ASSUME NEW j \in Jobs, EnsureNew(r, j) PROVE CreatedOwned'
    BY <2>9 DEF EnsureNew
  <2>10. CASE CancelFinishes(r)
    <3>1. PICK j \in Jobs : j = req[r].job
      BY <2>10 DEF CancelFinishes, RequestsOK
    <3>2. req[r].pc = "cancelling" /\ FinishJob(j, "cancelled", TRUE) /\ EndRequest(r)
      BY <2>10, <3>1 DEF CancelFinishes
    <3>3. UNCHANGED <<disk, jobs, records, pc, gate, cache, phase>>
      BY <2>10 DEF CancelFinishes
    <3>4. CancelTransfer(req[r].batch)
      BY <2>10 DEF CancelFinishes
    <3> QED BY <3>1, <3>2, <3>3, <3>4, CancelledTransfers DEF EndRequest, FinishJob
  <2>11. CASE CancelFails(r)
    BY <2>11 DEF CancelFails, EndRequest
  <2>12. CASE WaitCancelled(r)
    BY <2>12 DEF WaitCancelled, LeaveRequest, EndRequest, ReaderEnds
  <2>13. CASE CloseReader(r)
    BY <2>13 DEF CloseReader, LeaveRequest, EndRequest, ReaderEnds
  <2>14. CASE CancelStops(r)
    BY <2>14 DEF CancelStops
  <2> QED BY <1>6, <2>1, <2>2, <2>3, <2>4, <2>5, <2>6, <2>7, <2>8, <2>9, <2>10, <2>11, <2>12, <2>13, <2>14 DEF RequestAction, RequestBegins, RequestStep
<1>7. CASE ProcessStep
  BY <1>7 DEF ProcessStep, EvictCollect, Evictable, EvictDone, Serve, Close, CloseWaited
<1>8. ASSUME NEW x \in Transfers, SlskdStep(x) PROVE CreatedOwned'
  BY <1>8 DEF SlskdStep, TransferStep, TransferAdvances, TransferSucceeds
<1> QED BY <1>1, <1>2, <1>3, <1>4, <1>5, <1>6, <1>7, <1>8 DEF Moves

\* The maps keep agreeing: finishJob removes a job only when it is finished, and
\* ensureDownload makes one only when there is none.
LEMMA MapsOKStep ==
  ASSUME TypeOK, Shape, RequestsOK, CreatedOwned, MapsOK, SlotsOK, BatchesOK, Moves,
         UNCHANGED scenario
  PROVE  MapsOK'
<1> USE ConstantsAssumption DEF Shape, TypeOK, DiskTypeOK, TransferTypeOK,
          CoordinatorTypeOK, CacheTypeOK, Goto, Persist, Snapshot, KeyOf
<1> USE DEF JobPC, FinPC, RequestPC, States, ActiveStates, Retryable, TransferStates,
          NoTransferYet, NoRequest, NoRecord, NewJob, HasFile, CancelPC
<1> USE DEF disk, coordinator, cache
<1> USE DEF RequestsOK, CreatedOwned, MapsOK, SlotsOK, EarlyPC, Free, InUse, Recorded,
          Monitored
<1>1. ASSUME NEW j \in Jobs, EnqueueStep(j) PROVE MapsOK'
  <2>1. CASE AcquireSlot(j)
    BY <2>1 DEF AcquireSlot
  <2>2. CASE GateCancelled(j)
    BY <2>2 DEF GateCancelled
  <2>3. CASE SlotUnused(j)
    BY <2>3 DEF SlotUnused
  <2>4. CASE SlotTaken(j)
    BY <2>4 DEF SlotTaken
  <2>5. CASE SlotPersisted(j)
    BY <2>5 DEF SlotPersisted, PersistThen
  <2>6. CASE PostFailed(j)
    <3> HIDE DEF RequestsOK, CreatedOwned, SlotsOK, DiskTypeOK, TransferTypeOK, CacheTypeOK, HasFile, Snapshot, Persist
    <3> QED BY <2>6 DEF PostFailed, AnswerLost, FinishJob
  <2>7. CASE PostBackoff(j)
    BY <2>7 DEF PostBackoff, AnswerLost
  <2>8. ASSUME NEW x \in Transfers, Posted(j, x) PROVE MapsOK'
    BY <2>8 DEF Posted
  <2>9. CASE BackoffPersisted(j)
    BY <2>9 DEF BackoffPersisted, PersistThen
  <2>10. CASE BackoffOver(j)
    BY <2>10 DEF BackoffOver
  <2>11. CASE BackoffCancelled(j)
    <3> HIDE DEF RequestsOK, CreatedOwned, SlotsOK, DiskTypeOK, TransferTypeOK, CacheTypeOK, HasFile, Snapshot, Persist
    <3> QED BY <2>11 DEF BackoffCancelled, FinishJob
  <2>12. CASE BatchPersisted(j)
    <3> HIDE DEF RequestsOK, CreatedOwned, SlotsOK, DiskTypeOK, TransferTypeOK, CacheTypeOK, HasFile
    <3> QED BY <2>12 DEF BatchPersisted
  <2> QED BY <1>1, <2>1, <2>2, <2>3, <2>4, <2>5, <2>6, <2>7, <2>8, <2>9, <2>10, <2>11, <2>12 DEF EnqueueStep
<1>2. ASSUME NEW j \in Jobs, MonitorStep(j) PROVE MapsOK'
  <2>1. CASE MonitorStops(j)
    BY <2>1 DEF MonitorStops
  <2>2. CASE MonitorProgress(j)
    BY <2>2 DEF MonitorProgress
  <2>3. CASE ProgressPersisted(j)
    BY <2>3 DEF ProgressPersisted, PersistThen
  <2>4. CASE MonitorSucceeded(j)
    BY <2>4 DEF MonitorSucceeded, MonitorFinishes, FinishJob
  <2>5. CASE MonitorFileMissing(j)
    BY <2>5 DEF MonitorFileMissing, MonitorFinishes, FinishJob
  <2>6. CASE MonitorRetries(j)
    BY <2>6 DEF MonitorRetries, PrepareAutomaticRetry, MayRetry
  <2>7. CASE RetryPersisted(j)
    BY <2>7 DEF RetryPersisted, PersistThen
  <2>8. CASE MonitorFailed(j)
    BY <2>8 DEF MonitorFailed, MonitorFinishes, FinishJob
  <2>9. CASE MonitorCancelled(j)
    BY <2>9 DEF MonitorCancelled, MonitorFinishes, FinishJob
  <2>10. CASE NotifyCompleted(j)
    BY <2>10 DEF NotifyCompleted
  <2> QED BY <1>2, <2>1, <2>2, <2>3, <2>4, <2>5, <2>6, <2>7, <2>8, <2>9, <2>10 DEF MonitorStep
<1>3. ASSUME NEW j \in Jobs, FinishStep(j) PROVE MapsOK'
  <2>1. CASE FinishRelease(j)
    BY <2>1 DEF FinishRelease, ReleaseSlot
  <2>2. CASE FinishPersist(j)
    BY <2>2 DEF FinishPersist
  <2>3. CASE FinishRemove(j)
    BY <2>3 DEF FinishRemove
  <2> QED BY <1>3, <2>1, <2>2, <2>3 DEF FinishStep
<1>4. ASSUME NEW j \in Jobs, EvictStep(j) PROVE MapsOK'
  <2>1. CASE TrackDownloads(j)
    BY <2>1 DEF TrackDownloads
  <2>2. CASE EvictRemove(j)
    BY <2>2 DEF EvictRemove
  <2>3. CASE MarkEvicted(j)
    BY <2>3 DEF MarkEvicted
  <2> QED BY <1>4, <2>1, <2>2, <2>3 DEF EvictStep
<1>5. ASSUME NEW j \in Jobs, ResumeTrackDownloads(j) PROVE MapsOK'
  <2> HIDE DEF RequestsOK, CreatedOwned, DiskTypeOK, TransferTypeOK, CacheTypeOK, HasFile, Snapshot, Persist
  <2> QED BY <1>5 DEF ResumeTrackDownloads, ResumeWaiting, ResumeTransfer
<1>6. ASSUME NEW r \in Requests, RequestAction(r) PROVE MapsOK'
  <2>1. ASSUME NEW k \in scenario.keys, ResolveCached(r, k) PROVE MapsOK'
    <3>1. ASSUME NEW j \in Jobs, RememberKnown(k, j) PROVE MapsOK'
      BY <2>1, <3>1 DEF ResolveCached, NewRequest, ReaderBegins, RememberKnown
    <3>2. ASSUME NEW j \in Jobs, RememberNew(k, j) PROVE MapsOK'
      BY <2>1, <3>2 DEF ResolveCached, NewRequest, ReaderBegins, RememberNew
    <3> QED BY <2>1, <3>1, <3>2 DEF ResolveCached
  <2>2. ASSUME NEW k \in scenario.keys, ResolveMissing(r, k) PROVE MapsOK'
    BY <2>2 DEF ResolveMissing, NewRequest, ReaderBegins
  <2>3. ASSUME NEW k \in scenario.keys, RetryTrackDownload(r, k) PROVE MapsOK'
    BY <2>3 DEF RetryTrackDownload, NewRequest
  <2>4. ASSUME NEW k \in scenario.keys, CancelTrackDownload(r, k) PROVE MapsOK'
    BY <2>4 DEF CancelTrackDownload, NewRequest
  <2>5. CASE EnsureExisting(r)
    BY <2>5 DEF EnsureExisting
  <2>6. CASE EnsureStart(r)
    BY <2>6 DEF EnsureStart
  <2>7. CASE OpenStream(r)
    BY <2>7 DEF OpenStream, EndRequest
  <2>8. CASE OpenFails(r)
    BY <2>8 DEF OpenFails, LeaveRequest, EndRequest, ReaderEnds
  <2>9. ASSUME NEW j \in Jobs, EnsureNew(r, j) PROVE MapsOK'
    BY <2>9 DEF EnsureNew
  <2>10. CASE CancelFinishes(r)
    <3>1. PICK j \in Jobs : j = req[r].job
      BY <2>10 DEF CancelFinishes, RequestsOK
    <3>2. req[r].pc = "cancelling" /\ FinishJob(j, "cancelled", TRUE) /\ EndRequest(r)
      BY <2>10, <3>1 DEF CancelFinishes
    <3>3. UNCHANGED <<disk, jobs, records, pc, gate, cache, phase>>
      BY <2>10 DEF CancelFinishes
    <3>4. CancelTransfer(req[r].batch)
      BY <2>10 DEF CancelFinishes
    <3> HIDE DEF CreatedOwned, SlotsOK, DiskTypeOK, TransferTypeOK, CacheTypeOK, HasFile, Snapshot, Persist
    <3>5. ~job[j].finished => KeyOf(j) \in Keys /\ jobs[KeyOf(j)] = j
      BY <3>1
    <3>6. \A i \in Jobs : KeyOf(i)' = KeyOf(i) /\ (i # j => job'[i] = job[i] /\ fin'[i] = fin[i])
      BY <3>2 DEF FinishJob
    <3>7. \A i \in Jobs : InUse(i)' => InUse(i) \/ job'[i].finished
      BY <3>2, <3>3, <3>6 DEF EndRequest, FinishJob
    <3>8. job'[j].finished /\ (fin'[j] # "none" => ~job[j].finished \/ fin[j] # "none")
      BY <3>2 DEF FinishJob
    <3> HIDE DEF InUse, CreatedOwned, RequestsOK, SlotsOK, Free, Recorded, DiskTypeOK, TransferTypeOK, CacheTypeOK
    <3> QED BY <3>3, <3>5, <3>6, <3>7, <3>8
  <2>11. CASE CancelFails(r)
    BY <2>11 DEF CancelFails, EndRequest
  <2>12. CASE WaitCancelled(r)
    BY <2>12 DEF WaitCancelled, LeaveRequest, EndRequest, ReaderEnds
  <2>13. CASE CloseReader(r)
    BY <2>13 DEF CloseReader, LeaveRequest, EndRequest, ReaderEnds
  <2>14. CASE CancelStops(r)
    BY <2>14 DEF CancelStops
  <2> QED BY <1>6, <2>1, <2>2, <2>3, <2>4, <2>5, <2>6, <2>7, <2>8, <2>9, <2>10, <2>11, <2>12, <2>13, <2>14 DEF RequestAction, RequestBegins, RequestStep
<1>7. CASE ProcessStep
  BY <1>7 DEF ProcessStep, EvictCollect, Evictable, EvictDone, Serve, Close, CloseWaited
<1>8. ASSUME NEW x \in Transfers, SlskdStep(x) PROVE MapsOK'
  BY <1>8 DEF SlskdStep, TransferStep, TransferAdvances, TransferSucceeds
<1> QED BY <1>1, <1>2, <1>3, <1>4, <1>5, <1>6, <1>7, <1>8 DEF Moves

\* A job has at most one claim to a slot.
LEMMA SlotsOKStep ==
  ASSUME TypeOK, Shape, RequestsOK, CreatedOwned, MapsOK, SlotsOK, BatchesOK, Moves,
         UNCHANGED scenario
  PROVE  SlotsOK'
<1> USE ConstantsAssumption DEF Shape, TypeOK, DiskTypeOK, TransferTypeOK,
          CoordinatorTypeOK, CacheTypeOK, Goto, Persist, Snapshot, KeyOf
<1> USE DEF JobPC, FinPC, RequestPC, States, ActiveStates, Retryable, TransferStates,
          NoTransferYet, NoRequest, NoRecord, NewJob, HasFile, CancelPC
<1> USE DEF disk, coordinator, cache
<1> USE DEF BeingCancelled, RequestsOK, CreatedOwned, MapsOK, SlotsOK, EarlyPC, BatchesOK, Free, InUse,
          Monitored
<1>1. ASSUME NEW j \in Jobs, EnqueueStep(j) PROVE SlotsOK'
  <2>1. CASE AcquireSlot(j)
    BY <2>1 DEF AcquireSlot
  <2>2. CASE GateCancelled(j)
    BY <2>2 DEF GateCancelled
  <2>3. CASE SlotUnused(j)
    BY <2>3 DEF SlotUnused
  <2>4. CASE SlotTaken(j)
    BY <2>4 DEF SlotTaken
  <2>5. CASE SlotPersisted(j)
    BY <2>5 DEF SlotPersisted, PersistThen
  <2>6. CASE PostFailed(j)
    BY <2>6 DEF PostFailed, AnswerLost, FinishJob
  <2>7. CASE PostBackoff(j)
    BY <2>7 DEF PostBackoff, AnswerLost
  <2>8. ASSUME NEW x \in Transfers, Posted(j, x) PROVE SlotsOK'
    BY <2>8 DEF Posted
  <2>9. CASE BackoffPersisted(j)
    BY <2>9 DEF BackoffPersisted, PersistThen
  <2>10. CASE BackoffOver(j)
    BY <2>10 DEF BackoffOver
  <2>11. CASE BackoffCancelled(j)
    BY <2>11 DEF BackoffCancelled, FinishJob
  <2>12. CASE BatchPersisted(j)
    BY <2>12 DEF BatchPersisted
  <2> QED BY <1>1, <2>1, <2>2, <2>3, <2>4, <2>5, <2>6, <2>7, <2>8, <2>9, <2>10, <2>11, <2>12 DEF EnqueueStep
<1>2. ASSUME NEW j \in Jobs, MonitorStep(j) PROVE SlotsOK'
  <2>1. CASE MonitorStops(j)
    BY <2>1 DEF MonitorStops
  <2>2. CASE MonitorProgress(j)
    BY <2>2 DEF MonitorProgress
  <2>3. CASE ProgressPersisted(j)
    BY <2>3 DEF ProgressPersisted, PersistThen
  <2>4. CASE MonitorSucceeded(j)
    BY <2>4 DEF MonitorSucceeded, MonitorFinishes, FinishJob
  <2>5. CASE MonitorFileMissing(j)
    BY <2>5 DEF MonitorFileMissing, MonitorFinishes, FinishJob
  <2>6. CASE MonitorRetries(j)
    BY <2>6 DEF MonitorRetries, PrepareAutomaticRetry, MayRetry
  <2>7. CASE RetryPersisted(j)
    BY <2>7 DEF RetryPersisted, PersistThen
  <2>8. CASE MonitorFailed(j)
    BY <2>8 DEF MonitorFailed, MonitorFinishes, FinishJob
  <2>9. CASE MonitorCancelled(j)
    BY <2>9 DEF MonitorCancelled, MonitorFinishes, FinishJob
  <2>10. CASE NotifyCompleted(j)
    BY <2>10 DEF NotifyCompleted
  <2> QED BY <1>2, <2>1, <2>2, <2>3, <2>4, <2>5, <2>6, <2>7, <2>8, <2>9, <2>10 DEF MonitorStep
<1>3. ASSUME NEW j \in Jobs, FinishStep(j) PROVE SlotsOK'
  <2>1. CASE FinishRelease(j)
    BY <2>1 DEF FinishRelease, ReleaseSlot
  <2>2. CASE FinishPersist(j)
    BY <2>2 DEF FinishPersist
  <2>3. CASE FinishRemove(j)
    BY <2>3 DEF FinishRemove
  <2> QED BY <1>3, <2>1, <2>2, <2>3 DEF FinishStep
<1>4. ASSUME NEW j \in Jobs, EvictStep(j) PROVE SlotsOK'
  <2>1. CASE TrackDownloads(j)
    BY <2>1 DEF TrackDownloads
  <2>2. CASE EvictRemove(j)
    BY <2>2 DEF EvictRemove
  <2>3. CASE MarkEvicted(j)
    BY <2>3 DEF MarkEvicted
  <2> QED BY <1>4, <2>1, <2>2, <2>3 DEF EvictStep
<1>5. ASSUME NEW j \in Jobs, ResumeTrackDownloads(j) PROVE SlotsOK'
  BY <1>5 DEF ResumeTrackDownloads, ResumeWaiting, ResumeTransfer
<1>6. ASSUME NEW r \in Requests, RequestAction(r) PROVE SlotsOK'
  <2>1. ASSUME NEW k \in scenario.keys, ResolveCached(r, k) PROVE SlotsOK'
    <3>1. ASSUME NEW j \in Jobs, RememberKnown(k, j) PROVE SlotsOK'
      BY <2>1, <3>1 DEF ResolveCached, NewRequest, ReaderBegins, RememberKnown
    <3>2. ASSUME NEW j \in Jobs, RememberNew(k, j) PROVE SlotsOK'
      BY <2>1, <3>2 DEF ResolveCached, NewRequest, ReaderBegins, RememberNew
    <3> QED BY <2>1, <3>1, <3>2 DEF ResolveCached
  <2>2. ASSUME NEW k \in scenario.keys, ResolveMissing(r, k) PROVE SlotsOK'
    BY <2>2 DEF ResolveMissing, NewRequest, ReaderBegins
  <2>3. ASSUME NEW k \in scenario.keys, RetryTrackDownload(r, k) PROVE SlotsOK'
    BY <2>3 DEF RetryTrackDownload, NewRequest
  <2>4. ASSUME NEW k \in scenario.keys, CancelTrackDownload(r, k) PROVE SlotsOK'
    BY <2>4 DEF CancelTrackDownload, NewRequest
  <2>5. CASE EnsureExisting(r)
    BY <2>5 DEF EnsureExisting
  <2>6. CASE EnsureStart(r)
    BY <2>6 DEF EnsureStart
  <2>7. CASE OpenStream(r)
    BY <2>7 DEF OpenStream, EndRequest
  <2>8. CASE OpenFails(r)
    BY <2>8 DEF OpenFails, LeaveRequest, EndRequest, ReaderEnds
  <2>9. ASSUME NEW j \in Jobs, EnsureNew(r, j) PROVE SlotsOK'
    BY <2>9 DEF EnsureNew
  <2>10. CASE CancelFinishes(r)
    <3>1. PICK j \in Jobs : j = req[r].job
      BY <2>10 DEF CancelFinishes, RequestsOK
    <3>2. req[r].pc = "cancelling" /\ FinishJob(j, "cancelled", TRUE) /\ EndRequest(r)
      BY <2>10, <3>1 DEF CancelFinishes
    <3>3. UNCHANGED <<disk, jobs, records, pc, gate, cache, phase>>
      BY <2>10 DEF CancelFinishes
    <3>4. CancelTransfer(req[r].batch)
      BY <2>10 DEF CancelFinishes
    <3> QED BY <3>1, <3>2, <3>3, <3>4, CancelledTransfers DEF EndRequest, FinishJob
  <2>11. CASE CancelFails(r)
    BY <2>11 DEF CancelFails, EndRequest
  <2>12. CASE WaitCancelled(r)
    BY <2>12 DEF WaitCancelled, LeaveRequest, EndRequest, ReaderEnds
  <2>13. CASE CloseReader(r)
    BY <2>13 DEF CloseReader, LeaveRequest, EndRequest, ReaderEnds
  <2>14. CASE CancelStops(r)
    <3>1. PICK j \in Jobs : j = req[r].job
      BY <2>14 DEF CancelStops
    <3>2. \A i \in Jobs : BeingCancelled(i) => BeingCancelled(i)'
      BY <2>14 DEF CancelStops
    <3>3. req[r].batch = NoTransfer => BeingCancelled(j)'
      BY <2>14, <3>1 DEF CancelStops
    <3> HIDE DEF BeingCancelled
    <3> QED BY <2>14, <3>1, <3>2, <3>3 DEF CancelStops
  <2> QED BY <1>6, <2>1, <2>2, <2>3, <2>4, <2>5, <2>6, <2>7, <2>8, <2>9, <2>10, <2>11, <2>12, <2>13, <2>14 DEF RequestAction, RequestBegins, RequestStep
<1>7. CASE ProcessStep
  BY <1>7 DEF ProcessStep, EvictCollect, Evictable, EvictDone, Serve, Close, CloseWaited
<1>8. ASSUME NEW x \in Transfers, SlskdStep(x) PROVE SlotsOK'
  BY <1>8 DEF SlskdStep, TransferStep, TransferAdvances, TransferSucceeds
<1> QED BY <1>1, <1>2, <1>3, <1>4, <1>5, <1>6, <1>7, <1>8 DEF Moves

\* A step takes one slot, returns one, or leaves them all.
LEMMA SlotsMoveStep ==
  ASSUME TypeOK, Shape, RequestsOK, CreatedOwned, MapsOK, SlotsOK, BatchesOK, SlotsCounted,
         Moves, UNCHANGED scenario
  PROVE  SlotsMove
<1> USE ConstantsAssumption DEF Shape, TypeOK, DiskTypeOK, TransferTypeOK,
          CoordinatorTypeOK, CacheTypeOK, Goto, Persist, Snapshot, KeyOf
<1> USE DEF JobPC, FinPC, RequestPC, States, ActiveStates, Retryable, TransferStates,
          NoTransferYet, NoRequest, NoRecord, NewJob, HasFile, CancelPC
<1> USE DEF disk, coordinator, cache
<1> USE DEF RequestsOK, CreatedOwned, MapsOK, SlotsOK, BatchesOK, EarlyPC, Free, InUse,
          Monitored, SlotHolders, SlotsMove, Counted, SlotsCounted
<1>1. ASSUME NEW j \in Jobs, EnqueueStep(j) PROVE SlotsMove
  <2>1. CASE AcquireSlot(j)
    BY <2>1 DEF AcquireSlot
  <2>2. CASE GateCancelled(j)
    BY <2>2 DEF GateCancelled
  <2>3. CASE SlotUnused(j)
    BY <2>3 DEF SlotUnused
  <2>4. CASE SlotTaken(j)
    BY <2>4 DEF SlotTaken
  <2>5. CASE SlotPersisted(j)
    BY <2>5 DEF SlotPersisted, PersistThen
  <2>6. CASE PostFailed(j)
    BY <2>6 DEF PostFailed, AnswerLost, FinishJob
  <2>7. CASE PostBackoff(j)
    BY <2>7 DEF PostBackoff, AnswerLost
  <2>8. ASSUME NEW x \in Transfers, Posted(j, x) PROVE SlotsMove
    BY <2>8 DEF Posted
  <2>9. CASE BackoffPersisted(j)
    BY <2>9 DEF BackoffPersisted, PersistThen
  <2>10. CASE BackoffOver(j)
    BY <2>10 DEF BackoffOver
  <2>11. CASE BackoffCancelled(j)
    BY <2>11 DEF BackoffCancelled, FinishJob
  <2>12. CASE BatchPersisted(j)
    <3> HIDE DEF MapsOK, SlotsOK, InUse, CreatedOwned, RequestsOK, Free, BatchesOK, SlotsCounted
    <3> QED BY <2>12 DEF BatchPersisted
  <2> QED BY <1>1, <2>1, <2>2, <2>3, <2>4, <2>5, <2>6, <2>7, <2>8, <2>9, <2>10, <2>11, <2>12 DEF EnqueueStep
<1>2. ASSUME NEW j \in Jobs, MonitorStep(j) PROVE SlotsMove
  <2>1. CASE MonitorStops(j)
    BY <2>1 DEF MonitorStops
  <2>2. CASE MonitorProgress(j)
    BY <2>2 DEF MonitorProgress
  <2>3. CASE ProgressPersisted(j)
    BY <2>3 DEF ProgressPersisted, PersistThen
  <2>4. CASE MonitorSucceeded(j)
    BY <2>4 DEF MonitorSucceeded, MonitorFinishes, FinishJob
  <2>5. CASE MonitorFileMissing(j)
    BY <2>5 DEF MonitorFileMissing, MonitorFinishes, FinishJob
  <2>6. CASE MonitorRetries(j)
    BY <2>6 DEF MonitorRetries, PrepareAutomaticRetry, MayRetry
  <2>7. CASE RetryPersisted(j)
    BY <2>7 DEF RetryPersisted, PersistThen
  <2>8. CASE MonitorFailed(j)
    BY <2>8 DEF MonitorFailed, MonitorFinishes, FinishJob
  <2>9. CASE MonitorCancelled(j)
    BY <2>9 DEF MonitorCancelled, MonitorFinishes, FinishJob
  <2>10. CASE NotifyCompleted(j)
    BY <2>10 DEF NotifyCompleted
  <2> QED BY <1>2, <2>1, <2>2, <2>3, <2>4, <2>5, <2>6, <2>7, <2>8, <2>9, <2>10 DEF MonitorStep
<1>3. ASSUME NEW j \in Jobs, FinishStep(j) PROVE SlotsMove
  BY <1>3 DEF FinishStep, FinishRelease, ReleaseSlot, FinishPersist, FinishRemove
<1>4. ASSUME NEW j \in Jobs, EvictStep(j) PROVE SlotsMove
  <2>1. CASE TrackDownloads(j)
    BY <2>1 DEF TrackDownloads
  <2>2. CASE EvictRemove(j)
    BY <2>2 DEF EvictRemove
  <2>3. CASE MarkEvicted(j)
    BY <2>3 DEF MarkEvicted
  <2> QED BY <1>4, <2>1, <2>2, <2>3 DEF EvictStep
<1>5. ASSUME NEW j \in Jobs, ResumeTrackDownloads(j) PROVE SlotsMove
  BY <1>5 DEF ResumeTrackDownloads, ResumeWaiting, ResumeTransfer
<1>6. ASSUME NEW r \in Requests, RequestAction(r) PROVE SlotsMove
  <2>1. ASSUME NEW k \in scenario.keys, ResolveCached(r, k) PROVE SlotsMove
    <3>1. ASSUME NEW j \in Jobs, RememberKnown(k, j) PROVE SlotsMove
      BY <2>1, <3>1 DEF ResolveCached, NewRequest, ReaderBegins, RememberKnown
    <3>2. ASSUME NEW j \in Jobs, RememberNew(k, j) PROVE SlotsMove
      BY <2>1, <3>2 DEF ResolveCached, NewRequest, ReaderBegins, RememberNew
    <3> QED BY <2>1, <3>1, <3>2 DEF ResolveCached
  <2>2. ASSUME NEW k \in scenario.keys, ResolveMissing(r, k) PROVE SlotsMove
    BY <2>2 DEF ResolveMissing, NewRequest, ReaderBegins
  <2>3. ASSUME NEW k \in scenario.keys, RetryTrackDownload(r, k) PROVE SlotsMove
    BY <2>3 DEF RetryTrackDownload, NewRequest
  <2>4. ASSUME NEW k \in scenario.keys, CancelTrackDownload(r, k) PROVE SlotsMove
    BY <2>4 DEF CancelTrackDownload, NewRequest
  <2>5. CASE EnsureExisting(r)
    BY <2>5 DEF EnsureExisting
  <2>6. CASE EnsureStart(r)
    BY <2>6 DEF EnsureStart
  <2>7. CASE OpenStream(r)
    BY <2>7 DEF OpenStream, EndRequest
  <2>8. CASE OpenFails(r)
    BY <2>8 DEF OpenFails, LeaveRequest, EndRequest, ReaderEnds
  <2>9. ASSUME NEW j \in Jobs, EnsureNew(r, j) PROVE SlotsMove
    BY <2>9 DEF EnsureNew
  <2>10. CASE CancelFinishes(r)
    <3>1. PICK j \in Jobs : j = req[r].job
      BY <2>10 DEF CancelFinishes, RequestsOK
    <3>2. req[r].pc = "cancelling" /\ FinishJob(j, "cancelled", TRUE) /\ EndRequest(r)
      BY <2>10, <3>1 DEF CancelFinishes
    <3>3. UNCHANGED <<disk, jobs, records, pc, gate, cache, phase>>
      BY <2>10 DEF CancelFinishes
    <3>4. CancelTransfer(req[r].batch)
      BY <2>10 DEF CancelFinishes
    <3>5. job[j].finished \/ fin[j] = "none"
      OBVIOUS
    <3> HIDE DEF RequestsOK, CreatedOwned, MapsOK, BatchesOK, Free, InUse
    <3>6. \A i \in Jobs : i \in SlotHolders' <=> i \in SlotHolders
      BY <3>2, <3>3, <3>5 DEF FinishJob
    <3>7. SlotHolders' = SlotHolders
      BY <3>6
    <3> QED BY <3>3, <3>7
  <2>11. CASE CancelFails(r)
    BY <2>11 DEF CancelFails, EndRequest
  <2>12. CASE WaitCancelled(r)
    BY <2>12 DEF WaitCancelled, LeaveRequest, EndRequest, ReaderEnds
  <2>13. CASE CloseReader(r)
    BY <2>13 DEF CloseReader, LeaveRequest, EndRequest, ReaderEnds
  <2>14. CASE CancelStops(r)
    BY <2>14 DEF CancelStops
  <2> QED BY <1>6, <2>1, <2>2, <2>3, <2>4, <2>5, <2>6, <2>7, <2>8, <2>9, <2>10, <2>11, <2>12, <2>13, <2>14 DEF RequestAction, RequestBegins, RequestStep
<1>7. CASE ProcessStep
  BY <1>7 DEF ProcessStep, EvictCollect, Evictable, EvictDone, Serve, Close, CloseWaited
<1>8. ASSUME NEW x \in Transfers, SlskdStep(x) PROVE SlotsMove
  BY <1>8 DEF SlskdStep, TransferStep, TransferAdvances, TransferSucceeds
<1> QED BY <1>1, <1>2, <1>3, <1>4, <1>5, <1>6, <1>7, <1>8 DEF Moves

\* A request that leaves is one reader less, if it was one.
LEMMA ReaderLeaves ==
  ASSUME TypeOK, Shape, RequestsOK, NEW r \in Requests, LeaveRequest(r), req[r].pc # "idle"
  PROVE  ReadersMove
<1> SUFFICES ASSUME NEW s \in Keys PROVE Counted(Readers(s), Readers(s)', active[s], active'[s])
  BY DEF ReadersMove
<1> USE DEF Shape, TypeOK, CacheTypeOK, RequestsOK, LeaveRequest, EndRequest, ReaderEnds, NoRequest
<1>1. CASE r \in Readers(s)
  <2>1. Readers(s)' = Readers(s) \ {r}
    BY <1>1 DEF Readers
  <2>2. active'[s] = IF active[s] <= 1 THEN 0 ELSE active[s] - 1
    BY <1>1 DEF Readers
  <2> QED BY <1>1, <2>1, <2>2 DEF Counted
<1>2. CASE r \notin Readers(s)
  <2>1. Readers(s)' = Readers(s)
    BY <1>2 DEF Readers
  <2>2. active'[s] = active[s]
    BY <1>2 DEF Readers
  <2> QED BY <2>1, <2>2 DEF Counted
<1> QED BY <1>1, <1>2

\* The readers stay as they are when no request begins or ends to read.
LEMMA ReadersStay ==
  ASSUME active' = active,
         \A q \in Requests : \/ req'[q].reads /\ req[q].reads /\ req'[q].key = req[q].key
                             \/ ~req'[q].reads /\ ~req[q].reads
  PROVE  ReadersMove
<1> SUFFICES ASSUME NEW s \in Keys PROVE Counted(Readers(s), Readers(s)', active[s], active'[s])
  BY DEF ReadersMove
<1>1. Readers(s)' = Readers(s)
  BY DEF Readers
<1> QED BY <1>1 DEF Counted

\* A step adds one reader, removes one, or leaves them all.
LEMMA ReadersMoveStep ==
  ASSUME TypeOK, Shape, RequestsOK, Moves, UNCHANGED scenario
  PROVE  ReadersMove
<1> USE ConstantsAssumption DEF Shape, TypeOK, DiskTypeOK, TransferTypeOK,
          CoordinatorTypeOK, CacheTypeOK, Goto, Persist, Snapshot, KeyOf
<1> USE DEF JobPC, FinPC, RequestPC, States, ActiveStates, Retryable, TransferStates,
          NoTransferYet, NoRequest, NoRecord, NewJob, HasFile, CancelPC
<1> USE DEF disk, coordinator, cache
<1> USE DEF RequestsOK, Readers, Counted, ReadersMove
<1>1. ASSUME NEW j \in Jobs, EnqueueStep(j) PROVE ReadersMove
  <2>1. CASE AcquireSlot(j)
    BY <2>1 DEF AcquireSlot
  <2>2. CASE GateCancelled(j)
    BY <2>2 DEF GateCancelled
  <2>3. CASE SlotUnused(j)
    BY <2>3 DEF SlotUnused
  <2>4. CASE SlotTaken(j)
    BY <2>4 DEF SlotTaken
  <2>5. CASE SlotPersisted(j)
    BY <2>5 DEF SlotPersisted, PersistThen
  <2>6. CASE PostFailed(j)
    BY <2>6 DEF PostFailed, AnswerLost, FinishJob
  <2>7. CASE PostBackoff(j)
    BY <2>7 DEF PostBackoff, AnswerLost
  <2>8. ASSUME NEW x \in Transfers, Posted(j, x) PROVE ReadersMove
    BY <2>8 DEF Posted
  <2>9. CASE BackoffPersisted(j)
    BY <2>9 DEF BackoffPersisted, PersistThen
  <2>10. CASE BackoffOver(j)
    BY <2>10 DEF BackoffOver
  <2>11. CASE BackoffCancelled(j)
    BY <2>11 DEF BackoffCancelled, FinishJob
  <2>12. CASE BatchPersisted(j)
    BY <2>12 DEF BatchPersisted
  <2> QED BY <1>1, <2>1, <2>2, <2>3, <2>4, <2>5, <2>6, <2>7, <2>8, <2>9, <2>10, <2>11, <2>12 DEF EnqueueStep
<1>2. ASSUME NEW j \in Jobs, MonitorStep(j) PROVE ReadersMove
  BY <1>2 DEF MonitorStep, MonitorStops, MonitorProgress, ProgressPersisted, PersistThen,
        MonitorSucceeded, MonitorFinishes, FinishJob, MonitorFileMissing, MonitorRetries,
        PrepareAutomaticRetry, MayRetry, RetryPersisted, MonitorFailed, MonitorCancelled,
        NotifyCompleted
<1>3. ASSUME NEW j \in Jobs, FinishStep(j) PROVE ReadersMove
  BY <1>3 DEF FinishStep, FinishRelease, ReleaseSlot, FinishPersist, FinishRemove
<1>4. ASSUME NEW j \in Jobs, EvictStep(j) PROVE ReadersMove
  BY <1>4 DEF EvictStep, TrackDownloads, EvictRemove, MarkEvicted
<1>5. ASSUME NEW j \in Jobs, ResumeTrackDownloads(j) PROVE ReadersMove
  BY <1>5 DEF ResumeTrackDownloads, ResumeWaiting, ResumeTransfer
<1>6. ASSUME NEW r \in Requests, RequestAction(r) PROVE ReadersMove
  <2>1. ASSUME NEW k \in scenario.keys, ResolveCached(r, k) PROVE ReadersMove
    <3>1. ASSUME NEW j \in Jobs, RememberKnown(k, j) PROVE ReadersMove
      BY <2>1, <3>1 DEF ResolveCached, NewRequest, ReaderBegins, RememberKnown
    <3>2. ASSUME NEW j \in Jobs, RememberNew(k, j) PROVE ReadersMove
      BY <2>1, <3>2 DEF ResolveCached, NewRequest, ReaderBegins, RememberNew
    <3> QED BY <2>1, <3>1, <3>2 DEF ResolveCached
  <2>2. ASSUME NEW k \in scenario.keys, ResolveMissing(r, k) PROVE ReadersMove
    BY <2>2 DEF ResolveMissing, NewRequest, ReaderBegins
  <2>3. ASSUME NEW k \in scenario.keys, RetryTrackDownload(r, k) PROVE ReadersMove
    BY <2>3 DEF RetryTrackDownload, NewRequest
  <2>4. ASSUME NEW k \in scenario.keys, CancelTrackDownload(r, k) PROVE ReadersMove
    BY <2>4 DEF CancelTrackDownload, NewRequest
  <2>5. CASE EnsureExisting(r)
    BY <2>5 DEF EnsureExisting
  <2>6. CASE EnsureStart(r)
    BY <2>6 DEF EnsureStart
  <2>7. CASE OpenStream(r)
    <3>1. active' = active
      BY <2>7 DEF OpenStream
    <3>2. CASE req[r].reads
      <4>1. req' = [req EXCEPT ![r].pc = "reading"]
        BY <2>7, <3>2 DEF OpenStream
      <4> QED BY <3>1, <3>2, <4>1, ReadersStay
    <3>3. CASE ~req[r].reads
      <4>1. EndRequest(r)
        BY <2>7, <3>3 DEF OpenStream
      <4> QED BY <3>1, <3>3, <4>1, ReadersStay DEF EndRequest
    <3> QED BY <3>2, <3>3
  <2>8. CASE OpenFails(r)
    <3>1. LeaveRequest(r) /\ req[r].pc # "idle"
      BY <2>8 DEF OpenFails
    <3> QED BY <3>1, ReaderLeaves
  <2>9. ASSUME NEW j \in Jobs, EnsureNew(r, j) PROVE ReadersMove
    BY <2>9 DEF EnsureNew
  <2>10. CASE CancelFinishes(r)
    <3>1. PICK j \in Jobs : j = req[r].job
      BY <2>10 DEF CancelFinishes, RequestsOK
    <3>2. req[r].pc = "cancelling" /\ FinishJob(j, "cancelled", TRUE) /\ EndRequest(r)
      BY <2>10, <3>1 DEF CancelFinishes
    <3>3. UNCHANGED <<disk, jobs, records, pc, gate, cache, phase>>
      BY <2>10 DEF CancelFinishes
    <3>4. CancelTransfer(req[r].batch)
      BY <2>10 DEF CancelFinishes
    <3> QED BY <3>1, <3>2, <3>3, <3>4, CancelledTransfers DEF EndRequest, FinishJob
  <2>11. CASE CancelFails(r)
    BY <2>11 DEF CancelFails, EndRequest
  <2>12. CASE WaitCancelled(r)
    <3>1. LeaveRequest(r) /\ req[r].pc # "idle"
      BY <2>12 DEF WaitCancelled
    <3> QED BY <3>1, ReaderLeaves
  <2>13. CASE CloseReader(r)
    <3>1. LeaveRequest(r) /\ req[r].pc # "idle"
      BY <2>13 DEF CloseReader
    <3> QED BY <3>1, ReaderLeaves
  <2>14. CASE CancelStops(r)
    BY <2>14 DEF CancelStops
  <2> QED BY <1>6, <2>1, <2>2, <2>3, <2>4, <2>5, <2>6, <2>7, <2>8, <2>9, <2>10, <2>11, <2>12, <2>13, <2>14 DEF RequestAction, RequestBegins, RequestStep
<1>7. CASE ProcessStep
  BY <1>7 DEF ProcessStep, EvictCollect, Evictable, EvictDone, Serve, Close, CloseWaited
<1>8. ASSUME NEW x \in Transfers, SlskdStep(x) PROVE ReadersMove
  BY <1>8 DEF SlskdStep, TransferStep, TransferAdvances, TransferSucceeds
<1> QED BY <1>1, <1>2, <1>3, <1>4, <1>5, <1>6, <1>7, <1>8 DEF Moves

\* While an eviction is in progress its candidates get no reader.
LEMMA EvictionOKStep ==
  ASSUME TypeOK, Shape, RequestsOK, MapsOK, EvictionOK, BatchesOK, Moves, UNCHANGED scenario
  PROVE  EvictionOK'
<1> USE ConstantsAssumption DEF Shape, TypeOK, DiskTypeOK, TransferTypeOK,
          CoordinatorTypeOK, CacheTypeOK, Goto, Persist, Snapshot, KeyOf
<1> USE DEF JobPC, FinPC, RequestPC, States, ActiveStates, Retryable, TransferStates,
          NoTransferYet, NoRequest, NoRecord, NewJob, HasFile, CancelPC
<1> USE DEF disk, coordinator, cache
<1> USE DEF RequestsOK, MapsOK, EvictionOK, BatchesOK, Free, Recorded, CacheFree
<1>1. ASSUME NEW j \in Jobs, EnqueueStep(j) PROVE EvictionOK'
  <2>1. CASE AcquireSlot(j)
    BY <2>1 DEF AcquireSlot
  <2>2. CASE GateCancelled(j)
    BY <2>2 DEF GateCancelled
  <2>3. CASE SlotUnused(j)
    BY <2>3 DEF SlotUnused
  <2>4. CASE SlotTaken(j)
    BY <2>4 DEF SlotTaken
  <2>5. CASE SlotPersisted(j)
    BY <2>5 DEF SlotPersisted, PersistThen
  <2>6. CASE PostFailed(j)
    <3> HIDE DEF RequestsOK, Free, Recorded, MapsOK, BatchesOK, DiskTypeOK, TransferTypeOK
    <3> QED BY <2>6 DEF PostFailed, FinishJob
  <2>7. CASE PostBackoff(j)
    BY <2>7 DEF PostBackoff, AnswerLost
  <2>8. ASSUME NEW x \in Transfers, Posted(j, x) PROVE EvictionOK'
    BY <2>8 DEF Posted
  <2>9. CASE BackoffPersisted(j)
    BY <2>9 DEF BackoffPersisted, PersistThen
  <2>10. CASE BackoffOver(j)
    BY <2>10 DEF BackoffOver
  <2>11. CASE BackoffCancelled(j)
    <3> HIDE DEF RequestsOK, Free, Recorded, MapsOK, BatchesOK, DiskTypeOK, TransferTypeOK
    <3> QED BY <2>11 DEF BackoffCancelled, FinishJob
  <2>12. CASE BatchPersisted(j)
    <3> HIDE DEF RequestsOK, MapsOK, DiskTypeOK, TransferTypeOK, Free, Recorded
    <3> QED BY <2>12 DEF BatchPersisted
  <2> QED BY <1>1, <2>1, <2>2, <2>3, <2>4, <2>5, <2>6, <2>7, <2>8, <2>9, <2>10, <2>11, <2>12 DEF EnqueueStep
<1>2. ASSUME NEW j \in Jobs, MonitorStep(j) PROVE EvictionOK'
  <2>1. CASE MonitorStops(j)
    BY <2>1 DEF MonitorStops
  <2>2. CASE MonitorProgress(j)
    BY <2>2 DEF MonitorProgress
  <2>3. CASE ProgressPersisted(j)
    BY <2>3 DEF ProgressPersisted, PersistThen
  <2>4. CASE MonitorSucceeded(j)
    <3> HIDE DEF RequestsOK, Free, Recorded, MapsOK, BatchesOK, DiskTypeOK, TransferTypeOK
    <3> QED BY <2>4 DEF MonitorSucceeded, MonitorFinishes, FinishJob
  <2>5. CASE MonitorFileMissing(j)
    <3> HIDE DEF RequestsOK, Free, Recorded, MapsOK, BatchesOK, DiskTypeOK, TransferTypeOK
    <3> QED BY <2>5 DEF MonitorFileMissing, MonitorFinishes, FinishJob
  <2>6. CASE MonitorRetries(j)
    BY <2>6 DEF MonitorRetries, PrepareAutomaticRetry, MayRetry
  <2>7. CASE RetryPersisted(j)
    BY <2>7 DEF RetryPersisted, PersistThen
  <2>8. CASE MonitorFailed(j)
    <3> HIDE DEF RequestsOK, Free, Recorded, MapsOK, BatchesOK, DiskTypeOK, TransferTypeOK
    <3> QED BY <2>8 DEF MonitorFailed, MonitorFinishes, FinishJob
  <2>9. CASE MonitorCancelled(j)
    <3> HIDE DEF RequestsOK, Free, Recorded, MapsOK, BatchesOK, DiskTypeOK, TransferTypeOK
    <3> QED BY <2>9 DEF MonitorCancelled, MonitorFinishes, FinishJob
  <2>10. CASE NotifyCompleted(j)
    BY <2>10 DEF NotifyCompleted
  <2> QED BY <1>2, <2>1, <2>2, <2>3, <2>4, <2>5, <2>6, <2>7, <2>8, <2>9, <2>10 DEF MonitorStep
<1>3. ASSUME NEW j \in Jobs, FinishStep(j) PROVE EvictionOK'
  BY <1>3 DEF FinishStep, FinishRelease, ReleaseSlot, FinishPersist, FinishRemove
<1>4. ASSUME NEW j \in Jobs, EvictStep(j) PROVE EvictionOK'
  <2>1. CASE TrackDownloads(j)
    BY <2>1 DEF TrackDownloads
  <2>2. CASE EvictRemove(j)
    BY <2>2 DEF EvictRemove
  <2>3. CASE MarkEvicted(j)
    BY <2>3 DEF MarkEvicted
  <2> QED BY <1>4, <2>1, <2>2, <2>3 DEF EvictStep
<1>5. ASSUME NEW j \in Jobs, ResumeTrackDownloads(j) PROVE EvictionOK'
  BY <1>5 DEF ResumeTrackDownloads, ResumeWaiting, ResumeTransfer
<1>6. ASSUME NEW r \in Requests, RequestAction(r) PROVE EvictionOK'
  <2>1. ASSUME NEW k \in scenario.keys, ResolveCached(r, k) PROVE EvictionOK'
    <3>1. ASSUME NEW j \in Jobs, RememberKnown(k, j) PROVE EvictionOK'
      BY <2>1, <3>1 DEF ResolveCached, NewRequest, ReaderBegins, RememberKnown
    <3>2. ASSUME NEW j \in Jobs, RememberNew(k, j) PROVE EvictionOK'
      BY <2>1, <3>2 DEF ResolveCached, NewRequest, ReaderBegins, RememberNew
    <3> QED BY <2>1, <3>1, <3>2 DEF ResolveCached
  <2>2. ASSUME NEW k \in scenario.keys, ResolveMissing(r, k) PROVE EvictionOK'
    BY <2>2 DEF ResolveMissing, NewRequest, ReaderBegins
  <2>3. ASSUME NEW k \in scenario.keys, RetryTrackDownload(r, k) PROVE EvictionOK'
    BY <2>3 DEF RetryTrackDownload, NewRequest
  <2>4. ASSUME NEW k \in scenario.keys, CancelTrackDownload(r, k) PROVE EvictionOK'
    BY <2>4 DEF CancelTrackDownload, NewRequest
  <2>5. CASE EnsureExisting(r)
    BY <2>5 DEF EnsureExisting
  <2>6. CASE EnsureStart(r)
    BY <2>6 DEF EnsureStart
  <2>7. CASE OpenStream(r)
    BY <2>7 DEF OpenStream, EndRequest
  <2>8. CASE OpenFails(r)
    BY <2>8 DEF OpenFails, LeaveRequest, EndRequest, ReaderEnds
  <2>9. ASSUME NEW j \in Jobs, EnsureNew(r, j) PROVE EvictionOK'
    BY <2>9 DEF EnsureNew
  <2>10. CASE CancelFinishes(r)
    <3>1. PICK j \in Jobs : j = req[r].job
      BY <2>10 DEF CancelFinishes, RequestsOK
    <3>2. req[r].pc = "cancelling" /\ FinishJob(j, "cancelled", TRUE) /\ EndRequest(r)
      BY <2>10, <3>1 DEF CancelFinishes
    <3>3. UNCHANGED <<disk, jobs, records, pc, gate, cache, phase>>
      BY <2>10 DEF CancelFinishes
    <3>4. CancelTransfer(req[r].batch)
      BY <2>10 DEF CancelFinishes
    <3> HIDE DEF RequestsOK, Free, Recorded, MapsOK, BatchesOK, DiskTypeOK, TransferTypeOK
    <3> QED BY <3>1, <3>2, <3>3 DEF FinishJob
  <2>11. CASE CancelFails(r)
    BY <2>11 DEF CancelFails, EndRequest
  <2>12. CASE WaitCancelled(r)
    BY <2>12 DEF WaitCancelled, LeaveRequest, EndRequest, ReaderEnds
  <2>13. CASE CloseReader(r)
    BY <2>13 DEF CloseReader, LeaveRequest, EndRequest, ReaderEnds
  <2>14. CASE CancelStops(r)
    BY <2>14 DEF CancelStops
  <2> QED BY <1>6, <2>1, <2>2, <2>3, <2>4, <2>5, <2>6, <2>7, <2>8, <2>9, <2>10, <2>11, <2>12, <2>13, <2>14 DEF RequestAction, RequestBegins, RequestStep
<1>7. CASE ProcessStep
  BY <1>7 DEF ProcessStep, EvictCollect, Evictable, EvictDone, Serve, Close, CloseWaited
<1>8. ASSUME NEW x \in Transfers, SlskdStep(x) PROVE EvictionOK'
  BY <1>8 DEF SlskdStep, TransferStep, TransferAdvances, TransferSucceeds
<1> QED BY <1>1, <1>2, <1>3, <1>4, <1>5, <1>6, <1>7, <1>8 DEF Moves

\* A job names a batch when, and only when, its state says that it has one.
LEMMA BatchesOKStep ==
  ASSUME TypeOK, Shape, RequestsOK, CreatedOwned, MapsOK, EvictionOK, BatchesOK, Moves,
         UNCHANGED scenario
  PROVE  BatchesOK'
<1> USE ConstantsAssumption DEF Shape, TypeOK, DiskTypeOK, TransferTypeOK,
          CoordinatorTypeOK, CacheTypeOK, Goto, Persist, Snapshot, KeyOf
<1> USE DEF JobPC, FinPC, RequestPC, States, ActiveStates, Retryable, TransferStates,
          NoTransferYet, NoRequest, NoRecord, NewJob, HasFile, CancelPC
<1> USE DEF disk, coordinator, cache
<1> USE DEF RequestsOK, CreatedOwned, MapsOK, EvictionOK, BatchesOK, UnsentPC, SentPC, Free,
          Monitored
<1>1. ASSUME NEW j \in Jobs, EnqueueStep(j) PROVE BatchesOK'
  <2>1. CASE AcquireSlot(j)
    BY <2>1 DEF AcquireSlot
  <2>2. CASE GateCancelled(j)
    BY <2>2 DEF GateCancelled
  <2>3. CASE SlotUnused(j)
    BY <2>3 DEF SlotUnused
  <2>4. CASE SlotTaken(j)
    BY <2>4 DEF SlotTaken
  <2>5. CASE SlotPersisted(j)
    BY <2>5 DEF SlotPersisted, PersistThen
  <2>6. CASE PostFailed(j)
    BY <2>6 DEF PostFailed, AnswerLost, FinishJob
  <2>7. CASE PostBackoff(j)
    BY <2>7 DEF PostBackoff, AnswerLost
  <2>8. ASSUME NEW x \in Transfers, Posted(j, x) PROVE BatchesOK'
    BY <2>8 DEF Posted
  <2>9. CASE BackoffPersisted(j)
    BY <2>9 DEF BackoffPersisted, PersistThen
  <2>10. CASE BackoffOver(j)
    BY <2>10 DEF BackoffOver
  <2>11. CASE BackoffCancelled(j)
    BY <2>11 DEF BackoffCancelled, FinishJob
  <2>12. CASE BatchPersisted(j)
    BY <2>12 DEF BatchPersisted
  <2> QED BY <1>1, <2>1, <2>2, <2>3, <2>4, <2>5, <2>6, <2>7, <2>8, <2>9, <2>10, <2>11, <2>12 DEF EnqueueStep
<1>2. ASSUME NEW j \in Jobs, MonitorStep(j) PROVE BatchesOK'
  <2>1. CASE MonitorStops(j)
    BY <2>1 DEF MonitorStops
  <2>2. CASE MonitorProgress(j)
    BY <2>2 DEF MonitorProgress
  <2>3. CASE ProgressPersisted(j)
    BY <2>3 DEF ProgressPersisted, PersistThen
  <2>4. CASE MonitorSucceeded(j)
    BY <2>4 DEF MonitorSucceeded, MonitorFinishes, FinishJob
  <2>5. CASE MonitorFileMissing(j)
    BY <2>5 DEF MonitorFileMissing, MonitorFinishes, FinishJob
  <2>6. CASE MonitorRetries(j)
    BY <2>6 DEF MonitorRetries, PrepareAutomaticRetry, MayRetry
  <2>7. CASE RetryPersisted(j)
    BY <2>7 DEF RetryPersisted, PersistThen
  <2>8. CASE MonitorFailed(j)
    BY <2>8 DEF MonitorFailed, MonitorFinishes, FinishJob
  <2>9. CASE MonitorCancelled(j)
    BY <2>9 DEF MonitorCancelled, MonitorFinishes, FinishJob
  <2>10. CASE NotifyCompleted(j)
    BY <2>10 DEF NotifyCompleted
  <2> QED BY <1>2, <2>1, <2>2, <2>3, <2>4, <2>5, <2>6, <2>7, <2>8, <2>9, <2>10 DEF MonitorStep
<1>3. ASSUME NEW j \in Jobs, FinishStep(j) PROVE BatchesOK'
  <2>1. CASE FinishRelease(j)
    BY <2>1 DEF FinishRelease, ReleaseSlot
  <2>2. CASE FinishPersist(j)
    BY <2>2 DEF FinishPersist
  <2>3. CASE FinishRemove(j)
    BY <2>3 DEF FinishRemove
  <2> QED BY <1>3, <2>1, <2>2, <2>3 DEF FinishStep
<1>4. ASSUME NEW j \in Jobs, EvictStep(j) PROVE BatchesOK'
  <2>1. CASE TrackDownloads(j)
    BY <2>1 DEF TrackDownloads
  <2>2. CASE EvictRemove(j)
    BY <2>2 DEF EvictRemove
  <2>3. CASE MarkEvicted(j)
    BY <2>3 DEF MarkEvicted
  <2> QED BY <1>4, <2>1, <2>2, <2>3 DEF EvictStep
<1>5. ASSUME NEW j \in Jobs, ResumeTrackDownloads(j) PROVE BatchesOK'
  BY <1>5 DEF ResumeTrackDownloads, ResumeWaiting, ResumeTransfer
<1>6. ASSUME NEW r \in Requests, RequestAction(r) PROVE BatchesOK'
  <2>1. ASSUME NEW k \in scenario.keys, ResolveCached(r, k) PROVE BatchesOK'
    <3>1. ASSUME NEW j \in Jobs, RememberKnown(k, j) PROVE BatchesOK'
      BY <2>1, <3>1 DEF ResolveCached, NewRequest, ReaderBegins, RememberKnown
    <3>2. ASSUME NEW j \in Jobs, RememberNew(k, j) PROVE BatchesOK'
      BY <2>1, <3>2 DEF ResolveCached, NewRequest, ReaderBegins, RememberNew
    <3> QED BY <2>1, <3>1, <3>2 DEF ResolveCached
  <2>2. ASSUME NEW k \in scenario.keys, ResolveMissing(r, k) PROVE BatchesOK'
    BY <2>2 DEF ResolveMissing, NewRequest, ReaderBegins
  <2>3. ASSUME NEW k \in scenario.keys, RetryTrackDownload(r, k) PROVE BatchesOK'
    BY <2>3 DEF RetryTrackDownload, NewRequest
  <2>4. ASSUME NEW k \in scenario.keys, CancelTrackDownload(r, k) PROVE BatchesOK'
    BY <2>4 DEF CancelTrackDownload, NewRequest
  <2>5. CASE EnsureExisting(r)
    BY <2>5 DEF EnsureExisting
  <2>6. CASE EnsureStart(r)
    BY <2>6 DEF EnsureStart
  <2>7. CASE OpenStream(r)
    BY <2>7 DEF OpenStream, EndRequest
  <2>8. CASE OpenFails(r)
    BY <2>8 DEF OpenFails, LeaveRequest, EndRequest, ReaderEnds
  <2>9. ASSUME NEW j \in Jobs, EnsureNew(r, j) PROVE BatchesOK'
    BY <2>9 DEF EnsureNew
  <2>10. CASE CancelFinishes(r)
    <3>1. PICK j \in Jobs : j = req[r].job
      BY <2>10 DEF CancelFinishes, RequestsOK
    <3>2. req[r].pc = "cancelling" /\ FinishJob(j, "cancelled", TRUE) /\ EndRequest(r)
      BY <2>10, <3>1 DEF CancelFinishes
    <3>3. UNCHANGED <<disk, jobs, records, pc, gate, cache, phase>>
      BY <2>10 DEF CancelFinishes
    <3>4. CancelTransfer(req[r].batch)
      BY <2>10 DEF CancelFinishes
    <3> QED BY <3>1, <3>2, <3>3, <3>4, CancelledTransfers DEF EndRequest, FinishJob
  <2>11. CASE CancelFails(r)
    BY <2>11 DEF CancelFails, EndRequest
  <2>12. CASE WaitCancelled(r)
    BY <2>12 DEF WaitCancelled, LeaveRequest, EndRequest, ReaderEnds
  <2>13. CASE CloseReader(r)
    BY <2>13 DEF CloseReader, LeaveRequest, EndRequest, ReaderEnds
  <2>14. CASE CancelStops(r)
    BY <2>14 DEF CancelStops
  <2> QED BY <1>6, <2>1, <2>2, <2>3, <2>4, <2>5, <2>6, <2>7, <2>8, <2>9, <2>10, <2>11, <2>12, <2>13, <2>14 DEF RequestAction, RequestBegins, RequestStep
<1>7. CASE ProcessStep
  BY <1>7 DEF ProcessStep, EvictCollect, Evictable, EvictDone, Serve, Close, CloseWaited
<1>8. ASSUME NEW x \in Transfers, SlskdStep(x) PROVE BatchesOK'
  BY <1>8 DEF SlskdStep, TransferStep, TransferAdvances, TransferSucceeds
<1> QED BY <1>1, <1>2, <1>3, <1>4, <1>5, <1>6, <1>7, <1>8 DEF Moves

\* A goroutine leaves its job only when it is finished, or the server stops.
LEMMA JobsMannedStep ==
  ASSUME TypeOK, Shape, RequestsOK, CreatedOwned, MapsOK, SlotsOK, JobsManned, Moves,
         UNCHANGED scenario
  PROVE  JobsManned'
<1> USE ConstantsAssumption DEF Shape, TypeOK, DiskTypeOK, TransferTypeOK,
          CoordinatorTypeOK, CacheTypeOK, Goto, Persist, Snapshot, KeyOf
<1> USE DEF JobPC, FinPC, RequestPC, States, ActiveStates, Retryable, TransferStates,
          NoTransferYet, NoRequest, NoRecord, NewJob, HasFile, CancelPC
<1> USE DEF disk, coordinator, cache
<1> USE DEF BeingCancelled, RequestsOK, CreatedOwned, MapsOK, SlotsOK, InUse, JobsManned, Free, Recorded,
          Monitored, Closing
<1>1. ASSUME NEW j \in Jobs, EnqueueStep(j) PROVE JobsManned'
  <2>1. CASE AcquireSlot(j)
    BY <2>1 DEF AcquireSlot
  <2>2. CASE GateCancelled(j)
    BY <2>2 DEF GateCancelled
  <2>3. CASE SlotUnused(j)
    BY <2>3 DEF SlotUnused
  <2>4. CASE SlotTaken(j)
    BY <2>4 DEF SlotTaken
  <2>5. CASE SlotPersisted(j)
    BY <2>5 DEF SlotPersisted, PersistThen
  <2>6. CASE PostFailed(j)
    BY <2>6 DEF PostFailed, AnswerLost, FinishJob
  <2>7. CASE PostBackoff(j)
    BY <2>7 DEF PostBackoff, AnswerLost
  <2>8. ASSUME NEW x \in Transfers, Posted(j, x) PROVE JobsManned'
    BY <2>8 DEF Posted
  <2>9. CASE BackoffPersisted(j)
    BY <2>9 DEF BackoffPersisted, PersistThen
  <2>10. CASE BackoffOver(j)
    BY <2>10 DEF BackoffOver
  <2>11. CASE BackoffCancelled(j)
    BY <2>11 DEF BackoffCancelled, FinishJob
  <2>12. CASE BatchPersisted(j)
    <3>1. CASE job[j].monitoring
      BY <2>12, <3>1 DEF BatchPersisted
    <3>2. CASE ~job[j].monitoring /\ job[j].finished
      BY <2>12, <3>2 DEF BatchPersisted
    <3>3. CASE ~job[j].monitoring /\ ~job[j].finished
      BY <2>12, <3>3 DEF BatchPersisted
    <3> QED BY <3>1, <3>2, <3>3
  <2> QED BY <1>1, <2>1, <2>2, <2>3, <2>4, <2>5, <2>6, <2>7, <2>8, <2>9, <2>10, <2>11, <2>12 DEF EnqueueStep
<1>2. ASSUME NEW j \in Jobs, MonitorStep(j) PROVE JobsManned'
  BY <1>2 DEF MonitorStep, MonitorStops, MonitorProgress, ProgressPersisted, PersistThen,
        MonitorSucceeded, MonitorFinishes, FinishJob, MonitorFileMissing, MonitorRetries,
        PrepareAutomaticRetry, MayRetry, RetryPersisted, MonitorFailed, MonitorCancelled,
        NotifyCompleted
<1>3. ASSUME NEW j \in Jobs, FinishStep(j) PROVE JobsManned'
  <2> HIDE DEF RequestsOK, CreatedOwned, SlotsOK, MapsOK, DiskTypeOK, TransferTypeOK, CacheTypeOK
  <2> QED BY <1>3 DEF FinishStep, FinishRelease, ReleaseSlot, FinishPersist, FinishRemove
<1>4. ASSUME NEW j \in Jobs, EvictStep(j) PROVE JobsManned'
  BY <1>4 DEF EvictStep, TrackDownloads, EvictRemove, MarkEvicted
<1>5. ASSUME NEW j \in Jobs, ResumeTrackDownloads(j) PROVE JobsManned'
  BY <1>5 DEF ResumeTrackDownloads, ResumeWaiting, ResumeTransfer
<1>6. ASSUME NEW r \in Requests, RequestAction(r) PROVE JobsManned'
  <2>1. ASSUME NEW k \in scenario.keys, ResolveCached(r, k) PROVE JobsManned'
    <3>1. ASSUME NEW j \in Jobs, RememberKnown(k, j) PROVE JobsManned'
      BY <2>1, <3>1 DEF ResolveCached, NewRequest, ReaderBegins, RememberKnown
    <3>2. ASSUME NEW j \in Jobs, RememberNew(k, j) PROVE JobsManned'
      BY <2>1, <3>2 DEF ResolveCached, NewRequest, ReaderBegins, RememberNew
    <3> QED BY <2>1, <3>1, <3>2 DEF ResolveCached
  <2>2. ASSUME NEW k \in scenario.keys, ResolveMissing(r, k) PROVE JobsManned'
    BY <2>2 DEF ResolveMissing, NewRequest, ReaderBegins
  <2>3. ASSUME NEW k \in scenario.keys, RetryTrackDownload(r, k) PROVE JobsManned'
    BY <2>3 DEF RetryTrackDownload, NewRequest
  <2>4. ASSUME NEW k \in scenario.keys, CancelTrackDownload(r, k) PROVE JobsManned'
    BY <2>4 DEF CancelTrackDownload, NewRequest
  <2>5. CASE EnsureExisting(r)
    BY <2>5 DEF EnsureExisting
  <2>6. CASE EnsureStart(r)
    BY <2>6 DEF EnsureStart
  <2>7. CASE OpenStream(r)
    BY <2>7 DEF OpenStream, EndRequest
  <2>8. CASE OpenFails(r)
    BY <2>8 DEF OpenFails, LeaveRequest, EndRequest, ReaderEnds
  <2>9. ASSUME NEW j \in Jobs, EnsureNew(r, j) PROVE JobsManned'
    BY <2>9 DEF EnsureNew
  <2>10. CASE CancelFinishes(r)
    <3>1. PICK j \in Jobs : j = req[r].job
      BY <2>10 DEF CancelFinishes, RequestsOK
    <3>2. req[r].pc = "cancelling" /\ FinishJob(j, "cancelled", TRUE) /\ EndRequest(r)
      BY <2>10, <3>1 DEF CancelFinishes
    <3>3. UNCHANGED <<disk, jobs, records, pc, gate, cache, phase>>
      BY <2>10 DEF CancelFinishes
    <3>4. CancelTransfer(req[r].batch)
      BY <2>10 DEF CancelFinishes
    <3> QED BY <3>1, <3>2, <3>3, <3>4, CancelledTransfers DEF EndRequest, FinishJob
  <2>11. CASE CancelFails(r)
    BY <2>11 DEF CancelFails, EndRequest
  <2>12. CASE WaitCancelled(r)
    BY <2>12 DEF WaitCancelled, LeaveRequest, EndRequest, ReaderEnds
  <2>13. CASE CloseReader(r)
    BY <2>13 DEF CloseReader, LeaveRequest, EndRequest, ReaderEnds
  <2>14. CASE CancelStops(r)
    BY <2>14 DEF CancelStops
  <2> QED BY <1>6, <2>1, <2>2, <2>3, <2>4, <2>5, <2>6, <2>7, <2>8, <2>9, <2>10, <2>11, <2>12, <2>13, <2>14 DEF RequestAction, RequestBegins, RequestStep
<1>7. CASE ProcessStep
  BY <1>7 DEF ProcessStep, EvictCollect, Evictable, EvictDone, Serve, Close, CloseWaited
<1>8. ASSUME NEW x \in Transfers, SlskdStep(x) PROVE JobsManned'
  BY <1>8 DEF SlskdStep, TransferStep, TransferAdvances, TransferSucceeds
<1> QED BY <1>1, <1>2, <1>3, <1>4, <1>5, <1>6, <1>7, <1>8 DEF Moves

\* Undisturbed jobs keep their records right.
LEMMA RecordsOKStep ==
  ASSUME TypeOK, Shape, RequestsOK, CreatedOwned, MapsOK, SlotsOK, EvictionOK, RecordsOK,
         BatchesOK, Moves, UNCHANGED scenario
  PROVE  RecordsOK'
<1> USE ConstantsAssumption DEF Shape, TypeOK, DiskTypeOK, TransferTypeOK,
          CoordinatorTypeOK, CacheTypeOK, Goto, Persist, Snapshot, KeyOf
<1> USE DEF JobPC, FinPC, RequestPC, States, ActiveStates, Retryable, TransferStates,
          NoTransferYet, NoRequest, NoRecord, NewJob, HasFile, CancelPC
<1> USE DEF disk, coordinator, cache
<1> USE DEF RequestsOK, CreatedOwned, MapsOK, SlotsOK, InUse, EvictionOK, RecordsOK,
          Undisturbed, Happens, Free, Recorded, Monitored, BatchesOK
<1>1. ASSUME NEW j \in Jobs, EnqueueStep(j) PROVE RecordsOK'
  <2>1. CASE AcquireSlot(j)
    BY <2>1 DEF AcquireSlot
  <2>2. CASE GateCancelled(j)
    BY <2>2 DEF GateCancelled
  <2>3. CASE SlotUnused(j)
    BY <2>3 DEF SlotUnused
  <2>4. CASE SlotTaken(j)
    BY <2>4 DEF SlotTaken
  <2>5. CASE SlotPersisted(j)
    BY <2>5 DEF SlotPersisted, PersistThen
  <2>6. CASE PostFailed(j)
    BY <2>6 DEF PostFailed, AnswerLost, FinishJob
  <2>7. CASE PostBackoff(j)
    BY <2>7 DEF PostBackoff, AnswerLost
  <2>8. ASSUME NEW x \in Transfers, Posted(j, x) PROVE RecordsOK'
    BY <2>8 DEF Posted
  <2>9. CASE BackoffPersisted(j)
    BY <2>9 DEF BackoffPersisted, PersistThen
  <2>10. CASE BackoffOver(j)
    BY <2>10 DEF BackoffOver
  <2>11. CASE BackoffCancelled(j)
    BY <2>11 DEF BackoffCancelled, FinishJob
  <2>12. CASE BatchPersisted(j)
    <3>1. \A i \in Jobs : /\ job'[i].finished <=> job[i].finished
                         /\ job'[i].state = job[i].state /\ job'[i].key = job[i].key
      BY <2>12 DEF BatchPersisted
    <3>2. /\ \A i \in Jobs \ {j} : pc'[i] = pc[i]
          /\ pc[j] = "persistBatch" /\ pc'[j] \in {"none", "monitor"}
      BY <2>12 DEF BatchPersisted
    <3>3. job[j].key \in Keys /\ \A k \in Keys : saved'[k] = IF k = job[j].key THEN Snapshot(j) ELSE saved[k]
      BY <2>12 DEF BatchPersisted
    <3>4. UNCHANGED <<final, jobs, candidates, removed, req>>
      BY <2>12 DEF BatchPersisted
    <3>5. jobs \in [Keys -> Jobs \cup {NoJob}]
      OBVIOUS
    <3> HIDE DEF MapsOK, SlotsOK, InUse, EvictionOK, CreatedOwned, RequestsOK, Free, BatchesOK, Recorded, TypeOK, DiskTypeOK, TransferTypeOK, CacheTypeOK, CoordinatorTypeOK, Shape
    <3> QED BY <3>1, <3>2, <3>3, <3>4, <3>5
  <2> QED BY <1>1, <2>1, <2>2, <2>3, <2>4, <2>5, <2>6, <2>7, <2>8, <2>9, <2>10, <2>11, <2>12 DEF EnqueueStep
<1>2. ASSUME NEW j \in Jobs, MonitorStep(j) PROVE RecordsOK'
  <2>1. CASE MonitorStops(j)
    BY <2>1 DEF MonitorStops
  <2>2. CASE MonitorProgress(j)
    BY <2>2 DEF MonitorProgress
  <2>3. CASE ProgressPersisted(j)
    BY <2>3 DEF ProgressPersisted, PersistThen
  <2>4. CASE MonitorSucceeded(j)
    BY <2>4 DEF MonitorSucceeded, MonitorFinishes, FinishJob
  <2>5. CASE MonitorFileMissing(j)
    BY <2>5 DEF MonitorFileMissing, MonitorFinishes, FinishJob
  <2>6. CASE MonitorRetries(j)
    BY <2>6 DEF MonitorRetries, PrepareAutomaticRetry, MayRetry
  <2>7. CASE RetryPersisted(j)
    BY <2>7 DEF RetryPersisted, PersistThen
  <2>8. CASE MonitorFailed(j)
    BY <2>8 DEF MonitorFailed, MonitorFinishes, FinishJob
  <2>9. CASE MonitorCancelled(j)
    BY <2>9 DEF MonitorCancelled, MonitorFinishes, FinishJob
  <2>10. CASE NotifyCompleted(j)
    BY <2>10 DEF NotifyCompleted
  <2> QED BY <1>2, <2>1, <2>2, <2>3, <2>4, <2>5, <2>6, <2>7, <2>8, <2>9, <2>10 DEF MonitorStep
<1>3. ASSUME NEW j \in Jobs, FinishStep(j) PROVE RecordsOK'
  <2>1. CASE FinishRelease(j)
    BY <2>1 DEF FinishRelease, ReleaseSlot
  <2>2. CASE FinishPersist(j)
    BY <2>2 DEF FinishPersist
  <2>3. CASE FinishRemove(j)
    BY <2>3 DEF FinishRemove
  <2> QED BY <1>3, <2>1, <2>2, <2>3 DEF FinishStep
<1>4. ASSUME NEW j \in Jobs, EvictStep(j) PROVE RecordsOK'
  BY <1>4 DEF EvictStep, TrackDownloads, EvictRemove, MarkEvicted
<1>5. ASSUME NEW j \in Jobs, ResumeTrackDownloads(j) PROVE RecordsOK'
  <2>1. CASE ResumeWaiting(j)
    <3>1. \A i \in Jobs : /\ job'[i].finished <=> job[i].finished
                         /\ job'[i].state = job[i].state /\ job'[i].key = job[i].key
      BY <1>5, <2>1 DEF ResumeWaiting, ResumeTrackDownloads
    <3>2. pc[j] = "restored" /\ \A i \in Jobs \ {j} : pc'[i] = pc[i]
      BY <1>5, <2>1 DEF ResumeWaiting, ResumeTrackDownloads
    <3>3. ~job[j].finished
      BY <3>2
    <3>4. UNCHANGED <<saved, final, jobs, candidates, removed, req>>
      BY <1>5, <2>1 DEF ResumeTrackDownloads
    <3>5. jobs \in [Keys -> Jobs \cup {NoJob}]
      OBVIOUS
    <3> HIDE DEF MapsOK, SlotsOK, InUse, EvictionOK, CreatedOwned, RequestsOK, Free, BatchesOK, Recorded, TypeOK, DiskTypeOK, TransferTypeOK, CacheTypeOK, CoordinatorTypeOK, Shape
    <3> QED BY <3>1, <3>2, <3>3, <3>4, <3>5
  <2>2. CASE ResumeTransfer(j)
    <3>1. \A i \in Jobs : /\ job'[i].finished <=> job[i].finished
                         /\ job'[i].state = job[i].state /\ job'[i].key = job[i].key
      BY <1>5, <2>2 DEF ResumeTransfer, ResumeTrackDownloads
    <3>2. pc[j] = "restored" /\ \A i \in Jobs \ {j} : pc'[i] = pc[i]
      BY <1>5, <2>2 DEF ResumeTransfer, ResumeTrackDownloads
    <3>3. ~job[j].finished
      BY <3>2
    <3>4. UNCHANGED <<saved, final, jobs, candidates, removed, req>>
      BY <1>5, <2>2 DEF ResumeTrackDownloads
    <3>5. jobs \in [Keys -> Jobs \cup {NoJob}]
      OBVIOUS
    <3> HIDE DEF MapsOK, SlotsOK, InUse, EvictionOK, CreatedOwned, RequestsOK, Free, BatchesOK, Recorded, TypeOK, DiskTypeOK, TransferTypeOK, CacheTypeOK, CoordinatorTypeOK, Shape
    <3> QED BY <3>1, <3>2, <3>3, <3>4, <3>5
  <2> QED BY <1>5, <2>1, <2>2 DEF ResumeTrackDownloads
<1>6. ASSUME NEW r \in Requests, RequestAction(r) PROVE RecordsOK'
  <2>1. ASSUME NEW k \in scenario.keys, ResolveCached(r, k) PROVE RecordsOK'
    <3>1. ASSUME NEW j \in Jobs, RememberKnown(k, j) PROVE RecordsOK'
      <4> HIDE DEF CreatedOwned, TransferTypeOK, CacheTypeOK, BatchesOK, Free, EvictionOK, SlotsOK
      <4> QED BY <2>1, <3>1 DEF ResolveCached, NewRequest, ReaderBegins, RememberKnown
    <3>2. ASSUME NEW j \in Jobs, RememberNew(k, j) PROVE RecordsOK'
      BY <2>1, <3>2 DEF ResolveCached, NewRequest, ReaderBegins, RememberNew
    <3> QED BY <2>1, <3>1, <3>2 DEF ResolveCached
  <2>2. ASSUME NEW k \in scenario.keys, ResolveMissing(r, k) PROVE RecordsOK'
    BY <2>2 DEF ResolveMissing, NewRequest, ReaderBegins
  <2>3. ASSUME NEW k \in scenario.keys, RetryTrackDownload(r, k) PROVE RecordsOK'
    BY <2>3 DEF RetryTrackDownload, NewRequest
  <2>4. ASSUME NEW k \in scenario.keys, CancelTrackDownload(r, k) PROVE RecordsOK'
    BY <2>4 DEF CancelTrackDownload, NewRequest
  <2>5. CASE EnsureExisting(r)
    BY <2>5 DEF EnsureExisting
  <2>6. CASE EnsureStart(r)
    BY <2>6 DEF EnsureStart
  <2>7. CASE OpenStream(r)
    BY <2>7 DEF OpenStream, EndRequest
  <2>8. CASE OpenFails(r)
    BY <2>8 DEF OpenFails, LeaveRequest, EndRequest, ReaderEnds
  <2>9. ASSUME NEW j \in Jobs, EnsureNew(r, j) PROVE RecordsOK'
    BY <2>9 DEF EnsureNew
  <2>10. CASE CancelFinishes(r)
    <3>1. PICK j \in Jobs : j = req[r].job
      BY <2>10 DEF CancelFinishes, RequestsOK
    <3>2. req[r].pc = "cancelling" /\ FinishJob(j, "cancelled", TRUE) /\ EndRequest(r)
      BY <2>10, <3>1 DEF CancelFinishes
    <3>3. UNCHANGED <<disk, jobs, records, pc, gate, cache, phase>>
      BY <2>10 DEF CancelFinishes
    <3>4. CancelTransfer(req[r].batch)
      BY <2>10 DEF CancelFinishes
    <3> QED BY <3>1, <3>2, <3>3, <3>4, CancelledTransfers DEF EndRequest, FinishJob
  <2>11. CASE CancelFails(r)
    BY <2>11 DEF CancelFails, EndRequest
  <2>12. CASE WaitCancelled(r)
    BY <2>12 DEF WaitCancelled, LeaveRequest, EndRequest, ReaderEnds
  <2>13. CASE CloseReader(r)
    BY <2>13 DEF CloseReader, LeaveRequest, EndRequest, ReaderEnds
  <2>14. CASE CancelStops(r)
    BY <2>14 DEF CancelStops
  <2> QED BY <1>6, <2>1, <2>2, <2>3, <2>4, <2>5, <2>6, <2>7, <2>8, <2>9, <2>10, <2>11, <2>12, <2>13, <2>14 DEF RequestAction, RequestBegins, RequestStep
<1>7. CASE ProcessStep
  BY <1>7 DEF ProcessStep, EvictCollect, Evictable, EvictDone, Serve, Close, CloseWaited
<1>8. ASSUME NEW x \in Transfers, SlskdStep(x) PROVE RecordsOK'
  BY <1>8 DEF SlskdStep, TransferStep, TransferAdvances, TransferSucceeds
<1> QED BY <1>1, <1>2, <1>3, <1>4, <1>5, <1>6, <1>7, <1>8 DEF Moves

\* A reason stays a reason while a job or a record names the batch: an ended transfer
\* changes only when its object is used again, and it is not while it is referred to.
LEMMA ExplainedKept ==
  ASSUME TypeOK, Shape, NEW b \in Transfers \cup {NoTransfer}, Explained(b),
         UNCHANGED scenario,
         (\E k \in Keys : saved[k].batch = b) \/ \E j \in Jobs : Recorded(j) /\ job[j].batch = b,
         \A x \in Transfers : \/ transfer'[x].state = transfer[x].state
                               \/ transfer[x].state \in {"queued", "inProgress"} \/ MayServe(x)
  PROVE  Explained(b)'
<1>1. CASE b = NoTransfer
  BY <1>1 DEF Explained, MayFailUnsent, Happens
<1>2. CASE b \in Transfers
  <2>1. b # NoTransfer /\ transfer[b].state \in {"rejected", "aborted", "gone", "succeeded"}
    BY <1>2, ConstantsAssumption DEF Explained
  <2>2. ~MayServe(b)
    BY DEF MayServe, Unused, Free, Recorded
  <2> QED BY <1>2, <2>1, <2>2 DEF Explained
<1> QED BY <1>1, <1>2

\* The context of an unfinished job ends only because the server stops or somebody cancels it.
LEMMA ContextEnds ==
  ASSUME RequestsOK, SlotsOK, NEW j \in Jobs, ~job[j].finished, ContextDone(j)
  PROVE  Closing \/ Happens("cancel")
BY DEF ContextDone, SlotsOK, RequestsOK, BeingCancelled, CancelPC

\* A failure has a reason, and keeps it.
LEMMA FailuresOKStep ==
  ASSUME TypeOK, Shape, RequestsOK, CreatedOwned, MapsOK, SlotsOK, BatchesOK, FailuresOK,
         Moves, UNCHANGED scenario
  PROVE  FailuresOK'
<1> USE ConstantsAssumption DEF Shape, TypeOK, DiskTypeOK, TransferTypeOK,
          CoordinatorTypeOK, CacheTypeOK, Goto, Persist, Snapshot, KeyOf
<1> USE DEF JobPC, FinPC, RequestPC, States, ActiveStates, Retryable, TransferStates,
          NoTransferYet, NoRequest, NoRecord, NewJob, HasFile, CancelPC
<1> USE DEF disk, coordinator, cache
<1> USE DEF MayFailUnsent, RequestsOK, CreatedOwned, MapsOK, SlotsOK, InUse, FailuresOK, Explained,
          Happens, Free, Recorded, Monitored, Closing, TransferOf, BatchesOK, UnsentPC,
          SentPC, MayServe, Unused, ContextDone
<1>1. ASSUME NEW j \in Jobs, EnqueueStep(j) PROVE FailuresOK'
  <2>1. CASE AcquireSlot(j)
    BY <2>1 DEF AcquireSlot
  <2>2. CASE GateCancelled(j)
    BY <2>2 DEF GateCancelled
  <2>3. CASE SlotUnused(j)
    BY <2>3 DEF SlotUnused
  <2>4. CASE SlotTaken(j)
    BY <2>4 DEF SlotTaken
  <2>5. CASE SlotPersisted(j)
    BY <2>5 DEF SlotPersisted, PersistThen
  <2>6. CASE PostFailed(j)
    <3> HIDE DEF MayServe, Unused, Free
    <3>6. \A x \in Transfers : \/ transfer'[x].state = transfer[x].state
                                \/ transfer[x].state \in {"queued", "inProgress"} \/ MayServe(x)
      BY <2>6 DEF PostFailed, AnswerLost
    <3>7. \A b \in Transfers \cup {NoTransfer} :
            /\ Explained(b)
            /\ (\E k \in Keys : saved[k].batch = b) \/ \E i \in Jobs : Recorded(i) /\ job[i].batch = b
            => Explained(b)'
      BY <3>6, ExplainedKept
    <3>8. \A k \in Keys : saved'[k].state = saved[k].state /\ saved'[k].batch = saved[k].batch
      BY <2>6 DEF PostFailed
    <3>9. \A i \in Jobs : Recorded(i)' <=> Recorded(i)
      BY <2>6 DEF PostFailed

    <3>10. \A i \in Jobs \ {j} : job'[i] = job[i] /\ pc'[i] = pc[i]
      BY <2>6 DEF PostFailed, FinishJob
    <3>11. CASE job[j].finished
      BY <2>6, <3>7, <3>8, <3>9, <3>10, <3>11 DEF PostFailed, FinishJob
    <3>12. CASE ~job[j].finished
      <4>1. job[j].batch = NoTransfer
        BY <2>6, <3>12 DEF PostFailed
      <4>2. ~Happens("outage") => MayFailUnsent
        <5>1. ~Happens("outage") => ContextDone(j) \/ Happens("refuse")
          BY <2>6 DEF PostFailed
        <5> HIDE DEF ContextDone, RequestsOK, SlotsOK
        <5> QED BY <3>12, <5>1, ContextEnds
      <4>3. job'[j].batch = NoTransfer /\ job'[j].finished /\ pc'[j] = "none"
        BY <2>6, <3>12, <4>1 DEF PostFailed, FinishJob
      <4>4. phase' = phase
        BY <2>6 DEF PostFailed
      <4> QED BY <3>7, <3>8, <3>9, <3>10, <4>2, <4>3, <4>4
    <3> QED BY <3>11, <3>12
  <2>7. CASE PostBackoff(j)
    BY <2>7 DEF PostBackoff, AnswerLost
  <2>8. ASSUME NEW x \in Transfers, Posted(j, x) PROVE FailuresOK'
    BY <2>8 DEF Posted
  <2>9. CASE BackoffPersisted(j)
    BY <2>9 DEF BackoffPersisted, PersistThen
  <2>10. CASE BackoffOver(j)
    BY <2>10 DEF BackoffOver
  <2>11. CASE BackoffCancelled(j)
    <3>1. CASE job[j].finished
      BY <2>11, <3>1 DEF BackoffCancelled, FinishJob
    <3>2. CASE ~job[j].finished
      <4>1. ContextDone(j) /\ job[j].batch = NoTransfer
        BY <2>11 DEF BackoffCancelled
      <4>2. MayFailUnsent
        BY <3>2, <4>1, ContextEnds DEF FailuresOK, MayFailUnsent
      <4> HIDE DEF MayFailUnsent, ContextDone, MayServe, Unused, Free
      <4>3. MayFailUnsent' <=> MayFailUnsent
        BY DEF MayFailUnsent, Happens
      <4> QED BY <2>11, <3>2, <4>1, <4>2, <4>3 DEF BackoffCancelled, FinishJob
    <3> QED BY <3>1, <3>2
  <2>12. CASE BatchPersisted(j)
    <3> HIDE DEF MayFailUnsent, MayServe, Unused, Free, RequestsOK, CreatedOwned, DiskTypeOK, CacheTypeOK
    <3>1. MayFailUnsent' <=> MayFailUnsent
      BY DEF MayFailUnsent, Happens
    <3> QED BY <2>12, <3>1 DEF BatchPersisted
  <2> QED BY <1>1, <2>1, <2>2, <2>3, <2>4, <2>5, <2>6, <2>7, <2>8, <2>9, <2>10, <2>11, <2>12 DEF EnqueueStep
<1>2. ASSUME NEW j \in Jobs, MonitorStep(j) PROVE FailuresOK'
  <2>1. CASE MonitorStops(j)
    BY <2>1 DEF MonitorStops
  <2>2. CASE MonitorProgress(j)
    BY <2>2 DEF MonitorProgress
  <2>3. CASE ProgressPersisted(j)
    BY <2>3 DEF ProgressPersisted, PersistThen
  <2>4. CASE MonitorSucceeded(j)
    <3> HIDE DEF MayFailUnsent, MayServe, Unused, Free, RequestsOK, CreatedOwned, DiskTypeOK, CacheTypeOK
    <3>1. MayFailUnsent' <=> MayFailUnsent
      BY DEF MayFailUnsent, Happens
    <3> QED BY <2>4, <3>1 DEF MonitorSucceeded, MonitorFinishes, FinishJob
  <2>5. CASE MonitorFileMissing(j)
    BY <2>5 DEF MonitorFileMissing, MonitorFinishes, FinishJob
  <2>6. CASE MonitorRetries(j)
    BY <2>6 DEF MonitorRetries, PrepareAutomaticRetry, MayRetry
  <2>7. CASE RetryPersisted(j)
    BY <2>7 DEF RetryPersisted, PersistThen
  <2>8. CASE MonitorFailed(j)
    BY <2>8 DEF MonitorFailed, MonitorFinishes, FinishJob
  <2>9. CASE MonitorCancelled(j)
    <3> HIDE DEF MayFailUnsent, MayServe, Unused, Free, RequestsOK, CreatedOwned, DiskTypeOK, CacheTypeOK
    <3>1. MayFailUnsent' <=> MayFailUnsent
      BY DEF MayFailUnsent, Happens
    <3> QED BY <2>9, <3>1 DEF MonitorCancelled, MonitorFinishes, FinishJob
  <2>10. CASE NotifyCompleted(j)
    BY <2>10 DEF NotifyCompleted
  <2> QED BY <1>2, <2>1, <2>2, <2>3, <2>4, <2>5, <2>6, <2>7, <2>8, <2>9, <2>10 DEF MonitorStep
<1>3. ASSUME NEW j \in Jobs, FinishStep(j) PROVE FailuresOK'
  <2>1. CASE FinishRelease(j)
    BY <2>1 DEF FinishRelease, ReleaseSlot
  <2>2. CASE FinishPersist(j)
    BY <2>2 DEF FinishPersist
  <2>3. CASE FinishRemove(j)
    BY <2>3 DEF FinishRemove
  <2> QED BY <1>3, <2>1, <2>2, <2>3 DEF FinishStep
<1>4. ASSUME NEW j \in Jobs, EvictStep(j) PROVE FailuresOK'
  <2>1. CASE TrackDownloads(j)
    BY <2>1 DEF TrackDownloads
  <2>2. CASE EvictRemove(j)
    BY <2>2 DEF EvictRemove
  <2>3. CASE MarkEvicted(j)
    BY <2>3 DEF MarkEvicted
  <2> QED BY <1>4, <2>1, <2>2, <2>3 DEF EvictStep
<1>5. ASSUME NEW j \in Jobs, ResumeTrackDownloads(j) PROVE FailuresOK'
  BY <1>5 DEF ResumeTrackDownloads, ResumeWaiting, ResumeTransfer
<1>6. ASSUME NEW r \in Requests, RequestAction(r) PROVE FailuresOK'
  <2>1. ASSUME NEW k \in scenario.keys, ResolveCached(r, k) PROVE FailuresOK'
    <3>1. ASSUME NEW j \in Jobs, RememberKnown(k, j) PROVE FailuresOK'
      BY <2>1, <3>1 DEF ResolveCached, NewRequest, ReaderBegins, RememberKnown
    <3>2. ASSUME NEW j \in Jobs, RememberNew(k, j) PROVE FailuresOK'
      BY <2>1, <3>2 DEF ResolveCached, NewRequest, ReaderBegins, RememberNew
    <3> QED BY <2>1, <3>1, <3>2 DEF ResolveCached
  <2>2. ASSUME NEW k \in scenario.keys, ResolveMissing(r, k) PROVE FailuresOK'
    BY <2>2 DEF ResolveMissing, NewRequest, ReaderBegins
  <2>3. ASSUME NEW k \in scenario.keys, RetryTrackDownload(r, k) PROVE FailuresOK'
    BY <2>3 DEF RetryTrackDownload, NewRequest
  <2>4. ASSUME NEW k \in scenario.keys, CancelTrackDownload(r, k) PROVE FailuresOK'
    BY <2>4 DEF CancelTrackDownload, NewRequest
  <2>5. CASE EnsureExisting(r)
    BY <2>5 DEF EnsureExisting
  <2>6. CASE EnsureStart(r)
    BY <2>6 DEF EnsureStart
  <2>7. CASE OpenStream(r)
    BY <2>7 DEF OpenStream, EndRequest
  <2>8. CASE OpenFails(r)
    BY <2>8 DEF OpenFails, LeaveRequest, EndRequest, ReaderEnds
  <2>9. ASSUME NEW j \in Jobs, EnsureNew(r, j) PROVE FailuresOK'
    BY <2>9 DEF EnsureNew
  <2>10. CASE CancelFinishes(r)
    <3>1. PICK j \in Jobs : j = req[r].job
      BY <2>10 DEF CancelFinishes, RequestsOK
    <3>2. req[r].pc = "cancelling" /\ FinishJob(j, "cancelled", TRUE) /\ EndRequest(r)
      BY <2>10, <3>1 DEF CancelFinishes
    <3>3. UNCHANGED <<disk, jobs, records, pc, gate, cache, phase>>
      BY <2>10 DEF CancelFinishes
    <3>4. CancelTransfer(req[r].batch)
      BY <2>10 DEF CancelFinishes
    <3>6. \A x \in Transfers : \/ transfer'[x].state = transfer[x].state
                                \/ transfer[x].state \in {"queued", "inProgress"} \/ MayServe(x)
      BY <3>4, CancelledTransfers
    <3>7. \A b \in Transfers \cup {NoTransfer} :
            /\ Explained(b)
            /\ (\E k \in Keys : saved[k].batch = b) \/ \E i \in Jobs : Recorded(i) /\ job[i].batch = b
            => Explained(b)'
      BY <3>6, ExplainedKept
    <3>8. \A k \in Keys : saved'[k].state = saved[k].state /\ saved'[k].batch = saved[k].batch
      BY <3>3
    <3>9. \A i \in Jobs : Recorded(i)' <=> Recorded(i)
      BY <3>3

    <3>10. \A i \in Jobs : /\ job'[i].batch = job[i].batch
                           /\ job'[i].state = "failed" => job[i].state = "failed"
                           /\ job[i].finished => job'[i].finished
      BY <3>2 DEF FinishJob
    <3> HIDE DEF Explained, Recorded, Free, MayServe, Unused
    <3> QED BY <3>3, <3>7, <3>8, <3>9, <3>10
  <2>11. CASE CancelFails(r)
    BY <2>11 DEF CancelFails, EndRequest
  <2>12. CASE WaitCancelled(r)
    BY <2>12 DEF WaitCancelled, LeaveRequest, EndRequest, ReaderEnds
  <2>13. CASE CloseReader(r)
    BY <2>13 DEF CloseReader, LeaveRequest, EndRequest, ReaderEnds
  <2>14. CASE CancelStops(r)
    BY <2>14 DEF CancelStops
  <2> QED BY <1>6, <2>1, <2>2, <2>3, <2>4, <2>5, <2>6, <2>7, <2>8, <2>9, <2>10, <2>11, <2>12, <2>13, <2>14 DEF RequestAction, RequestBegins, RequestStep
<1>7. CASE ProcessStep
  BY <1>7 DEF ProcessStep, EvictCollect, Evictable, EvictDone, Serve, Close, CloseWaited
<1>8. ASSUME NEW x \in Transfers, SlskdStep(x) PROVE FailuresOK'
  <2>1. CASE TransferStep(x)
    BY <2>1 DEF TransferStep, TransferAdvances
  <2>2. CASE TransferSucceeds(x)
    BY <2>2 DEF TransferSucceeds, TransferAdvances
  <2> QED BY <1>8, <2>1, <2>2 DEF SlskdStep
<1> QED BY <1>1, <1>2, <1>3, <1>4, <1>5, <1>6, <1>7, <1>8 DEF Moves

-----------------------------------------------------------------------------
\* The start of a process.

\* What restoreJob makes of a record.
LEMMA RestoredJob ==
  ASSUME TypeOK, Shape, BatchesOK, NEW k \in Kept
  PROVE  /\ DOMAIN Restored(k) = {"key", "state", "batch", "retries", "attempt", "finished",
                                  "err", "slotHeld", "ready", "cancelled", "monitoring"}
         /\ Restored(k).key = k /\ Restored(k).batch = saved[k].batch
         /\ Restored(k).retries = saved[k].retries /\ Restored(k).attempt = 1
         /\ ~Restored(k).slotHeld /\ ~Restored(k).cancelled
         /\ ~Restored(k).finished => /\ Restored(k).state \in {"waiting", "queued", "downloading"}
                                     /\ Restored(k).state = saved[k].state
                                     /\ Restored(k).state # "waiting" => saved[k].batch # NoTransfer
         /\ Restored(k).finished =>
              \/ Restored(k).state = "cached" /\ HasFile(k)
              \/ Restored(k).state \in {"cancelled", "evicted"}
              \/ Restored(k).state = "failed" /\ (saved[k].batch = NoTransfer \/ saved[k].state = "failed")
<1> USE DEF TypeOK, DiskTypeOK, BatchesOK, Kept, NewJob, States, ActiveStates, Retryable
<1>1. k \in Keys /\ saved[k].state \in States
  OBVIOUS
<1>2. CASE HasFile(k)
  BY <1>1, <1>2 DEF Restored
<1>3. CASE ~HasFile(k) /\ saved[k].state = "waiting"
  BY <1>1, <1>3 DEF Restored
<1>4. CASE ~HasFile(k) /\ saved[k].state \in {"queued", "downloading"}
  BY <1>1, <1>4 DEF Restored
<1>5. CASE ~HasFile(k) /\ saved[k].state \in {"cached"}
  BY <1>1, <1>5 DEF Restored
<1>6. CASE ~HasFile(k) /\ saved[k].state \in {"failed", "cancelled", "evicted"}
  BY <1>1, <1>6 DEF Restored
<1> QED BY <1>1, <1>2, <1>3, <1>4, <1>5, <1>6

\* The next process has one object per record, and starts from it.
LEMMA LoadedJobs ==
  ASSUME TypeOK, Shape, BatchesOK, NEW id \in [Keys -> Jobs],
         \A k, l \in Keys : id[k] = id[l] => k = l, Load(id)
  PROVE  /\ \A k \in Kept : id[k] \in Jobs /\ job'[id[k]] = Restored(k)
         /\ \A k \in Kept : pc'[id[k]] = IF Restored(k).finished THEN "none" ELSE "restored"
         /\ \A j \in Jobs : (\A k \in Kept : id[k] # j) => job'[j] = NoJobYet /\ pc'[j] = "none"
         /\ \A k \in Keys : records'[k] = IF k \in Kept THEN id[k] ELSE NoJob
         /\ \A k \in Keys : jobs'[k] = IF k \in Kept /\ ~Restored(k).finished THEN id[k] ELSE NoJob
<1>1. Kept \subseteq Keys
  BY DEF Kept
<1>2. ASSUME NEW k \in Kept PROVE job'[id[k]] = Restored(k)
  <2>1. \E l \in Kept : id[l] = id[k]
    OBVIOUS
  <2>2. (CHOOSE l \in Kept : id[l] = id[k]) = k
    BY <1>1
  <2> QED BY <1>1, <2>1, <2>2 DEF Load
<1>3. \A j \in Jobs : (\A k \in Kept : id[k] # j) => job'[j] = NoJobYet /\ pc'[j] = "none"
  BY DEF Load, Unfinished
<1>4. \A k \in Kept : pc'[id[k]] = IF Restored(k).finished THEN "none" ELSE "restored"
  BY <1>1 DEF Load, Unfinished
<1>5. /\ \A k \in Keys : records'[k] = IF k \in Kept THEN id[k] ELSE NoJob
      /\ \A k \in Keys : jobs'[k] = IF k \in Kept /\ ~Restored(k).finished THEN id[k] ELSE NoJob
  BY <1>1 DEF Load, Unfinished
<1> QED BY <1>1, <1>2, <1>3, <1>4, <1>5

\* A start of the process keeps the inductive invariant.
LEMMA RestartIInv ==
  ASSUME IInv, Restart, UNCHANGED scenario
  PROVE  IInv'
<1> USE DEF IInv
<1>1. PICK id \in [Keys -> Jobs] : (\A k, l \in Keys : id[k] = id[l] => k = l) /\ Load(id)
  BY DEF Restart
<1>2. /\ \A k \in Kept : id[k] \in Jobs /\ job'[id[k]] = Restored(k)
      /\ \A k \in Kept : pc'[id[k]] = IF Restored(k).finished THEN "none" ELSE "restored"
      /\ \A j \in Jobs : (\A k \in Kept : id[k] # j) => job'[j] = NoJobYet /\ pc'[j] = "none"
      /\ \A k \in Keys : records'[k] = IF k \in Kept THEN id[k] ELSE NoJob
      /\ \A k \in Keys : jobs'[k] = IF k \in Kept /\ ~Restored(k).finished THEN id[k] ELSE NoJob
  BY <1>1, LoadedJobs
<1>3. /\ fin' = Idle /\ gate' = 0 /\ active' = [k \in Keys |-> 0] /\ cacheMu' = FALSE
      /\ candidates' = {} /\ removed' = NoJob /\ req' = [r \in Requests |-> NoRequest]
      /\ phase' = "loaded" /\ UNCHANGED <<final, transfer>>
  BY DEF Restart
<1>4. \A k \in Keys : /\ DOMAIN saved'[k] = DOMAIN saved[k]
                      /\ saved'[k].batch = saved[k].batch /\ saved'[k].retries = saved[k].retries
                      /\ k \in Kept => saved'[k].state = Restored(k).state
                      /\ k \notin Kept => saved'[k] = saved[k]
  BY <1>1 DEF Load, Shape
<1>5. Kept \subseteq Keys /\ NoJob \notin Jobs /\ NoKey \notin Keys
  BY ConstantsAssumption DEF Kept
<1>6. DOMAIN job' = Jobs /\ DOMAIN saved' = Keys /\ pc' \in [Jobs -> {"none", "restored"}]
      /\ records' \in [Keys -> Jobs \cup {NoJob}] /\ jobs' \in [Keys -> Jobs \cup {NoJob}]
  BY <1>1, <1>5 DEF Load
<1>7. Shape'
  BY <1>1, <1>2, <1>3, <1>4, <1>5, <1>6, RestoredJob DEF Shape, NoJobYet, NewJob, NoRequest
<1>8. TypeOK'
  <2>1. TransferTypeOK' /\ CacheTypeOK'
    BY <1>3 DEF TypeOK, TransferTypeOK, CacheTypeOK
  <2>3. DiskTypeOK'
    BY <1>3, <1>4, RestoredJob DEF TypeOK, DiskTypeOK, States, ActiveStates, Retryable
  <2>2. CoordinatorTypeOK'
    BY <1>2, <1>3, <1>5, <1>6, RestoredJob, ConstantsAssumption
    DEF TypeOK, DiskTypeOK, CoordinatorTypeOK, States, ActiveStates, Retryable, NoJobYet, NewJob, Idle,
        JobPC, FinPC
  <2> QED BY <1>3, <2>1, <2>2, <2>3 DEF TypeOK, RequestPC, NoRequest
<1>9. RequestsOK' /\ CreatedOwned'
  BY <1>3 DEF RequestsOK, CreatedOwned, CancelPC, NoRequest
<1>10. MapsOK'
  BY <1>2, <1>3, <1>5, <1>6, RestoredJob
  DEF MapsOK, InUse, Recorded, KeyOf, NoJobYet, NewJob, Idle, NoRequest
<1>11. SlotsOK'
  BY <1>2, <1>3, <1>5, <1>6, RestoredJob DEF SlotsOK, EarlyPC, NoJobYet, NewJob, Idle
<1>12. SlotsHeld'
  <2>1. SlotHolders' = {}
    BY <1>2, <1>3, <1>5, <1>6, RestoredJob DEF SlotHolders, NoJobYet, NewJob, Idle
  <2> QED BY <1>3, <2>1, FS_EmptySet DEF SlotsHeld
<1>13. ReadersCounted'
  <2>1. \A k \in Keys : Readers(k)' = {}
    BY <1>3 DEF Readers, NoRequest
  <2> QED BY <1>3, <2>1, FS_EmptySet DEF ReadersCounted
<1>14. EvictionOK'
  BY <1>3, <1>5 DEF EvictionOK
<1>15. BatchesOK'
  BY <1>2, <1>3, <1>4, <1>5, <1>6, RestoredJob
  DEF BatchesOK, ActiveStates, UnsentPC, SentPC, NoJobYet, NewJob
<1>16. JobsManned'
  BY <1>2, <1>5, <1>6, RestoredJob DEF JobsManned, Recorded
<1>17. RecordsOK'
  BY <1>2, <1>3, <1>4, <1>5, <1>6, RestoredJob
  DEF RecordsOK, Undisturbed, Happens, ActiveStates, CancelPC, HasFile, NoJobYet, NewJob, NoRequest, KeyOf
<1>18. FailuresOK'
  <2>1. Happens("crash") \/ Happens("close")
    BY DEF Restart, FailuresOK, Closing
  <2>2. \A b : Explained(b) => Explained(b)'
    BY <1>3 DEF Explained, MayFailUnsent, Happens
  <2>3. Explained(NoTransfer)'
    BY <2>1 DEF Explained, MayFailUnsent, Happens
  <2>4. ASSUME ~Happens("outage"), NEW k \in Kept, Restored(k).state = "failed",
               NEW b, b = saved[k].batch
        PROVE  Explained(b)'
    <3>1. saved[k].batch = NoTransfer \/ saved[k].state = "failed"
      BY <2>4, RestoredJob
    <3> QED BY <1>5, <2>2, <2>3, <2>4, <3>1 DEF FailuresOK
  <2>5. \A j \in Jobs : job'[j].state = "failed" =>
          \E k \in Kept : id[k] = j /\ Restored(k).state = "failed" /\ Restored(k).finished
    BY <1>2, RestoredJob DEF NoJobYet, NewJob
  <2>6. \A j \in Jobs : job'[j].state = "failed" => job'[j].finished /\ pc'[j] = "none"
    BY <1>2, <2>5
  <2>7. ASSUME ~Happens("outage"), NEW j \in Jobs, job'[j].state = "failed", NEW b, b = job'[j].batch
        PROVE  Explained(b)'
    <3>1. PICK k \in Kept : id[k] = j /\ Restored(k).state = "failed"
      BY <2>5, <2>7
    <3>2. b = saved[k].batch
      BY <1>2, <2>7, <3>1, RestoredJob
    <3> QED BY <2>4, <2>7, <3>1, <3>2
  <2>8. ASSUME ~Happens("outage"), NEW k \in Keys, saved'[k].state = "failed", NEW b, b = saved'[k].batch
        PROVE  Explained(b)'
    <3>1. CASE k \in Kept
      BY <1>4, <2>4, <2>8, <3>1
    <3>2. CASE k \notin Kept
      BY <1>4, <2>2, <2>8, <3>2 DEF FailuresOK
    <3> QED BY <3>1, <3>2
  <2>9. \A e : Happens(e)' <=> Happens(e)
    BY DEF Happens
  <2>10. ~Closing'
    BY <1>3 DEF Closing
  <2> QED BY <2>6, <2>7, <2>8, <2>9, <2>10 DEF FailuresOK
<1> QED BY <1>7, <1>8, <1>9, <1>10, <1>11, <1>12, <1>13, <1>14, <1>15, <1>16, <1>17, <1>18

-----------------------------------------------------------------------------
\* The invariant holds.

\* A job that holds a slot is counted in the gate.
LEMMA HoldersCounted ==
  ASSUME TypeOK, SlotsHeld
  PROVE  IsFiniteSet(SlotHolders) /\ SlotsCounted
<1>1. IsFiniteSet(SlotHolders)
  BY ConstantsAssumption, FS_Subset DEF SlotHolders
<1>2. SlotHolders # {} => Cardinality(SlotHolders) > 0
  BY <1>1, FS_EmptySet, FS_CardinalityType
<1> QED BY <1>1, <1>2 DEF SlotsHeld, SlotsCounted

\* The first process starts with nothing but files.
LEMMA InitIInv == Init => IInv
<1> SUFFICES ASSUME Init PROVE IInv
  OBVIOUS
<1> USE ConstantsAssumption DEF Init, Idle, NoJobYet, NewJob, NoRequest, NoRecord, NoTransferYet
<1>1. TypeOK /\ Shape
  <2>1. Shape
    BY DEF Shape
  <2>2. DiskTypeOK
    BY DEF DiskTypeOK
  <2>3. TransferTypeOK
    BY DEF TransferTypeOK
  <2>4. CoordinatorTypeOK
    BY DEF CoordinatorTypeOK, JobPC, FinPC, States, ActiveStates
  <2>5. CacheTypeOK
    BY DEF CacheTypeOK
  <2> QED BY <2>1, <2>2, <2>3, <2>4, <2>5 DEF TypeOK, RequestPC
<1>2. RequestsOK /\ CreatedOwned
  BY DEF RequestsOK, CreatedOwned, CancelPC
<1>3. MapsOK /\ SlotsOK /\ JobsManned
  BY DEF MapsOK, SlotsOK, JobsManned, InUse, Recorded, EarlyPC
<1>4. EvictionOK /\ BatchesOK
  BY DEF EvictionOK, BatchesOK, UnsentPC, SentPC
<1>5. RecordsOK /\ FailuresOK
  BY DEF RecordsOK, FailuresOK, ActiveStates, CancelPC, HasFile, Closing, Recorded
<1>6. SlotHolders = {} /\ \A k \in Keys : Readers(k) = {}
  BY DEF SlotHolders, Readers
<1>7. SlotsHeld /\ ReadersCounted
  BY <1>6, FS_EmptySet DEF SlotsHeld, ReadersCounted
<1> QED BY <1>1, <1>2, <1>3, <1>4, <1>5, <1>7 DEF IInv

\* Every step within a process keeps the invariant.
LEMMA MovesIInv ==
  ASSUME IInv, Moves, UNCHANGED scenario
  PROVE  IInv'
<1> USE DEF IInv
<1>1. IsFiniteSet(SlotHolders) /\ SlotsCounted
  BY HoldersCounted
<1>2. TypeOK' /\ Shape' /\ RequestsOK' /\ CreatedOwned'
  BY <1>1, TypeOKStep, ShapeStep, RequestsOKStep, CreatedOwnedStep
<1>3. MapsOK' /\ SlotsOK' /\ EvictionOK' /\ BatchesOK'
  BY MapsOKStep, SlotsOKStep, EvictionOKStep, BatchesOKStep
<1>4. JobsManned' /\ RecordsOK' /\ FailuresOK'
  BY JobsMannedStep, RecordsOKStep, FailuresOKStep
<1>5. SlotsHeld'
  BY <1>1, SlotsMoveStep, CountedStep DEF SlotsMove, SlotsHeld
<1>6. ReadersCounted'
  <2>1. ReadersMove
    BY ReadersMoveStep
  <2>2. ASSUME NEW k \in Keys PROVE active'[k] = Cardinality(Readers(k)')
    <3>1. IsFiniteSet(Readers(k)) /\ active[k] = Cardinality(Readers(k))
      BY ConstantsAssumption, FS_Subset DEF Readers, ReadersCounted
    <3>2. Counted(Readers(k), Readers(k)', active[k], active'[k])
      BY <2>1 DEF ReadersMove
    <3> QED BY <3>1, <3>2, CountedStep
  <2> QED BY <2>2 DEF ReadersCounted
<1> QED BY <1>2, <1>3, <1>4, <1>5, <1>6

\* A step is one within a process, or the start of the next.
LEMMA StepsSplit == Steps => Moves \/ Restart
BY DEF Steps, Moves, EvictStep, RequestAction, ProcessStep, SlskdStep

\* The inductive invariant of the download coordinator: what the maps, the gate, the
\* readers, an eviction, the goroutines and the records say of each other.
THEOREM CoordinatorInvariant == Spec => []IInv
<1>1. IInv /\ [Next]_vars => IInv'
  <2> SUFFICES ASSUME IInv, [Next]_vars PROVE IInv'
    OBVIOUS
  <2>1. CASE Next
    BY <2>1, StepsSplit, MovesIInv, RestartIInv DEF Next
  <2>2. CASE UNCHANGED vars
    BY <2>2 DEF vars, disk, coordinator, cache, IInv, TypeOK, DiskTypeOK, TransferTypeOK,
        CoordinatorTypeOK, CacheTypeOK, Shape, RequestsOK, CreatedOwned, MapsOK, InUse, Recorded,
        KeyOf, SlotsOK, SlotsHeld, SlotHolders, ReadersCounted, Readers, EvictionOK, BatchesOK,
        JobsManned, Closing, RecordsOK, Undisturbed, Happens, FailuresOK, Explained,
        MayFailUnsent, BeingCancelled, HasFile, CancelPC
  <2> QED BY <2>1, <2>2
<1> QED BY <1>1, InitIInv, PTL DEF Spec

\* Every slot of the download gate belongs to a job that gives it back, whatever is
\* cancelled, fails, is restored or closed: the gate neither leaks nor is given back twice.
THEOREM GateIsBalanced == Spec => []SlotsHeld
BY CoordinatorInvariant, PTL DEF IInv

\* restoreJob understands every record that is ever on disk, and no unfinished job is
\* without its goroutine.
THEOREM RecordsAreRestorable == Spec => []RecordsRestorable
<1>1. IInv => RecordsRestorable
  <2> SUFFICES ASSUME IInv PROVE RecordsRestorable
    OBVIOUS
  <2>1. \A k \in Keys : /\ saved[k].state = "waiting" => saved[k].batch = NoTransfer
                        /\ saved[k].state = "downloading" => saved[k].batch # NoTransfer
    BY DEF IInv, BatchesOK
  <2>2. ASSUME NEW k \in Keys, records[k] # NoJob, ~job[records[k]].finished, ~Closing
        PROVE  jobs[k] = records[k] /\ (pc[jobs[k]] # "none" \/ BeingCancelled(jobs[k]))
    <3>1. PICK j \in Jobs : j = records[k]
      BY <2>2 DEF IInv, TypeOK, CoordinatorTypeOK
    <3>2. Recorded(j) /\ KeyOf(j) = k
      BY <2>2, <3>1 DEF IInv, MapsOK, Recorded
    <3>3. jobs[k] = j
      BY <2>2, <3>1, <3>2 DEF IInv, MapsOK, InUse
    <3> QED BY <2>2, <3>1, <3>2, <3>3 DEF IInv, JobsManned
  <2> QED BY <2>1, <2>2 DEF RecordsRestorable
<1> QED BY <1>1, CoordinatorInvariant, PTL

\* While nothing is cancelled or evicted, the record of a job in progress lets a restart
\* take it up again, at every moment.
THEOREM JobsAreRecorded == Spec => []JobsRecorded
<1>1. IInv => JobsRecorded
  BY DEF IInv, RecordsOK, JobsRecorded, ActiveStates
<1> QED BY <1>1, CoordinatorInvariant, PTL

\* While slskd answers, a job fails for a reason that slskd gave, or because the server
\* stopped before slskd had accepted it.
THEOREM FailuresAreExplained == Spec => []FailuresExplained
<1>1. IInv => FailuresExplained
  BY DEF IInv, FailuresOK, FailuresExplained, Explained, TransferOf
<1> QED BY <1>1, CoordinatorInvariant, PTL

\* A step removes a file only as an eviction of a key that nobody reads.
LEMMA RemovalsUnread ==
  ASSUME IInv, [Next]_vars, NEW p \in final \ final'
  PROVE  \E j \in Jobs : EvictedAs(j, p) /\ KeyOf(j) \in Keys
<1>2. CASE \E j \in Jobs : EvictRemove(j)
  BY <1>2 DEF EvictRemove, EvictedAs, IInv, EvictionOK
<1>3. final \subseteq final' \/ \E j \in Jobs : EvictRemove(j)
  <2>1. CASE UNCHANGED vars
    BY <2>1 DEF vars, disk
  <2>2. CASE Restart
    BY <2>2 DEF Restart
  <2>3. ASSUME NEW j \in Jobs, EnqueueStep(j) PROVE final' = final
    BY <2>3 DEF disk, EnqueueStep, AcquireSlot, GateCancelled, SlotUnused, SlotTaken, SlotPersisted,
        PersistThen, PostFailed, PostBackoff, Posted, BackoffPersisted, BackoffOver,
        BackoffCancelled, BatchPersisted
  <2>4. ASSUME NEW j \in Jobs, MonitorStep(j) PROVE final' = final
    BY <2>4 DEF disk, MonitorStep, MonitorStops, MonitorProgress, ProgressPersisted, PersistThen,
        MonitorSucceeded, MonitorFinishes, MonitorFileMissing, MonitorRetries,
        RetryPersisted, MonitorFailed, MonitorCancelled, NotifyCompleted
  <2>5. ASSUME NEW j \in Jobs, FinishStep(j) \/ ResumeTrackDownloads(j) PROVE final' = final
    BY <2>5 DEF disk, FinishStep, FinishRelease, FinishPersist, FinishRemove, ResumeTrackDownloads
  <2>6. ASSUME NEW j \in Jobs, EvictStep(j) PROVE final' = final \/ EvictRemove(j)
    BY <2>6 DEF EvictStep, TrackDownloads, MarkEvicted
  <2>7. ASSUME NEW r \in Requests, RequestAction(r) PROVE final' = final
    BY <2>7 DEF disk, RequestAction, RequestBegins, RequestStep, ResolveCached, ResolveMissing,
        RetryTrackDownload, CancelTrackDownload, EnsureExisting, EnsureStart, OpenStream, OpenFails,
        EnsureNew, CancelStops, CancelFinishes, CancelFails, WaitCancelled, CloseReader
  <2>8. CASE ProcessStep
    BY <2>8 DEF disk, ProcessStep, EvictCollect, EvictDone, Serve, Close, CloseWaited
  <2>9. ASSUME NEW x \in Transfers, SlskdStep(x) PROVE final \subseteq final'
    BY <2>9 DEF disk, SlskdStep, TransferStep, TransferSucceeds
  <2> QED BY <2>1, <2>2, <2>3, <2>4, <2>5, <2>6, <2>7, <2>8, <2>9, StepsSplit DEF Next, Moves
<1> QED BY <1>2, <1>3

\* A key without counted readers has none.
LEMMA UnreadKey ==
  ASSUME ReadersCounted, NEW k \in Keys, active[k] = 0, NEW r \in Requests
  PROVE  req[r].reads => req[r].key # k
<1>1. IsFiniteSet(Readers(k)) /\ Cardinality(Readers(k)) = 0
  BY ConstantsAssumption, FS_Subset DEF Readers, ReadersCounted
<1>2. Readers(k) = {}
  BY <1>1, FS_EmptySet
<1> QED BY <1>2 DEF Readers

\* A file is evicted only through a key that no request reads, or waits to read.
THEOREM ReadersKeepFiles == Spec => ActiveKept
<1>1. ASSUME IInv, [Next]_vars, NEW p \in final \ final'
      PROVE  \E j \in Jobs : /\ EvictedAs(j, p)
                             /\ \A r \in Requests : req[r].reads => req[r].key # KeyOf(j)
  <2>1. PICK j \in Jobs : EvictedAs(j, p) /\ KeyOf(j) \in Keys
    BY <1>1, RemovalsUnread
  <2>2. \A r \in Requests : req[r].reads => req[r].key # KeyOf(j)
    BY <1>1, <2>1, UnreadKey DEF EvictedAs, IInv
  <2> QED BY <2>1, <2>2
<1>2. IInv /\ [Next]_vars
        => [\A p \in final \ final' : \E j \in Jobs :
              /\ EvictedAs(j, p)
              /\ \A r \in Requests : req[r].reads => req[r].key # KeyOf(j)]_vars
  BY <1>1
<1> QED BY <1>2, CoordinatorInvariant, PTL DEF Spec, ActiveKept

\* A request that reads a file, or waits to read it, loses it only if another key has the
\* same path: the case of the run soulseek_streams is the only one.
LostByAlias ==
  [][\A p \in final \ final' : \A r \in Requests :
       req[r].reads /\ PathOf[req[r].key] = p => \E k \in Keys \ {req[r].key} : PathOf[k] = p]_vars

\* LostByAlias: evict and the requests that resolve the same key never meet.
THEOREM UsedFilesAreKept == Spec => LostByAlias
<1>1. ASSUME IInv, [Next]_vars, NEW p \in final \ final', NEW r \in Requests, req[r].reads
      PROVE  \E k \in Keys \ {req[r].key} : PathOf[k] = p
  <2>1. PICK j \in Jobs : EvictedAs(j, p) /\ KeyOf(j) \in Keys
    BY <1>1, RemovalsUnread
  <2>2. req[r].key # KeyOf(j)
    BY <1>1, <2>1, UnreadKey DEF EvictedAs, IInv
  <2> QED BY <2>1, <2>2 DEF EvictedAs
<1>2. IInv /\ [Next]_vars
        => [\A p \in final \ final' : \A r \in Requests :
              req[r].reads /\ PathOf[req[r].key] = p
                => \E k \in Keys \ {req[r].key} : PathOf[k] = p]_vars
  BY <1>1
<1> QED BY <1>2, CoordinatorInvariant, PTL DEF Spec, LostByAlias

-----------------------------------------------------------------------------
\* Waiting for a job.

\* finishJob wakes whoever waits: a finished job is ready, or its finishJob is yet to say so.
Woken == \A j \in Jobs : job[j].finished => job[j].ready \/ fin[j] \in {"slot", "noSlot"}

\* A request waits for a job that is ready, that is about to be, that a goroutine works on or
\* that a cancellation is about to finish.
Answerable ==
  \A r \in Requests : req[r].pc = "waiting" /\ ~Closing =>
    \/ job[req[r].job].ready
    \/ fin[req[r].job] \in {"slot", "noSlot"}
    \/ ~job[req[r].job].finished /\ (pc[req[r].job] # "none" \/ BeingCancelled(req[r].job))

\* No step finishes a job without the rest of finishJob, or makes a new one of it.
LEMMA WokenStep ==
  ASSUME TypeOK, Shape, RequestsOK, CreatedOwned, MapsOK, SlotsOK, Woken, Moves,
         UNCHANGED scenario
  PROVE  Woken'
<1> USE ConstantsAssumption DEF Shape, TypeOK, DiskTypeOK, TransferTypeOK,
          CoordinatorTypeOK, CacheTypeOK, Goto, Persist, Snapshot, KeyOf
<1> USE DEF JobPC, FinPC, RequestPC, States, ActiveStates, Retryable, TransferStates,
          NoTransferYet, NoRequest, NoRecord, NewJob, HasFile, CancelPC
<1> USE DEF disk, coordinator, cache
<1> USE DEF RequestsOK, CreatedOwned, MapsOK, SlotsOK, InUse, Woken, Free, Recorded,
          Monitored, Closing
<1>1. ASSUME NEW j \in Jobs, EnqueueStep(j) PROVE Woken'
  <2>1. CASE AcquireSlot(j)
    BY <2>1 DEF AcquireSlot
  <2>2. CASE GateCancelled(j)
    BY <2>2 DEF GateCancelled
  <2>3. CASE SlotUnused(j)
    BY <2>3 DEF SlotUnused
  <2>4. CASE SlotTaken(j)
    BY <2>4 DEF SlotTaken
  <2>5. CASE SlotPersisted(j)
    BY <2>5 DEF SlotPersisted, PersistThen
  <2>6. CASE PostFailed(j)
    BY <2>6 DEF PostFailed, AnswerLost, FinishJob
  <2>7. CASE PostBackoff(j)
    BY <2>7 DEF PostBackoff, AnswerLost
  <2>8. ASSUME NEW x \in Transfers, Posted(j, x) PROVE Woken'
    BY <2>8 DEF Posted
  <2>9. CASE BackoffPersisted(j)
    BY <2>9 DEF BackoffPersisted, PersistThen
  <2>10. CASE BackoffOver(j)
    BY <2>10 DEF BackoffOver
  <2>11. CASE BackoffCancelled(j)
    BY <2>11 DEF BackoffCancelled, FinishJob
  <2>12. CASE BatchPersisted(j)
    <3>1. CASE job[j].monitoring
      BY <2>12, <3>1 DEF BatchPersisted
    <3>2. CASE ~job[j].monitoring /\ job[j].finished
      BY <2>12, <3>2 DEF BatchPersisted
    <3>3. CASE ~job[j].monitoring /\ ~job[j].finished
      BY <2>12, <3>3 DEF BatchPersisted
    <3> QED BY <3>1, <3>2, <3>3
  <2> QED BY <1>1, <2>1, <2>2, <2>3, <2>4, <2>5, <2>6, <2>7, <2>8, <2>9, <2>10, <2>11, <2>12 DEF EnqueueStep
<1>2. ASSUME NEW j \in Jobs, MonitorStep(j) PROVE Woken'
  BY <1>2 DEF MonitorStep, MonitorStops, MonitorProgress, ProgressPersisted, PersistThen,
        MonitorSucceeded, MonitorFinishes, FinishJob, MonitorFileMissing, MonitorRetries,
        PrepareAutomaticRetry, MayRetry, RetryPersisted, MonitorFailed, MonitorCancelled,
        NotifyCompleted
<1>3. ASSUME NEW j \in Jobs, FinishStep(j) PROVE Woken'
  BY <1>3 DEF FinishStep, FinishRelease, ReleaseSlot, FinishPersist, FinishRemove
<1>4. ASSUME NEW j \in Jobs, EvictStep(j) PROVE Woken'
  <2> HIDE DEF RequestsOK, CreatedOwned, SlotsOK, MapsOK, TransferTypeOK
  <2> QED BY <1>4 DEF EvictStep, TrackDownloads, EvictRemove, MarkEvicted
<1>5. ASSUME NEW j \in Jobs, ResumeTrackDownloads(j) PROVE Woken'
  BY <1>5 DEF ResumeTrackDownloads, ResumeWaiting, ResumeTransfer
<1>6. ASSUME NEW r \in Requests, RequestAction(r) PROVE Woken'
  <2>1. ASSUME NEW k \in scenario.keys, ResolveCached(r, k) PROVE Woken'
    <3>1. ASSUME NEW j \in Jobs, RememberKnown(k, j) PROVE Woken'
      BY <2>1, <3>1 DEF ResolveCached, NewRequest, ReaderBegins, RememberKnown
    <3>2. ASSUME NEW j \in Jobs, RememberNew(k, j) PROVE Woken'
      BY <2>1, <3>2 DEF ResolveCached, NewRequest, ReaderBegins, RememberNew
    <3> QED BY <2>1, <3>1, <3>2 DEF ResolveCached
  <2>2. ASSUME NEW k \in scenario.keys, ResolveMissing(r, k) PROVE Woken'
    BY <2>2 DEF ResolveMissing, NewRequest, ReaderBegins
  <2>3. ASSUME NEW k \in scenario.keys, RetryTrackDownload(r, k) PROVE Woken'
    BY <2>3 DEF RetryTrackDownload, NewRequest
  <2>4. ASSUME NEW k \in scenario.keys, CancelTrackDownload(r, k) PROVE Woken'
    BY <2>4 DEF CancelTrackDownload, NewRequest
  <2>5. CASE EnsureExisting(r)
    BY <2>5 DEF EnsureExisting
  <2>6. CASE EnsureStart(r)
    BY <2>6 DEF EnsureStart
  <2>7. CASE OpenStream(r)
    BY <2>7 DEF OpenStream, EndRequest
  <2>8. CASE OpenFails(r)
    BY <2>8 DEF OpenFails, LeaveRequest, EndRequest, ReaderEnds
  <2>9. ASSUME NEW j \in Jobs, EnsureNew(r, j) PROVE Woken'
    BY <2>9 DEF EnsureNew
  <2>10. CASE CancelFinishes(r)
    <3>1. PICK j \in Jobs : j = req[r].job
      BY <2>10 DEF CancelFinishes, RequestsOK
    <3>2. req[r].pc = "cancelling" /\ FinishJob(j, "cancelled", TRUE) /\ EndRequest(r)
      BY <2>10, <3>1 DEF CancelFinishes
    <3>3. UNCHANGED <<disk, jobs, records, pc, gate, cache, phase>>
      BY <2>10 DEF CancelFinishes
    <3>4. CancelTransfer(req[r].batch)
      BY <2>10 DEF CancelFinishes
    <3> QED BY <3>1, <3>2, <3>3, <3>4, CancelledTransfers DEF EndRequest, FinishJob
  <2>11. CASE CancelFails(r)
    BY <2>11 DEF CancelFails, EndRequest
  <2>12. CASE WaitCancelled(r)
    BY <2>12 DEF WaitCancelled, LeaveRequest, EndRequest, ReaderEnds
  <2>13. CASE CloseReader(r)
    BY <2>13 DEF CloseReader, LeaveRequest, EndRequest, ReaderEnds
  <2>14. CASE CancelStops(r)
    BY <2>14 DEF CancelStops
  <2> QED BY <1>6, <2>1, <2>2, <2>3, <2>4, <2>5, <2>6, <2>7, <2>8, <2>9, <2>10, <2>11, <2>12, <2>13, <2>14 DEF RequestAction, RequestBegins, RequestStep
<1>7. CASE ProcessStep
  BY <1>7 DEF ProcessStep, EvictCollect, Evictable, EvictDone, Serve, Close, CloseWaited
<1>8. ASSUME NEW x \in Transfers, SlskdStep(x) PROVE Woken'
  BY <1>8 DEF SlskdStep, TransferStep, TransferAdvances, TransferSucceeds
<1> QED BY <1>1, <1>2, <1>3, <1>4, <1>5, <1>6, <1>7, <1>8 DEF Moves

\* A restored job that is finished is ready.
LEMMA RestoredReady == ASSUME NEW k, Restored(k).finished PROVE Restored(k).ready
BY DEF Restored, NewJob

\* No request waits for a job that nobody will finish: neither a cancellation that overtakes
\* the goroutine, a failure, nor a restart loses the wake-up, so that RequestsAnswered needs
\* only the fairness of the goroutines and of slskd.
THEOREM WaitersHaveJobs == Spec => []Answerable
<1>1. Init => Woken
  BY DEF Init, Woken, NoJobYet, NewJob
<1>2. ASSUME IInv, Woken, [Next]_vars PROVE Woken'
  <2>1. CASE Moves /\ UNCHANGED scenario
    BY <1>2, <2>1, WokenStep DEF IInv
  <2>2. CASE Restart
    <3>1. PICK id \in [Keys -> Jobs] : (\A k, l \in Keys : id[k] = id[l] => k = l) /\ Load(id)
      BY <2>2 DEF Restart
    <3>2. /\ \A k \in Kept : id[k] \in Jobs /\ job'[id[k]] = Restored(k)
          /\ \A j \in Jobs : (\A k \in Kept : id[k] # j) => job'[j] = NoJobYet
      BY <1>2, <3>1, LoadedJobs DEF IInv
    <3>3. \A k \in Kept : Restored(k).finished => Restored(k).ready
      BY RestoredReady
    <3>4. ~NoJobYet.finished
      BY DEF NoJobYet, NewJob
    <3> QED BY <3>2, <3>3, <3>4 DEF Woken
  <2>3. CASE UNCHANGED vars
    BY <1>2, <2>3 DEF vars, coordinator, Woken
  <2> QED BY <1>2, <2>1, <2>2, <2>3, StepsSplit DEF Next
<1>3. IInv /\ Woken => Answerable
  <2> SUFFICES ASSUME IInv, Woken, NEW r \in Requests, req[r].pc = "waiting", ~Closing,
                      ~job[req[r].job].finished
               PROVE  pc[req[r].job] # "none" \/ BeingCancelled(req[r].job)
    BY DEF Answerable, Woken, IInv, RequestsOK
  <2>1. PICK j \in Jobs : j = req[r].job
    BY DEF IInv, RequestsOK
  <2>2. KeyOf(j) \in Keys /\ jobs[KeyOf(j)] = j
    BY <2>1 DEF IInv, MapsOK, InUse
  <2>3. Recorded(j)
    BY <2>2, ConstantsAssumption DEF IInv, MapsOK, Recorded
  <2> QED BY <2>1, <2>3 DEF IInv, JobsManned
<1> QED BY <1>1, <1>2, <1>3, CoordinatorInvariant, PTL DEF Spec
=============================================================================
