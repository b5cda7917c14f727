--------------------------- MODULE TranscodeCache ---------------------------
(***************************************************************************)
(* Transcoded variants: the single flight of CachedAudioTranscoder, the    *)
(* FFmpeg process and its reader, and the media cache that stores what a   *)
(* stream has read to its end.                                             *)
(*                                                                         *)
(* Source: core/services/{transcoding,media_cache}.go, streaming/ffmpeg.go,*)
(* adapters/blob/filesystem/store.go, adapters/storage/sqlite/cache.go     *)
(*                                                                         *)
(* A request is a goroutine.  The one that leads a flight owns an FFmpeg   *)
(* process, the goroutine that waits for it, and the goroutine that copies *)
(* the stream into the cache; their states are fields of the request.      *)
(* Output is counted in chunks.                                            *)
(***************************************************************************)
EXTENDS Naturals, Sums

CONSTANTS
  Keys,      \* variants (track, revision, format and bit rate)
  SizeOf,    \* chunks of a complete variant
  MaxBytes,  \* capacity of the media cache, in chunks
  Requests,  \* goroutines of requests (a bound of the instance)
  Startup,   \* the goroutine that prunes when the process starts
  Nobody, NoKey,
  Events     \* what happens in the instance, see Environment

\* "full": a write or deletion fails, in the blob directory or in the database.
Environment == {"full", "crash"}

ASSUME ConstantsAssumption ==
  /\ SizeOf \in [Keys -> Nat \ {0}] /\ MaxBytes \in Nat \ {0}
  /\ Startup \notin Requests /\ Nobody \notin Requests \cup {Startup} /\ NoKey \notin Keys
  /\ Events \subseteq Environment

VARIABLES
  entries,    \* keys of the cache entries
  older,      \* their order by last access: pairs of an older and a newer entry
  size,       \* size that the entry of a key records
  blob,       \* chunks in the blob of a key, 0 if there is none
  flights,    \* the request that leads the flight of a key
  jobs,       \* what the dashboard shows of a key
  operation,  \* who holds MediaCache.operation to store or to prune
  victim,     \* the key whose blob it has just deleted
  req         \* the goroutines

disk == <<entries, older, size, blob>>
vars == <<disk, flights, jobs, operation, victim, req>>

NoRequest == [pc |-> "idle", key |-> NoKey, proc |-> "none", out |-> 0, got |-> 0,
              waited |-> FALSE, put |-> "none", why |-> "none"]

ReadingPC == {"streaming", "eof", "closing"}
RequestPC == ReadingPC \cup {"idle", "hit", "missed", "waiting", "reopen", "starting", "finalizing"}
PutStates == {"none", "copying", "commit", "stored", "pruning", "full", "unpruned", "ok", "failed",
              "over"}
CacheTypeOK ==
  /\ entries \subseteq Keys /\ older \subseteq entries \X entries
  /\ size \in [Keys -> Nat] /\ blob \in [Keys -> Nat]
  /\ operation \in Requests \cup {Startup, Nobody} /\ victim \in Keys \cup {NoKey}
RequestTypeOK == \A r \in Requests :
  /\ req[r].pc \in RequestPC /\ req[r].key \in Keys \cup {NoKey}
  /\ req[r].proc \in {"none", "running", "ok", "failed"} /\ req[r].put \in PutStates
  /\ req[r].out \in Nat /\ req[r].got \in Nat /\ req[r].got <= req[r].out
  /\ req[r].why \in {"none", "eof", "failed", "closed", "left"}
TypeOK ==
  /\ CacheTypeOK /\ RequestTypeOK
  /\ flights \in [Keys -> Requests \cup {Nobody}]
  /\ jobs \in [Keys -> {"none", "transcoding", "cached", "failed"}]

-----------------------------------------------------------------------------
\* The media cache: entries (database) and blobs (files).

OlderWithout(k) == {p \in older : p[1] # k /\ p[2] # k}
EntryTouched(k) ==
  /\ entries' = entries \cup {k}
  /\ older' = OlderWithout(k) \cup {<<l, k>> : l \in entries \ {k}}
EntryDeleted(k) ==
  /\ entries' = entries \ {k} /\ older' = OlderWithout(k)
  /\ size' = [size EXCEPT ![k] = 0]
Total == SumOf([k \in entries |-> size[k]])
Over == Total > MaxBytes

\* MediaCache.Open finds the entry and its blob, and touches the entry.
CacheHit(k) ==
  /\ operation = Nobody
  /\ k \in entries /\ blob[k] > 0
  /\ EntryTouched(k) /\ UNCHANGED <<size, blob>>

\* Or it does not; an entry without blob is deleted, if the database allows.
CacheMiss(k) ==
  /\ operation = Nobody
  /\ k \notin entries \/ blob[k] = 0
  /\ \/ EntryDeleted(k)
     \/ "full" \in Events /\ UNCHANGED <<entries, older, size>>
  /\ UNCHANGED blob

\* The entry cannot be touched: Open fails.
CacheError ==
  /\ "full" \in Events /\ operation = Nobody
  /\ UNCHANGED disk

KeyOf(r) == req[r].key

\* Put, up to the lock: the temporary file becomes the blob.
PutBlob(r) ==
  /\ req[r].put = "commit"
  /\ blob' = [blob EXCEPT ![KeyOf(r)] = req[r].got]
  /\ req' = [req EXCEPT ![r].put = "stored"]
  /\ UNCHANGED <<entries, older, size, flights, jobs, operation, victim>>

\* The temporary file cannot be written, synced or renamed.
PutFails(r) ==
  /\ "full" \in Events
  /\ req[r].put \in {"copying", "commit"}
  /\ req' = [req EXCEPT ![r].put = "failed"]
  /\ UNCHANGED <<disk, flights, jobs, operation, victim>>

PutEntry(r) ==
  /\ req[r].put = "stored" /\ operation = Nobody
  /\ operation' = r
  /\ EntryTouched(KeyOf(r)) /\ size' = [size EXCEPT ![KeyOf(r)] = req[r].got]
  /\ req' = [req EXCEPT ![r].put = "pruning"]
  /\ UNCHANGED <<blob, flights, jobs, victim>>

\* The entry cannot be saved: the blob is deleted again, and whether that works is ignored.
PutEntryFails(r) ==
  /\ "full" \in Events
  /\ req[r].put = "stored" /\ operation = Nobody
  /\ blob' = [blob EXCEPT ![KeyOf(r)] = 0] \/ blob' = blob
  /\ req' = [req EXCEPT ![r].put = "failed"]
  /\ UNCHANGED <<entries, older, size, flights, jobs, operation, victim>>

\* pruneLocked: entries by last access, but for the one just stored.
Unprotected == NoKey
Protected == IF operation \in Requests THEN KeyOf(operation) ELSE NoKey
Others == entries \ {Protected}
Oldest(k) == k \in Others /\ \A l \in Others : <<l, k>> \notin older

\* removeLocked: first the blob, then the entry.
PruneBlobUnchecked ==
  /\ operation # Nobody /\ victim = NoKey /\ Over
  /\ \E k \in Keys : /\ Oldest(k) /\ victim' = k
                     /\ blob' = [blob EXCEPT ![k] = 0] \/ blob' = blob
  /\ UNCHANGED <<entries, older, size, flights, jobs, operation, req>>

PruneBlob ==
  /\ operation # Nobody /\ victim = NoKey /\ Over
  /\ \E k \in Keys : /\ Oldest(k) /\ victim' = k
                     /\ blob' = [blob EXCEPT ![k] = 0]
  /\ UNCHANGED <<entries, older, size, flights, jobs, operation, req>>

\* Put gives up what does not fit although everything else is gone.
DiscardBlob ==
  /\ operation \in Requests /\ victim = NoKey
  /\ Over /\ Others = {}
  /\ victim' = KeyOf(operation)
  /\ blob' = [blob EXCEPT ![KeyOf(operation)] = 0]
  /\ req' = [req EXCEPT ![operation].put = "full"]
  /\ UNCHANGED <<entries, older, size, flights, jobs, operation>>

RemoveEntry ==
  /\ victim # NoKey
  /\ EntryDeleted(victim) /\ victim' = NoKey
  /\ UNCHANGED <<blob, flights, jobs, operation, req>>

\* The blob or the entry cannot be deleted: Put fails, the new entry stays.
PruneFails(r) ==
  /\ "full" \in Events
  /\ operation = r /\ (Over \/ victim # NoKey)
  /\ operation' = Nobody /\ victim' = NoKey
  /\ req' = [req EXCEPT ![r].put = "unpruned"]
  /\ UNCHANGED <<disk, flights, jobs>>

PutReturns(r) ==
  /\ operation = r /\ victim = NoKey /\ ~Over
  /\ req' = [req EXCEPT ![r].put = IF @ = "full" THEN "failed" ELSE "ok"]
  /\ operation' = Nobody
  /\ UNCHANGED <<disk, flights, jobs, victim>>

StartupPruned ==
  /\ operation = Startup /\ victim = NoKey /\ ~Over
  /\ operation' = Nobody
  /\ UNCHANGED <<disk, flights, jobs, victim, req>>

-----------------------------------------------------------------------------
\* Transcode: cached, a flight to wait for, or a flight to lead.  A lookup that fails
\* (CacheError) is an answer without a trace.

Serving == operation # Startup
Goto(r, p) == req' = [req EXCEPT ![r].pc = p]
Leave(r) == req' = [req EXCEPT ![r] = NoRequest]

Transcode(r, k) ==
  /\ Serving /\ req[r] = NoRequest
  /\ \/ CacheHit(k) /\ req' = [req EXCEPT ![r].pc = "hit", ![r].key = k]
     \/ CacheMiss(k) /\ req' = [req EXCEPT ![r].pc = "missed", ![r].key = k]
  /\ UNCHANGED <<flights, jobs, operation, victim>>

\* recordCached; the rest of the request reads an open file.
RecordCached(r) ==
  /\ req[r].pc = "hit"
  /\ jobs' = [jobs EXCEPT ![KeyOf(r)] = "cached"]
  /\ Leave(r)
  /\ UNCHANGED <<disk, flights, operation, victim>>

JoinFlight(r) ==
  /\ req[r].pc = "missed" /\ flights[KeyOf(r)] # Nobody
  /\ Goto(r, "waiting")
  /\ UNCHANGED <<disk, flights, jobs, operation, victim>>

WaitCancelled(r) ==
  /\ req[r].pc = "waiting"
  /\ Leave(r)
  /\ UNCHANGED <<disk, flights, jobs, operation, victim>>

\* The flight succeeded.  The variant may have been evicted by now: the request
\* fails then.
Reopen(r) ==
  /\ req[r].pc = "reopen"
  /\ CacheHit(KeyOf(r)) \/ CacheMiss(KeyOf(r)) \/ CacheError
  /\ Leave(r)
  /\ UNCHANGED <<flights, jobs, operation, victim>>

NoFlight(k) == flights[k] = Nobody
LeadFlight(r) ==
  /\ req[r].pc = "missed" /\ NoFlight(KeyOf(r))
  /\ flights' = [flights EXCEPT ![KeyOf(r)] = r]
  /\ jobs' = [jobs EXCEPT ![KeyOf(r)] = "transcoding"]
  /\ Goto(r, "starting")
  /\ UNCHANGED <<disk, operation, victim>>

\* finishFlight, for the flight of request r, which goes on as next: the waiters
\* are woken with the outcome.
FinishFlight(r, ok, next) ==
  LET k == KeyOf(r)
  IN  /\ flights' = [flights EXCEPT ![k] = Nobody]
      /\ jobs' = [jobs EXCEPT ![k] = IF ok THEN "cached" ELSE "failed"]
      /\ req' = [q \in Requests |->
           CASE q = r -> next
             [] q # r /\ req[q].pc = "waiting" /\ KeyOf(q) = k ->
                  IF ok THEN [req[q] EXCEPT !.pc = "reopen"] ELSE NoRequest
             [] OTHER -> req[q]]

StartFails(r) ==
  /\ req[r].pc = "starting"
  /\ FinishFlight(r, FALSE, NoRequest)
  /\ UNCHANGED <<disk, operation, victim>>

StartFFmpeg(r) ==
  /\ req[r].pc = "starting"
  /\ req' = [req EXCEPT ![r].pc = "streaming", ![r].proc = "running", ![r].put = "copying"]
  /\ UNCHANGED <<disk, flights, jobs, operation, victim>>

-----------------------------------------------------------------------------
\* FFmpeg, and the goroutine that waits for it.

FFmpegWrites(r) ==
  /\ req[r].proc = "running" /\ req[r].out < SizeOf[KeyOf(r)]
  /\ req' = [req EXCEPT ![r].out = @ + 1]
  /\ UNCHANGED <<disk, flights, jobs, operation, victim>>

FFmpegExits(r) ==
  /\ req[r].proc = "running"
  /\ \/ req[r].out = SizeOf[KeyOf(r)] /\ req' = [req EXCEPT ![r].proc = "ok"]
     \/ req' = [req EXCEPT ![r].proc = "failed"]
  /\ UNCHANGED <<disk, flights, jobs, operation, victim>>

\* command.Wait returns, and has closed stdout, read or not.
WaitReturns(r) ==
  /\ req[r].proc \in {"ok", "failed"} /\ ~req[r].waited
  /\ req' = [req EXCEPT ![r].waited = TRUE]
  /\ UNCHANGED <<disk, flights, jobs, operation, victim>>

-----------------------------------------------------------------------------
\* cachingTranscodeReader: what the leader of a flight reads goes to the client
\* and, as long as that works, to the cache.

Finished(r) == req[r].put = "over"

\* finalize: the copy ends with the stream, or is given up with it; then the flight
\* is finished (Finalized).  A reader that is finished already just ends.
Finalize(r, why) ==
  LET givenUp == [NoRequest EXCEPT !.pc = "finalizing", !.key = KeyOf(r), !.proc = req[r].proc,
                                    !.put = "failed", !.why = why]
      ended == [req[r] EXCEPT !.pc = "finalizing", !.why = why,
                              !.put = IF @ = "copying" THEN "commit" ELSE @]
  IN  IF Finished(r) THEN Leave(r)
      ELSE req' = [req EXCEPT ![r] = IF why = "eof" THEN ended ELSE givenUp]

ReadChunk(r) ==
  /\ req[r].pc = "streaming" /\ ~req[r].waited /\ req[r].got < req[r].out
  /\ req[r].put # "failed"
  /\ req' = [req EXCEPT ![r].got = @ + 1]
  /\ \/ UNCHANGED jobs
     \/ ~Finished(r) /\ jobs' = [jobs EXCEPT ![KeyOf(r)] = "transcoding"]   \* updateProgress
  /\ UNCHANGED <<disk, flights, operation, victim>>

\* The copy has failed: the flight has, and the client is served without it.
ReadUncached(r) ==
  /\ req[r].pc = "streaming" /\ ~req[r].waited /\ req[r].got < req[r].out
  /\ req[r].put = "failed"
  /\ FinishFlight(r, FALSE, [req[r] EXCEPT !.got = @ + 1, !.put = "over"])
  /\ UNCHANGED <<disk, operation, victim>>

\* The end of stdout; Read then asks for the exit status.
ReadEOF(r) ==
  /\ req[r].pc = "streaming" /\ ~req[r].waited
  /\ req[r].proc \in {"ok", "failed"} /\ req[r].got = req[r].out
  /\ Goto(r, "eof")
  /\ UNCHANGED <<disk, flights, jobs, operation, victim>>

ExitIgnored(r) ==
  /\ req[r].pc = "eof" /\ req[r].waited
  /\ Finalize(r, "eof")
  /\ UNCHANGED <<disk, flights, jobs, operation, victim>>

ReadExit(r) ==
  /\ req[r].pc = "eof" /\ req[r].waited
  /\ Finalize(r, IF req[r].proc = "ok" THEN "eof" ELSE "failed")
  /\ UNCHANGED <<disk, flights, jobs, operation, victim>>

\* stdout was closed by Wait before it was read to its end.
ReadClosed(r) ==
  /\ req[r].pc = "streaming" /\ req[r].waited
  /\ Finalize(r, "closed")
  /\ UNCHANGED <<disk, flights, jobs, operation, victim>>

\* The client has gone, and what was read does not matter any more:
\* processReader.Close kills FFmpeg and waits for it.
Disconnect(r) ==
  /\ req[r].pc = "streaming"
  /\ req' = [req EXCEPT ![r].pc = "closing", ![r].out = 0, ![r].got = 0,
                        ![r].proc = IF @ = "running" THEN "failed" ELSE @]
  /\ UNCHANGED <<disk, flights, jobs, operation, victim>>

CloseUnfinished(r) ==
  /\ req[r].pc = "closing" /\ req[r].waited
  /\ Leave(r)
  /\ UNCHANGED <<disk, flights, jobs, operation, victim>>

Closed(r) ==
  /\ req[r].pc = "closing" /\ req[r].waited
  /\ Finalize(r, "left")
  /\ UNCHANGED <<disk, flights, jobs, operation, victim>>

\* The copy has returned its result.
Finalized(r) ==
  /\ req[r].pc = "finalizing" /\ req[r].put \in {"ok", "failed", "unpruned"}
  /\ FinishFlight(r, req[r].put = "ok" /\ req[r].why = "eof", NoRequest)
  /\ UNCHANGED <<disk, operation, victim>>

-----------------------------------------------------------------------------
\* The process.

Init ==
  /\ entries = {} /\ older = {} /\ size = [k \in Keys |-> 0] /\ blob = [k \in Keys |-> 0]
  /\ flights = [k \in Keys |-> Nobody] /\ jobs = [k \in Keys |-> "none"]
  /\ operation = Startup /\ victim = NoKey
  /\ req = [r \in Requests |-> NoRequest]

\* The process dies at any moment; the next one prunes before it serves.
Restart ==
  /\ "crash" \in Events
  /\ flights' = [k \in Keys |-> Nobody] /\ jobs' = [k \in Keys |-> "none"]
  /\ operation' = Startup /\ victim' = NoKey
  /\ req' = [r \in Requests |-> NoRequest]
  /\ UNCHANGED disk

\* What runs by itself: the leader's goroutines and FFmpeg, but not the reading
\* that a client's connection drives.
CacheStep(r) == PutBlob(r) \/ PutEntry(r) \/ PutEntryFails(r) \/ PruneFails(r) \/ PutReturns(r)
PruneStep == PruneBlob \/ DiscardBlob \/ RemoveEntry \/ StartupPruned
FFmpegStep(r) == FFmpegWrites(r) \/ FFmpegExits(r) \/ WaitReturns(r)
ReadStep(r) ==
  \/ ReadChunk(r) \/ ReadUncached(r) \/ ReadEOF(r) \/ ReadExit(r) \/ ReadClosed(r)
  \/ Closed(r) \/ Finalized(r)
RequestStep(r) ==
  \/ RecordCached(r) \/ JoinFlight(r) \/ Reopen(r)
  \/ LeadFlight(r) \/ StartFails(r) \/ StartFFmpeg(r)

Next ==
  \/ \E r \in Requests :
       \/ \E k \in Keys : Transcode(r, k)
       \/ WaitCancelled(r) \/ PutFails(r) \/ Disconnect(r)
       \/ RequestStep(r) \/ FFmpegStep(r) \/ ReadStep(r) \/ CacheStep(r)
  \/ PruneStep \/ Restart

Spec == Init /\ [][Next]_vars

-----------------------------------------------------------------------------
\* Safety.

\* Every blob is a complete variant: neither a failure of FFmpeg nor the end of a
\* connection, a full disk or a crash leaves a part of one in the cache.
BlobsComplete == \A k \in Keys : blob[k] \in {0, SizeOf[k]}

\* What Put reports is true, whoever looked up, stored or evicted what meanwhile.  If it
\* succeeds, its variant is in the index with its real size and the cache within its capacity:
\* the prune that makes room for the variant never takes the variant itself.  If it is refused
\* for the capacity (ErrCacheCapacity), the variant alone exceeds it, and is gone.
PutAnswers ==
  [][\A r \in Requests : operation = r /\ operation' # r =>
       /\ req'[r].put = "ok" =>
            KeyOf(r) \in entries' /\ size'[KeyOf(r)] = SizeOf[KeyOf(r)] /\ Total' <= MaxBytes
       /\ req'[r].put = "failed" => SizeOf[KeyOf(r)] > MaxBytes /\ KeyOf(r) \notin entries']_vars

\* A blob without an entry takes space that no statistic shows and that no prune
\* frees.  A crash between the two makes one, and so does a Put that can neither save its
\* entry nor delete its blob (RecordFailed); no eviction, lookup or other Put does.
Orphan(k) ==
  blob[k] > 0 /\ k \notin entries /\ \A r \in Requests : req[r].put = "stored" => KeyOf(r) # k
RecordFailed(k) ==
  \E r \in Requests : KeyOf(r) = k /\ req[r].put = "stored" /\ req'[r].put = "failed"
NoOrphans ==
  [][operation' # Startup => \A k \in Keys : Orphan(k)' => Orphan(k) \/ RecordFailed(k)]_vars

\* The requests that transcode a variant for others too, and those that wait for one.
Leading(r) ==
  req[r].pc = "starting" \/ (req[r].pc \in ReadingPC \cup {"finalizing"} /\ ~Finished(r))
Leaders(k) == {r \in Requests : Leading(r) /\ KeyOf(r) = k}
Waiters(k) == {r \in Requests : req[r].pc = "waiting" /\ KeyOf(r) = k}

Flying == INSTANCE SingleFlight WITH leader <- [k \in Keys |-> Leaders(k)],
                                     waiters <- [k \in Keys |-> Waiters(k)]

\* The flights are those of SingleFlight: at most one FFmpeg fills the cache with a variant,
\* and no request joins a flight that has landed or is left behind by one that lands.
OneFlight == Flying!Spec

-----------------------------------------------------------------------------
\* Liveness.  A client reads its stream or goes away, FFmpeg ends, and a mutex
\* serves those that wait for it although others take it in between.
Fairness ==
  /\ \A r \in Requests :
       /\ WF_vars(RequestStep(r)) /\ WF_vars(FFmpegStep(r)) /\ WF_vars(ReadStep(r))
       /\ SF_vars(CacheStep(r))
  /\ WF_vars(PruneStep)

FairSpec == Spec /\ Fairness

\* A request that waits for the flight of another one is answered, whether the client that
\* leads it reads to the end or leaves, and whether its FFmpeg and its copy succeed.
WaitersAnswered == \A r \in Requests : req[r].pc = "waiting" ~> req[r].pc # "waiting"
=============================================================================
