--------------------------- MODULE TranscodeProofs ---------------------------
(* Theorems about TranscodeCache, for every value of its constants. *)
EXTENDS TranscodeCache, Counting, TLAPS

-----------------------------------------------------------------------------
\* The inductive invariant.

\* The fields of a request.
Shape ==
  DOMAIN req = Requests /\ \A r \in Requests :
    DOMAIN req[r] = {"pc", "key", "proc", "out", "got", "waited", "put", "why"}

\* What a request that leads a flight is doing, and how much of the variant it has read.
LeadersOK == \A r \in Requests :
  /\ req[r].pc # "idle" => req[r].key \in Keys
  /\ req[r].pc \notin ReadingPC \cup {"finalizing"} => req[r].put = "none" /\ req[r].proc = "none"
  /\ req[r].put \in {"commit", "stored", "pruning", "full"} => req[r].pc = "finalizing"
  /\ req[r].pc = "finalizing" => req[r].put # "copying"
  /\ req[r].pc \in {"streaming", "eof"} /\ req[r].proc = "ok" => req[r].out = SizeOf[req[r].key]
  /\ req[r].pc = "eof" => req[r].got = req[r].out /\ req[r].proc \in {"ok", "failed"}
  /\ req[r].put \in {"commit", "stored", "pruning", "full"} => req[r].got = SizeOf[req[r].key]

\* A Put holds the lock while it prunes, and the blob of its victim is gone, unless
\* another Put, which waits for the lock, has stored it again.
PruningOK ==
  /\ operation \in Requests => req[operation].put \in {"pruning", "full"}
  /\ victim # NoKey =>
       /\ operation # Nobody
       /\ blob[victim] = 0 \/ \E r \in Requests : req[r].put = "stored" /\ KeyOf(r) = victim

OrphansOnly == \A k \in Keys : Orphan(k)' => Orphan(k) \/ RecordFailed(k)

IInv == TypeOK /\ Shape /\ LeadersOK /\ PruningOK /\ BlobsComplete

-----------------------------------------------------------------------------
\* Every step keeps it.

\* finalize ends the copy with the stream, or gives it up; a finished reader just ends.
LEMMA Finalizing ==
  ASSUME Shape, NEW r \in Requests, NEW why, Finalize(r, why)
  PROVE  /\ DOMAIN req' = Requests /\ \A q \in Requests \ {r} : req'[q] = req[q]
         /\ DOMAIN req'[r] = {"pc", "key", "proc", "out", "got", "waited", "put", "why"}
         /\ \/ req'[r] = NoRequest
            \/ /\ req'[r].pc = "finalizing" /\ req'[r].key = req[r].key
               /\ req'[r].proc = req[r].proc /\ req'[r].why = why
               /\ \/ /\ why = "eof" /\ req'[r].out = req[r].out /\ req'[r].got = req[r].got
                     /\ req'[r].put = IF req[r].put = "copying" THEN "commit" ELSE req[r].put
                  \/ /\ why # "eof" /\ req'[r].out = 0 /\ req'[r].got = 0
                     /\ req'[r].put = "failed"
<1> USE DEF Shape, NoRequest, KeyOf
<1>1. CASE Finished(r)
  BY <1>1 DEF Finalize, Leave
<1>2. CASE ~Finished(r) /\ why = "eof"
  <2>1. req' = [req EXCEPT ![r] = [req[r] EXCEPT !.pc = "finalizing", !.why = why,
                  !.put = IF req[r].put = "copying" THEN "commit" ELSE req[r].put]]
    BY <1>2 DEF Finalize
  <2>2. req'[r] = [req[r] EXCEPT !.pc = "finalizing", !.why = why,
                  !.put = IF req[r].put = "copying" THEN "commit" ELSE req[r].put]
    BY <2>1
  <2>3. DOMAIN req' = Requests /\ \A q \in Requests \ {r} : req'[q] = req[q]
    BY <2>1
  <2>4. DOMAIN req'[r] = DOMAIN req[r]
    BY <2>2
  <2> QED BY <1>2, <2>2, <2>3, <2>4
<1>3. CASE ~Finished(r) /\ why # "eof"
  <2>1. req' = [req EXCEPT ![r] = [NoRequest EXCEPT !.pc = "finalizing", !.key = req[r].key,
                  !.proc = req[r].proc, !.put = "failed", !.why = why]]
    BY <1>3 DEF Finalize
  <2>2. req'[r] = [NoRequest EXCEPT !.pc = "finalizing", !.key = req[r].key,
                  !.proc = req[r].proc, !.put = "failed", !.why = why]
    BY <2>1
  <2>3. DOMAIN req' = Requests /\ \A q \in Requests \ {r} : req'[q] = req[q]
    BY <2>1
  <2>4. DOMAIN req'[r] = DOMAIN NoRequest
    BY <2>2
  <2> QED BY <1>3, <2>2, <2>3, <2>4
<1> QED BY <1>1, <1>2, <1>3

\* Types are kept.
LEMMA TypeOKStep ==
  ASSUME TypeOK, Shape, LeadersOK, PruningOK, Next
  PROVE  TypeOK'
<1> USE ConstantsAssumption DEF TypeOK, CacheTypeOK, RequestTypeOK, Shape, disk, NoRequest, KeyOf
<1> USE DEF ReadingPC, RequestPC, PutStates
<1> USE DEF LeadersOK, PruningOK
<1>1. ASSUME NEW r \in Requests, PutBlob(r) PROVE TypeOK'
  BY <1>1 DEF PutBlob
<1>2. ASSUME NEW r \in Requests, PutFails(r) PROVE TypeOK'
  BY <1>2 DEF PutFails
<1>3. ASSUME NEW r \in Requests, PutEntry(r) PROVE TypeOK'
  BY <1>3 DEF PutEntry, EntryTouched, OlderWithout
<1>4. ASSUME NEW r \in Requests, PutEntryFails(r) PROVE TypeOK'
  BY <1>4 DEF PutEntryFails
<1>5. ASSUME NEW r \in Requests, PruneFails(r) PROVE TypeOK'
  BY <1>5 DEF PruneFails
<1>6. ASSUME NEW r \in Requests, PutReturns(r) PROVE TypeOK'
  BY <1>6 DEF PutReturns
<1>7. CASE PruneBlob
  BY <1>7 DEF PruneBlob, Oldest, Others
<1>8. CASE DiscardBlob
  BY <1>8 DEF DiscardBlob
<1>9. CASE RemoveEntry
  BY <1>9 DEF RemoveEntry, EntryDeleted, OlderWithout
<1>10. CASE StartupPruned
  BY <1>10 DEF StartupPruned
<1>11. ASSUME NEW r \in Requests, NEW k \in Keys, Transcode(r, k) PROVE TypeOK'
  BY <1>11 DEF Transcode, CacheHit, CacheMiss, EntryTouched, EntryDeleted, OlderWithout
<1>12. ASSUME NEW r \in Requests, RecordCached(r) PROVE TypeOK'
  BY <1>12 DEF RecordCached, Leave
<1>13. ASSUME NEW r \in Requests, JoinFlight(r) PROVE TypeOK'
  BY <1>13 DEF JoinFlight, Goto
<1>14. ASSUME NEW r \in Requests, WaitCancelled(r) PROVE TypeOK'
  BY <1>14 DEF WaitCancelled, Leave
<1>15. ASSUME NEW r \in Requests, Reopen(r) PROVE TypeOK'
  BY <1>15 DEF Reopen, Leave, CacheHit, CacheMiss, CacheError, EntryTouched, EntryDeleted, OlderWithout
<1>16. ASSUME NEW r \in Requests, LeadFlight(r) PROVE TypeOK'
  BY <1>16 DEF LeadFlight, Goto
<1>17. ASSUME NEW r \in Requests, StartFails(r) PROVE TypeOK'
  BY <1>17 DEF StartFails, FinishFlight
<1>18. ASSUME NEW r \in Requests, StartFFmpeg(r) PROVE TypeOK'
  BY <1>18 DEF StartFFmpeg
<1>19. ASSUME NEW r \in Requests, FFmpegWrites(r) PROVE TypeOK'
  BY <1>19 DEF FFmpegWrites
<1>20. ASSUME NEW r \in Requests, FFmpegExits(r) PROVE TypeOK'
  BY <1>20 DEF FFmpegExits
<1>21. ASSUME NEW r \in Requests, WaitReturns(r) PROVE TypeOK'
  BY <1>21 DEF WaitReturns
<1>22. ASSUME NEW r \in Requests, ReadChunk(r) PROVE TypeOK'
  BY <1>22 DEF ReadChunk
<1>23. ASSUME NEW r \in Requests, ReadUncached(r) PROVE TypeOK'
  BY <1>23 DEF ReadUncached, FinishFlight
<1>24. ASSUME NEW r \in Requests, ReadEOF(r) PROVE TypeOK'
  BY <1>24 DEF ReadEOF, Goto
<1>25. ASSUME NEW r \in Requests, ReadExit(r) PROVE TypeOK'
  <2>1. PICK why : why = IF req[r].proc = "ok" THEN "eof" ELSE "failed"
    OBVIOUS
  <2>2. Finalize(r, why) /\ UNCHANGED <<disk, flights, jobs, operation, victim>>
    BY <1>25, <2>1 DEF ReadExit
  <2>3. req[r].pc \in ReadingPC /\ (why = "eof" => req[r].pc = "eof" /\ req[r].proc = "ok")
    BY <1>25, <2>1 DEF ReadExit
  <2>4. why \in {"eof", "failed", "closed", "left"}
    BY <2>1
  <2> QED BY <2>2, <2>3, <2>4, Finalizing
<1>26. ASSUME NEW r \in Requests, ReadClosed(r) PROVE TypeOK'
  <2>1. PICK why : why = "closed"
    OBVIOUS
  <2>2. Finalize(r, why) /\ UNCHANGED <<disk, flights, jobs, operation, victim>>
    BY <1>26, <2>1 DEF ReadClosed
  <2>3. req[r].pc \in ReadingPC /\ (why = "eof" => req[r].pc = "eof" /\ req[r].proc = "ok")
    BY <1>26, <2>1 DEF ReadClosed
  <2>4. why \in {"eof", "failed", "closed", "left"}
    BY <2>1
  <2> QED BY <2>2, <2>3, <2>4, Finalizing
<1>27. ASSUME NEW r \in Requests, Disconnect(r) PROVE TypeOK'
  BY <1>27 DEF Disconnect
<1>28. ASSUME NEW r \in Requests, Closed(r) PROVE TypeOK'
  <2>1. PICK why : why = "left"
    OBVIOUS
  <2>2. Finalize(r, why) /\ UNCHANGED <<disk, flights, jobs, operation, victim>>
    BY <1>28, <2>1 DEF Closed
  <2>3. req[r].pc \in ReadingPC /\ (why = "eof" => req[r].pc = "eof" /\ req[r].proc = "ok")
    BY <1>28, <2>1 DEF Closed
  <2>4. why \in {"eof", "failed", "closed", "left"}
    BY <2>1
  <2> QED BY <2>2, <2>3, <2>4, Finalizing
<1>29. ASSUME NEW r \in Requests, Finalized(r) PROVE TypeOK'
  BY <1>29 DEF Finalized, FinishFlight
<1>30. CASE Restart
  BY <1>30 DEF Restart
<1> HIDE DEF TypeOK, Shape, disk, NoRequest, KeyOf, LeadersOK, PruningOK, BlobsComplete
<1> QED BY <1>1, <1>2, <1>3, <1>4, <1>5, <1>6, <1>7, <1>8, <1>9, <1>10, <1>11, <1>12, <1>13,
       <1>14, <1>15, <1>16, <1>17, <1>18, <1>19, <1>20, <1>21, <1>22, <1>23, <1>24, <1>25,
       <1>26, <1>27, <1>28, <1>29, <1>30 DEF Next, RequestStep, FFmpegStep, ReadStep,
       CacheStep, PruneStep

\* A request keeps its fields.
LEMMA ShapeStep ==
  ASSUME TypeOK, Shape, PruningOK, Next
  PROVE  Shape'
<1> USE ConstantsAssumption DEF TypeOK, CacheTypeOK, RequestTypeOK, Shape, disk, NoRequest, KeyOf
<1> USE DEF ReadingPC, RequestPC, PutStates
<1> USE DEF PruningOK
<1>1. ASSUME NEW r \in Requests, PutBlob(r) PROVE Shape'
  BY <1>1 DEF PutBlob
<1>2. ASSUME NEW r \in Requests, PutFails(r) PROVE Shape'
  BY <1>2 DEF PutFails
<1>3. ASSUME NEW r \in Requests, PutEntry(r) PROVE Shape'
  BY <1>3 DEF PutEntry, EntryTouched, OlderWithout
<1>4. ASSUME NEW r \in Requests, PutEntryFails(r) PROVE Shape'
  BY <1>4 DEF PutEntryFails
<1>5. ASSUME NEW r \in Requests, PruneFails(r) PROVE Shape'
  BY <1>5 DEF PruneFails
<1>6. ASSUME NEW r \in Requests, PutReturns(r) PROVE Shape'
  BY <1>6 DEF PutReturns
<1>7. CASE PruneBlob
  BY <1>7 DEF PruneBlob, Oldest, Others
<1>8. CASE DiscardBlob
  BY <1>8 DEF DiscardBlob
<1>9. CASE RemoveEntry
  BY <1>9 DEF RemoveEntry, EntryDeleted, OlderWithout
<1>10. CASE StartupPruned
  BY <1>10 DEF StartupPruned
<1>11. ASSUME NEW r \in Requests, NEW k \in Keys, Transcode(r, k) PROVE Shape'
  BY <1>11 DEF Transcode, CacheHit, CacheMiss, EntryTouched, EntryDeleted, OlderWithout
<1>12. ASSUME NEW r \in Requests, RecordCached(r) PROVE Shape'
  BY <1>12 DEF RecordCached, Leave
<1>13. ASSUME NEW r \in Requests, JoinFlight(r) PROVE Shape'
  BY <1>13 DEF JoinFlight, Goto
<1>14. ASSUME NEW r \in Requests, WaitCancelled(r) PROVE Shape'
  BY <1>14 DEF WaitCancelled, Leave
<1>15. ASSUME NEW r \in Requests, Reopen(r) PROVE Shape'
  BY <1>15 DEF Reopen, Leave, CacheHit, CacheMiss, CacheError, EntryTouched, EntryDeleted, OlderWithout
<1>16. ASSUME NEW r \in Requests, LeadFlight(r) PROVE Shape'
  BY <1>16 DEF LeadFlight, Goto
<1>17. ASSUME NEW r \in Requests, StartFails(r) PROVE Shape'
  BY <1>17 DEF StartFails, FinishFlight
<1>18. ASSUME NEW r \in Requests, StartFFmpeg(r) PROVE Shape'
  BY <1>18 DEF StartFFmpeg
<1>19. ASSUME NEW r \in Requests, FFmpegWrites(r) PROVE Shape'
  BY <1>19 DEF FFmpegWrites
<1>20. ASSUME NEW r \in Requests, FFmpegExits(r) PROVE Shape'
  BY <1>20 DEF FFmpegExits
<1>21. ASSUME NEW r \in Requests, WaitReturns(r) PROVE Shape'
  BY <1>21 DEF WaitReturns
<1>22. ASSUME NEW r \in Requests, ReadChunk(r) PROVE Shape'
  BY <1>22 DEF ReadChunk
<1>23. ASSUME NEW r \in Requests, ReadUncached(r) PROVE Shape'
  BY <1>23 DEF ReadUncached, FinishFlight
<1>24. ASSUME NEW r \in Requests, ReadEOF(r) PROVE Shape'
  BY <1>24 DEF ReadEOF, Goto
<1>25. ASSUME NEW r \in Requests, ReadExit(r) PROVE Shape'
  <2>1. PICK why : why = IF req[r].proc = "ok" THEN "eof" ELSE "failed"
    OBVIOUS
  <2>2. Finalize(r, why) /\ UNCHANGED <<disk, flights, jobs, operation, victim>>
    BY <1>25, <2>1 DEF ReadExit
  <2>3. req[r].pc \in ReadingPC /\ (why = "eof" => req[r].pc = "eof" /\ req[r].proc = "ok")
    BY <1>25, <2>1 DEF ReadExit
  <2>4. why \in {"eof", "failed", "closed", "left"}
    BY <2>1
  <2> QED BY <2>2, <2>3, <2>4, Finalizing
<1>26. ASSUME NEW r \in Requests, ReadClosed(r) PROVE Shape'
  <2>1. PICK why : why = "closed"
    OBVIOUS
  <2>2. Finalize(r, why) /\ UNCHANGED <<disk, flights, jobs, operation, victim>>
    BY <1>26, <2>1 DEF ReadClosed
  <2>3. req[r].pc \in ReadingPC /\ (why = "eof" => req[r].pc = "eof" /\ req[r].proc = "ok")
    BY <1>26, <2>1 DEF ReadClosed
  <2>4. why \in {"eof", "failed", "closed", "left"}
    BY <2>1
  <2> QED BY <2>2, <2>3, <2>4, Finalizing
<1>27. ASSUME NEW r \in Requests, Disconnect(r) PROVE Shape'
  BY <1>27 DEF Disconnect
<1>28. ASSUME NEW r \in Requests, Closed(r) PROVE Shape'
  <2>1. PICK why : why = "left"
    OBVIOUS
  <2>2. Finalize(r, why) /\ UNCHANGED <<disk, flights, jobs, operation, victim>>
    BY <1>28, <2>1 DEF Closed
  <2>3. req[r].pc \in ReadingPC /\ (why = "eof" => req[r].pc = "eof" /\ req[r].proc = "ok")
    BY <1>28, <2>1 DEF Closed
  <2>4. why \in {"eof", "failed", "closed", "left"}
    BY <2>1
  <2> QED BY <2>2, <2>3, <2>4, Finalizing
<1>29. ASSUME NEW r \in Requests, Finalized(r) PROVE Shape'
  BY <1>29 DEF Finalized, FinishFlight
<1>30. CASE Restart
  BY <1>30 DEF Restart
<1> HIDE DEF TypeOK, Shape, disk, NoRequest, KeyOf, LeadersOK, PruningOK, BlobsComplete
<1> QED BY <1>1, <1>2, <1>3, <1>4, <1>5, <1>6, <1>7, <1>8, <1>9, <1>10, <1>11, <1>12, <1>13,
       <1>14, <1>15, <1>16, <1>17, <1>18, <1>19, <1>20, <1>21, <1>22, <1>23, <1>24, <1>25,
       <1>26, <1>27, <1>28, <1>29, <1>30 DEF Next, RequestStep, FFmpegStep, ReadStep,
       CacheStep, PruneStep

\* A step keeps what is known of the leaders of flights; in particular a copy is
\* committed only when FFmpeg has ended well and everything it wrote was read.
LEMMA LeadersOKStep ==
  ASSUME TypeOK, Shape, LeadersOK, PruningOK, Next
  PROVE  LeadersOK'
<1> USE ConstantsAssumption DEF TypeOK, CacheTypeOK, RequestTypeOK, Shape, disk, NoRequest, KeyOf
<1> USE DEF ReadingPC, RequestPC, PutStates
<1> USE DEF LeadersOK, PruningOK
<1>1. ASSUME NEW r \in Requests, PutBlob(r) PROVE LeadersOK'
  BY <1>1 DEF PutBlob
<1>2. ASSUME NEW r \in Requests, PutFails(r) PROVE LeadersOK'
  BY <1>2 DEF PutFails
<1>3. ASSUME NEW r \in Requests, PutEntry(r) PROVE LeadersOK'
  BY <1>3 DEF PutEntry, EntryTouched, OlderWithout
<1>4. ASSUME NEW r \in Requests, PutEntryFails(r) PROVE LeadersOK'
  BY <1>4 DEF PutEntryFails
<1>5. ASSUME NEW r \in Requests, PruneFails(r) PROVE LeadersOK'
  BY <1>5 DEF PruneFails
<1>6. ASSUME NEW r \in Requests, PutReturns(r) PROVE LeadersOK'
  BY <1>6 DEF PutReturns
<1>7. CASE PruneBlob
  BY <1>7 DEF PruneBlob, Oldest, Others
<1>8. CASE DiscardBlob
  BY <1>8 DEF DiscardBlob
<1>9. CASE RemoveEntry
  BY <1>9 DEF RemoveEntry, EntryDeleted, OlderWithout
<1>10. CASE StartupPruned
  BY <1>10 DEF StartupPruned
<1>11. ASSUME NEW r \in Requests, NEW k \in Keys, Transcode(r, k) PROVE LeadersOK'
  BY <1>11 DEF Transcode, CacheHit, CacheMiss, EntryTouched, EntryDeleted, OlderWithout
<1>12. ASSUME NEW r \in Requests, RecordCached(r) PROVE LeadersOK'
  BY <1>12 DEF RecordCached, Leave
<1>13. ASSUME NEW r \in Requests, JoinFlight(r) PROVE LeadersOK'
  BY <1>13 DEF JoinFlight, Goto
<1>14. ASSUME NEW r \in Requests, WaitCancelled(r) PROVE LeadersOK'
  BY <1>14 DEF WaitCancelled, Leave
<1>15. ASSUME NEW r \in Requests, Reopen(r) PROVE LeadersOK'
  BY <1>15 DEF Reopen, Leave, CacheHit, CacheMiss, CacheError, EntryTouched, EntryDeleted, OlderWithout
<1>16. ASSUME NEW r \in Requests, LeadFlight(r) PROVE LeadersOK'
  BY <1>16 DEF LeadFlight, Goto
<1>17. ASSUME NEW r \in Requests, StartFails(r) PROVE LeadersOK'
  BY <1>17 DEF StartFails, FinishFlight
<1>18. ASSUME NEW r \in Requests, StartFFmpeg(r) PROVE LeadersOK'
  BY <1>18 DEF StartFFmpeg
<1>19. ASSUME NEW r \in Requests, FFmpegWrites(r) PROVE LeadersOK'
  BY <1>19 DEF FFmpegWrites
<1>20. ASSUME NEW r \in Requests, FFmpegExits(r) PROVE LeadersOK'
  BY <1>20 DEF FFmpegExits
<1>21. ASSUME NEW r \in Requests, WaitReturns(r) PROVE LeadersOK'
  BY <1>21 DEF WaitReturns
<1>22. ASSUME NEW r \in Requests, ReadChunk(r) PROVE LeadersOK'
  BY <1>22 DEF ReadChunk
<1>23. ASSUME NEW r \in Requests, ReadUncached(r) PROVE LeadersOK'
  BY <1>23 DEF ReadUncached, FinishFlight
<1>24. ASSUME NEW r \in Requests, ReadEOF(r) PROVE LeadersOK'
  BY <1>24 DEF ReadEOF, Goto
<1>25. ASSUME NEW r \in Requests, ReadExit(r) PROVE LeadersOK'
  <2>1. PICK why : why = IF req[r].proc = "ok" THEN "eof" ELSE "failed"
    OBVIOUS
  <2>2. Finalize(r, why) /\ UNCHANGED <<disk, flights, jobs, operation, victim>>
    BY <1>25, <2>1 DEF ReadExit
  <2>3. req[r].pc \in ReadingPC /\ (why = "eof" => req[r].pc = "eof" /\ req[r].proc = "ok")
    BY <1>25, <2>1 DEF ReadExit
  <2>4. why \in {"eof", "failed", "closed", "left"}
    BY <2>1
  <2> QED BY <2>2, <2>3, <2>4, Finalizing
<1>26. ASSUME NEW r \in Requests, ReadClosed(r) PROVE LeadersOK'
  <2>1. PICK why : why = "closed"
    OBVIOUS
  <2>2. Finalize(r, why) /\ UNCHANGED <<disk, flights, jobs, operation, victim>>
    BY <1>26, <2>1 DEF ReadClosed
  <2>3. req[r].pc \in ReadingPC /\ (why = "eof" => req[r].pc = "eof" /\ req[r].proc = "ok")
    BY <1>26, <2>1 DEF ReadClosed
  <2>4. why \in {"eof", "failed", "closed", "left"}
    BY <2>1
  <2> QED BY <2>2, <2>3, <2>4, Finalizing
<1>27. ASSUME NEW r \in Requests, Disconnect(r) PROVE LeadersOK'
  BY <1>27 DEF Disconnect
<1>28. ASSUME NEW r \in Requests, Closed(r) PROVE LeadersOK'
  <2>1. PICK why : why = "left"
    OBVIOUS
  <2>2. Finalize(r, why) /\ UNCHANGED <<disk, flights, jobs, operation, victim>>
    BY <1>28, <2>1 DEF Closed
  <2>3. req[r].pc \in ReadingPC /\ (why = "eof" => req[r].pc = "eof" /\ req[r].proc = "ok")
    BY <1>28, <2>1 DEF Closed
  <2>4. why \in {"eof", "failed", "closed", "left"}
    BY <2>1
  <2> QED BY <2>2, <2>3, <2>4, Finalizing
<1>29. ASSUME NEW r \in Requests, Finalized(r) PROVE LeadersOK'
  BY <1>29 DEF Finalized, FinishFlight
<1>30. CASE Restart
  BY <1>30 DEF Restart
<1> HIDE DEF TypeOK, Shape, disk, NoRequest, KeyOf, LeadersOK, PruningOK, BlobsComplete
<1> QED BY <1>1, <1>2, <1>3, <1>4, <1>5, <1>6, <1>7, <1>8, <1>9, <1>10, <1>11, <1>12, <1>13,
       <1>14, <1>15, <1>16, <1>17, <1>18, <1>19, <1>20, <1>21, <1>22, <1>23, <1>24, <1>25,
       <1>26, <1>27, <1>28, <1>29, <1>30 DEF Next, RequestStep, FFmpegStep, ReadStep,
       CacheStep, PruneStep

\* A prune keeps its lock, and a blob that appears under it belongs to a Put that waits.
LEMMA PruningOKStep ==
  ASSUME TypeOK, Shape, LeadersOK, PruningOK, Next
  PROVE  PruningOK'
<1> USE ConstantsAssumption DEF TypeOK, CacheTypeOK, RequestTypeOK, Shape, disk, NoRequest, KeyOf
<1> USE DEF ReadingPC, RequestPC, PutStates
<1> USE DEF LeadersOK, PruningOK
<1>1. ASSUME NEW r \in Requests, PutBlob(r) PROVE PruningOK'
  BY <1>1 DEF PutBlob
<1>2. ASSUME NEW r \in Requests, PutFails(r) PROVE PruningOK'
  BY <1>2 DEF PutFails
<1>3. ASSUME NEW r \in Requests, PutEntry(r) PROVE PruningOK'
  BY <1>3 DEF PutEntry, EntryTouched, OlderWithout
<1>4. ASSUME NEW r \in Requests, PutEntryFails(r) PROVE PruningOK'
  BY <1>4 DEF PutEntryFails
<1>5. ASSUME NEW r \in Requests, PruneFails(r) PROVE PruningOK'
  BY <1>5 DEF PruneFails
<1>6. ASSUME NEW r \in Requests, PutReturns(r) PROVE PruningOK'
  BY <1>6 DEF PutReturns
<1>7. CASE PruneBlob
  BY <1>7 DEF PruneBlob, Oldest, Others
<1>8. CASE DiscardBlob
  BY <1>8 DEF DiscardBlob
<1>9. CASE RemoveEntry
  BY <1>9 DEF RemoveEntry, EntryDeleted, OlderWithout
<1>10. CASE StartupPruned
  BY <1>10 DEF StartupPruned
<1>11. ASSUME NEW r \in Requests, NEW k \in Keys, Transcode(r, k) PROVE PruningOK'
  BY <1>11 DEF Transcode, CacheHit, CacheMiss, EntryTouched, EntryDeleted, OlderWithout
<1>12. ASSUME NEW r \in Requests, RecordCached(r) PROVE PruningOK'
  BY <1>12 DEF RecordCached, Leave
<1>13. ASSUME NEW r \in Requests, JoinFlight(r) PROVE PruningOK'
  BY <1>13 DEF JoinFlight, Goto
<1>14. ASSUME NEW r \in Requests, WaitCancelled(r) PROVE PruningOK'
  BY <1>14 DEF WaitCancelled, Leave
<1>15. ASSUME NEW r \in Requests, Reopen(r) PROVE PruningOK'
  BY <1>15 DEF Reopen, Leave, CacheHit, CacheMiss, CacheError, EntryTouched, EntryDeleted, OlderWithout
<1>16. ASSUME NEW r \in Requests, LeadFlight(r) PROVE PruningOK'
  BY <1>16 DEF LeadFlight, Goto
<1>17. ASSUME NEW r \in Requests, StartFails(r) PROVE PruningOK'
  BY <1>17 DEF StartFails, FinishFlight
<1>18. ASSUME NEW r \in Requests, StartFFmpeg(r) PROVE PruningOK'
  BY <1>18 DEF StartFFmpeg
<1>19. ASSUME NEW r \in Requests, FFmpegWrites(r) PROVE PruningOK'
  BY <1>19 DEF FFmpegWrites
<1>20. ASSUME NEW r \in Requests, FFmpegExits(r) PROVE PruningOK'
  BY <1>20 DEF FFmpegExits
<1>21. ASSUME NEW r \in Requests, WaitReturns(r) PROVE PruningOK'
  BY <1>21 DEF WaitReturns
<1>22. ASSUME NEW r \in Requests, ReadChunk(r) PROVE PruningOK'
  BY <1>22 DEF ReadChunk
<1>23. ASSUME NEW r \in Requests, ReadUncached(r) PROVE PruningOK'
  BY <1>23 DEF ReadUncached, FinishFlight
<1>24. ASSUME NEW r \in Requests, ReadEOF(r) PROVE PruningOK'
  BY <1>24 DEF ReadEOF, Goto
<1>25. ASSUME NEW r \in Requests, ReadExit(r) PROVE PruningOK'
  BY <1>25 DEF ReadExit, Finalize, Leave, Finished
<1>26. ASSUME NEW r \in Requests, ReadClosed(r) PROVE PruningOK'
  BY <1>26 DEF ReadClosed, Finalize, Leave, Finished
<1>27. ASSUME NEW r \in Requests, Disconnect(r) PROVE PruningOK'
  BY <1>27 DEF Disconnect
<1>28. ASSUME NEW r \in Requests, Closed(r) PROVE PruningOK'
  BY <1>28 DEF Closed, Finalize, Leave, Finished
<1>29. ASSUME NEW r \in Requests, Finalized(r) PROVE PruningOK'
  BY <1>29 DEF Finalized, FinishFlight
<1>30. CASE Restart
  BY <1>30 DEF Restart
<1> HIDE DEF TypeOK, Shape, disk, NoRequest, KeyOf, LeadersOK, PruningOK, BlobsComplete
<1> QED BY <1>1, <1>2, <1>3, <1>4, <1>5, <1>6, <1>7, <1>8, <1>9, <1>10, <1>11, <1>12, <1>13,
       <1>14, <1>15, <1>16, <1>17, <1>18, <1>19, <1>20, <1>21, <1>22, <1>23, <1>24, <1>25,
       <1>26, <1>27, <1>28, <1>29, <1>30 DEF Next, RequestStep, FFmpegStep, ReadStep,
       CacheStep, PruneStep

\* A blob is written once, when its copy is complete.
LEMMA BlobsCompleteStep ==
  ASSUME TypeOK, Shape, LeadersOK, PruningOK, BlobsComplete, Next
  PROVE  BlobsComplete'
<1> USE ConstantsAssumption DEF TypeOK, CacheTypeOK, RequestTypeOK, Shape, disk, NoRequest, KeyOf
<1> USE DEF ReadingPC, RequestPC, PutStates
<1> USE DEF LeadersOK, PruningOK, BlobsComplete
<1>1. ASSUME NEW r \in Requests, PutBlob(r) PROVE BlobsComplete'
  BY <1>1 DEF PutBlob
<1>2. ASSUME NEW r \in Requests, PutFails(r) PROVE BlobsComplete'
  BY <1>2 DEF PutFails
<1>3. ASSUME NEW r \in Requests, PutEntry(r) PROVE BlobsComplete'
  BY <1>3 DEF PutEntry, EntryTouched, OlderWithout
<1>4. ASSUME NEW r \in Requests, PutEntryFails(r) PROVE BlobsComplete'
  BY <1>4 DEF PutEntryFails
<1>5. ASSUME NEW r \in Requests, PruneFails(r) PROVE BlobsComplete'
  BY <1>5 DEF PruneFails
<1>6. ASSUME NEW r \in Requests, PutReturns(r) PROVE BlobsComplete'
  BY <1>6 DEF PutReturns
<1>7. CASE PruneBlob
  BY <1>7 DEF PruneBlob, Oldest, Others
<1>8. CASE DiscardBlob
  BY <1>8 DEF DiscardBlob
<1>9. CASE RemoveEntry
  BY <1>9 DEF RemoveEntry, EntryDeleted, OlderWithout
<1>10. CASE StartupPruned
  BY <1>10 DEF StartupPruned
<1>11. ASSUME NEW r \in Requests, NEW k \in Keys, Transcode(r, k) PROVE BlobsComplete'
  BY <1>11 DEF Transcode, CacheHit, CacheMiss, EntryTouched, EntryDeleted, OlderWithout
<1>12. ASSUME NEW r \in Requests, RecordCached(r) PROVE BlobsComplete'
  BY <1>12 DEF RecordCached, Leave
<1>13. ASSUME NEW r \in Requests, JoinFlight(r) PROVE BlobsComplete'
  BY <1>13 DEF JoinFlight, Goto
<1>14. ASSUME NEW r \in Requests, WaitCancelled(r) PROVE BlobsComplete'
  BY <1>14 DEF WaitCancelled, Leave
<1>15. ASSUME NEW r \in Requests, Reopen(r) PROVE BlobsComplete'
  BY <1>15 DEF Reopen, Leave, CacheHit, CacheMiss, CacheError, EntryTouched, EntryDeleted, OlderWithout
<1>16. ASSUME NEW r \in Requests, LeadFlight(r) PROVE BlobsComplete'
  BY <1>16 DEF LeadFlight, Goto
<1>17. ASSUME NEW r \in Requests, StartFails(r) PROVE BlobsComplete'
  BY <1>17 DEF StartFails, FinishFlight
<1>18. ASSUME NEW r \in Requests, StartFFmpeg(r) PROVE BlobsComplete'
  BY <1>18 DEF StartFFmpeg
<1>19. ASSUME NEW r \in Requests, FFmpegWrites(r) PROVE BlobsComplete'
  BY <1>19 DEF FFmpegWrites
<1>20. ASSUME NEW r \in Requests, FFmpegExits(r) PROVE BlobsComplete'
  BY <1>20 DEF FFmpegExits
<1>21. ASSUME NEW r \in Requests, WaitReturns(r) PROVE BlobsComplete'
  BY <1>21 DEF WaitReturns
<1>22. ASSUME NEW r \in Requests, ReadChunk(r) PROVE BlobsComplete'
  BY <1>22 DEF ReadChunk
<1>23. ASSUME NEW r \in Requests, ReadUncached(r) PROVE BlobsComplete'
  BY <1>23 DEF ReadUncached, FinishFlight
<1>24. ASSUME NEW r \in Requests, ReadEOF(r) PROVE BlobsComplete'
  BY <1>24 DEF ReadEOF, Goto
<1>25. ASSUME NEW r \in Requests, ReadExit(r) PROVE BlobsComplete'
  BY <1>25 DEF ReadExit, Finalize, Leave, Finished
<1>26. ASSUME NEW r \in Requests, ReadClosed(r) PROVE BlobsComplete'
  BY <1>26 DEF ReadClosed, Finalize, Leave, Finished
<1>27. ASSUME NEW r \in Requests, Disconnect(r) PROVE BlobsComplete'
  BY <1>27 DEF Disconnect
<1>28. ASSUME NEW r \in Requests, Closed(r) PROVE BlobsComplete'
  BY <1>28 DEF Closed, Finalize, Leave, Finished
<1>29. ASSUME NEW r \in Requests, Finalized(r) PROVE BlobsComplete'
  BY <1>29 DEF Finalized, FinishFlight
<1>30. CASE Restart
  BY <1>30 DEF Restart
<1> HIDE DEF TypeOK, Shape, disk, NoRequest, KeyOf, LeadersOK, PruningOK, BlobsComplete
<1> QED BY <1>1, <1>2, <1>3, <1>4, <1>5, <1>6, <1>7, <1>8, <1>9, <1>10, <1>11, <1>12, <1>13,
       <1>14, <1>15, <1>16, <1>17, <1>18, <1>19, <1>20, <1>21, <1>22, <1>23, <1>24, <1>25,
       <1>26, <1>27, <1>28, <1>29, <1>30 DEF Next, RequestStep, FFmpegStep, ReadStep,
       CacheStep, PruneStep

\* No step of a running process leaves a blob that neither an entry nor a Put knows of.
LEMMA OrphansOnlyStep ==
  ASSUME TypeOK, Shape, LeadersOK, PruningOK, operation' # Startup, Next
  PROVE  OrphansOnly
<1> USE ConstantsAssumption DEF TypeOK, CacheTypeOK, RequestTypeOK, Shape, disk, NoRequest, KeyOf
<1> USE DEF ReadingPC, RequestPC, PutStates
<1> USE DEF LeadersOK, PruningOK, OrphansOnly, Orphan, RecordFailed
<1>1. ASSUME NEW r \in Requests, PutBlob(r) PROVE OrphansOnly
  BY <1>1 DEF PutBlob
<1>2. ASSUME NEW r \in Requests, PutFails(r) PROVE OrphansOnly
  BY <1>2 DEF PutFails
<1>3. ASSUME NEW r \in Requests, PutEntry(r) PROVE OrphansOnly
  BY <1>3 DEF PutEntry, EntryTouched, OlderWithout
<1>4. ASSUME NEW r \in Requests, PutEntryFails(r) PROVE OrphansOnly
  BY <1>4 DEF PutEntryFails
<1>5. ASSUME NEW r \in Requests, PruneFails(r) PROVE OrphansOnly
  BY <1>5 DEF PruneFails
<1>6. ASSUME NEW r \in Requests, PutReturns(r) PROVE OrphansOnly
  BY <1>6 DEF PutReturns
<1>7. CASE PruneBlob
  BY <1>7 DEF PruneBlob, Oldest, Others
<1>8. CASE DiscardBlob
  BY <1>8 DEF DiscardBlob
<1>9. CASE RemoveEntry
  BY <1>9 DEF RemoveEntry, EntryDeleted, OlderWithout
<1>10. CASE StartupPruned
  BY <1>10 DEF StartupPruned
<1>11. ASSUME NEW r \in Requests, NEW k \in Keys, Transcode(r, k) PROVE OrphansOnly
  BY <1>11 DEF Transcode, CacheHit, CacheMiss, EntryTouched, EntryDeleted, OlderWithout
<1>12. ASSUME NEW r \in Requests, RecordCached(r) PROVE OrphansOnly
  BY <1>12 DEF RecordCached, Leave
<1>13. ASSUME NEW r \in Requests, JoinFlight(r) PROVE OrphansOnly
  BY <1>13 DEF JoinFlight, Goto
<1>14. ASSUME NEW r \in Requests, WaitCancelled(r) PROVE OrphansOnly
  BY <1>14 DEF WaitCancelled, Leave
<1>15. ASSUME NEW r \in Requests, Reopen(r) PROVE OrphansOnly
  BY <1>15 DEF Reopen, Leave, CacheHit, CacheMiss, CacheError, EntryTouched, EntryDeleted, OlderWithout
<1>16. ASSUME NEW r \in Requests, LeadFlight(r) PROVE OrphansOnly
  BY <1>16 DEF LeadFlight, Goto
<1>17. ASSUME NEW r \in Requests, StartFails(r) PROVE OrphansOnly
  BY <1>17 DEF StartFails, FinishFlight
<1>18. ASSUME NEW r \in Requests, StartFFmpeg(r) PROVE OrphansOnly
  BY <1>18 DEF StartFFmpeg
<1>19. ASSUME NEW r \in Requests, FFmpegWrites(r) PROVE OrphansOnly
  BY <1>19 DEF FFmpegWrites
<1>20. ASSUME NEW r \in Requests, FFmpegExits(r) PROVE OrphansOnly
  BY <1>20 DEF FFmpegExits
<1>21. ASSUME NEW r \in Requests, WaitReturns(r) PROVE OrphansOnly
  BY <1>21 DEF WaitReturns
<1>22. ASSUME NEW r \in Requests, ReadChunk(r) PROVE OrphansOnly
  BY <1>22 DEF ReadChunk
<1>23. ASSUME NEW r \in Requests, ReadUncached(r) PROVE OrphansOnly
  BY <1>23 DEF ReadUncached, FinishFlight
<1>24. ASSUME NEW r \in Requests, ReadEOF(r) PROVE OrphansOnly
  BY <1>24 DEF ReadEOF, Goto
<1>25. ASSUME NEW r \in Requests, ReadExit(r) PROVE OrphansOnly
  BY <1>25 DEF ReadExit, Finalize, Leave, Finished
<1>26. ASSUME NEW r \in Requests, ReadClosed(r) PROVE OrphansOnly
  BY <1>26 DEF ReadClosed, Finalize, Leave, Finished
<1>27. ASSUME NEW r \in Requests, Disconnect(r) PROVE OrphansOnly
  BY <1>27 DEF Disconnect
<1>28. ASSUME NEW r \in Requests, Closed(r) PROVE OrphansOnly
  BY <1>28 DEF Closed, Finalize, Leave, Finished
<1>29. ASSUME NEW r \in Requests, Finalized(r) PROVE OrphansOnly
  BY <1>29 DEF Finalized, FinishFlight
<1>30. CASE Restart
  BY <1>30 DEF Restart
<1> HIDE DEF TypeOK, Shape, disk, NoRequest, KeyOf, LeadersOK, PruningOK, OrphansOnly
<1> QED BY <1>1, <1>2, <1>3, <1>4, <1>5, <1>6, <1>7, <1>8, <1>9, <1>10, <1>11, <1>12, <1>13,
       <1>14, <1>15, <1>16, <1>17, <1>18, <1>19, <1>20, <1>21, <1>22, <1>23, <1>24, <1>25,
       <1>26, <1>27, <1>28, <1>29, <1>30 DEF Next, RequestStep, FFmpegStep, ReadStep,
       CacheStep, PruneStep

\* The cache starts empty.
LEMMA Initially == Init => IInv
  BY ConstantsAssumption DEF Init, IInv, TypeOK, CacheTypeOK, RequestTypeOK, Shape, LeadersOK,
     PruningOK, BlobsComplete, NoRequest, RequestPC, ReadingPC, PutStates, KeyOf

\* A step that changes nothing keeps it.
LEMMA Stuttering == ASSUME IInv, UNCHANGED vars PROVE IInv'
<1> USE DEF vars, disk
<1>1. TypeOK' /\ Shape' /\ BlobsComplete'
  BY DEF IInv, TypeOK, CacheTypeOK, RequestTypeOK, Shape, BlobsComplete
<1>2. LeadersOK'
  BY DEF IInv, LeadersOK
<1>3. PruningOK'
  BY DEF IInv, PruningOK, KeyOf
<1> QED BY <1>1, <1>2, <1>3 DEF IInv

-----------------------------------------------------------------------------
\* The results.

\* The cache, the flights and the readers keep the inductive invariant, whatever fails.
THEOREM CacheInvariant == Spec => []IInv
<1>1. IInv /\ Next => IInv'
  BY TypeOKStep, ShapeStep, LeadersOKStep, PruningOKStep, BlobsCompleteStep DEF IInv
<1> QED BY <1>1, Initially, Stuttering, PTL DEF Spec

\* BlobsComplete: a variant is in the cache whole or not at all, for any number of
\* requests and variants and whenever FFmpeg, a client, the disk or the process ends.
THEOREM VariantsAreComplete == Spec => []BlobsComplete
<1>1. IInv => BlobsComplete
  BY DEF IInv
<1> QED BY <1>1, CacheInvariant, PTL

\* NoOrphans: apart from a Put that can neither record nor delete its blob, only the end of
\* a process leaves one that nothing accounts for.
THEOREM BlobsAreAccountedFor == Spec => NoOrphans
<1>1. IInv /\ [Next]_vars =>
        [operation' # Startup => \A k \in Keys : Orphan(k)' => Orphan(k) \/ RecordFailed(k)]_vars
  <2> SUFFICES ASSUME IInv, Next, operation' # Startup
               PROVE  \A k \in Keys : Orphan(k)' => Orphan(k) \/ RecordFailed(k)
    OBVIOUS
  <2>1. OrphansOnly
    BY OrphansOnlyStep DEF IInv
  <2> QED BY <2>1 DEF OrphansOnly
<1> QED BY <1>1, CacheInvariant, PTL DEF Spec, NoOrphans

-----------------------------------------------------------------------------
\* The capacity of the cache.

\* The chunks of some of the entries.
Stored(some) == SumOf([k \in some |-> size[k]])

\* As long as deletions succeed, the cache holds one variant too many at most, and only
\* while somebody prunes it.
Bounded ==
  "full" \notin Events =>
    \/ Total <= MaxBytes
    \/ operation # Nobody /\ \E k \in Keys : Stored(entries \ {k}) <= MaxBytes
BInv == IsFiniteSet(entries) /\ Bounded

\* Entries go, or get smaller.
LEMMA FewerEntries ==
  ASSUME TypeOK, NEW some, IsFiniteSet(some), some \subseteq Keys, NEW fewer, fewer \subseteq some, NEW sizes \in [Keys -> Nat],
         \A k \in fewer : sizes[k] <= size[k]
  PROVE  SumOf([k \in fewer |-> sizes[k]]) <= Stored(some)
<1>1. [k \in fewer |-> sizes[k]] \in [fewer -> Nat] /\ [k \in some |-> size[k]] \in [some -> Nat]
  BY DEF TypeOK, CacheTypeOK
<1> QED BY <1>1, SumMonotone DEF Stored

\* What is stored is a number.
LEMMA StoredNat ==
  ASSUME TypeOK, NEW some, IsFiniteSet(some), some \subseteq Keys
  PROVE  Stored(some) \in Nat
<1>1. [k \in some |-> size[k]] \in [some -> Nat]
  BY DEF TypeOK, CacheTypeOK
<1> QED BY <1>1, SumFinite DEF Stored

\* Whatever leaves the entries alone and does not end a prune.
LEMMA SameEntries ==
  ASSUME BInv, UNCHANGED <<entries, size>>, operation = Nobody \/ operation' # Nobody
  PROVE  BInv'
BY DEF BInv, Bounded, Total, Stored

\* removeLocked, and Open when it finds an entry without blob.
LEMMA EntryDeletedBounded ==
  ASSUME TypeOK, BInv, NEW k \in Keys, EntryDeleted(k), operation' = operation
  PROVE  BInv'
<1>1. entries' = entries \ {k} /\ size' \in [Keys -> Nat] /\ \A l \in entries' : size'[l] = size[l]
  BY DEF EntryDeleted, TypeOK, CacheTypeOK
<1>2. IsFiniteSet(entries) /\ entries \subseteq Keys
  BY DEF BInv, TypeOK, CacheTypeOK
<1>3. IsFiniteSet(entries')
  BY <1>1, <1>2, FS_Subset
<1>4. ASSUME NEW some, some \subseteq entries
      PROVE  /\ SumOf([l \in some \ {k} |-> size'[l]]) <= Stored(some)
             /\ Stored(some) \in Nat /\ SumOf([l \in some \ {k} |-> size'[l]]) \in Nat
  <2>1. IsFiniteSet(some) /\ IsFiniteSet(some \ {k})
    BY <1>2, <1>4, FS_Subset
  <2>2. \A l \in some \ {k} : size'[l] <= size[l] /\ size'[l] \in Nat /\ size[l] \in Nat
    BY <1>1, <1>2, <1>4 DEF TypeOK, CacheTypeOK
  <2>3. SumOf([l \in some \ {k} |-> size'[l]]) <= Stored(some)
    BY <1>1, <1>2, <1>4, <2>1, <2>2, FewerEntries
  <2>4. Stored(some) \in Nat
    BY <1>2, <1>4, <2>1, StoredNat
  <2>5. SumOf([l \in some \ {k} |-> size'[l]]) \in Nat
    <3>1. [l \in some \ {k} |-> size'[l]] \in [some \ {k} -> Nat]
      BY <2>2
    <3> QED BY <2>1, <3>1, SumFinite
  <2> QED BY <2>3, <2>4, <2>5
<1>5. Bounded'
  <2> SUFFICES ASSUME "full" \notin Events PROVE Bounded'
    BY DEF Bounded
  <2>1. CASE Total <= MaxBytes
    <3>1. /\ SumOf([l \in entries \ {k} |-> size'[l]]) <= Stored(entries)
          /\ Stored(entries) \in Nat /\ SumOf([l \in entries \ {k} |-> size'[l]]) \in Nat
      BY <1>4
    <3>2. Total' <= MaxBytes
      BY <1>1, <2>1, <3>1, ConstantsAssumption DEF Total, Stored
    <3> QED BY <3>2 DEF Bounded
  <2>2. ASSUME NEW l \in Keys, operation # Nobody, Stored(entries \ {l}) <= MaxBytes PROVE Bounded'
    <3>1. PICK some : some = entries \ {l}
      OBVIOUS
    <3>2. SumOf([j \in some \ {k} |-> size'[j]]) <= MaxBytes
      BY <1>4, <2>2, <3>1, ConstantsAssumption
    <3>3. some \ {k} = entries' \ {l}
      BY <1>1, <3>1
    <3>4. Stored(entries \ {l})' <= MaxBytes
      BY <3>2, <3>3 DEF Stored
    <3> QED BY <2>2, <3>4 DEF Bounded
  <2> QED BY <2>1, <2>2 DEF BInv, Bounded
<1> QED BY <1>3, <1>5 DEF BInv

\* Put adds its entry to a cache that is within its capacity.
LEMMA PutEntryBounded ==
  ASSUME IInv, BInv, NEW r \in Requests, PutEntry(r)
  PROVE  BInv'
<1>1. PICK k \in Keys : k = KeyOf(r)
  BY DEF IInv, LeadersOK, PutEntry, KeyOf
<1>2. /\ operation = Nobody /\ operation' # Nobody /\ entries' = entries \cup {k}
      /\ \A l \in Keys \ {k} : size'[l] = size[l]
  BY <1>1, ConstantsAssumption DEF PutEntry, EntryTouched, KeyOf, IInv, TypeOK, CacheTypeOK
<1>3. IsFiniteSet(entries) /\ entries \subseteq Keys
  BY DEF BInv, IInv, TypeOK, CacheTypeOK
<1>4. IsFiniteSet(entries')
  BY <1>2, <1>3, FS_AddElement
<1>5. entries' \ {k} \subseteq entries /\ entries \ {k} = entries' \ {k}
  BY <1>2
<1>6. Stored(entries \ {k})' = Stored(entries \ {k})
  <2>1. [l \in entries' \ {k} |-> size'[l]] = [l \in entries \ {k} |-> size[l]]
    BY <1>2, <1>3, <1>5
  <2> QED BY <2>1 DEF Stored
<1>7. Stored(entries \ {k}) <= Stored(entries)
  <2>1. TypeOK /\ size \in [Keys -> Nat]
    BY DEF IInv, TypeOK, CacheTypeOK
  <2>2. entries \ {k} \subseteq entries /\ \A l \in entries \ {k} : size[l] <= size[l]
    BY <1>3, <2>1
  <2>3. SumOf([l \in entries \ {k} |-> size[l]]) <= Stored(entries)
    BY <1>3, <2>1, <2>2, FewerEntries
  <2> QED BY <2>3 DEF Stored
<1>8. Stored(entries) \in Nat /\ Stored(entries \ {k}) \in Nat
  <2>1. IsFiniteSet(entries \ {k}) /\ entries \ {k} \subseteq Keys /\ TypeOK
    BY <1>3, FS_Subset DEF IInv
  <2> QED BY <1>3, <2>1, StoredNat
<1>9. Bounded'
  <2> SUFFICES ASSUME "full" \notin Events PROVE Bounded'
    BY DEF Bounded
  <2>1. Stored(entries) <= MaxBytes
    BY <1>2 DEF BInv, Bounded, Total, Stored
  <2>2. Stored(entries \ {k})' <= MaxBytes
    BY <1>6, <1>7, <1>8, <2>1, ConstantsAssumption
  <2> QED BY <1>2, <2>2 DEF Bounded
<1> QED BY <1>4, <1>9 DEF BInv

\* A request looks up its variant: an entry that is found stays.
LEMMA LookupBounded ==
  ASSUME TypeOK, BInv, NEW k \in Keys, CacheHit(k) \/ CacheMiss(k), operation' = operation
  PROVE  BInv'
<1>1. CASE CacheHit(k)
  <2>1. UNCHANGED <<entries, size>>
    BY <1>1 DEF CacheHit, EntryTouched
  <2> QED BY <2>1, SameEntries
<1>2. CASE CacheMiss(k)
  <2>1. CASE EntryDeleted(k)
    BY <2>1, EntryDeletedBounded
  <2>2. CASE UNCHANGED <<entries, size>>
    BY <2>2, SameEntries
  <2> QED BY <1>2, <2>1, <2>2 DEF CacheMiss
<1> QED BY <1>1, <1>2

\* A prune ends when the cache is within its capacity, or when a deletion fails.
LEMMA PruneEnds ==
  ASSUME IInv, IsFiniteSet(entries), UNCHANGED <<entries, size>>, ~Over
  PROVE  Total <= MaxBytes /\ Total' <= MaxBytes
<1>1. Stored(entries) \in Nat
  BY StoredNat DEF IInv, TypeOK, CacheTypeOK
<1> QED BY <1>1, ConstantsAssumption DEF Over, Total, Stored

\* Every step keeps the bound.
LEMMA BoundedStep ==
  ASSUME IInv, BInv, Next
  PROVE  BInv'
<1> USE DEF disk
<1>1. ASSUME NEW r \in Requests, NEW k \in Keys, Transcode(r, k) PROVE BInv'
  BY <1>1, LookupBounded DEF Transcode, IInv
<1>2. ASSUME NEW r \in Requests, Reopen(r) PROVE BInv'
  <2>1. KeyOf(r) \in Keys
    BY <1>2 DEF Reopen, IInv, LeadersOK, KeyOf
  <2>2. CASE CacheError
    BY <1>2, <2>2, SameEntries DEF Reopen, CacheError
  <2> QED BY <1>2, <2>1, <2>2, LookupBounded DEF Reopen, IInv
<1>3. ASSUME NEW r \in Requests, PutEntry(r) PROVE BInv'
  BY <1>3, PutEntryBounded
<1>4. ASSUME NEW r \in Requests, PutReturns(r) PROVE BInv'
  BY <1>4, PruneEnds DEF PutReturns, BInv, Bounded
<1>5. CASE StartupPruned
  BY <1>5, PruneEnds DEF StartupPruned, BInv, Bounded
<1>6. CASE RemoveEntry
  <2>1. victim \in Keys
    BY <1>6 DEF RemoveEntry, IInv, TypeOK, CacheTypeOK
  <2> QED BY <1>6, <2>1, EntryDeletedBounded DEF RemoveEntry, IInv
<1>7. ASSUME NEW r \in Requests, PruneFails(r) PROVE BInv'
  BY <1>7 DEF PruneFails, BInv, Bounded
<1>8. ASSUME NEW r \in Requests,
             \/ RecordCached(r) \/ JoinFlight(r) \/ WaitCancelled(r) \/ PutFails(r) \/ Disconnect(r)
             \/ LeadFlight(r) \/ StartFails(r) \/ StartFFmpeg(r) \/ FFmpegStep(r) \/ ReadStep(r)
             \/ PutBlob(r) \/ PutEntryFails(r)
      PROVE  BInv'
  <2>1. UNCHANGED <<entries, size, operation>>
    BY <1>8 DEF RecordCached, JoinFlight, WaitCancelled, PutFails, Disconnect, LeadFlight,
       StartFails, StartFFmpeg,
       FFmpegStep, FFmpegWrites, FFmpegExits, WaitReturns, ReadStep, ReadChunk, ReadUncached,
       ReadEOF, ReadExit,
       ReadClosed, Closed, Finalized, PutBlob, PutEntryFails
  <2> QED BY <2>1, SameEntries
<1>9. CASE PruneBlob \/ DiscardBlob
  BY <1>9, SameEntries DEF PruneBlob, DiscardBlob
<1>10. CASE Restart
  BY <1>10, SameEntries, ConstantsAssumption DEF Restart
<1> QED BY <1>1, <1>2, <1>3, <1>4, <1>5, <1>6, <1>7, <1>8, <1>9, <1>10
        DEF Next, RequestStep, CacheStep, PruneStep

\* MediaCache: what is stored exceeds the capacity by the variant just stored at most, and
\* nothing but a Put or the start of the process, which go on to prune, ever sees it so.
THEOREM CacheStaysBounded == Spec => []BInv
<1>1. Init => BInv
  <2>1. ASSUME Init PROVE Total = 0 /\ IsFiniteSet(entries)
    <3>1. entries = {} /\ [k \in entries |-> size[k]] \in [{} -> Nat]
      BY <2>1 DEF Init
    <3> QED BY <3>1, SumZero, FS_EmptySet DEF Total
  <2> QED BY <2>1, ConstantsAssumption DEF BInv, Bounded
<1>2. IInv /\ BInv /\ [Next]_vars => BInv'
  BY BoundedStep, SameEntries DEF vars, disk
<1> QED BY <1>1, <1>2, CacheInvariant, PTL DEF Spec

-----------------------------------------------------------------------------
\* What Put answers.

\* The variant of the Put that holds the lock: indexed with its real size while it prunes, too
\* large for the cache once it is given up.
AnswersOK == \A r \in Requests : operation = r =>
  /\ req[r].put = "pruning" =>
       /\ KeyOf(r) \in entries /\ size[KeyOf(r)] = SizeOf[KeyOf(r)] /\ victim # KeyOf(r)
  /\ req[r].put = "full" =>
       SizeOf[KeyOf(r)] > MaxBytes /\ (victim = KeyOf(r) \/ KeyOf(r) \notin entries)

\* Nothing but the Put itself touches the entries while it holds the lock.
LEMMA LockHolderAlone ==
  ASSUME AnswersOK, UNCHANGED <<entries, size, operation, victim>>,
         \A r \in Requests : operation = r => req'[r] = req[r]
  PROVE  AnswersOK'
BY DEF AnswersOK, KeyOf

\* Put gives up its variant when everything else is gone: it alone is too large.
LEMMA TooLarge ==
  ASSUME IInv, BInv, NEW r \in Requests, operation = r, Over, Others = {}
  PROVE  KeyOf(r) \in entries => size[KeyOf(r)] > MaxBytes
<1> SUFFICES ASSUME KeyOf(r) \in entries PROVE size[KeyOf(r)] > MaxBytes
  OBVIOUS
<1>1. entries = {KeyOf(r)}
  BY DEF Others, Protected
<1>2. [k \in {KeyOf(r)} |-> size[k]] \in [{KeyOf(r)} -> Nat]
  BY DEF IInv, TypeOK, CacheTypeOK
<1>3. Total = size[KeyOf(r)]
  BY <1>1, <1>2, SumSingle DEF Total
<1> QED BY <1>3 DEF Over

\* Every step keeps it.
LEMMA AnswersStep ==
  ASSUME IInv, BInv, AnswersOK, Next
  PROVE  AnswersOK'
<1> USE ConstantsAssumption DEF disk
<1>1. ASSUME NEW r \in Requests, NEW k \in Keys, Transcode(r, k) PROVE AnswersOK'
  BY <1>1 DEF Transcode, CacheHit, CacheMiss, AnswersOK
<1>2. ASSUME NEW r \in Requests, Reopen(r) PROVE AnswersOK'
  BY <1>2 DEF Reopen, CacheHit, CacheMiss, CacheError, AnswersOK
<1>3. ASSUME NEW r \in Requests, PutEntry(r) PROVE AnswersOK'
  <2>1. KeyOf(r)' = KeyOf(r) /\ req'[r].put = "pruning" /\ operation' = r
    BY <1>3 DEF PutEntry, KeyOf, IInv, Shape
  <2>2. KeyOf(r) \in Keys /\ req[r].got = SizeOf[KeyOf(r)]
    BY <1>3 DEF PutEntry, IInv, LeadersOK, KeyOf
  <2>3. KeyOf(r) \in entries' /\ size'[KeyOf(r)] = SizeOf[KeyOf(r)] /\ victim' = NoKey
    BY <1>3, <2>2 DEF PutEntry, EntryTouched, IInv, TypeOK, CacheTypeOK, PruningOK
  <2> QED BY <2>1, <2>2, <2>3 DEF AnswersOK
<1>4. ASSUME NEW r \in Requests, PutReturns(r) \/ PruneFails(r) PROVE AnswersOK'
  BY <1>4 DEF PutReturns, PruneFails, AnswersOK
<1>5. CASE StartupPruned \/ Restart
  BY <1>5 DEF StartupPruned, Restart, AnswersOK
<1>6. CASE PruneBlob
  <2>1. victim' \in Others /\ UNCHANGED <<entries, size, operation, req>> /\ victim = NoKey
    BY <1>6 DEF PruneBlob, Oldest
  <2>2. ASSUME NEW r \in Requests, operation = r PROVE victim' # KeyOf(r)
    BY <2>1, <2>2 DEF Others, Protected
  <2>3. ASSUME NEW r \in Requests, operation = r PROVE KeyOf(r) \in Keys
    BY <2>3 DEF IInv, PruningOK, LeadersOK, KeyOf
  <2> QED BY <2>1, <2>2, <2>3 DEF AnswersOK, KeyOf
<1>7. CASE DiscardBlob
  <2>1. PICK r \in Requests : r = operation
    BY <1>7 DEF DiscardBlob
  <2>2. /\ UNCHANGED <<entries, size, operation>> /\ victim = NoKey /\ victim' = KeyOf(r)
        /\ req'[r].put = "full" /\ KeyOf(r)' = KeyOf(r) /\ Over /\ Others = {}
    BY <1>7, <2>1 DEF DiscardBlob, KeyOf, IInv, Shape
  <2>3. req[r].put \in {"pruning", "full"} /\ KeyOf(r) \in Keys
    BY <2>1 DEF IInv, PruningOK, LeadersOK, KeyOf
  <2>4. KeyOf(r) \in entries => size[KeyOf(r)] > MaxBytes
    BY <2>1, <2>2, TooLarge
  <2>5. SizeOf[KeyOf(r)] > MaxBytes
    BY <2>1, <2>2, <2>3, <2>4 DEF AnswersOK
  <2> QED BY <2>1, <2>2, <2>5 DEF AnswersOK
<1>8. CASE RemoveEntry
  <2>1. /\ entries' = entries \ {victim} /\ victim' = NoKey /\ UNCHANGED <<operation, req>>
        /\ \A k \in Keys \ {victim} : size'[k] = size[k]
    BY <1>8 DEF RemoveEntry, EntryDeleted, IInv, TypeOK, CacheTypeOK
  <2>2. ASSUME NEW r \in Requests, operation = r PROVE KeyOf(r) \in Keys
    BY <2>2 DEF IInv, PruningOK, LeadersOK, KeyOf
  <2> QED BY <2>1, <2>2 DEF AnswersOK, KeyOf
<1>9. ASSUME NEW r \in Requests,
             \/ RecordCached(r) \/ JoinFlight(r) \/ WaitCancelled(r) \/ PutFails(r) \/ Disconnect(r)
             \/ LeadFlight(r) \/ StartFFmpeg(r) \/ FFmpegStep(r)
             \/ ReadChunk(r) \/ ReadEOF(r) \/ PutBlob(r) \/ PutEntryFails(r)
      PROVE  AnswersOK'
  <2>1. UNCHANGED <<entries, size, operation, victim>> /\ \A q \in Requests \ {r} : req'[q] = req[q]
    BY <1>9 DEF RecordCached, JoinFlight, WaitCancelled, PutFails, Disconnect, LeadFlight,
       StartFFmpeg, FFmpegStep, FFmpegWrites, FFmpegExits, WaitReturns, ReadChunk, ReadEOF,
       PutBlob, PutEntryFails, Leave, Goto, IInv, Shape
  <2>2. CASE operation # r
    BY <2>1, <2>2, LockHolderAlone
  <2>3. CASE operation = r /\ ~FFmpegStep(r)
    BY <1>9, <2>3 DEF RecordCached, JoinFlight, WaitCancelled, PutFails, Disconnect, LeadFlight,
       StartFFmpeg, ReadChunk, ReadEOF,
       PutBlob, PutEntryFails, IInv, PruningOK, LeadersOK, ReadingPC
  <2>4. CASE operation = r /\ FFmpegStep(r)
    <3>1. req'[r].put = req[r].put /\ KeyOf(r)' = KeyOf(r)
      BY <2>4 DEF FFmpegStep, FFmpegWrites, FFmpegExits, WaitReturns, KeyOf, IInv, Shape
    <3> QED BY <2>1, <2>4, <3>1 DEF AnswersOK
  <2> QED BY <2>2, <2>3, <2>4
<1>10. ASSUME NEW r \in Requests, ReadExit(r) \/ ReadClosed(r) \/ Closed(r) PROVE AnswersOK'
  <2>1. UNCHANGED <<entries, size, operation, victim>> /\ operation # r
    BY <1>10 DEF ReadExit, ReadClosed, Closed, IInv, PruningOK, LeadersOK
  <2>2. \A q \in Requests \ {r} : req'[q] = req[q]
    BY <1>10, Finalizing DEF ReadExit, ReadClosed, Closed, IInv
  <2> QED BY <2>1, <2>2, LockHolderAlone
<1>11. ASSUME NEW r \in Requests, StartFails(r) \/ Finalized(r) \/ ReadUncached(r) PROVE AnswersOK'
  <2>1. UNCHANGED <<entries, size, operation, victim>> /\ operation # r
    BY <1>11 DEF StartFails, Finalized, ReadUncached, IInv, PruningOK, LeadersOK, ReadingPC
  <2>2. \A q \in Requests \ {r} : req[q].pc # "waiting" => req'[q] = req[q]
    BY <1>11 DEF StartFails, Finalized, ReadUncached, FinishFlight
  <2>3. \A q \in Requests : operation = q => req[q].pc # "waiting"
    BY DEF IInv, PruningOK, LeadersOK
  <2> QED BY <2>1, <2>2, <2>3, LockHolderAlone
<1> QED BY <1>1, <1>2, <1>3, <1>4, <1>5, <1>6, <1>7, <1>8, <1>9, <1>10, <1>11
        DEF Next, RequestStep, ReadStep, CacheStep, PruneStep

\* Whoever looks up, stores or evicts, the variant of the Put that holds the lock is safe from
\* the prune of that Put.
THEOREM StoredIsIndexed == Spec => []AnswersOK
<1>1. Init => AnswersOK
  BY ConstantsAssumption DEF Init, AnswersOK
<1>2. IInv /\ BInv /\ AnswersOK /\ [Next]_vars => AnswersOK'
  BY AnswersStep, LockHolderAlone DEF vars, disk
<1> QED BY <1>1, <1>2, CacheInvariant, CacheStaysBounded, PTL DEF Spec

\* PutAnswers: MediaCache.Put succeeds with the variant indexed and the cache within its
\* capacity, and refuses for the capacity only a variant that exceeds it alone.
THEOREM PutsAnswerTruly == Spec => PutAnswers
<1> DEFINE Answered(r) ==
      /\ req'[r].put = "ok" =>
           KeyOf(r) \in entries' /\ size'[KeyOf(r)] = SizeOf[KeyOf(r)] /\ Total' <= MaxBytes
      /\ req'[r].put = "failed" => SizeOf[KeyOf(r)] > MaxBytes /\ KeyOf(r) \notin entries'
<1>1. ASSUME IInv, BInv, AnswersOK, Next, NEW r \in Requests, operation = r, operation' # r
      PROVE  Answered(r)
  <2>1. ASSUME PutReturns(r) PROVE Answered(r)
    <3>1. Total' <= MaxBytes
      BY <1>1, <2>1, PruneEnds DEF PutReturns, BInv, disk
    <3>2. req'[r].put = IF req[r].put = "full" THEN "failed" ELSE "ok"
      <4>1. PICK answer : answer = IF req[r].put = "full" THEN "failed" ELSE "ok"
        OBVIOUS
      <4>2. req' = [req EXCEPT ![r].put = answer]
        BY <2>1, <4>1 DEF PutReturns
      <4>3. req'[r].put = answer
        BY <1>1, <4>2 DEF IInv, Shape
      <4> QED BY <4>1, <4>3
    <3>3. KeyOf(r) \in Keys /\ req[r].put \in {"pruning", "full"}
      BY <1>1 DEF IInv, PruningOK, LeadersOK, KeyOf
    <3>4. UNCHANGED <<entries, size>> /\ victim = NoKey
      BY <2>1 DEF PutReturns, disk
    <3> QED BY <1>1, <3>1, <3>2, <3>3, <3>4, ConstantsAssumption DEF AnswersOK
  <2>2. ASSUME PruneFails(r) PROVE Answered(r)
    BY <1>1, <2>2 DEF PruneFails, IInv, Shape
  <2>3. CASE Restart
    BY <2>3 DEF Restart, NoRequest
  <2>4. PutReturns(r) \/ PruneFails(r) \/ Restart
    <3>1. ASSUME NEW q \in Requests, \/ \E k \in Keys : Transcode(q, k)
                 \/ WaitCancelled(q) \/ PutFails(q) \/ Disconnect(q) \/ RequestStep(q) \/ FFmpegStep(q)
                 \/ ReadStep(q) \/ PutBlob(q) \/ PutEntryFails(q)
          PROVE  operation' = operation
      BY <3>1 DEF Transcode, WaitCancelled, PutFails, Disconnect, RequestStep, RecordCached,
         JoinFlight, Reopen, LeadFlight, StartFails, StartFFmpeg, FFmpegStep, FFmpegWrites,
         FFmpegExits, WaitReturns, ReadStep, ReadChunk, ReadUncached, ReadEOF, ReadExit,
         ReadClosed, Closed, Finalized, PutBlob, PutEntryFails
    <3>2. ASSUME NEW q \in Requests, PutEntry(q) PROVE operation = Nobody
      BY <3>2 DEF PutEntry
    <3>3. ASSUME NEW q \in Requests, PutReturns(q) \/ PruneFails(q) PROVE q = r
      BY <1>1, <3>3 DEF PutReturns, PruneFails
    <3>4. ASSUME PruneStep PROVE operation' = operation
      BY <1>1, <3>4, ConstantsAssumption DEF PruneStep, PruneBlob, DiscardBlob, RemoveEntry, StartupPruned
    <3> QED BY <1>1, <3>1, <3>2, <3>3, <3>4, ConstantsAssumption DEF Next, CacheStep
  <2> QED BY <2>1, <2>2, <2>3, <2>4
<1>2. IInv /\ BInv /\ AnswersOK /\ [Next]_vars =>
        [\A r \in Requests : operation = r /\ operation' # r => Answered(r)]_vars
  BY <1>1
<1> QED BY <1>2, CacheInvariant, CacheStaysBounded, StoredIsIndexed, PTL DEF Spec, PutAnswers

-----------------------------------------------------------------------------
\* The flights.

\* The map of flights and the requests agree on who leads, and nobody waits in vain.
FlightsLed ==
  /\ \A k \in Keys, r \in Requests : flights[k] = r <=> Leading(r) /\ KeyOf(r) = k
  /\ \A r \in Requests : req[r].pc = "waiting" => flights[KeyOf(r)] # Nobody
FInv == IInv /\ FlightsLed

\* What a step does to the part of one request in the flights.
Awaiting(r) == req[r].pc = "waiting"
Same(r) ==
  /\ Leading(r)' <=> Leading(r)
  /\ Awaiting(r)' <=> Awaiting(r)
  /\ Leading(r) \/ Awaiting(r) => KeyOf(r)' = KeyOf(r)
OthersSame(r) == \A q \in Requests \ {r} : Same(q)

Quiet == flights' = flights /\ \A q \in Requests : Same(q)
Joins(r) ==
  /\ KeyOf(r) \in Keys
  /\ flights' = flights /\ flights[KeyOf(r)] # Nobody /\ OthersSame(r)
  /\ ~Leading(r) /\ ~Awaiting(r)
  /\ ~Leading(r)' /\ Awaiting(r)' /\ KeyOf(r)' = KeyOf(r)
GivesUp(r) ==
  /\ flights' = flights /\ OthersSame(r)
  /\ Awaiting(r) /\ ~Leading(r)
  /\ ~Leading(r)' /\ ~Awaiting(r)'
Leads(r) ==
  /\ KeyOf(r) \in Keys
  /\ flights[KeyOf(r)] = Nobody /\ flights' = [flights EXCEPT ![KeyOf(r)] = r]
  /\ OthersSame(r)
  /\ ~Leading(r) /\ ~Awaiting(r)
  /\ Leading(r)' /\ ~Awaiting(r)' /\ KeyOf(r)' = KeyOf(r)
Lands(r) ==
  /\ flights' = [flights EXCEPT ![KeyOf(r)] = Nobody]
  /\ Leading(r) /\ ~Awaiting(r)
  /\ ~Leading(r)' /\ ~Awaiting(r)'
  /\ \A q \in Requests \ {r} :
       /\ Leading(q)' <=> Leading(q)
       /\ Awaiting(q)' <=> Awaiting(q) /\ KeyOf(q) # KeyOf(r)
       /\ Leading(q) \/ Awaiting(q)' => KeyOf(q)' = KeyOf(q)

\* finishFlight wakes every request that waits for the variant, and no other one.
LEMMA FlightFinished ==
  ASSUME TypeOK, Shape, NEW r \in Requests, NEW ok, NEW next, FinishFlight(r, ok, next),
         Leading(r), next.pc \in {"idle", "streaming"}, next.pc = "streaming" => next.put = "over"
  PROVE  Lands(r)
<1> USE DEF Leading, Awaiting, Finished, ReadingPC, NoRequest
<1>1. /\ flights' = [flights EXCEPT ![KeyOf(r)] = Nobody]
      /\ req'[r] = next
      /\ \A q \in Requests \ {r} :
           req'[q] = IF req[q].pc = "waiting" /\ KeyOf(q) = KeyOf(r)
                       THEN IF ok THEN [req[q] EXCEPT !.pc = "reopen"] ELSE NoRequest
                       ELSE req[q]
  BY DEF FinishFlight, KeyOf
<1>2. ~Awaiting(r) /\ ~Leading(r)' /\ ~Awaiting(r)'
  BY <1>1
<1>3. ASSUME NEW q \in Requests \ {r}
      PROVE  /\ Leading(q)' <=> Leading(q)
             /\ Awaiting(q)' <=> Awaiting(q) /\ KeyOf(q) # KeyOf(r)
             /\ Leading(q) \/ Awaiting(q)' => KeyOf(q)' = KeyOf(q)
  <2>1. CASE req[q].pc = "waiting" /\ KeyOf(q) = KeyOf(r)
    <3>1. CASE ok
      <4>1. req'[q] = [req[q] EXCEPT !.pc = "reopen"]
        BY <1>1, <2>1, <3>1
      <4>2. req'[q].pc = "reopen"
        BY <4>1 DEF Shape
      <4> QED BY <2>1, <4>2
    <3>2. CASE ~ok
      <4>1. req'[q] = NoRequest
        BY <1>1, <2>1, <3>2
      <4> QED BY <2>1, <4>1
    <3> QED BY <3>1, <3>2
  <2>2. CASE ~(req[q].pc = "waiting" /\ KeyOf(q) = KeyOf(r))
    BY <1>1, <2>2 DEF KeyOf
  <2> QED BY <2>1, <2>2
<1> HIDE DEF Leading, Awaiting
<1> QED BY <1>1, <1>2, <1>3 DEF Lands

\* A reader that ends its copy leads until the flight is finished; one that is over has left.
LEMMA FinalizingQuiet ==
  ASSUME IInv, NEW r \in Requests, NEW why, Finalize(r, why), req[r].pc \in ReadingPC,
         flights' = flights
  PROVE  Quiet
<1> USE DEF IInv, Quiet, Same, Leading, Awaiting, Finished, ReadingPC, KeyOf
<1>1. \A q \in Requests \ {r} : req'[q] = req[q]
  BY Finalizing
<1>2. CASE Finished(r)
  <2>1. req'[r] = NoRequest
    BY <1>2 DEF Finalize, Leave, Shape
  <2> QED BY <1>1, <1>2, <2>1 DEF NoRequest
<1>3. CASE ~Finished(r)
  <2>1. req'[r].pc = "finalizing" /\ req'[r].key = req[r].key /\ req'[r].put # "over"
    <3>1. CASE why = "eof"
      <4>1. req' = [req EXCEPT ![r] = [req[r] EXCEPT !.pc = "finalizing", !.why = why,
                      !.put = IF req[r].put = "copying" THEN "commit" ELSE req[r].put]]
        BY <1>3, <3>1 DEF Finalize
      <4>2. req'[r] = [req[r] EXCEPT !.pc = "finalizing", !.why = why,
                      !.put = IF req[r].put = "copying" THEN "commit" ELSE req[r].put]
        BY <4>1 DEF Shape
      <4> QED BY <1>3, <4>2 DEF Shape
    <3>2. CASE why # "eof"
      <4>1. req' = [req EXCEPT ![r] = [NoRequest EXCEPT !.pc = "finalizing", !.key = req[r].key,
                      !.proc = req[r].proc, !.put = "failed", !.why = why]]
        BY <1>3, <3>2 DEF Finalize
      <4>2. req'[r] = [NoRequest EXCEPT !.pc = "finalizing", !.key = req[r].key,
                      !.proc = req[r].proc, !.put = "failed", !.why = why]
        BY <4>1 DEF Shape
      <4> QED BY <4>2 DEF NoRequest
    <3> QED BY <3>1, <3>2
  <2> QED BY <1>1, <1>3, <2>1
<1> QED BY <1>2, <1>3

\* Every step of a request is one of the moves above.
LEMMA FlightMoves ==
  ASSUME IInv, Next, ~Restart
  PROVE  Quiet \/ \E r \in Requests : Joins(r) \/ GivesUp(r) \/ Leads(r) \/ Lands(r)
<1> USE ConstantsAssumption DEF IInv
<1>1. ASSUME NEW r \in Requests, NEW k \in Keys, Transcode(r, k) PROVE Quiet
  BY <1>1 DEF Transcode, Quiet, Same, Leading, Awaiting, Finished, ReadingPC,
     KeyOf, NoRequest, Shape
<1>2. ASSUME NEW r \in Requests, PutBlob(r) PROVE Quiet
  BY <1>2 DEF PutBlob, Quiet, Same, Leading, Awaiting, Finished, ReadingPC,
     KeyOf, Shape, LeadersOK, PruningOK
<1>3. ASSUME NEW r \in Requests, PutFails(r) PROVE Quiet
  BY <1>3 DEF PutFails, Quiet, Same, Leading, Awaiting, Finished, ReadingPC,
     KeyOf, Shape, LeadersOK, PruningOK
<1>4. ASSUME NEW r \in Requests, PutEntry(r) PROVE Quiet
  BY <1>4 DEF PutEntry, Quiet, Same, Leading, Awaiting, Finished, ReadingPC,
     KeyOf, Shape, LeadersOK, PruningOK
<1>5. ASSUME NEW r \in Requests, PutEntryFails(r) PROVE Quiet
  BY <1>5 DEF PutEntryFails, Quiet, Same, Leading, Awaiting, Finished, ReadingPC,
     KeyOf, Shape, LeadersOK, PruningOK
<1>6. ASSUME NEW r \in Requests, PruneFails(r) PROVE Quiet
  BY <1>6 DEF PruneFails, Quiet, Same, Leading, Awaiting, Finished, ReadingPC,
     KeyOf, Shape, LeadersOK, PruningOK
<1>7. ASSUME NEW r \in Requests, PutReturns(r) PROVE Quiet
  BY <1>7 DEF PutReturns, Quiet, Same, Leading, Awaiting, Finished, ReadingPC,
     KeyOf, Shape, LeadersOK, PruningOK
<1>8. ASSUME NEW r \in Requests, RecordCached(r) PROVE Quiet
  BY <1>8 DEF RecordCached, Leave, NoRequest, Quiet, Same, Leading, Awaiting, Finished, ReadingPC,
     KeyOf, Shape, LeadersOK, PruningOK
<1>9. ASSUME NEW r \in Requests, Reopen(r) PROVE Quiet
  BY <1>9 DEF Reopen, Leave, NoRequest, Quiet, Same, Leading, Awaiting, Finished, ReadingPC,
     KeyOf, Shape, LeadersOK, PruningOK
<1>10. ASSUME NEW r \in Requests, StartFFmpeg(r) PROVE Quiet
  BY <1>10 DEF StartFFmpeg, Quiet, Same, Leading, Awaiting, Finished, ReadingPC,
     KeyOf, Shape, LeadersOK, PruningOK
<1>11. ASSUME NEW r \in Requests, FFmpegWrites(r) PROVE Quiet
  BY <1>11 DEF FFmpegWrites, Quiet, Same, Leading, Awaiting, Finished, ReadingPC,
     KeyOf, Shape, LeadersOK, PruningOK
<1>12. ASSUME NEW r \in Requests, FFmpegExits(r) PROVE Quiet
  BY <1>12 DEF FFmpegExits, Quiet, Same, Leading, Awaiting, Finished, ReadingPC,
     KeyOf, Shape, LeadersOK, PruningOK
<1>13. ASSUME NEW r \in Requests, WaitReturns(r) PROVE Quiet
  BY <1>13 DEF WaitReturns, Quiet, Same, Leading, Awaiting, Finished, ReadingPC,
     KeyOf, Shape, LeadersOK, PruningOK
<1>14. ASSUME NEW r \in Requests, ReadChunk(r) PROVE Quiet
  BY <1>14 DEF ReadChunk, Quiet, Same, Leading, Awaiting, Finished, ReadingPC,
     KeyOf, Shape, LeadersOK, PruningOK
<1>15. ASSUME NEW r \in Requests, ReadEOF(r) PROVE Quiet
  BY <1>15 DEF ReadEOF, Goto, Quiet, Same, Leading, Awaiting, Finished, ReadingPC,
     KeyOf, Shape, LeadersOK, PruningOK
<1>16. ASSUME NEW r \in Requests, Disconnect(r) PROVE Quiet
  BY <1>16 DEF Disconnect, Quiet, Same, Leading, Awaiting, Finished, ReadingPC,
     KeyOf, Shape, LeadersOK, PruningOK
<1>17. CASE PruneStep
  BY <1>17 DEF PruneStep, PruneBlob, DiscardBlob, RemoveEntry, StartupPruned, Quiet, Same,
     Leading,
     Awaiting, Finished, ReadingPC,
     KeyOf, Shape, LeadersOK, PruningOK
<1>18. ASSUME NEW r \in Requests, ReadExit(r) \/ ReadClosed(r) \/ Closed(r) PROVE Quiet
  BY <1>18, FinalizingQuiet DEF ReadExit, ReadClosed, Closed, ReadingPC
<1>19. ASSUME NEW r \in Requests, JoinFlight(r) PROVE Joins(r)
  BY <1>19 DEF JoinFlight, Goto, Joins, OthersSame, Same, Leading, Awaiting, Finished,
     ReadingPC, KeyOf, Shape,
     LeadersOK
<1>20. ASSUME NEW r \in Requests, WaitCancelled(r) PROVE GivesUp(r)
  BY <1>20 DEF WaitCancelled, Leave, NoRequest, GivesUp, OthersSame, Same, Leading, Awaiting,
     Finished, ReadingPC, KeyOf, Shape
<1>21. ASSUME NEW r \in Requests, LeadFlight(r) PROVE Leads(r)
  BY <1>21 DEF LeadFlight, NoFlight, Goto, Leads, OthersSame, Same, Leading, Awaiting, Finished,
     ReadingPC, KeyOf, Shape, LeadersOK
<1>22. ASSUME NEW r \in Requests, StartFails(r) \/ Finalized(r) PROVE Lands(r)
  BY <1>22, FlightFinished DEF StartFails, Finalized, Leading, Finished, NoRequest
<1>23. ASSUME NEW r \in Requests, ReadUncached(r) PROVE Lands(r)
  <2>1. PICK next : /\ next = [req[r] EXCEPT !.got = req[r].got + 1, !.put = "over"]
                    /\ FinishFlight(r, FALSE, next)
    BY <1>23 DEF ReadUncached
  <2>2. next.pc = "streaming" /\ next.put = "over"
    BY <1>23, <2>1 DEF ReadUncached, Shape
  <2>3. Leading(r)
    BY <1>23 DEF ReadUncached, Leading, Finished, ReadingPC
  <2> QED BY <2>1, <2>2, <2>3, FlightFinished
<1> QED BY <1>1, <1>2, <1>3, <1>4, <1>5, <1>6, <1>7, <1>8, <1>9, <1>10, <1>11, <1>12, <1>13,
   <1>14, <1>15, <1>16, <1>17, <1>18, <1>19, <1>20, <1>21, <1>22, <1>23
  DEF Next, RequestStep, FFmpegStep, ReadStep, CacheStep

\* The moves keep the map of flights and the requests in agreement.
LEMMA FlightsLedStep == ASSUME FInv, [Next]_vars, IInv' PROVE FlightsLed'
<1> USE ConstantsAssumption DEF FInv, FlightsLed
<1>1. \A r \in Requests : Leading(r) \/ Awaiting(r) => KeyOf(r) \in Keys
  BY DEF IInv, LeadersOK, Leading, Awaiting, ReadingPC, KeyOf
<1>2. flights \in [Keys -> Requests \cup {Nobody}]
  BY DEF IInv, TypeOK
<1>3. CASE Restart
  BY <1>3 DEF Restart, Leading, ReadingPC, NoRequest, KeyOf
<1>4. CASE Quiet
  BY <1>4 DEF Quiet, Same, Awaiting
<1>5. ASSUME NEW r \in Requests, Joins(r) PROVE FlightsLed'
  BY <1>5 DEF Joins, OthersSame, Same, Awaiting
<1>6. ASSUME NEW r \in Requests, GivesUp(r) PROVE FlightsLed'
  BY <1>6 DEF GivesUp, OthersSame, Same, Awaiting
<1>7. ASSUME NEW r \in Requests, Leads(r) PROVE FlightsLed'
  BY <1>2, <1>7 DEF Leads, OthersSame, Same, Awaiting
<1>8. ASSUME NEW r \in Requests, Lands(r) PROVE FlightsLed'
  BY <1>1, <1>2, <1>8 DEF Lands, Awaiting
<1>9. CASE UNCHANGED vars
  BY <1>9 DEF vars, Leading, Finished, KeyOf
<1> QED BY <1>3, <1>4, <1>5, <1>6, <1>7, <1>8, <1>9, FlightMoves

\* A request waits for a flight only while somebody leads it, whoever gives up, fails or
\* finishes meanwhile: what WaitersAnswered needs besides fairness.
THEOREM NobodyWaitsInVain == Spec => []FlightsLed
<1>1. Init => FlightsLed
  BY ConstantsAssumption DEF Init, FlightsLed, Leading, ReadingPC, NoRequest, KeyOf
<1>2. IInv /\ FlightsLed /\ [Next]_vars /\ IInv' => FlightsLed'
  BY FlightsLedStep DEF FInv
<1> QED BY <1>1, <1>2, CacheInvariant, PTL DEF Spec

\* OneFlight: the single flight of the transcoder implements SingleFlight, for any numbers
\* of requests and variants.
THEOREM FlightsAreSingle == Spec => OneFlight
<1> DEFINE leader == [k \in Keys |-> Leaders(k)]
           waiters == [k \in Keys |-> Waiters(k)]
<1>1. Init => Flying!Init
  BY DEF Init, Flying!Init, Flying!Grounded, Leaders, Waiters, Leading, ReadingPC, NoRequest
<1>2. IInv /\ FlightsLed /\ [Next]_vars => [Flying!Next]_<<leader, waiters>>
  <2> SUFFICES ASSUME IInv, FlightsLed, [Next]_vars
               PROVE  Flying!Next \/ (leader' = leader /\ waiters' = waiters)
    OBVIOUS
  <2> USE ConstantsAssumption
  <2>1. \A r \in Requests : Leading(r) \/ Awaiting(r) => KeyOf(r) \in Keys
    BY DEF IInv, LeadersOK, Leading, Awaiting, ReadingPC, KeyOf
  <2>2. CASE Restart
    <3>1. Flying!Crash
      BY <2>2 DEF Restart, Flying!Crash, Flying!Grounded, Leaders, Waiters, Leading, ReadingPC,
         NoRequest
    <3> QED BY <3>1 DEF Flying!Next
  <2>3. CASE Quiet
    <3>1. \A k \in Keys : Leaders(k)' = Leaders(k) /\ Waiters(k)' = Waiters(k)
      BY <2>3 DEF Quiet, Same, Awaiting, Leaders, Waiters
    <3> QED BY <3>1
  <2>4. ASSUME NEW r \in Requests, Joins(r) PROVE Flying!Next
    <3>1. PICK k \in Keys : k = KeyOf(r)
      BY <2>1, <2>4 DEF Joins
    <3>2. Leaders(k)' = Leaders(k) /\ Waiters(k)' = Waiters(k) \cup {r} /\ Leaders(k) # {}
      <4>1. PICK q \in Requests : q = flights[k]
        BY <2>4, <3>1 DEF Joins, IInv, TypeOK
      <4>2. q \in Leaders(k)
        BY <4>1 DEF FlightsLed, Leaders
      <4>3. Leaders(k)' = Leaders(k)
        BY <2>4, <3>1 DEF Joins, OthersSame, Same, Leaders
      <4>4. Waiters(k)' = Waiters(k) \cup {r}
        BY <2>4, <3>1 DEF Joins, OthersSame, Same, Awaiting, Waiters
      <4> QED BY <4>2, <4>3, <4>4
    <3>3. \A l \in Keys \ {k} : Leaders(l)' = Leaders(l) /\ Waiters(l)' = Waiters(l)
      BY <2>4, <3>1 DEF Joins, OthersSame, Same, Awaiting, Leaders, Waiters
    <3>4. Flying!Join(r, k)
      BY <3>2, <3>3 DEF Flying!Join
    <3> QED BY <3>4 DEF Flying!Next
  <2>5. ASSUME NEW r \in Requests, GivesUp(r) PROVE Flying!Next
    <3>1. PICK k \in Keys : k = KeyOf(r)
      BY <2>1, <2>5 DEF GivesUp
    <3>2. Leaders(k)' = Leaders(k) /\ Waiters(k)' = Waiters(k) \ {r} /\ r \in Waiters(k)
      BY <2>5, <3>1 DEF GivesUp, OthersSame, Same, Awaiting, Leaders, Waiters, FlightsLed
    <3>3. \A l \in Keys \ {k} : Leaders(l)' = Leaders(l) /\ Waiters(l)' = Waiters(l)
      BY <2>5, <3>1 DEF GivesUp, OthersSame, Same, Awaiting, Leaders, Waiters
    <3>4. Flying!GiveUp(r, k)
      BY <3>2, <3>3 DEF Flying!GiveUp
    <3> QED BY <3>4 DEF Flying!Next
  <2>6. ASSUME NEW r \in Requests, Leads(r) PROVE Flying!Next
    <3>1. PICK k \in Keys : k = KeyOf(r)
      BY <2>1, <2>6 DEF Leads
    <3>2. Leaders(k)' = {r} /\ Waiters(k)' = Waiters(k) /\ Leaders(k) = {}
      BY <2>6, <3>1 DEF Leads, OthersSame, Same, Awaiting, Leaders, Waiters, FlightsLed
    <3>3. \A l \in Keys \ {k} : Leaders(l)' = Leaders(l) /\ Waiters(l)' = Waiters(l)
      BY <2>6, <3>1 DEF Leads, OthersSame, Same, Awaiting, Leaders, Waiters
    <3>4. Flying!Lead(r, k)
      BY <3>2, <3>3 DEF Flying!Lead
    <3> QED BY <3>4 DEF Flying!Next
  <2>7. ASSUME NEW r \in Requests, Lands(r) PROVE Flying!Next
    <3>1. PICK k \in Keys : k = KeyOf(r)
      BY <2>1, <2>7 DEF Lands
    <3>2. Leaders(k)' = {} /\ Waiters(k)' = {} /\ Leaders(k) # {}
      BY <2>7, <3>1 DEF Lands, OthersSame, Same, Awaiting, Leaders, Waiters, FlightsLed
    <3>3. \A l \in Keys \ {k} : Leaders(l)' = Leaders(l) /\ Waiters(l)' = Waiters(l)
      BY <2>7, <3>1 DEF Lands, OthersSame, Same, Awaiting, Leaders, Waiters
    <3>4. Flying!Land(k)
      BY <3>2, <3>3 DEF Flying!Land
    <3> QED BY <3>4 DEF Flying!Next
  <2>8. CASE UNCHANGED vars
    <3>1. \A k \in Keys : Leaders(k)' = Leaders(k) /\ Waiters(k)' = Waiters(k)
      BY <2>8 DEF vars, Leaders, Waiters, Leading, Finished, KeyOf
    <3> QED BY <3>1
  <2> QED BY <2>2, <2>3, <2>4, <2>5, <2>6, <2>7, <2>8, FlightMoves
<1> QED BY <1>1, <1>2, CacheInvariant, NobodyWaitsInVain, PTL DEF Spec, OneFlight, Flying!Spec
=============================================================================
