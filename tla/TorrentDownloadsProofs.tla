----------------------- MODULE TorrentDownloadsProofs -----------------------
(* Theorems about TorrentDownloads, for every value of its constants. *)
EXTENDS TorrentDownloads, Counting

-----------------------------------------------------------------------------
\* Type correctness.

\* The state that NewStreaming builds from the records on disk is well typed.
LEMMA InitTypeOK == Init => TypeOK
BY ConstantsAssumption
   DEF Init, TypeOK, Forms, NoCount, Idle, Phases, FreePC, FilePC, ReadPC, WritePC, RefPC,
       SlotPC, StreamPC

\* A file that still lies in the old layout has no piece at its path.
FlatEmpty == \A f \in Files : form[f] = "flat" => have[f] = 0

\* migrateLegacyData and the preparation of an open move files and lose nothing.
DataMoved ==
  /\ have' \in [Files -> 0..Size] /\ form' \in [Files -> Forms] /\ verify' \subseteq Sources
  /\ FlatEmpty'
  /\ \A f \in Files : have'[f] >= have[f]
  /\ \A f \in Files : form[f] # "none" => form'[f] # "none"

\* migrateLegacyData does so: it only fills a path that has nothing.
LEMMA MigrationMoves ==
  ASSUME TypeOK, FlatEmpty, NEW s \in Sources, MigrateLegacyData(s)
  PROVE  DataMoved
<1> DEFINE flat == {f \in FilesOf(s) : form[f] = "flat"}
<1>1. PICK whole \in SUBSET flat, pieces \in [flat -> 0..Size] :
        /\ form' = [f \in Files |-> IF f \in whole THEN "plain"
                                   ELSE IF f \in flat THEN "part" ELSE form[f]]
        /\ have' = [f \in Files |-> IF f \in flat THEN pieces[f] ELSE have[f]]
        /\ verify' = IF whole = {} THEN verify ELSE verify \cup {s}
  BY DEF MigrateLegacyData
<1>2. flat \subseteq Files /\ \A f \in Files : form[f] = "flat" => have[f] = 0
  BY DEF FilesOf, FlatEmpty
<1>3. have' \in [Files -> 0..Size] /\ form' \in [Files -> Forms] /\ verify' \subseteq Sources
  BY <1>1, <1>2 DEF TypeOK, Forms
<1>4. \A f \in Files : have'[f] >= have[f] /\ (form[f] # "none" => form'[f] # "none")
  BY <1>1, <1>2, ConstantsAssumption DEF TypeOK, FilesOf
<1>5. FlatEmpty'
  BY <1>1, <1>2 DEF FlatEmpty, TypeOK
<1> QED BY <1>3, <1>4, <1>5 DEF DataMoved

\* So do prepareLegacyData, also when it fails, reconcileCacheData and the verification.
LEMMA PreparationMoves ==
  ASSUME TypeOK, FlatEmpty, NEW s \in Sources, NEW f \in Files,
         PrepareData(s) \/ PrepareFails(s) \/ VerifyData(f)
  PROVE  DataMoved
<1> USE ConstantsAssumption DEF TypeOK, FlatEmpty, DataMoved, Forms, FilesOf
<1>1. CASE PrepareData(s)
  BY <1>1 DEF PrepareData, SetAside
<1>2. CASE PrepareFails(s)
  BY <1>2 DEF PrepareFails, SetAside
<1>3. CASE VerifyData(f)
  BY <1>3 DEF VerifyData
<1> QED BY <1>1, <1>2, <1>3

\* A step that does not touch the data moves nothing either.
LEMMA NothingMoves ==
  ASSUME TypeOK, FlatEmpty, UNCHANGED data
  PROVE  DataMoved
BY DEF TypeOK, FlatEmpty, data, DataMoved

\* scheduleTrackDownloadLocked keeps the types, whichever of its four ways it takes.
LEMMA ScheduleTypeOK ==
  ASSUME TypeOK, NEW t \in Procs, file[t] \in Files,
         NEW next \in FreePC \cup FilePC, NEW mine \in Files \cup {NoFile},
         next \in FilePC => mine \in Files, Schedule(t, next, mine), DataMoved,
         UNCHANGED <<metadata, paused, pinned, cacheFiles, client, phase, todo>>
  PROVE  TypeOK'
<1> USE ConstantsAssumption DEF TypeOK, Goto, SetState, SourceFile, Incremented
<1> USE DEF None, States, Unfinished, Procs, DataMoved
<1> USE DEF client, jobs, counts
<1>1. CASE ScheduleBusy(t, next, mine)
  BY <1>1 DEF ScheduleBusy
<1>2. CASE ScheduleCached(t, next, mine)
  BY <1>2 DEF ScheduleCached
<1>3. ASSUME NEW j \in Workers, ScheduleBegin(t, j, next, mine) PROVE TypeOK'
  <2>1. "monitor" \in FilePC \ FreePC
    BY DEF FreePC, FilePC, SlotPC
  <2> QED BY <1>3, <2>1 DEF ScheduleBegin
<1>4. ASSUME NEW j \in Workers, ScheduleWait(t, j, next, mine) PROVE TypeOK'
  <2>1. "waiting" \in FilePC \ FreePC
    BY DEF FreePC, FilePC, RefPC
  <2> QED BY <1>4, <2>1 DEF ScheduleWait
<1> QED BY <1>1, <1>2, <1>3, <1>4 DEF Schedule

\* notifyCompleted, first and repeated, keeps the types.
LEMMA NotifyTypeOK ==
  ASSUME TypeOK, NEW t \in Procs, file[t] \in Files, NEW next \in FilePC,
         NotifyCompleted(t, next)
  PROVE  TypeOK'
<1> USE ConstantsAssumption DEF TypeOK, Goto, SourceFile, Incremented, NotifyCompleted
<1> USE DEF Procs, disk, data, client
<1>1. CASE NotifyAgain(t, next)
  BY <1>1 DEF NotifyAgain
<1>2. ASSUME NEW j \in Workers, NotifyFirst(t, j, next) PROVE TypeOK'
  <2>1. "handler" \in FilePC \ FreePC
    BY DEF FreePC, FilePC, RefPC
  <2> QED BY <1>2, <2>1 DEF NotifyFirst
<1> QED BY <1>1, <1>2

\* What RefCount and SlotCount say of a single reference and a single slot.
RefsCounted == \A t \in Procs : pc[t] \in RefPC => active[SourceFile(t)] > 0
SlotsCounted == \A t \in Procs : HoldsSlot(t) => slots > 0

\* A step of one goroutine keeps the types. release and the slot counter only stay
\* naturals because a goroutine that gives one back is counted in it.
LEMMA ProcTypeOK ==
  ASSUME TypeOK, FlatEmpty, SlotsCounted, NEW t \in Procs, ProcStep(t)
  PROVE  TypeOK'
<1> USE ConstantsAssumption DEF TypeOK, Goto, Finish, ReleaseThen, SourceFile
<1> USE DEF FreePC, FilePC, ReadPC, WritePC, RefPC, SlotPC, StreamPC
<1> USE DEF disk, data, client, jobs, counts
<1> USE DEF None, States, Unfinished, SetState, Incremented, Decremented
<1>1. ASSUME NEW f \in Files, Open(t, f) PROVE TypeOK'
  <2>1. DataMoved
    BY <1>1, MigrationMoves DEF Open
  <2> QED BY <1>1, <2>1 DEF Open, DataMoved
<1>0. CASE OpenPrepared(t)
  <2>1. DataMoved
    BY <1>0, PreparationMoves DEF OpenPrepared
  <2> QED BY <1>0, <2>1 DEF OpenPrepared, DataMoved
<1>2. CASE Attach(t)
  BY <1>2 DEF Attach, AddTorrent
<1>3. CASE OpenCancelled(t)
  BY <1>3 DEF OpenCancelled
<1>4. CASE QueueTrackDownload(t)
  <2>1. file[t] \in Files /\ SourceFile(t) \in Sources
    BY <1>4 DEF QueueTrackDownload
  <2>2. DataMoved
    BY <1>4, <2>1, PreparationMoves DEF QueueTrackDownload
  <2> QED BY <1>4, <2>1, <2>2, ScheduleTypeOK DEF QueueTrackDownload
<1>5. CASE RetainStream(t)
  BY <1>5 DEF RetainStream
<1>6. CASE ReadToEnd(t)
  BY <1>6, NotifyTypeOK DEF ReadToEnd
<1>7. CASE CloseStream(t)
  BY <1>7 DEF CloseStream
<1>8. CASE SlotObtained(t)
  <2>1. CASE WaitedInVain(t)
    BY <1>8, <2>1 DEF SlotObtained, WaitedInVain
  <2>2. CASE WaitedAndBegins(t)
    BY <1>8, <2>2 DEF SlotObtained, WaitedAndBegins
  <2> QED BY <1>8, <2>1, <2>2 DEF SlotObtained
<1>9. CASE WaitCancelled(t)
  BY <1>9 DEF WaitCancelled
<1>10. CASE MonitorCompleted(t)
  BY <1>10 DEF MonitorCompleted
<1>11. CASE MonitorNotifies(t)
  BY <1>11, NotifyTypeOK DEF MonitorNotifies
<1>12. CASE MonitorStopped(t)
  BY <1>12 DEF MonitorStopped
<1>13. CASE MonitorLeaves(t)
  BY <1>13 DEF MonitorLeaves
<1>14. CASE MonitorReleases(t)
  BY <1>14 DEF MonitorReleases
<1>15. CASE FreeSlot(t)
  BY <1>15 DEF FreeSlot, SlotsCounted, HoldsSlot
<1>16. CASE HandlerDone(t)
  BY <1>16 DEF HandlerDone
<1>17. CASE PruneStart(t)
  BY <1>17 DEF PruneStart
<1>18. CASE PruneDone(t)
  BY <1>18 DEF PruneDone
<1>19. CASE EvictLock(t)
  BY <1>19 DEF EvictLock
<1>20. CASE EvictRemove(t)
  BY <1>20 DEF EvictRemove, DropTorrent, Forms
<1>39. CASE EvictMissed(t)
  BY <1>39 DEF EvictMissed, DropTorrent
<1>21. ASSUME NEW f \in Files, EvictSkip(t, f) PROVE TypeOK'
  BY <1>21 DEF EvictSkip
<1>22. ASSUME NEW f \in Files, EvictChoose(t, f) PROVE TypeOK'
  BY <1>22 DEF EvictChoose
<1>23. CASE ResumeStart(t)
  BY <1>23 DEF ResumeStart, Phases
<1>24. CASE ResumeAttach(t)
  BY <1>24 DEF ResumeAttach, AddTorrent
<1>25. CASE ResumeWithoutMetadata(t)
  BY <1>25 DEF ResumeWithoutMetadata, MarkDownloadFailed
<1>26. CASE ResumeCancelled(t)
  BY <1>26 DEF ResumeCancelled, MarkDownloadFailed
<1>27. CASE ResumeSchedule(t)
  <2>1. DataMoved
    BY <1>27, NothingMoves DEF ResumeSchedule
  <2> QED BY <1>27, <2>1, ScheduleTypeOK DEF ResumeSchedule
<1>28. CASE ResumeDone(t)
  BY <1>28 DEF ResumeDone, Phases
<1>29. ASSUME NEW f \in Files, ResumeEntry(t, f) PROVE TypeOK'
  BY <1>29 DEF ResumeEntry
<1>30. ASSUME NEW f \in Files, PauseSource(t, f) PROVE TypeOK'
  BY <1>30 DEF PauseSource
<1>31. ASSUME NEW f \in Files, ResumeSource(t, f) PROVE TypeOK'
  BY <1>31 DEF ResumeSource
<1>32. ASSUME NEW f \in Files, RemoveSource(t, f) PROVE TypeOK'
  BY <1>32 DEF RemoveSource
<1>33. CASE PauseTorrent(t)
  BY <1>33 DEF PauseTorrent
<1>34. CASE UnpauseTorrent(t)
  BY <1>34 DEF UnpauseTorrent, AllowData
<1>35. CASE RemoveMetadata(t)
  BY <1>35 DEF RemoveMetadata, DropTorrent
<1>36. ASSUME NEW deleteData \in BOOLEAN, RemoveDownloads(t, deleteData) PROVE TypeOK'
  BY <1>36 DEF RemoveDownloads, FilesOf, Forms
<1>37. ASSUME NEW f \in Files, FetchMagnet(t, f) PROVE TypeOK'
  BY <1>37 DEF FetchMagnet
<1>38. CASE FetchDone(t)
  BY <1>38 DEF FetchDone, DropTorrent
<1> QED
  BY <1>0, <1>1, <1>2, <1>3, <1>4, <1>5, <1>6, <1>7, <1>8, <1>9, <1>10, <1>11, <1>12, <1>13,
     <1>14, <1>15, <1>16, <1>17, <1>18, <1>19, <1>20, <1>21, <1>22, <1>23, <1>24, <1>25,
     <1>26, <1>27, <1>28, <1>29, <1>30, <1>31, <1>32, <1>33, <1>34, <1>35, <1>36, <1>37, <1>38,
     <1>39
  DEF ProcStep, RequestStep, JobStep, PruneStep, ResumeStep, AdminStep

-----------------------------------------------------------------------------
\* The inductive invariant.

\* A writer of "operation" is alone: no other process has the lock in any mode.
LockExclusion ==
  \A t, u \in Procs : pc[t] \in WritePC /\ pc[u] \in WritePC \cup ReadPC => t = u

\* Only a prune, or the step that follows it, has a place to return to.
AfterOK ==
  \A t \in Procs : after[t] = "released" => pc[t] \in PrunePC \cup {"released"}

\* A magnet fetch drops its torrent whoever uses it by then.
HandlesAttachedUnlessMagnet ==
  "magnet" \in Events \/ (HandlesAttached /\ \A t \in Procs : pc[t] # "fetching")

\* While a writer works on a source, the source has no reference; once it is
\* chosen for eviction or its markers are removed, it is not pinned.
WritersAlone ==
  \A t \in Procs :
    /\ pc[t] \in {"evictChosen", "removeChecked", "removing"} => active[SourceFile(t)] = 0
    /\ pc[t] \in {"evictChosen", "removing"} => SourceFile(t) \notin pinned

\* operation excludes readers from a writer: a step takes the RWMutex in one mode
\* only when no other goroutine holds it in a conflicting one.
LEMMA LockExclusionStep ==
  ASSUME TypeOK, LockExclusion, NEW t \in Procs, ProcStep(t)
  PROVE  LockExclusion'
<1> USE ConstantsAssumption DEF TypeOK, Goto, Finish, ReleaseThen, SourceFile, Procs
<1> USE DEF FreePC, FilePC, ReadPC, WritePC, RefPC, SlotPC, StreamPC, PrunePC
<1> USE DEF disk, data, client, jobs, counts, procs
<1> USE DEF LockExclusion, MayReadLock, MayWriteLock, ReadLocked, WriteLocked
<1>1. CASE RequestStep(t)
  BY <1>1 DEF RequestStep,
    Open, OpenPrepared, Attach, OpenCancelled, QueueTrackDownload, RetainStream, ReadToEnd, CloseStream,
    Spawn, NewRequest, Schedule, ScheduleBusy, ScheduleCached, ScheduleBegin, ScheduleWait,
    NotifyCompleted, NotifyAgain, NotifyFirst
<1>2. CASE JobStep(t)
  BY <1>2 DEF JobStep,
    SlotObtained, WaitedInVain, WaitedAndBegins, WaitCancelled, MonitorCompleted,
    MonitorNotifies, MonitorStopped, MonitorLeaves, MonitorReleases, FreeSlot, HandlerDone,
    Spawn, NotifyCompleted, NotifyAgain, NotifyFirst
<1>3. CASE PruneStep(t)
  BY <1>3 DEF PruneStep,
    PruneStart, PruneDone, EvictLock, EvictRemove, EvictMissed, EvictSkip, EvictChoose
<1>4. CASE ResumeStep(t)
  BY <1>4 DEF ResumeStep,
    ResumeStart, ResumeAttach, ResumeWithoutMetadata, ResumeCancelled, ResumeSchedule,
    ResumeDone, ResumeEntry, MarkDownloadFailed, Spawn,
    Schedule, ScheduleBusy, ScheduleCached, ScheduleBegin, ScheduleWait
<1>5. CASE AdminStep(t)
  BY <1>5 DEF AdminStep,
    FetchMagnet, FetchDone, PauseSource, PauseTorrent, ResumeSource, UnpauseTorrent,
    RemoveSource, RemoveMetadata, RemoveDownloads, FilesOf, NewRequest
<1> QED BY <1>1, <1>2, <1>3, <1>4, <1>5 DEF ProcStep

\* A goroutine that runs a completion handler remembers where it goes on, so that
\* releaseStream and monitorTrackDownload resume in the right place.
LEMMA AfterOKStep ==
  ASSUME TypeOK, AfterOK, NEW t \in Procs, ProcStep(t)
  PROVE  AfterOK'
<1> USE ConstantsAssumption DEF TypeOK, Goto, Finish, ReleaseThen, SourceFile, Procs
<1> USE DEF FreePC, FilePC, ReadPC, WritePC, RefPC, SlotPC, StreamPC, PrunePC
<1> USE DEF disk, data, client, jobs, counts, procs
<1> USE DEF AfterOK
<1>1. CASE RequestStep(t)
  BY <1>1 DEF RequestStep,
    Open, OpenPrepared, Attach, OpenCancelled, QueueTrackDownload, RetainStream, ReadToEnd, CloseStream,
    Spawn, NewRequest, Schedule, ScheduleBusy, ScheduleCached, ScheduleBegin, ScheduleWait,
    NotifyCompleted, NotifyAgain, NotifyFirst
<1>2. CASE JobStep(t)
  BY <1>2 DEF JobStep,
    SlotObtained, WaitedInVain, WaitedAndBegins, WaitCancelled, MonitorCompleted,
    MonitorNotifies, MonitorStopped, MonitorLeaves, MonitorReleases, FreeSlot, HandlerDone,
    Spawn, NotifyCompleted, NotifyAgain, NotifyFirst
<1>3. CASE PruneStep(t)
  BY <1>3 DEF PruneStep,
    PruneStart, PruneDone, EvictLock, EvictRemove, EvictMissed, EvictSkip, EvictChoose
<1>4. CASE ResumeStep(t)
  BY <1>4 DEF ResumeStep,
    ResumeStart, ResumeAttach, ResumeWithoutMetadata, ResumeCancelled, ResumeSchedule,
    ResumeDone, ResumeEntry, MarkDownloadFailed, Spawn,
    Schedule, ScheduleBusy, ScheduleCached, ScheduleBegin, ScheduleWait
<1>5. CASE AdminStep(t)
  BY <1>5 DEF AdminStep,
    FetchMagnet, FetchDone, PauseSource, PauseTorrent, ResumeSource, UnpauseTorrent,
    RemoveSource, RemoveMetadata, RemoveDownloads, FilesOf, NewRequest
<1> QED BY <1>1, <1>2, <1>3, <1>4, <1>5 DEF ProcStep

\* What Evict and RemoveSource read of the count and the pin under operation stays
\* true until they act on it.
LEMMA WritersAloneStep ==
  ASSUME TypeOK, LockExclusion, RefsCounted, WritersAlone, NEW t \in Procs, ProcStep(t)
  PROVE  WritersAlone'
<1> USE ConstantsAssumption DEF TypeOK, Goto, Finish, ReleaseThen, SourceFile, Procs
<1> USE DEF FreePC, FilePC, ReadPC, WritePC, RefPC, SlotPC, StreamPC, PrunePC
<1> USE DEF disk, data, client, jobs, counts, procs
<1> USE DEF WritersAlone, LockExclusion, RefsCounted, Incremented, Decremented, MayEvict,
   MayRemove, MayReadLock, WriteLocked
<1>1. CASE RequestStep(t)
  BY <1>1 DEF RequestStep,
    Open, OpenPrepared, Attach, OpenCancelled, QueueTrackDownload, RetainStream, ReadToEnd, CloseStream,
    Spawn, NewRequest, Schedule, ScheduleBusy, ScheduleCached, ScheduleBegin, ScheduleWait,
    NotifyCompleted, NotifyAgain, NotifyFirst
<1>2. CASE JobStep(t)
  BY <1>2 DEF JobStep,
    SlotObtained, WaitedInVain, WaitedAndBegins, WaitCancelled, MonitorCompleted,
    MonitorNotifies, MonitorStopped, MonitorLeaves, MonitorReleases, FreeSlot, HandlerDone,
    Spawn, NotifyCompleted, NotifyAgain, NotifyFirst
<1>3. CASE PruneStep(t)
  BY <1>3 DEF PruneStep,
    PruneStart, PruneDone, EvictLock, EvictRemove, EvictMissed, EvictSkip, EvictChoose
<1>4. CASE ResumeStep(t)
  BY <1>4 DEF ResumeStep,
    ResumeStart, ResumeAttach, ResumeWithoutMetadata, ResumeCancelled, ResumeSchedule,
    ResumeDone, ResumeEntry, MarkDownloadFailed, Spawn,
    Schedule, ScheduleBusy, ScheduleCached, ScheduleBegin, ScheduleWait
<1>5. CASE AdminStep(t)
  BY <1>5 DEF AdminStep,
    FetchMagnet, FetchDone, PauseSource, PauseTorrent, ResumeSource, UnpauseTorrent,
    RemoveSource, RemoveMetadata, RemoveDownloads, FilesOf, NewRequest
<1> QED BY <1>1, <1>2, <1>3, <1>4, <1>5 DEF ProcStep

\* A job keeps its record: removeDownloadsForSource runs only when no job does.
LEMMA JobsHaveRecordsStep ==
  ASSUME TypeOK, RefsCounted, WritersAlone, JobsHaveRecords, NEW t \in Procs, ProcStep(t)
  PROVE  JobsHaveRecords'
<1> USE ConstantsAssumption DEF TypeOK, Goto, Finish, ReleaseThen, SourceFile, Procs
<1> USE DEF FreePC, FilePC, ReadPC, WritePC, RefPC, SlotPC, StreamPC, PrunePC
<1> USE DEF disk, data, client, jobs, counts, procs
<1> USE DEF JobsHaveRecords, WritersAlone, RefsCounted, SetState, None, States, Unfinished
<1>1. CASE RequestStep(t)
  BY <1>1 DEF RequestStep,
    Open, OpenPrepared, Attach, OpenCancelled, QueueTrackDownload, RetainStream, ReadToEnd, CloseStream,
    Spawn, NewRequest, Schedule, ScheduleBusy, ScheduleCached, ScheduleBegin, ScheduleWait,
    NotifyCompleted, NotifyAgain, NotifyFirst
<1>2. CASE JobStep(t)
  BY <1>2 DEF JobStep,
    SlotObtained, WaitedInVain, WaitedAndBegins, WaitCancelled, MonitorCompleted,
    MonitorNotifies, MonitorStopped, MonitorLeaves, MonitorReleases, FreeSlot, HandlerDone,
    Spawn, NotifyCompleted, NotifyAgain, NotifyFirst
<1>3. CASE PruneStep(t)
  BY <1>3 DEF PruneStep,
    PruneStart, PruneDone, EvictLock, EvictRemove, EvictMissed, EvictSkip, EvictChoose
<1>4. CASE ResumeStep(t)
  BY <1>4 DEF ResumeStep,
    ResumeStart, ResumeAttach, ResumeWithoutMetadata, ResumeCancelled, ResumeSchedule,
    ResumeDone, ResumeEntry, MarkDownloadFailed, Spawn,
    Schedule, ScheduleBusy, ScheduleCached, ScheduleBegin, ScheduleWait
<1>5. CASE AdminStep(t)
  BY <1>5 DEF AdminStep,
    FetchMagnet, FetchDone, PauseSource, PauseTorrent, ResumeSource, UnpauseTorrent,
    RemoveSource, RemoveMetadata, RemoveDownloads, FilesOf, NewRequest
<1> QED BY <1>1, <1>2, <1>3, <1>4, <1>5 DEF ProcStep

\* dropTorrent runs only when no goroutine holds the handle that open returned.
LEMMA HandlesAttachedStep ==
  ASSUME TypeOK, LockExclusion, RefsCounted, WritersAlone, HandlesAttachedUnlessMagnet,
         phase # "closed", NEW t \in Procs, ProcStep(t)
  PROVE  HandlesAttachedUnlessMagnet'
<1> USE ConstantsAssumption DEF TypeOK, Goto, Finish, ReleaseThen, SourceFile, Procs
<1> USE DEF FreePC, FilePC, ReadPC, WritePC, RefPC, SlotPC, StreamPC, PrunePC
<1> USE DEF disk, data, client, jobs, counts, procs
<1> USE DEF HandlesAttachedUnlessMagnet, HandlesAttached, LockExclusion, RefsCounted,
   WritersAlone, AddTorrent, DropTorrent, AllowData
<1>1. CASE RequestStep(t)
  BY <1>1 DEF RequestStep,
    Open, OpenPrepared, Attach, OpenCancelled, QueueTrackDownload, RetainStream, ReadToEnd, CloseStream,
    Spawn, NewRequest, Schedule, ScheduleBusy, ScheduleCached, ScheduleBegin, ScheduleWait,
    NotifyCompleted, NotifyAgain, NotifyFirst
<1>2. CASE JobStep(t)
  BY <1>2 DEF JobStep,
    SlotObtained, WaitedInVain, WaitedAndBegins, WaitCancelled, MonitorCompleted,
    MonitorNotifies, MonitorStopped, MonitorLeaves, MonitorReleases, FreeSlot, HandlerDone,
    Spawn, NotifyCompleted, NotifyAgain, NotifyFirst
<1>3. CASE PruneStep(t)
  BY <1>3 DEF PruneStep,
    PruneStart, PruneDone, EvictLock, EvictRemove, EvictMissed, EvictSkip, EvictChoose
<1>4. CASE ResumeStep(t)
  BY <1>4 DEF ResumeStep,
    ResumeStart, ResumeAttach, ResumeWithoutMetadata, ResumeCancelled, ResumeSchedule,
    ResumeDone, ResumeEntry, MarkDownloadFailed, Spawn,
    Schedule, ScheduleBusy, ScheduleCached, ScheduleBegin, ScheduleWait
<1>5. CASE AdminStep(t)
  BY <1>5 DEF AdminStep,
    FetchMagnet, FetchDone, PauseSource, PauseTorrent, ResumeSource, UnpauseTorrent,
    RemoveSource, RemoveMetadata, RemoveDownloads, FilesOf, NewRequest
<1> QED BY <1>1, <1>2, <1>3, <1>4, <1>5 DEF ProcStep

\* A step of one goroutine takes one download slot, returns one, or leaves them all.
LEMMA SlotsMove ==
  ASSUME TypeOK, AfterOK, SlotsCounted, NEW t \in Procs, ProcStep(t)
  PROVE  Counted(SlotHolders, SlotHolders', slots, slots') /\ (slots' > slots => slots < MaxActive)
<1> USE ConstantsAssumption DEF TypeOK, Goto, Finish, ReleaseThen, SourceFile, Procs
<1> USE DEF FreePC, FilePC, ReadPC, WritePC, RefPC, SlotPC, StreamPC, PrunePC
<1> USE DEF disk, data, client, jobs, counts, procs
<1> USE DEF AfterOK, SlotsCounted, Counted, SlotHolders, HoldsSlot, SlotFree
<1>1. CASE RequestStep(t)
  BY <1>1 DEF RequestStep,
    Open, OpenPrepared, Attach, OpenCancelled, QueueTrackDownload, RetainStream, ReadToEnd, CloseStream,
    Spawn, NewRequest, Schedule, ScheduleBusy, ScheduleCached, ScheduleBegin, ScheduleWait,
    NotifyCompleted, NotifyAgain, NotifyFirst
<1>2. CASE JobStep(t)
  BY <1>2 DEF JobStep,
    SlotObtained, WaitedInVain, WaitedAndBegins, WaitCancelled, MonitorCompleted,
    MonitorNotifies, MonitorStopped, MonitorLeaves, MonitorReleases, FreeSlot, HandlerDone,
    Spawn, NotifyCompleted, NotifyAgain, NotifyFirst
<1>3. CASE PruneStep(t)
  BY <1>3 DEF PruneStep,
    PruneStart, PruneDone, EvictLock, EvictRemove, EvictMissed, EvictSkip, EvictChoose
<1>4. CASE ResumeStep(t)
  BY <1>4 DEF ResumeStep,
    ResumeStart, ResumeAttach, ResumeWithoutMetadata, ResumeCancelled, ResumeSchedule,
    ResumeDone, ResumeEntry, MarkDownloadFailed, Spawn,
    Schedule, ScheduleBusy, ScheduleCached, ScheduleBegin, ScheduleWait
<1>5. CASE AdminStep(t)
  BY <1>5 DEF AdminStep,
    FetchMagnet, FetchDone, PauseSource, PauseTorrent, ResumeSource, UnpauseTorrent,
    RemoveSource, RemoveMetadata, RemoveDownloads, FilesOf, NewRequest
<1> QED BY <1>1, <1>2, <1>3, <1>4, <1>5 DEF ProcStep

\* A step of one goroutine retains one source once, releases one once, or neither.
LEMMA RefsMove ==
  ASSUME TypeOK, JobsHaveRecords, NEW s \in Sources, NEW t \in Procs, ProcStep(t)
  PROVE  Counted(Holders(s), Holders(s)', active[s], active'[s])
<1> USE ConstantsAssumption DEF TypeOK, Goto, Finish, ReleaseThen, SourceFile, Procs
<1> USE DEF FreePC, FilePC, ReadPC, WritePC, RefPC, SlotPC, StreamPC, PrunePC
<1> USE DEF disk, data, client, jobs, counts, procs
<1> USE DEF JobsHaveRecords, Counted, Holders, Incremented, Decremented
<1>1. CASE RequestStep(t)
  BY <1>1 DEF RequestStep,
    Open, OpenPrepared, Attach, OpenCancelled, QueueTrackDownload, RetainStream, ReadToEnd, CloseStream,
    Spawn, NewRequest, Schedule, ScheduleBusy, ScheduleCached, ScheduleBegin, ScheduleWait,
    NotifyCompleted, NotifyAgain, NotifyFirst
<1>2. CASE JobStep(t)
  BY <1>2 DEF JobStep,
    SlotObtained, WaitedInVain, WaitedAndBegins, WaitCancelled, MonitorCompleted,
    MonitorNotifies, MonitorStopped, MonitorLeaves, MonitorReleases, FreeSlot, HandlerDone,
    Spawn, NotifyCompleted, NotifyAgain, NotifyFirst
<1>3. CASE PruneStep(t)
  BY <1>3 DEF PruneStep,
    PruneStart, PruneDone, EvictLock, EvictRemove, EvictMissed, EvictSkip, EvictChoose
<1>4. CASE ResumeStep(t)
  BY <1>4 DEF ResumeStep,
    ResumeStart, ResumeAttach, ResumeWithoutMetadata, ResumeCancelled, ResumeSchedule,
    ResumeDone, ResumeEntry, MarkDownloadFailed, Spawn,
    Schedule, ScheduleBusy, ScheduleCached, ScheduleBegin, ScheduleWait
<1>5. CASE AdminStep(t)
  BY <1>5 DEF AdminStep,
    FetchMagnet, FetchDone, PauseSource, PauseTorrent, ResumeSource, UnpauseTorrent,
    RemoveSource, RemoveMetadata, RemoveDownloads, FilesOf, NewRequest
<1> QED BY <1>1, <1>2, <1>3, <1>4, <1>5 DEF ProcStep

\* A step of one goroutine opens one stream, closes one, or neither.
LEMMA StreamsMove ==
  ASSUME TypeOK, NEW s \in Sources, NEW t \in Procs, ProcStep(t)
  PROVE  Counted(Streams(s), Streams(s)', streams[s], streams'[s])
<1> USE ConstantsAssumption DEF TypeOK, Goto, Finish, ReleaseThen, SourceFile, Procs
<1> USE DEF FreePC, FilePC, ReadPC, WritePC, RefPC, SlotPC, StreamPC, PrunePC
<1> USE DEF disk, data, client, jobs, counts, procs
<1> USE DEF Counted, Streams, Incremented, Decremented
<1>1. CASE RequestStep(t)
  BY <1>1 DEF RequestStep,
    Open, OpenPrepared, Attach, OpenCancelled, QueueTrackDownload, RetainStream, ReadToEnd, CloseStream,
    Spawn, NewRequest, Schedule, ScheduleBusy, ScheduleCached, ScheduleBegin, ScheduleWait,
    NotifyCompleted, NotifyAgain, NotifyFirst
<1>2. CASE JobStep(t)
  BY <1>2 DEF JobStep,
    SlotObtained, WaitedInVain, WaitedAndBegins, WaitCancelled, MonitorCompleted,
    MonitorNotifies, MonitorStopped, MonitorLeaves, MonitorReleases, FreeSlot, HandlerDone,
    Spawn, NotifyCompleted, NotifyAgain, NotifyFirst
<1>3. CASE PruneStep(t)
  BY <1>3 DEF PruneStep,
    PruneStart, PruneDone, EvictLock, EvictRemove, EvictMissed, EvictSkip, EvictChoose
<1>4. CASE ResumeStep(t)
  BY <1>4 DEF ResumeStep,
    ResumeStart, ResumeAttach, ResumeWithoutMetadata, ResumeCancelled, ResumeSchedule,
    ResumeDone, ResumeEntry, MarkDownloadFailed, Spawn,
    Schedule, ScheduleBusy, ScheduleCached, ScheduleBegin, ScheduleWait
<1>5. CASE AdminStep(t)
  BY <1>5 DEF AdminStep,
    FetchMagnet, FetchDone, PauseSource, PauseTorrent, ResumeSource, UnpauseTorrent,
    RemoveSource, RemoveMetadata, RemoveDownloads, FilesOf, NewRequest
<1> QED BY <1>1, <1>2, <1>3, <1>4, <1>5 DEF ProcStep

-----------------------------------------------------------------------------
\* The invariant is inductive.

IInv ==
  /\ TypeOK
  /\ FlatEmpty
  /\ AfterOK
  /\ LockExclusion
  /\ RefCount
  /\ SlotCount
  /\ WritersAlone
  /\ JobsHaveRecords
  /\ HandlesAttachedUnlessMagnet

\* There are finitely many goroutines, so that their numbers can be compared.
LEMMA ProcsFinite == \A S : S \subseteq Procs => IsFiniteSet(S)
BY ConstantsAssumption, FS_Union, FS_Subset DEF Procs

\* The balanced counters are positive as long as a goroutine is counted in them.
LEMMA CountersPositive ==
  ASSUME TypeOK, RefCount, SlotCount
  PROVE  RefsCounted /\ SlotsCounted
<1>1. ASSUME NEW t \in Procs, pc[t] \in RefPC PROVE active[SourceFile(t)] > 0
  <2> DEFINE s == SourceFile(t)
  <2>1. s \in Sources /\ t \in Holders(s)
    BY <1>1, ConstantsAssumption
    DEF TypeOK, Holders, SourceFile, FilePC, RefPC, StreamPC, FreePC
  <2>2. IsFiniteSet(Holders(s))
    BY ProcsFinite DEF Holders
  <2>3. active[s] = Cardinality(Holders(s)) /\ active[s] \in Nat
    BY <2>1 DEF RefCount, TypeOK
  <2> HIDE DEF s
  <2>4. active[s] > 0
    BY <2>1, <2>2, <2>3, FS_EmptySet
  <2> QED BY <2>4 DEF s
<1>2. ASSUME NEW t \in Procs, HoldsSlot(t) PROVE slots > 0
  <2>1. IsFiniteSet(SlotHolders) /\ t \in SlotHolders
    BY <1>2, ProcsFinite DEF SlotHolders
  <2> QED BY <2>1, FS_EmptySet DEF SlotCount, TypeOK
<1> QED BY <1>1, <1>2 DEF RefsCounted, SlotsCounted

\* The inductive invariant holds when the provider is created.
LEMMA InitIInv == Init => IInv
<1> SUFFICES ASSUME Init PROVE IInv
  OBVIOUS
<1>1. TypeOK
  BY InitTypeOK
<1>2. \A s \in Sources : Holders(s) = {} /\ Streams(s) = {}
  BY DEF Init, Idle, Holders, Streams, RefPC, StreamPC
<1>3. SlotHolders = {}
  BY DEF Init, Idle, SlotHolders, HoldsSlot, SlotPC, PrunePC
<1>4. RefCount /\ SlotCount
  BY <1>2, <1>3, FS_EmptySet, ConstantsAssumption DEF Init, RefCount, SlotCount, NoCount
<1>5. FlatEmpty /\ AfterOK /\ LockExclusion /\ WritersAlone /\ JobsHaveRecords
      /\ HandlesAttachedUnlessMagnet
  BY DEF Init, Idle, FlatEmpty, AfterOK, LockExclusion, WritersAlone, JobsHaveRecords, HandlesAttached,
         HandlesAttachedUnlessMagnet,
         ReadPC, WritePC, RefPC, StreamPC
<1> QED BY <1>1, <1>4, <1>5 DEF IInv

\* A request moves data at most.
LEMMA RequestMoves ==
  ASSUME TypeOK, FlatEmpty, NEW t \in Procs, RequestStep(t)
  PROVE  DataMoved
<1> USE ConstantsAssumption DEF TypeOK, SourceFile, FreePC, FilePC, ReadPC
<1>1. ASSUME NEW f \in Files, Open(t, f) PROVE DataMoved
  BY <1>1, MigrationMoves DEF Open
<1>2. CASE OpenPrepared(t)
  BY <1>2, PreparationMoves DEF OpenPrepared
<1>3. CASE QueueTrackDownload(t)
  BY <1>3, PreparationMoves DEF QueueTrackDownload
<1>4. CASE Attach(t) \/ OpenCancelled(t) \/ RetainStream(t) \/ ReadToEnd(t) \/ CloseStream(t)
  BY <1>4, NothingMoves DEF Attach, OpenCancelled, RetainStream, ReadToEnd, CloseStream,
    NotifyCompleted, disk
<1> QED BY <1>1, <1>2, <1>3, <1>4 DEF RequestStep

\* A complete file stays complete.
LEMMA RequestKeepsComplete ==
  ASSUME TypeOK, FlatEmpty, NEW t \in Procs, RequestStep(t), NEW f \in Files, have[f] = Size
  PROVE  have'[f] = Size
<1>1. have'[f] \in 0..Size /\ have'[f] >= have[f]
  BY RequestMoves DEF DataMoved, FlatEmpty
<1> QED BY <1>1, ConstantsAssumption

\* No step puts a piece beside a file of the old layout.
LEMMA FlatEmptyStep ==
  ASSUME TypeOK, FlatEmpty, NEW t \in Procs, ProcStep(t)
  PROVE  FlatEmpty'
<1> USE ConstantsAssumption DEF TypeOK, FlatEmpty, disk, data
<1>1. CASE RequestStep(t)
  BY <1>1, RequestMoves DEF DataMoved
<1>2. CASE JobStep(t)
  BY <1>2 DEF JobStep, SlotObtained, WaitCancelled, MonitorCompleted, MonitorNotifies,
    MonitorStopped, MonitorLeaves, MonitorReleases, FreeSlot, HandlerDone, NotifyCompleted
<1>3. CASE PruneStep(t)
  BY <1>3 DEF PruneStep, PruneStart, PruneDone, EvictLock, EvictRemove, EvictMissed, EvictSkip,
    EvictChoose
<1>4. CASE ResumeStep(t)
  BY <1>4 DEF ResumeStep, ResumeStart, ResumeAttach, ResumeWithoutMetadata, ResumeCancelled,
    ResumeSchedule, ResumeDone, ResumeEntry, MarkDownloadFailed
<1>5. CASE AdminStep(t)
  BY <1>5 DEF AdminStep, FetchMagnet, FetchDone, PauseSource, ResumeSource, RemoveSource,
    PauseTorrent, UnpauseTorrent, RemoveMetadata, RemoveDownloads
<1> QED BY <1>1, <1>2, <1>3, <1>4, <1>5 DEF ProcStep

\* A step of one goroutine keeps the inductive invariant.
LEMMA ProcIInv ==
  ASSUME IInv, phase # "closed", NEW t \in Procs, ProcStep(t)
  PROVE  IInv'
<1> USE DEF IInv
<1>1. RefsCounted /\ SlotsCounted
  BY CountersPositive
<1>2. TypeOK'
  BY <1>1, ProcTypeOK
<1>3. AfterOK' /\ LockExclusion' /\ WritersAlone' /\ JobsHaveRecords'
  BY <1>1, AfterOKStep, LockExclusionStep, WritersAloneStep, JobsHaveRecordsStep
<1>8. HandlesAttachedUnlessMagnet' /\ FlatEmpty'
  BY <1>1, HandlesAttachedStep, FlatEmptyStep
<1>4. ASSUME NEW s \in Sources
      PROVE  active'[s] = Cardinality(Holders(s)') /\ streams'[s] = Cardinality(Streams(s)')
  <2>1. IsFiniteSet(Holders(s)) /\ IsFiniteSet(Streams(s))
    BY ProcsFinite DEF Holders, Streams
  <2>2. active[s] = Cardinality(Holders(s)) /\ streams[s] = Cardinality(Streams(s))
    BY DEF RefCount
  <2>3. /\ Counted(Holders(s), Holders(s)', active[s], active'[s])
        /\ Counted(Streams(s), Streams(s)', streams[s], streams'[s])
    BY RefsMove, StreamsMove
  <2> QED BY <2>1, <2>2, <2>3, CountedStep
<1>5. RefCount'
  BY <1>4 DEF RefCount
<1>6. slots' = Cardinality(SlotHolders')
  <2>1. IsFiniteSet(SlotHolders)
    BY ProcsFinite DEF SlotHolders
  <2>2. Counted(SlotHolders, SlotHolders', slots, slots')
    BY <1>1, SlotsMove
  <2> QED BY <2>1, <2>2, CountedStep DEF SlotCount
<1>7. slots' <= MaxActive
  <2>1. slots' > slots => slots < MaxActive
    BY <1>1, SlotsMove
  <2>2. Counted(SlotHolders, SlotHolders', slots, slots')
    BY <1>1, SlotsMove
  <2> QED BY <2>1, <2>2, <1>2, ConstantsAssumption DEF SlotCount, TypeOK, Counted
<1> QED BY <1>2, <1>3, <1>5, <1>6, <1>7, <1>8 DEF SlotCount

\* Steps that start, stop or move no process keep both counters and both sets.
LEMMA QuietCounts ==
  ASSUME RefCount, SlotCount, UNCHANGED <<counts, slots, pc, file, after>>
  PROVE  RefCount' /\ SlotCount'
<1>1. \A s \in Sources : Holders(s)' = Holders(s) /\ Streams(s)' = Streams(s)
  BY DEF Holders, Streams, SourceFile
<1>2. SlotHolders' = SlotHolders
  BY DEF SlotHolders, HoldsSlot
<1> QED BY <1>1, <1>2 DEF RefCount, SlotCount, counts

\* Steps of the swarm, of Close and of a new request keep the inductive invariant.
LEMMA QuietIInv ==
  ASSUME IInv, phase # "closed",
         \/ \E f \in Files : Piece(f)
         \/ \E s \in Sources : ImportSource(s) \/ ReadCatalog(s) \/ PinSource(s)
         \/ Dashboard \/ CloseBegin \/ CloseDrained \/ CloseClient \/ CloseHandled
  PROVE  IInv'
<1> USE ConstantsAssumption DEF IInv, TypeOK, SourceFile
<1> USE DEF disk, data, client, jobs, counts, procs
<1> USE DEF FlatEmpty, AfterOK, LockExclusion, WritersAlone, JobsHaveRecords, HandlesAttached,
            HandlesAttachedUnlessMagnet
<1>1. ASSUME NEW f \in Files, Piece(f) PROVE IInv'
  BY <1>1, QuietCounts DEF Piece, Forms
<1>2. ASSUME NEW s \in Sources, ImportSource(s) PROVE IInv'
  BY <1>2, QuietCounts DEF ImportSource
<1>3. ASSUME NEW s \in Sources, ReadCatalog(s) PROVE IInv'
  <2>1. DataMoved
    BY <1>3, MigrationMoves DEF ReadCatalog
  <2>2. FilesOf(s) \subseteq Files
    BY DEF FilesOf
  <2> QED BY <1>3, <2>1, <2>2, QuietCounts DEF ReadCatalog, DataMoved
<1>4. ASSUME NEW s \in Sources, PinSource(s) PROVE IInv'
  BY <1>4, QuietCounts DEF PinSource, MayReadLock, WriteLocked, WritePC
<1>5. CASE Dashboard
  <2>1. PICK seen \in SUBSET Files, unsaved \in SUBSET Files : TrackDownloads(seen, unsaved)
    BY <1>5 DEF Dashboard
  <2> QED
    BY <2>1, QuietCounts DEF TrackDownloads, Refreshed, None, States, Unfinished, FilePC, FreePC,
      RefPC, SlotPC
<1>6. CASE CloseBegin \/ CloseDrained \/ CloseClient \/ CloseHandled
  BY <1>6, QuietCounts DEF CloseBegin, CloseDrained, CloseClient, CloseHandled, Phases
<1> QED BY <1>1, <1>2, <1>3, <1>4, <1>5, <1>6

\* A restart, which empties every in-memory table, restores the inductive invariant.
LEMMA RestartIInv ==
  ASSUME IInv, Restart
  PROVE  IInv'
<1> USE DEF IInv
<1>1. TypeOK'
  BY ConstantsAssumption
  DEF Restart, TypeOK, disk, data, NoCount, Idle, Phases, FreePC, FilePC, ReadPC, WritePC, RefPC,
      SlotPC, StreamPC
<1>2. \A s \in Sources : Holders(s)' = {} /\ Streams(s)' = {}
  BY DEF Restart, Idle, Holders, Streams, RefPC, StreamPC
<1>3. SlotHolders' = {}
  BY DEF Restart, Idle, SlotHolders, HoldsSlot, SlotPC, PrunePC
<1>4. RefCount' /\ SlotCount'
  <2>1. \A s \in Sources : active'[s] = 0 /\ streams'[s] = 0
    BY DEF Restart, NoCount
  <2>2. slots' = 0 /\ 0 <= MaxActive
    BY ConstantsAssumption DEF Restart
  <2>3. Cardinality({}) = 0
    BY FS_EmptySet
  <2> QED BY <1>2, <1>3, <2>1, <2>2, <2>3 DEF RefCount, SlotCount
<1>5. FlatEmpty' /\ AfterOK' /\ LockExclusion' /\ WritersAlone' /\ JobsHaveRecords'
      /\ HandlesAttachedUnlessMagnet'
  BY DEF Restart, Idle, disk, data, FlatEmpty, AfterOK, LockExclusion, WritersAlone, JobsHaveRecords,
         HandlesAttached, HandlesAttachedUnlessMagnet, ReadPC, WritePC, RefPC, StreamPC
<1> QED BY <1>1, <1>4, <1>5

\* A step that changes no variable keeps the inductive invariant.
LEMMA StutterIInv ==
  ASSUME IInv, UNCHANGED vars
  PROVE  IInv'
<1> USE DEF vars, disk, data, client, jobs, counts, procs
<1>1. RefCount' /\ SlotCount'
  BY QuietCounts DEF IInv
<1>2. TypeOK' /\ FlatEmpty' /\ AfterOK' /\ LockExclusion'
  BY DEF IInv, TypeOK, FlatEmpty, AfterOK, LockExclusion
<1>3. WritersAlone' /\ JobsHaveRecords' /\ HandlesAttachedUnlessMagnet'
  BY DEF IInv, WritersAlone, JobsHaveRecords, HandlesAttached, HandlesAttachedUnlessMagnet,
         SourceFile
<1> QED BY <1>1, <1>2, <1>3 DEF IInv

\* The inductive invariant holds in every reachable state.
THEOREM InvariantHolds == Spec => []IInv
<1>1. Init => IInv
  BY InitIInv
<1>2. IInv /\ [Next]_vars => IInv'
  BY ProcIInv, QuietIInv, RestartIInv, StutterIInv DEF Next
<1> QED BY <1>1, <1>2, PTL DEF Spec

\* Every variable keeps its type.
THEOREM TypeCorrect == Spec => []TypeOK
BY InvariantHolds, PTL DEF IInv

\* retain and release are balanced on every path: the count that guards Evict and
\* RemoveSource is the number of goroutines that use the source.
THEOREM ReferencesBalanced == Spec => []RefCount
BY InvariantHolds, PTL DEF IInv

\* Every download slot is owned by a job, and MaxActiveDownloads is never exceeded.
THEOREM SlotsBounded == Spec => []SlotCount
BY InvariantHolds, PTL DEF IInv

\* As long as no magnet is fetched, no stream, job or request is left with the
\* handle of a dropped torrent.
THEOREM HandlesStayAttached ==
  ASSUME "magnet" \notin Events
  PROVE  Spec => []HandlesAttached
<1>1. IInv => HandlesAttached
  BY DEF IInv, HandlesAttachedUnlessMagnet
<1> QED BY <1>1, InvariantHolds, PTL

\* The record of a running job is never removed under it.
THEOREM RecordsOutliveJobs == Spec => []JobsHaveRecords
BY InvariantHolds, PTL DEF IInv

-----------------------------------------------------------------------------
\* Cached data.

\* What a step that is not a writer's does to the data: it moves it, or adds a piece.
Lost(f) == have'[f] < have[f] \/ (form[f] # "none" /\ form'[f] = "none")

\* Only the two writers remove data.
LEMMA OnlyWritersRemove ==
  ASSUME TypeOK, FlatEmpty, Next, NEW f \in Files, Lost(f)
  PROVE  \E t \in Procs : /\ pc[t] \in {"evictChosen", "removing"}
                          /\ SourceFile(t) = SourceOf[f]
<1> USE ConstantsAssumption DEF TypeOK, SourceFile
<1> USE DEF disk, data, client, jobs, counts, procs
<1>1. have[f] \in 0..Size /\ ~(have[f] < have[f]) /\ ~(have[f] + 1 < have[f])
  OBVIOUS
<1>0. DataMoved \/ UNCHANGED data => ~Lost(f)
  <2>1. DataMoved => have'[f] \in 0..Size /\ have'[f] >= have[f]
    BY DEF DataMoved, FlatEmpty
  <2> QED BY <1>1, <2>1 DEF DataMoved, FlatEmpty, Lost
<1>2. ASSUME NEW t \in Procs, RequestStep(t) PROVE DataMoved
  BY <1>2, RequestMoves
<1>3. ASSUME NEW t \in Procs, JobStep(t) PROVE UNCHANGED data
  BY <1>3 DEF JobStep, SlotObtained, WaitCancelled, MonitorCompleted, MonitorNotifies,
    MonitorStopped, MonitorLeaves, MonitorReleases, FreeSlot, HandlerDone, NotifyCompleted
<1>4. ASSUME NEW t \in Procs, PruneStep(t)
      PROVE  \/ UNCHANGED data
             \/ pc[t] = "evictChosen" /\ (f # file[t] => have'[f] = have[f] /\ form'[f] = form[f])
  BY <1>4 DEF PruneStep, PruneStart, PruneDone, EvictLock, EvictRemove, EvictMissed, EvictSkip,
    EvictChoose
<1>5. ASSUME NEW t \in Procs, ResumeStep(t) PROVE UNCHANGED data
  BY <1>5 DEF ResumeStep, ResumeStart, ResumeAttach, ResumeWithoutMetadata, ResumeCancelled,
    ResumeSchedule, ResumeDone, ResumeEntry, MarkDownloadFailed
<1>6. ASSUME NEW t \in Procs, AdminStep(t)
      PROVE  \/ UNCHANGED data
             \/ pc[t] = "removing" /\ (SourceOf[f] # SourceFile(t) =>
                                          have'[f] = have[f] /\ form'[f] = form[f])
  BY <1>6 DEF AdminStep, FetchMagnet, FetchDone, PauseSource, ResumeSource, RemoveSource,
    PauseTorrent, UnpauseTorrent, RemoveMetadata, RemoveDownloads, FilesOf
<1>7. ASSUME NEW g \in Files, Piece(g) PROVE ~Lost(f)
  BY <1>1, <1>7 DEF Piece, Lost
<1>8. ASSUME \/ \E s \in Sources : ImportSource(s) \/ PinSource(s)
             \/ Dashboard \/ CloseBegin \/ CloseDrained \/ CloseClient \/ CloseHandled \/ Restart
      PROVE  UNCHANGED data
  BY <1>8 DEF ImportSource, PinSource, Dashboard, TrackDownloads, CloseBegin, CloseDrained,
    CloseClient, CloseHandled, Restart
<1>9. ASSUME NEW s \in Sources, ReadCatalog(s) PROVE DataMoved
  BY <1>9, MigrationMoves DEF ReadCatalog
<1>10. ~(have'[f] = have[f] /\ form'[f] = form[f])
  BY <1>1 DEF Lost
<1> QED
  BY <1>0, <1>2, <1>3, <1>4, <1>5, <1>6, <1>7, <1>8, <1>9, <1>10 DEF Next, ProcStep

\* Eviction and removal never take data from under a stream, a job, a completion
\* handler or a request in progress, and eviction never takes pinned data; an open and a
\* scan, which rename and remove files under the read lock or none, lose no piece and no file.
THEOREM DataIsKept == Spec => DataKept
<1>1. ASSUME IInv, Next, NEW f \in Files, Lost(f)
      PROVE  SourceOf[f] \notin pinned /\ ~InUse(SourceOf[f])
  <2>1. PICK t \in Procs : /\ pc[t] \in {"evictChosen", "removing"}
                           /\ SourceFile(t) = SourceOf[f]
    BY <1>1, OnlyWritersRemove DEF IInv
  <2>2. SourceOf[f] \notin pinned /\ active[SourceOf[f]] = 0
    BY <1>1, <2>1 DEF IInv, WritersAlone
  <2>3. \A u \in Procs : pc[u] \in RefPC => SourceFile(u) # SourceOf[f]
    BY <1>1, <2>2, CountersPositive DEF IInv, RefsCounted
  <2>4. \A u \in Procs : pc[u] \notin ReadPC
    BY <1>1, <2>1 DEF IInv, LockExclusion, WritePC, ReadPC
  <2> QED BY <2>2, <2>3, <2>4 DEF InUse
<1>2. IInv /\ [Next]_vars =>
        [\A f \in Files :
           have'[f] < have[f] \/ (form[f] # "none" /\ form'[f] = "none")
             => SourceOf[f] \notin pinned /\ ~InUse(SourceOf[f])]_vars
  BY <1>1 DEF Lost
<1> QED BY <1>2, InvariantHolds, PTL DEF Spec, DataKept

-----------------------------------------------------------------------------
\* Resuming at start-up.

\* Where no source can be paused, none is resumed either, and ResumeTrackDownloads runs only
\* before requests are served: one run per process, over files that have no job yet.
Scheduled == activeDownloads \cup pendingDownloads
RecordPC == {"resumeFile", "resumeAttached"}
ResumePC == RecordPC \cup {"resuming"}
NothingScheduled == phase = "starting" => Scheduled = {}
NoRequests ==
  \A t \in Procs : /\ pc[t] \notin {"unpausing", "resumeWanted"}
                   /\ phase \in {"starting", "resuming"} => pc[t] \notin {"opening", "prepared", "attached"}
RunBehindJobs ==
  \A t \in Procs : /\ pc[t] \in ResumePC => phase = "resuming" /\ todo[t] \cap Scheduled = {}
                   /\ pc[t] \in RecordPC => file[t] \notin Scheduled \cup todo[t]
RunAlone == \A t, u \in Procs : pc[t] \in ResumePC /\ pc[u] \in ResumePC => t = u
StartUp == NothingScheduled /\ NoRequests /\ RunBehindJobs /\ RunAlone

\* No goroutine schedules a file that the run of ResumeTrackDownloads has yet to reach.
LEMMA StartUpStep ==
  ASSUME TypeOK, "pause" \notin Events, StartUp, NEW t \in Procs, ProcStep(t)
  PROVE  StartUp'
<1> USE ConstantsAssumption DEF TypeOK, Goto, Finish, ReleaseThen, SourceFile, Procs
<1> USE DEF FreePC, FilePC, ReadPC, WritePC, RefPC, SlotPC, StreamPC, PrunePC
<1> USE DEF disk, data, client, jobs, counts, procs
<1> USE DEF StartUp, NothingScheduled, NoRequests, RunBehindJobs, RunAlone, Scheduled, RecordPC,
  ResumePC
<1>1. CASE RequestStep(t)
  BY <1>1 DEF RequestStep,
    Open, OpenPrepared, Attach, OpenCancelled, QueueTrackDownload, RetainStream, ReadToEnd, CloseStream,
    Spawn, NewRequest, Schedule, ScheduleBusy, ScheduleCached, ScheduleBegin, ScheduleWait,
    NotifyCompleted, NotifyAgain, NotifyFirst
<1>2. CASE JobStep(t)
  BY <1>2 DEF JobStep,
    SlotObtained, WaitedInVain, WaitedAndBegins, WaitCancelled, MonitorCompleted,
    MonitorNotifies, MonitorStopped, MonitorLeaves, MonitorReleases, FreeSlot, HandlerDone,
    Spawn, NotifyCompleted, NotifyAgain, NotifyFirst
<1>3. CASE PruneStep(t)
  BY <1>3 DEF PruneStep,
    PruneStart, PruneDone, EvictLock, EvictRemove, EvictMissed, EvictSkip, EvictChoose
<1>4. CASE ResumeStep(t)
  BY <1>4 DEF ResumeStep,
    ResumeStart, ResumeAttach, ResumeWithoutMetadata, ResumeCancelled, ResumeSchedule,
    ResumeDone, ResumeEntry, MarkDownloadFailed, Spawn,
    Schedule, ScheduleBusy, ScheduleCached, ScheduleBegin, ScheduleWait
<1>5. CASE AdminStep(t)
  BY <1>5 DEF AdminStep,
    FetchMagnet, FetchDone, PauseSource, PauseTorrent, ResumeSource, UnpauseTorrent,
    RemoveSource, RemoveMetadata, RemoveDownloads, FilesOf, NewRequest
<1> QED BY <1>1, <1>2, <1>3, <1>4, <1>5 DEF ProcStep

\* ResumeTrackDownloads at start-up never meets a job: every file it has before it is
\* unscheduled, whatever the jobs it has started do meanwhile.
THEOREM StartUpMeetsNoJob ==
  ASSUME "pause" \notin Events
  PROVE  Spec => []StartUp
<1> USE DEF StartUp, NothingScheduled, NoRequests, RunBehindJobs, RunAlone, Scheduled, RecordPC,
  ResumePC
<1>1. Init => StartUp
  BY DEF Init, Idle
<1>2. ASSUME IInv, StartUp, [Next]_vars PROVE StartUp'
  <2> USE DEF disk, data, client, jobs, counts, procs
  <2>1. CASE \E t \in Procs : ProcStep(t)
    BY <1>2, <2>1, StartUpStep DEF IInv
  <2>2. CASE Restart
    BY <2>2 DEF Restart, Idle
  <2>3. CASE \/ \E f \in Files : Piece(f)
             \/ \E s \in Sources : ImportSource(s) \/ ReadCatalog(s) \/ PinSource(s)
             \/ Dashboard
    BY <1>2, <2>3 DEF Piece, ImportSource, ReadCatalog, PinSource, Dashboard, TrackDownloads
  <2>4. CASE CloseBegin \/ CloseDrained \/ CloseClient \/ CloseHandled
    BY <1>2, <2>4 DEF CloseBegin, CloseDrained, CloseClient, CloseHandled
  <2>5. CASE UNCHANGED vars
    BY <1>2, <2>5 DEF vars
  <2> QED BY <1>2, <2>1, <2>2, <2>3, <2>4, <2>5 DEF Next
<1> QED BY <1>1, <1>2, InvariantHolds, PTL DEF Spec

-----------------------------------------------------------------------------
\* Jobs, their records and their handlers.

\* Every job is in the map of its kind, every entry of a map has its job, a file has one
\* job of a kind, and no file has both.
MonitorPC == {"monitor", "completed", "leaving"}
JobsKnown ==
  \A t \in Procs : /\ pc[t] = "waiting" => file[t] \in pendingDownloads
                   /\ pc[t] \in MonitorPC => file[t] \in activeDownloads
JobsManned ==
  /\ \A f \in pendingDownloads : \E t \in Procs : pc[t] = "waiting" /\ file[t] = f
  /\ \A f \in activeDownloads : \E t \in Procs : pc[t] \in MonitorPC /\ file[t] = f
JobsSingle ==
  \A t, u \in Procs :
    /\ pc[t] = "waiting" /\ pc[u] = "waiting" /\ file[t] = file[u] => t = u
    /\ pc[t] \in MonitorPC /\ pc[u] \in MonitorPC /\ file[t] = file[u] => t = u
JobsApart == activeDownloads \cap pendingDownloads = {}

\* A file whose completion is about to be signalled is complete, and one with a handler
\* is complete and signalled.
Finished ==
  \A t \in Procs : /\ pc[t] \in {"completed", "handler"} => Complete(file[t])
                   /\ pc[t] = "handler" => file[t] \in completed

\* The source of a stream, of a job and of a request in progress has its metadata.
MetadataKept ==
  \A t \in Procs : pc[t] \in RefPC \cup {"opening", "prepared", "attached", "queued", "resumeAttached"}
                     => SourceFile(t) \in metadata

\* As long as records can be written, what memory says of a job is what a restart will find.
RecordsPersisted ==
  "full" \in Events \/ \A f \in Files : downloads[f] # None => record[f] = downloads[f]

\* ResumeTrackDownloads fails a record whose job runs only if its context is cancelled, and
\* meets such a job only where sources are paused and resumed.
ResumableUnlessCancelled ==
  {"pause", "cancel"} \subseteq Events \/ "full" \in Events \/ JobsResumable

JInv ==
  /\ JobsKnown /\ JobsManned /\ JobsSingle /\ JobsApart
  /\ Finished /\ HandlersSafe
  /\ RecordsPersisted
  /\ MetadataKept
  /\ ResumableUnlessCancelled

\* persistDownloadLocked follows every change of a record in memory.
LEMMA RecordsPersistedStep ==
  ASSUME TypeOK, RecordsPersisted, NEW t \in Procs, ProcStep(t)
  PROVE  RecordsPersisted'
<1> USE ConstantsAssumption DEF TypeOK, Goto, Finish, ReleaseThen, SourceFile, Procs
<1> USE DEF FreePC, FilePC, ReadPC, WritePC, RefPC, SlotPC, StreamPC, PrunePC
<1> USE DEF disk, data, client, jobs, counts, procs
<1> USE DEF RecordsPersisted, SetState, None, States, Unfinished
<1>1. CASE RequestStep(t)
  BY <1>1 DEF RequestStep,
    Open, OpenPrepared, Attach, OpenCancelled, QueueTrackDownload, RetainStream, ReadToEnd, CloseStream,
    Spawn, NewRequest, Schedule, ScheduleBusy, ScheduleCached, ScheduleBegin, ScheduleWait,
    NotifyCompleted, NotifyAgain, NotifyFirst
<1>2. CASE JobStep(t)
  BY <1>2 DEF JobStep,
    SlotObtained, WaitedInVain, WaitedAndBegins, WaitCancelled, MonitorCompleted,
    MonitorNotifies, MonitorStopped, MonitorLeaves, MonitorReleases, FreeSlot, HandlerDone,
    Spawn, NotifyCompleted, NotifyAgain, NotifyFirst
<1>3. CASE PruneStep(t)
  BY <1>3 DEF PruneStep,
    PruneStart, PruneDone, EvictLock, EvictRemove, EvictMissed, EvictSkip, EvictChoose
<1>4. CASE ResumeStep(t)
  BY <1>4 DEF ResumeStep,
    ResumeStart, ResumeAttach, ResumeWithoutMetadata, ResumeCancelled, ResumeSchedule,
    ResumeDone, ResumeEntry, MarkDownloadFailed, Spawn,
    Schedule, ScheduleBusy, ScheduleCached, ScheduleBegin, ScheduleWait
<1>5. CASE AdminStep(t)
  BY <1>5 DEF AdminStep,
    FetchMagnet, FetchDone, PauseSource, PauseTorrent, ResumeSource, UnpauseTorrent,
    RemoveSource, RemoveMetadata, RemoveDownloads, FilesOf, NewRequest
<1> QED BY <1>1, <1>2, <1>3, <1>4, <1>5 DEF ProcStep

\* RemoveSource takes the metadata only of a source that nobody uses.
LEMMA MetadataKeptStep ==
  ASSUME TypeOK, LockExclusion, RefsCounted, WritersAlone, MetadataKept, NEW t \in Procs, ProcStep(t)
  PROVE  MetadataKept'
<1> USE ConstantsAssumption DEF TypeOK, Goto, Finish, ReleaseThen, SourceFile, Procs
<1> USE DEF FreePC, FilePC, ReadPC, WritePC, RefPC, SlotPC, StreamPC, PrunePC
<1> USE DEF disk, data, client, jobs, counts, procs
<1> USE DEF MetadataKept, LockExclusion, RefsCounted, WritersAlone
<1>1. CASE RequestStep(t)
  BY <1>1 DEF RequestStep,
    Open, OpenPrepared, Attach, OpenCancelled, QueueTrackDownload, RetainStream, ReadToEnd, CloseStream,
    Spawn, NewRequest, Schedule, ScheduleBusy, ScheduleCached, ScheduleBegin, ScheduleWait,
    NotifyCompleted, NotifyAgain, NotifyFirst
<1>2. CASE JobStep(t)
  BY <1>2 DEF JobStep,
    SlotObtained, WaitedInVain, WaitedAndBegins, WaitCancelled, MonitorCompleted,
    MonitorNotifies, MonitorStopped, MonitorLeaves, MonitorReleases, FreeSlot, HandlerDone,
    Spawn, NotifyCompleted, NotifyAgain, NotifyFirst
<1>3. CASE PruneStep(t)
  BY <1>3 DEF PruneStep,
    PruneStart, PruneDone, EvictLock, EvictRemove, EvictMissed, EvictSkip, EvictChoose
<1>4. CASE ResumeStep(t)
  BY <1>4 DEF ResumeStep,
    ResumeStart, ResumeAttach, ResumeWithoutMetadata, ResumeCancelled, ResumeSchedule,
    ResumeDone, ResumeEntry, MarkDownloadFailed, Spawn,
    Schedule, ScheduleBusy, ScheduleCached, ScheduleBegin, ScheduleWait
<1>5. CASE AdminStep(t)
  BY <1>5 DEF AdminStep,
    FetchMagnet, FetchDone, PauseSource, PauseTorrent, ResumeSource, UnpauseTorrent,
    RemoveSource, RemoveMetadata, RemoveDownloads, FilesOf, NewRequest
<1> QED BY <1>1, <1>2, <1>3, <1>4, <1>5 DEF ProcStep

\* The maps of the jobs follow the goroutines that run them.
LEMMA JobsKnownStep ==
  ASSUME TypeOK, RefsCounted, WritersAlone, JobsKnown, JobsSingle, NEW t \in Procs, ProcStep(t)
  PROVE  JobsKnown'
<1> USE ConstantsAssumption DEF TypeOK, Goto, Finish, ReleaseThen, SourceFile, Procs
<1> USE DEF FreePC, FilePC, ReadPC, WritePC, RefPC, SlotPC, StreamPC, PrunePC
<1> USE DEF disk, data, client, jobs, counts, procs
<1> USE DEF MonitorPC, JobsKnown, JobsSingle, RefsCounted, WritersAlone, Busy
<1>1. CASE RequestStep(t)
  BY <1>1 DEF RequestStep,
    Open, OpenPrepared, Attach, OpenCancelled, QueueTrackDownload, RetainStream, ReadToEnd, CloseStream,
    Spawn, NewRequest, Schedule, ScheduleBusy, ScheduleCached, ScheduleBegin, ScheduleWait,
    NotifyCompleted, NotifyAgain, NotifyFirst
<1>2. CASE JobStep(t)
  BY <1>2 DEF JobStep,
    SlotObtained, WaitedInVain, WaitedAndBegins, WaitCancelled, MonitorCompleted,
    MonitorNotifies, MonitorStopped, MonitorLeaves, MonitorReleases, FreeSlot, HandlerDone,
    Spawn, NotifyCompleted, NotifyAgain, NotifyFirst
<1>3. CASE PruneStep(t)
  BY <1>3 DEF PruneStep,
    PruneStart, PruneDone, EvictLock, EvictRemove, EvictMissed, EvictSkip, EvictChoose
<1>4. CASE ResumeStep(t)
  BY <1>4 DEF ResumeStep,
    ResumeStart, ResumeAttach, ResumeWithoutMetadata, ResumeCancelled, ResumeSchedule,
    ResumeDone, ResumeEntry, MarkDownloadFailed, Spawn,
    Schedule, ScheduleBusy, ScheduleCached, ScheduleBegin, ScheduleWait
<1>5. CASE AdminStep(t)
  BY <1>5 DEF AdminStep,
    FetchMagnet, FetchDone, PauseSource, PauseTorrent, ResumeSource, UnpauseTorrent,
    RemoveSource, RemoveMetadata, RemoveDownloads, FilesOf, NewRequest
<1> QED BY <1>1, <1>2, <1>3, <1>4, <1>5 DEF ProcStep

\* A job is started only for a file that has none.
LEMMA JobsSingleStep ==
  ASSUME TypeOK, JobsKnown, JobsSingle, JobsApart, NEW t \in Procs, ProcStep(t)
  PROVE  JobsSingle'
<1> USE ConstantsAssumption DEF TypeOK, Goto, Finish, ReleaseThen, SourceFile, Procs
<1> USE DEF FreePC, FilePC, ReadPC, WritePC, RefPC, SlotPC, StreamPC, PrunePC
<1> USE DEF disk, data, client, jobs, counts, procs
<1> USE DEF MonitorPC, JobsKnown, JobsSingle, JobsApart, Busy
<1>1. CASE RequestStep(t)
  BY <1>1 DEF RequestStep,
    Open, OpenPrepared, Attach, OpenCancelled, QueueTrackDownload, RetainStream, ReadToEnd, CloseStream,
    Spawn, NewRequest, Schedule, ScheduleBusy, ScheduleCached, ScheduleBegin, ScheduleWait,
    NotifyCompleted, NotifyAgain, NotifyFirst
<1>2. CASE JobStep(t)
  BY <1>2 DEF JobStep,
    SlotObtained, WaitedInVain, WaitedAndBegins, WaitCancelled, MonitorCompleted,
    MonitorNotifies, MonitorStopped, MonitorLeaves, MonitorReleases, FreeSlot, HandlerDone,
    Spawn, NotifyCompleted, NotifyAgain, NotifyFirst
<1>3. CASE PruneStep(t)
  BY <1>3 DEF PruneStep,
    PruneStart, PruneDone, EvictLock, EvictRemove, EvictMissed, EvictSkip, EvictChoose
<1>4. CASE ResumeStep(t)
  BY <1>4 DEF ResumeStep,
    ResumeStart, ResumeAttach, ResumeWithoutMetadata, ResumeCancelled, ResumeSchedule,
    ResumeDone, ResumeEntry, MarkDownloadFailed, Spawn,
    Schedule, ScheduleBusy, ScheduleCached, ScheduleBegin, ScheduleWait
<1>5. CASE AdminStep(t)
  BY <1>5 DEF AdminStep,
    FetchMagnet, FetchDone, PauseSource, PauseTorrent, ResumeSource, UnpauseTorrent,
    RemoveSource, RemoveMetadata, RemoveDownloads, FilesOf, NewRequest
<1> QED BY <1>1, <1>2, <1>3, <1>4, <1>5 DEF ProcStep

\* A job is moved from one map to the other, never added to both.
LEMMA JobsApartStep ==
  ASSUME TypeOK, JobsApart, NEW t \in Procs, ProcStep(t)
  PROVE  JobsApart'
<1> USE ConstantsAssumption DEF TypeOK, Goto, Finish, ReleaseThen, SourceFile, Procs
<1> USE DEF FreePC, FilePC, ReadPC, WritePC, RefPC, SlotPC, StreamPC, PrunePC
<1> USE DEF disk, data, client, jobs, counts, procs
<1> USE DEF JobsApart, Busy
<1>1. CASE RequestStep(t)
  BY <1>1 DEF RequestStep,
    Open, OpenPrepared, Attach, OpenCancelled, QueueTrackDownload, RetainStream, ReadToEnd, CloseStream,
    Spawn, NewRequest, Schedule, ScheduleBusy, ScheduleCached, ScheduleBegin, ScheduleWait,
    NotifyCompleted, NotifyAgain, NotifyFirst
<1>2. CASE JobStep(t)
  BY <1>2 DEF JobStep,
    SlotObtained, WaitedInVain, WaitedAndBegins, WaitCancelled, MonitorCompleted,
    MonitorNotifies, MonitorStopped, MonitorLeaves, MonitorReleases, FreeSlot, HandlerDone,
    Spawn, NotifyCompleted, NotifyAgain, NotifyFirst
<1>3. CASE PruneStep(t)
  BY <1>3 DEF PruneStep,
    PruneStart, PruneDone, EvictLock, EvictRemove, EvictMissed, EvictSkip, EvictChoose
<1>4. CASE ResumeStep(t)
  BY <1>4 DEF ResumeStep,
    ResumeStart, ResumeAttach, ResumeWithoutMetadata, ResumeCancelled, ResumeSchedule,
    ResumeDone, ResumeEntry, MarkDownloadFailed, Spawn,
    Schedule, ScheduleBusy, ScheduleCached, ScheduleBegin, ScheduleWait
<1>5. CASE AdminStep(t)
  BY <1>5 DEF AdminStep,
    FetchMagnet, FetchDone, PauseSource, PauseTorrent, ResumeSource, UnpauseTorrent,
    RemoveSource, RemoveMetadata, RemoveDownloads, FilesOf, NewRequest
<1> QED BY <1>1, <1>2, <1>3, <1>4, <1>5 DEF ProcStep

\* A job that ends leaves the map it is in.
LEMMA JobsMannedStep ==
  ASSUME TypeOK, JobsKnown, JobsSingle, JobsManned, NEW t \in Procs, ProcStep(t)
  PROVE  JobsManned'
<1> USE ConstantsAssumption DEF TypeOK, Goto, Finish, ReleaseThen, SourceFile, Procs
<1> USE DEF FreePC, FilePC, ReadPC, WritePC, RefPC, SlotPC, StreamPC, PrunePC
<1> USE DEF disk, data, client, jobs, counts, procs
<1> USE DEF MonitorPC, JobsKnown, JobsSingle, JobsManned, Busy
<1>1. CASE RequestStep(t)
  BY <1>1 DEF RequestStep,
    Open, OpenPrepared, Attach, OpenCancelled, QueueTrackDownload, RetainStream, ReadToEnd, CloseStream,
    Spawn, NewRequest, Schedule, ScheduleBusy, ScheduleCached, ScheduleBegin, ScheduleWait,
    NotifyCompleted, NotifyAgain, NotifyFirst
<1>2. CASE JobStep(t)
  BY <1>2 DEF JobStep,
    SlotObtained, WaitedInVain, WaitedAndBegins, WaitCancelled, MonitorCompleted,
    MonitorNotifies, MonitorStopped, MonitorLeaves, MonitorReleases, FreeSlot, HandlerDone,
    Spawn, NotifyCompleted, NotifyAgain, NotifyFirst
<1>3. CASE PruneStep(t)
  BY <1>3 DEF PruneStep,
    PruneStart, PruneDone, EvictLock, EvictRemove, EvictMissed, EvictSkip, EvictChoose
<1>4. CASE ResumeStep(t)
  BY <1>4 DEF ResumeStep,
    ResumeStart, ResumeAttach, ResumeWithoutMetadata, ResumeCancelled, ResumeSchedule,
    ResumeDone, ResumeEntry, MarkDownloadFailed, Spawn,
    Schedule, ScheduleBusy, ScheduleCached, ScheduleBegin, ScheduleWait
<1>5. CASE AdminStep(t)
  BY <1>5 DEF AdminStep,
    FetchMagnet, FetchDone, PauseSource, PauseTorrent, ResumeSource, UnpauseTorrent,
    RemoveSource, RemoveMetadata, RemoveDownloads, FilesOf, NewRequest
<1> QED BY <1>1, <1>2, <1>3, <1>4, <1>5 DEF ProcStep

\* The data of a completed file stays as long as its handler, or the monitor that will
\* start it, holds a reference.
LEMMA FinishedStep ==
  ASSUME TypeOK, FlatEmpty, RefsCounted, WritersAlone, Finished, NEW t \in Procs, ProcStep(t)
  PROVE  Finished'
<1> USE ConstantsAssumption DEF TypeOK, Goto, Finish, ReleaseThen, SourceFile, Procs
<1> USE DEF FreePC, FilePC, ReadPC, WritePC, RefPC, SlotPC, StreamPC, PrunePC
<1> USE DEF disk, data, client, jobs, counts, procs
<1> USE DEF Finished, RefsCounted, WritersAlone, Complete, Signalled
<1>1. CASE RequestStep(t)
  <2>1. \A f \in Files : have[f] = Size => have'[f] = Size
    BY <1>1, RequestKeepsComplete
  <2> QED BY <1>1, <2>1 DEF RequestStep,
    Open, OpenPrepared, Attach, OpenCancelled, QueueTrackDownload, RetainStream, ReadToEnd, CloseStream,
    Spawn, NewRequest, Schedule, ScheduleBusy, ScheduleCached, ScheduleBegin, ScheduleWait,
    NotifyCompleted, NotifyAgain, NotifyFirst
<1>2. CASE JobStep(t)
  BY <1>2 DEF JobStep,
    SlotObtained, WaitedInVain, WaitedAndBegins, WaitCancelled, MonitorCompleted,
    MonitorNotifies, MonitorStopped, MonitorLeaves, MonitorReleases, FreeSlot, HandlerDone,
    Spawn, NotifyCompleted, NotifyAgain, NotifyFirst
<1>3. CASE PruneStep(t)
  BY <1>3 DEF PruneStep,
    PruneStart, PruneDone, EvictLock, EvictRemove, EvictMissed, EvictSkip, EvictChoose
<1>4. CASE ResumeStep(t)
  BY <1>4 DEF ResumeStep,
    ResumeStart, ResumeAttach, ResumeWithoutMetadata, ResumeCancelled, ResumeSchedule,
    ResumeDone, ResumeEntry, MarkDownloadFailed, Spawn,
    Schedule, ScheduleBusy, ScheduleCached, ScheduleBegin, ScheduleWait
<1>5. CASE AdminStep(t)
  BY <1>5 DEF AdminStep,
    FetchMagnet, FetchDone, PauseSource, PauseTorrent, ResumeSource, UnpauseTorrent,
    RemoveSource, RemoveMetadata, RemoveDownloads, FilesOf, NewRequest
<1> QED BY <1>1, <1>2, <1>3, <1>4, <1>5 DEF ProcStep

\* A completion is signalled again only after the data has gone, and with it the handler.
LEMMA HandlersSafeStep ==
  ASSUME TypeOK, Finished, HandlersSafe, Finished', NEW t \in Procs, ProcStep(t)
  PROVE  HandlersSafe'
<1> USE ConstantsAssumption DEF TypeOK, Goto, Finish, ReleaseThen, SourceFile, Procs
<1> USE DEF FreePC, FilePC, ReadPC, WritePC, RefPC, SlotPC, StreamPC, PrunePC
<1> USE DEF disk, data, client, jobs, counts, procs
<1> USE DEF Finished, HandlersSafe, Signalled
<1>1. CASE RequestStep(t)
  BY <1>1 DEF RequestStep,
    Open, OpenPrepared, Attach, OpenCancelled, QueueTrackDownload, RetainStream, ReadToEnd, CloseStream,
    Spawn, NewRequest, Schedule, ScheduleBusy, ScheduleCached, ScheduleBegin, ScheduleWait,
    NotifyCompleted, NotifyAgain, NotifyFirst
<1>2. CASE JobStep(t)
  BY <1>2 DEF JobStep,
    SlotObtained, WaitedInVain, WaitedAndBegins, WaitCancelled, MonitorCompleted,
    MonitorNotifies, MonitorStopped, MonitorLeaves, MonitorReleases, FreeSlot, HandlerDone,
    Spawn, NotifyCompleted, NotifyAgain, NotifyFirst
<1>3. CASE PruneStep(t)
  BY <1>3 DEF PruneStep,
    PruneStart, PruneDone, EvictLock, EvictRemove, EvictMissed, EvictSkip, EvictChoose
<1>4. CASE ResumeStep(t)
  BY <1>4 DEF ResumeStep,
    ResumeStart, ResumeAttach, ResumeWithoutMetadata, ResumeCancelled, ResumeSchedule,
    ResumeDone, ResumeEntry, MarkDownloadFailed, Spawn,
    Schedule, ScheduleBusy, ScheduleCached, ScheduleBegin, ScheduleWait
<1>5. CASE AdminStep(t)
  BY <1>5 DEF AdminStep,
    FetchMagnet, FetchDone, PauseSource, PauseTorrent, ResumeSource, UnpauseTorrent,
    RemoveSource, RemoveMetadata, RemoveDownloads, FilesOf, NewRequest
<1> QED BY <1>1, <1>2, <1>3, <1>4, <1>5 DEF ProcStep

\* A file with a job has a goroutine that holds its source, and so has its metadata, its
\* record and its data.
LEMMA JobsHold ==
  ASSUME TypeOK, RefsCounted, JobsHaveRecords, MetadataKept, JobsManned,
         NEW f \in activeDownloads \cup pendingDownloads
  PROVE  f \in Files /\ downloads[f] # None /\ SourceOf[f] \in metadata /\ active[SourceOf[f]] > 0
<1>1. PICK t \in Procs : pc[t] \in MonitorPC \cup {"waiting"} /\ file[t] = f
  BY DEF JobsManned
<1> QED
  BY <1>1 DEF TypeOK, RefsCounted, JobsHaveRecords, MetadataKept, MonitorPC, RefPC, SourceFile

\* A job ends with its file complete, or leaves its record unfinished for the next process.
LEMMA ResumableStep ==
  ASSUME TypeOK, WritersAlone, JobsApart, JobsKnown, RecordsPersisted,
         \A f \in activeDownloads \cup pendingDownloads :
           downloads[f] # None /\ SourceOf[f] \in metadata /\ active[SourceOf[f]] > 0,
         "cancel" \in Events => RunBehindJobs, JobsResumable, FlatEmpty, "full" \notin Events,
         NEW t \in Procs, ProcStep(t)
  PROVE  JobsResumable'
<1> USE ConstantsAssumption DEF TypeOK, Goto, Finish, ReleaseThen, SourceFile, Procs
<1> USE DEF FreePC, FilePC, ReadPC, WritePC, RefPC, SlotPC, StreamPC, PrunePC
<1> USE DEF disk, data, client, jobs, counts, procs
<1> USE DEF JobsResumable, WritersAlone, JobsApart, JobsKnown, RecordsPersisted, SetState,
   Complete,
  Unfinished, States, None, MonitorPC, Busy, RunBehindJobs, RecordPC, ResumePC, Scheduled
<1>1. CASE RequestStep(t)
  <2>1. \A f \in Files : have[f] = Size => have'[f] = Size
    BY <1>1, RequestKeepsComplete
  <2> QED BY <1>1, <2>1 DEF RequestStep,
    Open, OpenPrepared, Attach, OpenCancelled, QueueTrackDownload, RetainStream, ReadToEnd, CloseStream,
    Spawn, NewRequest, Schedule, ScheduleBusy, ScheduleCached, ScheduleBegin, ScheduleWait,
    NotifyCompleted, NotifyAgain, NotifyFirst
<1>2. CASE JobStep(t)
  BY <1>2 DEF JobStep,
    SlotObtained, WaitedInVain, WaitedAndBegins, WaitCancelled, MonitorCompleted,
    MonitorNotifies, MonitorStopped, MonitorLeaves, MonitorReleases, FreeSlot, HandlerDone,
    Spawn, NotifyCompleted, NotifyAgain, NotifyFirst
<1>3. CASE PruneStep(t)
  BY <1>3 DEF PruneStep,
    PruneStart, PruneDone, EvictLock, EvictRemove, EvictMissed, EvictSkip, EvictChoose
<1>4. CASE ResumeStep(t)
  BY <1>4 DEF ResumeStep,
    ResumeStart, ResumeAttach, ResumeWithoutMetadata, ResumeCancelled, ResumeSchedule,
    ResumeDone, ResumeEntry, MarkDownloadFailed, Spawn,
    Schedule, ScheduleBusy, ScheduleCached, ScheduleBegin, ScheduleWait
<1>5. CASE AdminStep(t)
  BY <1>5 DEF AdminStep,
    FetchMagnet, FetchDone, PauseSource, PauseTorrent, ResumeSource, UnpauseTorrent,
    RemoveSource, RemoveMetadata, RemoveDownloads, FilesOf, NewRequest
<1> QED BY <1>1, <1>2, <1>3, <1>4, <1>5 DEF ProcStep

\* The records on disk and an empty memory satisfy the invariant.
LEMMA InitJInv == Init => JInv
BY DEF Init, Idle, JInv, JobsKnown, JobsManned, JobsSingle, JobsApart, MonitorPC, Finished,
       HandlersSafe, RecordsPersisted, None, MetadataKept, RefPC, StreamPC,
       ResumableUnlessCancelled, JobsResumable

\* A step of one goroutine preserves it.
LEMMA ProcJInv ==
  ASSUME IInv, JInv, "pause" \in Events \/ StartUp, NEW t \in Procs, ProcStep(t)
  PROVE  JInv'
<1> USE DEF IInv, JInv
<1>1. RefsCounted
  BY CountersPositive
<1>2. JobsKnown' /\ JobsManned' /\ JobsSingle' /\ JobsApart'
  BY <1>1, JobsKnownStep, JobsMannedStep, JobsSingleStep, JobsApartStep
<1>3. Finished' /\ HandlersSafe'
  BY <1>1, FinishedStep, HandlersSafeStep
<1>4. RecordsPersisted' /\ MetadataKept'
  BY <1>1, RecordsPersistedStep, MetadataKeptStep
<1>5. \A f \in activeDownloads \cup pendingDownloads :
        downloads[f] # None /\ SourceOf[f] \in metadata /\ active[SourceOf[f]] > 0
  BY <1>1, JobsHold
<1>6. ResumableUnlessCancelled'
  BY <1>5, ResumableStep DEF ResumableUnlessCancelled, StartUp
<1> QED BY <1>2, <1>3, <1>4, <1>6

\* What the invariant says of jobs and handlers depends on their maps and goroutines.
LEMMA QuietJobs ==
  ASSUME JInv, UNCHANGED <<pc, file, activeDownloads, pendingDownloads, completed>>,
         \A f \in Files : have[f] = Size => have'[f] = Size, TypeOK
  PROVE  JobsKnown' /\ JobsManned' /\ JobsSingle' /\ JobsApart' /\ Finished' /\ HandlersSafe'
<1>1. JobsKnown' /\ JobsManned' /\ JobsSingle' /\ JobsApart'
  BY DEF JInv, JobsKnown, JobsManned, JobsSingle, JobsApart
<1>2. Finished' /\ HandlersSafe'
  BY DEF JInv, Finished, HandlersSafe, Complete, TypeOK, FilePC, RefPC, SlotPC, FreePC
<1> QED BY <1>1, <1>2

\* So do the steps of the swarm, of the importers, of the dashboard and of Close.
LEMMA QuietJInv ==
  ASSUME IInv, JInv,
         \/ \E f \in Files : Piece(f)
         \/ \E s \in Sources : ImportSource(s) \/ ReadCatalog(s) \/ PinSource(s)
         \/ Dashboard \/ CloseBegin \/ CloseDrained \/ CloseClient \/ CloseHandled
  PROVE  JInv'
<1> USE DEF disk, data, client, jobs, counts, procs
<1>1. TypeOK /\ FlatEmpty /\ RefsCounted
  BY CountersPositive DEF IInv
<1>2. UNCHANGED <<pc, file, activeDownloads, pendingDownloads, completed>>
  BY DEF Piece, ImportSource, ReadCatalog, PinSource, Dashboard, TrackDownloads, CloseBegin,
     CloseDrained, CloseClient, CloseHandled
<1>3. \A f \in Files : have[f] = Size => have'[f] = Size
  <2>1. ASSUME NEW s \in Sources, ReadCatalog(s)
        PROVE  \A f \in Files : have'[f] >= have[f] /\ have'[f] \in 0..Size
    <3>1. DataMoved
      BY <1>1, <2>1, MigrationMoves DEF ReadCatalog
    <3> QED BY <3>1 DEF DataMoved, FlatEmpty
  <2>2. CASE \E s \in Sources : ReadCatalog(s)
    BY <1>1, <2>1, <2>2, ConstantsAssumption DEF TypeOK
  <2>3. CASE ~\E s \in Sources : ReadCatalog(s)
    BY <1>1, <2>3, ConstantsAssumption
    DEF TypeOK, Piece, ImportSource, PinSource, Dashboard, TrackDownloads, CloseBegin,
        CloseDrained, CloseClient, CloseHandled
  <2> QED BY <2>2, <2>3
<1>4. metadata \subseteq metadata'
  BY DEF Piece, ImportSource, ReadCatalog, PinSource, Dashboard, TrackDownloads, CloseBegin,
     CloseDrained, CloseClient, CloseHandled
<1>5. JobsKnown' /\ JobsManned' /\ JobsSingle' /\ JobsApart' /\ Finished' /\ HandlersSafe'
  BY <1>1, <1>2, <1>3, QuietJobs
<1>6. MetadataKept'
  BY <1>2, <1>4 DEF JInv, MetadataKept, SourceFile
<1>7. CASE Dashboard
  <2>0. PICK seen \in SUBSET Files, unsaved \in SUBSET Files : TrackDownloads(seen, unsaved)
    BY <1>7 DEF Dashboard
  <2>1. RecordsPersisted'
    BY <1>1, <2>0 DEF TrackDownloads, TypeOK, JInv, RecordsPersisted, Refreshed, None
  <2>2. ASSUME NEW f \in activeDownloads \cup pendingDownloads, JobsResumable,
               "full" \notin Events
        PROVE  \/ record'[f] \in Unfinished
               \/ f \in activeDownloads /\ record'[f] = "cached" /\ Complete(f)
    <3>1. f \in Files /\ downloads[f] # None
      BY <1>1, JobsHold DEF IInv, JInv
    <3>2. record'[f] \in {record[f], Refreshed(f)} /\ record[f] = downloads[f]
      BY <2>0, <2>2, <3>1 DEF TrackDownloads, JInv, RecordsPersisted
    <3> QED BY <2>2, <3>1, <3>2 DEF Refreshed, JobsResumable, Unfinished
  <2>3. ResumableUnlessCancelled'
    BY <1>2, <2>0, <2>2 DEF JInv, ResumableUnlessCancelled, JobsResumable, TrackDownloads,
       Complete
  <2> QED BY <1>5, <1>6, <2>1, <2>3 DEF JInv
<1>8. CASE ~Dashboard
  <2>1. UNCHANGED <<downloads, record>>
    BY <1>8 DEF Piece, ImportSource, ReadCatalog, PinSource, CloseBegin, CloseDrained,
       CloseClient, CloseHandled
  <2>2. RecordsPersisted'
    BY <2>1 DEF JInv, RecordsPersisted
  <2>3. ResumableUnlessCancelled'
    BY <1>1, <1>2, <1>3, <2>1 DEF JInv, ResumableUnlessCancelled, JobsResumable, Complete, TypeOK
  <2> QED BY <1>5, <1>6, <2>2, <2>3 DEF JInv
<1> QED BY <1>7, <1>8

\* A restart empties the maps and keeps the records.
LEMMA RestartJInv == ASSUME Restart PROVE JInv'
BY DEF Restart, Idle, JInv, JobsKnown, JobsManned, JobsSingle, JobsApart, MonitorPC, Finished,
       HandlersSafe, RecordsPersisted, None, MetadataKept, RefPC, StreamPC,
       ResumableUnlessCancelled, JobsResumable

\* A step that changes no variable preserves the invariant.
LEMMA StutterJInv == ASSUME IInv, JInv, UNCHANGED vars PROVE JInv'
<1> USE DEF vars, disk, data, client, jobs, counts, procs
<1>1. JobsKnown' /\ JobsManned' /\ JobsSingle' /\ JobsApart' /\ Finished' /\ HandlersSafe'
  BY QuietJobs DEF IInv
<1>2. RecordsPersisted' /\ MetadataKept' /\ ResumableUnlessCancelled'
  BY DEF JInv, RecordsPersisted, MetadataKept, SourceFile, ResumableUnlessCancelled,
     JobsResumable,
         Complete
<1> QED BY <1>1, <1>2 DEF JInv

\* The maps of jobs, the goroutines that run them, the records and the data agree in every
\* reachable state.
THEOREM JobsAgree == Spec => []JInv
<1>1. IInv /\ JInv /\ ("pause" \in Events \/ StartUp) /\ [Next]_vars => JInv'
  BY ProcJInv, QuietJInv, RestartJInv, StutterJInv DEF Next
<1>2. CASE "pause" \in Events
  <2>1. IInv /\ JInv /\ [Next]_vars => JInv'
    BY <1>1, <1>2
  <2> QED BY <2>1, InitJInv, InvariantHolds, PTL DEF Spec
<1>3. CASE "pause" \notin Events
  <2>1. IInv /\ JInv /\ StartUp /\ [Next]_vars => JInv'
    BY <1>1
  <2>2. Spec => []StartUp
    BY <1>3, StartUpMeetsNoJob
  <2> QED BY <2>1, <2>2, InitJInv, InvariantHolds, PTL DEF Spec
<1> QED BY <1>2, <1>3

\* A file has at most one job, waiting or running, and the two maps say exactly which: no
\* interleaving of scheduling, slots, cancellation, eviction and removal starts a second one
\* or leaves an entry without its goroutine.
THEOREM JobsAreSingle == Spec => []OneJob
<1>1. ASSUME JInv, NEW f \in Files
      PROVE  /\ f \notin activeDownloads \cap pendingDownloads
             /\ Cardinality(Waiters(f)) = IF f \in pendingDownloads THEN 1 ELSE 0
             /\ Cardinality(Monitors(f)) = IF f \in activeDownloads THEN 1 ELSE 0
  <2> USE <1>1 DEF JInv
  <2>1. Cardinality({}) = 0 /\ \A x : Cardinality({x}) = 1
    BY FS_EmptySet, FS_Singleton
  <2>2. f \notin activeDownloads \cap pendingDownloads
    BY DEF JobsApart
  <2>3. ASSUME f \in pendingDownloads PROVE Cardinality(Waiters(f)) = 1
    <3>1. PICK t \in Procs : pc[t] = "waiting" /\ file[t] = f
      BY <2>3 DEF JobsManned
    <3>2. Waiters(f) = {t}
      BY <3>1 DEF Waiters, JobsSingle
    <3> QED BY <2>1, <2>3, <3>2
  <2>4. ASSUME f \notin pendingDownloads PROVE Cardinality(Waiters(f)) = 0
    <3>1. Waiters(f) = {}
      BY <2>4 DEF Waiters, JobsKnown
    <3> QED BY <2>1, <2>4, <3>1
  <2>5. ASSUME f \in activeDownloads PROVE Cardinality(Monitors(f)) = 1
    <3>1. PICK t \in Procs : pc[t] \in MonitorPC /\ file[t] = f
      BY <2>5 DEF JobsManned
    <3>2. Monitors(f) = {t}
      BY <3>1 DEF Monitors, JobsSingle, MonitorPC
    <3> QED BY <2>1, <2>5, <3>2
  <2>6. ASSUME f \notin activeDownloads PROVE Cardinality(Monitors(f)) = 0
    <3>1. Monitors(f) = {}
      BY <2>6 DEF Monitors, JobsKnown, MonitorPC
    <3> QED BY <2>1, <2>6, <3>1
  <2>7. Cardinality(Waiters(f)) = IF f \in pendingDownloads THEN 1 ELSE 0
    BY <2>3, <2>4
  <2>8. Cardinality(Monitors(f)) = IF f \in activeDownloads THEN 1 ELSE 0
    BY <2>5, <2>6
  <2> QED BY <2>2, <2>7, <2>8
<1>2. JInv => OneJob
  BY <1>1 DEF OneJob
<1> QED BY <1>2, JobsAgree, PTL

\* A completion handler, which reads the file long after the monitor has left, always finds
\* it complete, and never has a second handler beside it.
THEOREM HandlersAreSafe == Spec => []HandlersSafe
BY JobsAgree, PTL DEF JInv

\* A crash at any moment leaves a job unfinished on disk, or its file complete, unless sources
\* are resumed and that request is cancelled: a cancelled run of ResumeTrackDownloads fails the
\* record it is at, also when a job for it is running already.  The run at start-up may be
\* cancelled freely.
THEOREM JobsAreResumable ==
  ASSUME "full" \notin Events, "pause" \notin Events \/ "cancel" \notin Events
  PROVE  Spec => []JobsResumable
<1>1. JInv => JobsResumable
  BY DEF JInv, ResumableUnlessCancelled
<1> QED BY <1>1, JobsAgree, PTL

-----------------------------------------------------------------------------
\* What is shown as waiting or downloading is carried out.

\* Before ResumeTrackDownloads has listed the records, memory has none of them and nobody
\* serves a request.
NothingLoaded ==
  phase = "starting" =>
    /\ \A f \in Files : downloads[f] = None
    /\ \A t \in Procs : after[t] = "idle" /\ pc[t] \in PrunePC \cup {"idle", "fetching"}

\* A monitor leaves a finished record behind, unless the provider is closing.
MonitorsFinish ==
  \A t \in Procs : pc[t] \in {"completed", "leaving"} =>
    downloads[file[t]] \notin Unfinished \/ Closing

\* A record without a job is on disk as it is in memory: the next run lists it.
IdleRecorded ==
  \A f \in Files : downloads[f] \in Unfinished =>
    Busy(f) \/ record[f] \in Unfinished \/ Closing

CInv == NothingLoaded /\ MonitorsFinish /\ IdleRecorded /\ DownloadsCarriedOut

\* Nothing is loaded or served before the run at start-up.
LEMMA NothingLoadedStep ==
  ASSUME TypeOK, NothingLoaded, NEW t \in Procs, ProcStep(t)
  PROVE  NothingLoaded'
<1> USE ConstantsAssumption DEF TypeOK, Goto, Finish, ReleaseThen, SourceFile, Procs
<1> USE DEF FreePC, FilePC, ReadPC, WritePC, RefPC, SlotPC, StreamPC, PrunePC
<1> USE DEF disk, data, client, jobs, counts, procs
<1> USE DEF NothingLoaded, SetState, None
<1>1. CASE RequestStep(t)
  BY <1>1 DEF RequestStep,
    Open, OpenPrepared, Attach, OpenCancelled, QueueTrackDownload, RetainStream, ReadToEnd, CloseStream,
    Spawn, NewRequest, Schedule, ScheduleBusy, ScheduleCached, ScheduleBegin, ScheduleWait,
    NotifyCompleted, NotifyAgain, NotifyFirst
<1>2. CASE JobStep(t)
  BY <1>2 DEF JobStep,
    SlotObtained, WaitedInVain, WaitedAndBegins, WaitCancelled, MonitorCompleted,
    MonitorNotifies, MonitorStopped, MonitorLeaves, MonitorReleases, FreeSlot, HandlerDone,
    Spawn, NotifyCompleted, NotifyAgain, NotifyFirst
<1>3. CASE PruneStep(t)
  BY <1>3 DEF PruneStep,
    PruneStart, PruneDone, EvictLock, EvictRemove, EvictMissed, EvictSkip, EvictChoose
<1>4. CASE ResumeStep(t)
  BY <1>4 DEF ResumeStep,
    ResumeStart, ResumeAttach, ResumeWithoutMetadata, ResumeCancelled, ResumeSchedule,
    ResumeDone, ResumeEntry, MarkDownloadFailed, Spawn,
    Schedule, ScheduleBusy, ScheduleCached, ScheduleBegin, ScheduleWait
<1>5. CASE AdminStep(t)
  BY <1>5 DEF AdminStep,
    FetchMagnet, FetchDone, PauseSource, PauseTorrent, ResumeSource, UnpauseTorrent,
    RemoveSource, RemoveMetadata, RemoveDownloads, FilesOf, NewRequest
<1> QED BY <1>1, <1>2, <1>3, <1>4, <1>5 DEF ProcStep

\* A job that has completed its file stays so: nobody schedules a file that has a job.
LEMMA MonitorsFinishStep ==
  ASSUME TypeOK, JobsHaveRecords, JobsKnown, JobsApart, MonitorsFinish, NEW t \in Procs, ProcStep(t)
  PROVE  MonitorsFinish'
<1> USE ConstantsAssumption DEF TypeOK, Goto, Finish, ReleaseThen, SourceFile, Procs
<1> USE DEF FreePC, FilePC, ReadPC, WritePC, RefPC, SlotPC, StreamPC, PrunePC
<1> USE DEF disk, data, client, jobs, counts, procs
<1> USE DEF MonitorsFinish, JobsHaveRecords, JobsKnown, JobsApart, MonitorPC, Busy, Closing,
  SetState, None, States, Unfinished
<1>1. CASE RequestStep(t)
  BY <1>1 DEF RequestStep,
    Open, OpenPrepared, Attach, OpenCancelled, QueueTrackDownload, RetainStream, ReadToEnd, CloseStream,
    Spawn, NewRequest, Schedule, ScheduleBusy, ScheduleCached, ScheduleBegin, ScheduleWait,
    NotifyCompleted, NotifyAgain, NotifyFirst
<1>2. CASE JobStep(t)
  BY <1>2 DEF JobStep,
    SlotObtained, WaitedInVain, WaitedAndBegins, WaitCancelled, MonitorCompleted,
    MonitorNotifies, MonitorStopped, MonitorLeaves, MonitorReleases, FreeSlot, HandlerDone,
    Spawn, NotifyCompleted, NotifyAgain, NotifyFirst
<1>3. CASE PruneStep(t)
  BY <1>3 DEF PruneStep,
    PruneStart, PruneDone, EvictLock, EvictRemove, EvictMissed, EvictSkip, EvictChoose
<1>4. CASE ResumeStep(t)
  BY <1>4 DEF ResumeStep,
    ResumeStart, ResumeAttach, ResumeWithoutMetadata, ResumeCancelled, ResumeSchedule,
    ResumeDone, ResumeEntry, MarkDownloadFailed, Spawn,
    Schedule, ScheduleBusy, ScheduleCached, ScheduleBegin, ScheduleWait
<1>5. CASE AdminStep(t)
  BY <1>5 DEF AdminStep,
    FetchMagnet, FetchDone, PauseSource, PauseTorrent, ResumeSource, UnpauseTorrent,
    RemoveSource, RemoveMetadata, RemoveDownloads, FilesOf, NewRequest
<1> QED BY <1>1, <1>2, <1>3, <1>4, <1>5 DEF ProcStep

\* Every way in which a job ends settles its record first.
LEMMA IdleRecordedStep ==
  ASSUME TypeOK, JobsHaveRecords, JobsKnown, JobsApart, MonitorsFinish, IdleRecorded,
         NEW t \in Procs, ProcStep(t)
  PROVE  IdleRecorded'
<1> USE ConstantsAssumption DEF TypeOK, Goto, Finish, ReleaseThen, SourceFile, Procs
<1> USE DEF FreePC, FilePC, ReadPC, WritePC, RefPC, SlotPC, StreamPC, PrunePC
<1> USE DEF disk, data, client, jobs, counts, procs
<1> USE DEF IdleRecorded, MonitorsFinish, JobsHaveRecords, JobsKnown, JobsApart, MonitorPC, Busy,
  Closing, SetState, None, States, Unfinished
<1>1. CASE RequestStep(t)
  BY <1>1 DEF RequestStep,
    Open, OpenPrepared, Attach, OpenCancelled, QueueTrackDownload, RetainStream, ReadToEnd, CloseStream,
    Spawn, NewRequest, Schedule, ScheduleBusy, ScheduleCached, ScheduleBegin, ScheduleWait,
    NotifyCompleted, NotifyAgain, NotifyFirst
<1>2. CASE JobStep(t)
  BY <1>2 DEF JobStep,
    SlotObtained, WaitedInVain, WaitedAndBegins, WaitCancelled, MonitorCompleted,
    MonitorNotifies, MonitorStopped, MonitorLeaves, MonitorReleases, FreeSlot, HandlerDone,
    Spawn, NotifyCompleted, NotifyAgain, NotifyFirst
<1>3. CASE PruneStep(t)
  BY <1>3 DEF PruneStep,
    PruneStart, PruneDone, EvictLock, EvictRemove, EvictMissed, EvictSkip, EvictChoose
<1>4. CASE ResumeStep(t)
  BY <1>4 DEF ResumeStep,
    ResumeStart, ResumeAttach, ResumeWithoutMetadata, ResumeCancelled, ResumeSchedule,
    ResumeDone, ResumeEntry, MarkDownloadFailed, Spawn,
    Schedule, ScheduleBusy, ScheduleCached, ScheduleBegin, ScheduleWait
<1>5. CASE AdminStep(t)
  BY <1>5 DEF AdminStep,
    FetchMagnet, FetchDone, PauseSource, PauseTorrent, ResumeSource, UnpauseTorrent,
    RemoveSource, RemoveMetadata, RemoveDownloads, FilesOf, NewRequest
<1> QED BY <1>1, <1>2, <1>3, <1>4, <1>5 DEF ProcStep

\* A record that no job carries out any more is failed or finished, and one that waits for a
\* run of ResumeTrackDownloads is on the run's list until the run has scheduled it.
LEMMA CarriedOutStep ==
  ASSUME TypeOK, JobsHaveRecords, JobsKnown, JobsApart, NothingLoaded, MonitorsFinish, IdleRecorded,
         DownloadsCarriedOut, "cancel" \notin Events, NEW t \in Procs, ProcStep(t)
  PROVE  DownloadsCarriedOut'
<1> USE ConstantsAssumption DEF TypeOK, Goto, Finish, ReleaseThen, SourceFile, Procs
<1> USE DEF FreePC, FilePC, ReadPC, WritePC, RefPC, SlotPC, StreamPC, PrunePC
<1> USE DEF disk, data, client, jobs, counts, procs
<1> USE DEF DownloadsCarriedOut, ResumeComing, BeingRemoved, NothingLoaded, IdleRecorded,
  MonitorsFinish, JobsHaveRecords, JobsKnown, JobsApart, MonitorPC, Busy, Closing, SetState, None,
  States, Unfinished
<1>1. CASE RequestStep(t)
  BY <1>1 DEF RequestStep,
    Open, OpenPrepared, Attach, OpenCancelled, QueueTrackDownload, RetainStream, ReadToEnd, CloseStream,
    Spawn, NewRequest, Schedule, ScheduleBusy, ScheduleCached, ScheduleBegin, ScheduleWait,
    NotifyCompleted, NotifyAgain, NotifyFirst
<1>2. CASE JobStep(t)
  BY <1>2 DEF JobStep,
    SlotObtained, WaitedInVain, WaitedAndBegins, WaitCancelled, MonitorCompleted,
    MonitorNotifies, MonitorStopped, MonitorLeaves, MonitorReleases, FreeSlot, HandlerDone,
    Spawn, NotifyCompleted, NotifyAgain, NotifyFirst
<1>3. CASE PruneStep(t)
  BY <1>3 DEF PruneStep,
    PruneStart, PruneDone, EvictLock, EvictRemove, EvictMissed, EvictSkip, EvictChoose
<1>4. CASE ResumeStep(t)
  <2>1. CASE ResumeStart(t)
    BY <2>1 DEF ResumeStart
  <2>2. CASE ResumeAttach(t) \/ ResumeDone(t)
    BY <2>2 DEF ResumeAttach, ResumeDone
  <2>3. CASE ResumeWithoutMetadata(t) \/ ResumeCancelled(t)
    BY <2>3 DEF ResumeWithoutMetadata, ResumeCancelled, MarkDownloadFailed
  <2>4. CASE ResumeSchedule(t)
    BY <2>4 DEF ResumeSchedule, Spawn, Schedule, ScheduleBusy, ScheduleCached, ScheduleBegin,
      ScheduleWait
  <2>5. ASSUME NEW f \in Files, ResumeEntry(t, f) PROVE DownloadsCarriedOut'
    <3>1. ASSUME NEW g \in Files, g # f, downloads'[g] \in Unfinished, ResumeComing(g)
          PROVE  ResumeComing(g)'
      BY <2>5, <3>1 DEF ResumeEntry
    <3>2. ASSUME downloads'[f] \in Unfinished
          PROVE  Busy(f)' \/ SourceOf[f] \in paused' \/ ResumeComing(f)' \/ Closing'
      BY <2>5, <3>2 DEF ResumeEntry
    <3>3. ASSUME NEW g \in Files, BeingRemoved(g) PROVE BeingRemoved(g)'
      BY <2>5, <3>3 DEF ResumeEntry
    <3>4. /\ \A g \in Files : Busy(g)' <=> Busy(g)
          /\ paused' = paused /\ (Closing' <=> Closing)
          /\ \A g \in Files : g # f => downloads'[g] = downloads[g]
      BY <2>5 DEF ResumeEntry
    <3> HIDE DEF ResumeComing, BeingRemoved, Busy, Closing, IdleRecorded
    <3> QED BY <3>1, <3>2, <3>3, <3>4
  <2> QED BY <1>4, <2>1, <2>2, <2>3, <2>4, <2>5 DEF ResumeStep
<1>5. CASE AdminStep(t)
  BY <1>5 DEF AdminStep,
    FetchMagnet, FetchDone, PauseSource, PauseTorrent, ResumeSource, UnpauseTorrent,
    RemoveSource, RemoveMetadata, RemoveDownloads, FilesOf, NewRequest
<1> QED BY <1>1, <1>2, <1>3, <1>4, <1>5 DEF ProcStep

\* The swarm, importers, the dashboard and Close make no download unfinished and end no job.
LEMMA QuietCInv ==
  ASSUME TypeOK, CInv,
         \/ \E f \in Files : Piece(f)
         \/ \E s \in Sources : ImportSource(s) \/ ReadCatalog(s) \/ PinSource(s)
         \/ Dashboard \/ CloseBegin \/ CloseDrained \/ CloseClient \/ CloseHandled
  PROVE  CInv'
<1> USE DEF disk, data, client, jobs, counts, procs
<1>1. /\ UNCHANGED <<pc, file, todo, after, activeDownloads, pendingDownloads, paused>>
      /\ Closing => Closing'
      /\ phase' = "starting" => phase = "starting"
  BY DEF Piece, ImportSource, ReadCatalog, PinSource, Dashboard, TrackDownloads, CloseBegin,
     CloseDrained, CloseClient, CloseHandled, Closing
<1>2. \A f \in Files : /\ downloads[f] = None => downloads'[f] = None
                       /\ downloads'[f] \in Unfinished =>
                            downloads[f] \in Unfinished /\ record'[f] \in {record[f], downloads[f]}
  <2>1. CASE Dashboard
    <3>1. PICK seen \in SUBSET Files, unsaved \in SUBSET Files : TrackDownloads(seen, unsaved)
      BY <2>1 DEF Dashboard
    <3> QED BY <3>1 DEF TrackDownloads, TypeOK, Refreshed, Unfinished, None
  <2>2. CASE ~Dashboard
    <3>1. UNCHANGED <<downloads, record>>
      BY <2>2 DEF Piece, ImportSource, ReadCatalog, PinSource, CloseBegin, CloseDrained,
         CloseClient, CloseHandled
    <3> QED BY <3>1
  <2> QED BY <2>1, <2>2
<1>3. NothingLoaded'
  BY <1>1, <1>2 DEF CInv, NothingLoaded
<1>4. MonitorsFinish'
  BY <1>1, <1>2 DEF CInv, MonitorsFinish, TypeOK, FilePC, FreePC, SlotPC
<1>5. IdleRecorded'
  BY <1>1, <1>2 DEF CInv, IdleRecorded, Busy, TypeOK
<1>6. DownloadsCarriedOut'
  BY <1>1, <1>2 DEF CInv, DownloadsCarriedOut, Busy, ResumeComing, BeingRemoved, SourceFile
<1> QED BY <1>3, <1>4, <1>5, <1>6 DEF CInv

\* What the dashboard shows as waiting or downloading has a job, a paused source, or a run of
\* ResumeTrackDownloads on its way, also when records cannot be written: no pause, resume,
\* removal, eviction or restart leaves a download that nobody works on.  Only a run whose
\* request is cancelled does.
THEOREM DownloadsAreCarriedOut ==
  ASSUME "cancel" \notin Events
  PROVE  Spec => []DownloadsCarriedOut
<1>1. Init => CInv
  BY DEF Init, Idle, CInv, NothingLoaded, MonitorsFinish, IdleRecorded, DownloadsCarriedOut, None,
         Unfinished
<1>2. ASSUME IInv, JInv, CInv, NEW t \in Procs, ProcStep(t) PROVE CInv'
  BY <1>2, NothingLoadedStep, MonitorsFinishStep, IdleRecordedStep, CarriedOutStep
  DEF IInv, JInv, CInv
<1>3. ASSUME Restart PROVE CInv'
  BY <1>3 DEF Restart, Idle, CInv, NothingLoaded, MonitorsFinish, IdleRecorded,
     DownloadsCarriedOut, None, Unfinished
<1>4. ASSUME CInv, UNCHANGED vars PROVE CInv'
  BY <1>4 DEF vars, disk, data, client, jobs, counts, procs, CInv, NothingLoaded, MonitorsFinish,
     IdleRecorded, DownloadsCarriedOut, Busy, ResumeComing, BeingRemoved, SourceFile, Closing
<1>5. IInv /\ JInv /\ CInv /\ [Next]_vars => CInv'
  BY <1>2, <1>3, <1>4, QuietCInv DEF Next, IInv
<1>6. CInv => DownloadsCarriedOut
  BY DEF CInv
<1> QED BY <1>1, <1>5, <1>6, InvariantHolds, JobsAgree, PTL DEF Spec
=============================================================================
