-------------------------- MODULE TorrentDownloads --------------------------
(***************************************************************************)
(* The torrent provider of Peerphonic: selected-track download jobs, the   *)
(* reference counts that protect cached data, the download slots, cache    *)
(* eviction, source management and the records that survive a restart.     *)
(*                                                                         *)
(* Source: adapters/providers/torrent/{provider,downloads}.go.             *)
(*                                                                         *)
(* A process is a goroutine: a request that opens a stream, a download job *)
(* (waitForDownloadSlot, then monitorTrackDownload), a completion handler, *)
(* a run of ResumeTrackDownloads, or an administrative request.  The       *)
(* RWMutex "operation" is the pair ReadLocked / WriteLocked; a critical    *)
(* section of downloadMu, cacheMu or completionMu is one atomic step.      *)
(***************************************************************************)
EXTENDS Naturals, FiniteSets

CONSTANTS
  Sources,    \* info hashes
  Files,      \* selected tracks (source keys: info hash "/" logical path)
  SourceOf,   \* the torrent of every file
  Requests,   \* goroutines that serve requests (a bound of the instance)
  Workers,    \* goroutines for jobs and completion handlers (likewise)
  MaxActive,  \* StreamingOptions.MaxActiveDownloads
  Size,       \* pieces of a file
  NoFile,     \* not a file
  Events      \* what the environment of the instance may do, see Environment

Procs == Requests \cup Workers
Environment == {"pin", "pause", "remove", "magnet", "evict", "cancel", "close", "crash",
                "full",     \* writing a record may fail
                "legacy"}   \* the cache was left behind by an older release

ASSUME ConstantsAssumption ==
  /\ SourceOf \in [Files -> Sources]
  /\ IsFiniteSet(Requests) /\ IsFiniteSet(Workers)
  /\ MaxActive \in Nat \ {0}
  /\ Size \in Nat \ {0}
  /\ NoFile \notin Files
  /\ Events \subseteq Environment

VARIABLES
  \* on disk
  metadata,          \* sources with a <info-hash>.torrent file
  paused, pinned,    \* sources with a marker file
  record,            \* state of the persisted download job of a file
  have,              \* pieces of a file present in the cache
  form,              \* where the file lies, see Forms
  verify,            \* sources with the marker of a migration to be verified
  \* in memory
  cacheFiles,        \* files registered by ReadCatalog: eviction candidates
  attached,          \* torrents of the client
  allowed,           \* torrents whose data may be transferred
  downloads,         \* download records in memory
  activeDownloads,   \* files with a monitored job
  pendingDownloads,  \* files with a job that waits for a slot
  completed,         \* files whose completion was signalled
  active, streams,   \* reference counts per source
  slots,             \* occupied download slots
  phase,             \* of the process: starting ... closed
  \* goroutines
  pc, file,          \* where a process is, and the file it works on
  todo,              \* directory entries or candidates it has yet to visit
  after              \* where it continues once the cache is pruned

data == <<have, form, verify>>
disk == <<metadata, paused, pinned, record, data>>
client == <<attached, allowed>>
jobs == <<downloads, activeDownloads, pendingDownloads, completed, slots>>
counts == <<active, streams>>
procs == <<pc, file, todo, after>>
vars == <<disk, cacheFiles, client, jobs, counts, phase, procs>>

-----------------------------------------------------------------------------
None == "none"
Unfinished == {"waiting", "downloading"}
States == Unfinished \cup {"cached", "failed", "evicted"}

\* A file of the cache: none, in the layout of an older release, at its path, at
\* its path with .part (the client's name of an unfinished file), or at both; then
\* the client works on the .part, and have counts its pieces.
Forms == {"none", "flat", "plain", "part", "both"}
HasPath(f) == form[f] \in {"plain", "both"}

\* Control points at which a process holds operation.RLock / operation.Lock.
ReadPC == {"opening", "prepared", "attached", "queued", "pausing", "unpausing", "fetching",
           "resuming", "resumeFile", "resumeAttached"}
WritePC == {"evicting", "evictChosen", "removeChecked", "removing"}

\* Control points at which a process owns one reference of its source, has an
\* open stream, or occupies a download slot.
StreamPC == {"reading", "read"}
RefPC == StreamPC \cup {"waiting", "monitor", "completed", "leaving", "left", "handler"}
SlotPC == {"monitor", "completed", "leaving", "left", "lost", "released"}

\* Control points that name no file, and those of a prune of the cache.
PrunePC == {"pruning", "evicting", "evictChosen"}
FreePC == {"idle", "pruning", "evicting", "released", "resumeWanted", "resuming"}
FilePC == (ReadPC \cup WritePC \cup RefPC \cup SlotPC) \ FreePC

Phases == {"starting", "resuming", "running", "closing", "drained", "disconnected", "closed"}
Closing == phase \in {"closing", "drained", "disconnected", "closed"}

TypeOK ==
  /\ metadata \subseteq Sources /\ paused \subseteq Sources /\ pinned \subseteq Sources
  /\ record \in [Files -> States \cup {None}]
  /\ downloads \in [Files -> States \cup {None}]
  /\ have \in [Files -> 0..Size] /\ form \in [Files -> Forms] /\ verify \subseteq Sources
  /\ attached \subseteq Sources /\ allowed \subseteq attached
  /\ cacheFiles \subseteq Files /\ completed \subseteq Files
  /\ activeDownloads \subseteq Files /\ pendingDownloads \subseteq Files
  /\ active \in [Sources -> Nat] /\ streams \in [Sources -> Nat]
  /\ slots \in Nat
  /\ phase \in Phases
  /\ pc \in [Procs -> FreePC \cup FilePC]
  /\ file \in [Procs -> Files \cup {NoFile}]
  /\ \A t \in Procs : pc[t] \in FilePC => file[t] \in Files
  /\ todo \in [Procs -> SUBSET Files]
  /\ after \in [Procs -> {"idle", "released"}]

-----------------------------------------------------------------------------
Complete(f) == have[f] = Size
SourceFile(t) == SourceOf[file[t]]

WriteLocked == \E t \in Procs : pc[t] \in WritePC
ReadLocked == \E t \in Procs : pc[t] \in ReadPC
MayReadLock == ~WriteLocked
WriteLockIgnoresReaders == ~WriteLocked
MayWriteLock == ~WriteLocked /\ ~ReadLocked

HoldsSlot(t) == pc[t] \in SlotPC \/ (pc[t] \in PrunePC /\ after[t] = "released")
SlotHolders == {t \in Procs : HoldsSlot(t)}
Holders(s) == {t \in Procs : pc[t] \in RefPC /\ SourceFile(t) = s}
Streams(s) == {t \in Procs : pc[t] \in StreamPC /\ SourceFile(t) = s}
JobProcs == {t \in Procs : pc[t] = "waiting" \/ HoldsSlot(t)}

\* A new request of the HTTP server, and a new goroutine.
NewRequest(t) == phase = "running" /\ t \in Requests /\ pc[t] = "idle"
Spawn(j) == pc[j] = "idle"

Goto(t, p) == pc' = [pc EXCEPT ![t] = p]
Finish(t) == Goto(t, "idle") /\ file' = [file EXCEPT ![t] = NoFile]

DecrementedTwice(counter, s) ==
  [counter EXCEPT ![s] = IF @ <= 2 THEN 0 ELSE @ - 2]

\* decrementCount: a count never drops below zero.
Decremented(counter, s) ==
  [counter EXCEPT ![s] = IF @ <= 1 THEN 0 ELSE @ - 1]
Incremented(counter, s) == [counter EXCEPT ![s] = @ + 1]

\* A change of a record in memory is persisted (persistDownloadLocked).  The
\* callers ignore that this fails: the record on disk is then the one of before.
SetState(f, state) ==
  /\ downloads' = [downloads EXCEPT ![f] = state]
  /\ \/ record' = [record EXCEPT ![f] = state]
     \/ "full" \in Events /\ UNCHANGED record

\* release, releaseStream: a process gives up its reference and then calls the
\* cache-changed handler, which prunes the cache before the process goes on at
\* control point next.  Close has unset the handler.
ReleaseThen(t, next) ==
  /\ file' = [file EXCEPT ![t] = NoFile]
  /\ IF Closing THEN Goto(t, next) /\ after' = after
                ELSE Goto(t, "pruning") /\ after' = [after EXCEPT ![t] = next]

-----------------------------------------------------------------------------
\* Scheduling a job (scheduleTrackDownloadLocked), called with the torrent
\* attached; the calling process continues at control point next, with file mine.

BusyIfMonitored(f) == f \in activeDownloads
Busy(f) == f \in activeDownloads \cup pendingDownloads

\* A free slot of the channel downloadSlots.
SlotFreeOffByOne == slots <= MaxActive
SlotFree == slots < MaxActive

\* The job exists already: nothing to do.
ScheduleBusy(t, next, mine) ==
  /\ Busy(file[t])
  /\ Goto(t, next)
  /\ file' = [file EXCEPT ![t] = mine]
  /\ UNCHANGED <<record, jobs, counts, after>>

\* A slot is free, the file is complete: beginTrackDownloadLocked records it as
\* cached; the slot and the reference are taken and given back.
ScheduleCached(t, next, mine) ==
  /\ ~Busy(file[t]) /\ SlotFree /\ Complete(file[t])
  /\ SetState(file[t], "cached")
  /\ Goto(t, next)
  /\ file' = [file EXCEPT ![t] = mine]
  /\ UNCHANGED <<activeDownloads, pendingDownloads, completed, slots,
                 counts, after>>

\* A slot is free: process j is the monitor of the new job.
ScheduleBegin(t, j, next, mine) ==
  /\ ~Busy(file[t]) /\ SlotFree /\ ~Complete(file[t])
  /\ Spawn(j)
  /\ SetState(file[t], "downloading")
  /\ slots' = slots + 1
  /\ active' = Incremented(active, SourceFile(t))
  /\ activeDownloads' = activeDownloads \cup {file[t]}
  /\ completed' = completed \ {file[t]}
  /\ pc' = [pc EXCEPT ![t] = next, ![j] = "monitor"]
  /\ file' = [file EXCEPT ![t] = mine, ![j] = file[t]]
  /\ UNCHANGED <<pendingDownloads, streams, after>>

\* No slot is free: process j waits for one (waitForDownloadSlot).
ScheduleWait(t, j, next, mine) ==
  /\ ~Busy(file[t]) /\ ~SlotFree
  /\ Spawn(j)
  /\ SetState(file[t], "waiting")
  /\ active' = Incremented(active, SourceFile(t))
  /\ pendingDownloads' = pendingDownloads \cup {file[t]}
  /\ pc' = [pc EXCEPT ![t] = next, ![j] = "waiting"]
  /\ file' = [file EXCEPT ![t] = mine, ![j] = file[t]]
  /\ UNCHANGED <<activeDownloads, completed, slots, streams, after>>

Schedule(t, next, mine) ==
  \/ ScheduleBusy(t, next, mine)
  \/ ScheduleCached(t, next, mine)
  \/ \E j \in Workers : ScheduleBegin(t, j, next, mine) \/ ScheduleWait(t, j, next, mine)

-----------------------------------------------------------------------------
\* Data of older releases, moved on every open and every scan (legacyMu).

FilesOf(s) == {f \in Files : SourceOf[f] = s}

\* migrateLegacyData: a file of the old layout moves to its path, where it is to
\* be verified, or to the .part when it was unfinished.  How many of its pieces
\* are good is found out when the client verifies them.
MigrateLegacyData(s) ==
  LET flat == {f \in FilesOf(s) : form[f] = "flat"}
  IN  \E whole \in SUBSET flat, pieces \in [flat -> 0..Size] :
        /\ form' = [f \in Files |-> IF f \in whole THEN "plain"
                                   ELSE IF f \in flat THEN "part" ELSE form[f]]
        /\ have' = [f \in Files |-> IF f \in flat THEN pieces[f] ELSE have[f]]
        /\ verify' = IF whole = {} THEN verify ELSE verify \cup {s}

\* prepareLegacyData sets the files of a marked source aside for the client to
\* verify; it fails, half way, when a .part is in the way.
SetAside(moved) ==
  form' = [f \in Files |-> IF f \in moved THEN "part" ELSE form[f]]

PrepareFails(s) ==
  /\ s \in verify /\ \E f \in FilesOf(s) : form[f] = "both"
  /\ \E moved \in SUBSET {f \in FilesOf(s) : form[f] = "plain"} : SetAside(moved)
  /\ UNCHANGED <<have, verify>>

\* Then reconcileCacheData removes the complete file beside a .part.
PrepareData(s) ==
  /\ s \in verify => \A f \in FilesOf(s) : form[f] # "both"
  /\ SetAside({f \in FilesOf(s) : form[f] = "both" \/ (form[f] = "plain" /\ s \in verify)})
  /\ verify' = verify \ {s}
  /\ UNCHANGED have

\* The client verifies the file that is opened: a whole one gets its path.
VerifyData(f) ==
  /\ form' = [form EXCEPT ![f] = IF @ \in {"part", "both"} /\ Complete(f) THEN "plain" ELSE @]
  /\ UNCHANGED <<have, verify>>

-----------------------------------------------------------------------------
\* A playback or artwork request (open).

Open(t, f) ==
  /\ NewRequest(t) /\ MayReadLock
  /\ SourceOf[f] \notin paused
  /\ SourceOf[f] \in metadata
  /\ MigrateLegacyData(SourceOf[f])
  /\ Goto(t, "opening")
  /\ file' = [file EXCEPT ![t] = f]
  /\ UNCHANGED <<metadata, paused, pinned, record, cacheFiles, client, jobs, counts,
                 phase, todo, after>>

OpenPrepared(t) ==
  /\ pc[t] = "opening"
  /\ \/ PrepareData(SourceFile(t)) /\ Goto(t, "prepared") /\ UNCHANGED file
     \/ PrepareFails(SourceFile(t)) /\ Finish(t)
  /\ UNCHANGED <<metadata, paused, pinned, record, cacheFiles, client, jobs, counts,
                 phase, todo, after>>

\* AddTorrentSpec attaches the torrent, or finds it attached, and applies the
\* specification, which allows the transfer of data.
AddTorrent(t) ==
  /\ attached' = attached \cup {SourceFile(t)}
  /\ allowed' = allowed \cup {SourceFile(t)}

Attach(t) ==
  /\ pc[t] = "prepared"
  /\ AddTorrent(t)
  /\ Goto(t, "attached")
  /\ UNCHANGED <<disk, cacheFiles, jobs, counts, phase, file, todo, after>>

\* The request is cancelled while open waits for the torrent.
OpenCancelled(t) ==
  /\ pc[t] = "attached"
  /\ Finish(t)
  /\ UNCHANGED <<disk, cacheFiles, client, jobs, counts, phase, todo, after>>

QueueTrackDownload(t) ==
  /\ pc[t] = "attached"
  /\ VerifyData(file[t])
  /\ Schedule(t, "queued", file[t])
  /\ UNCHANGED <<metadata, paused, pinned, cacheFiles, client, phase, todo>>

RetainStream(t) ==
  /\ pc[t] = "queued"
  /\ active' = Incremented(active, SourceFile(t))
  /\ streams' = Incremented(streams, SourceFile(t))
  /\ Goto(t, "reading")
  /\ UNCHANGED <<disk, cacheFiles, client, jobs, phase, file, todo, after>>

CloseStream(t) ==
  /\ pc[t] \in StreamPC
  /\ active' = Decremented(active, SourceFile(t))
  /\ streams' = Decremented(streams, SourceFile(t))
  /\ ReleaseThen(t, "idle")
  /\ UNCHANGED <<disk, cacheFiles, client, jobs, phase, todo>>

\* A piece of a wanted file arrives from the swarm (torrent client), which writes
\* it to the .part and gives the file its path when all are there.
Wanted(f) ==
  \/ f \in activeDownloads
  \/ \E t \in Procs : pc[t] = "reading" /\ file[t] = f

Piece(f) ==
  /\ SourceOf[f] \in allowed
  /\ Wanted(f)
  /\ have[f] < Size
  /\ have' = [have EXCEPT ![f] = @ + 1]
  /\ form' = [form EXCEPT ![f] = IF Complete(f)' THEN "plain" ELSE "part"]
  /\ UNCHANGED <<metadata, paused, pinned, record, verify, cacheFiles, client, jobs,
                 counts, phase, procs>>

-----------------------------------------------------------------------------
\* The completion of a file is signalled (notifyCompleted) at most once: process
\* j runs the handler, holding a reference.

SignalledEveryTime(f) == Closing
Signalled(f) == Closing \/ f \in completed

NotifyAgain(t, next) ==
  /\ Signalled(file[t])
  /\ Goto(t, next)
  /\ UNCHANGED <<completed, active, file>>

NotifyFirst(t, j, next) ==
  /\ ~Signalled(file[t])
  /\ Spawn(j)
  /\ completed' = completed \cup {file[t]}
  /\ active' = Incremented(active, SourceFile(t))
  /\ pc' = [pc EXCEPT ![t] = next, ![j] = "handler"]
  /\ file' = [file EXCEPT ![j] = file[t]]

NotifyCompleted(t, next) ==
  /\ NotifyAgain(t, next) \/ \E j \in Workers : NotifyFirst(t, j, next)
  /\ UNCHANGED <<disk, cacheFiles, client, downloads, activeDownloads,
                 pendingDownloads, slots, streams, phase, todo, after>>

\* A contiguous read reaches the end of the file (boundedReader.Read).
ReadToEnd(t) ==
  /\ pc[t] = "reading" /\ Complete(file[t])
  /\ NotifyCompleted(t, "read")

HandlerDone(t) ==
  /\ pc[t] = "handler"
  /\ active' = Decremented(active, SourceFile(t))
  /\ ReleaseThen(t, "idle")
  /\ UNCHANGED <<disk, cacheFiles, client, jobs, streams, phase, todo>>

-----------------------------------------------------------------------------
\* A download job: waitForDownloadSlot, then monitorTrackDownload.

\* The slot was obtained, but the job has gone or the file is complete: the slot
\* is given back, then the reference.
WaitedInVain(t) ==
  /\ downloads[file[t]] = None \/ file[t] \notin pendingDownloads \/ Complete(file[t])
  /\ IF downloads[file[t]] = None \/ file[t] \notin pendingDownloads
       THEN UNCHANGED <<downloads, record>>
       ELSE SetState(file[t], "cached")
  /\ active' = Decremented(active, SourceFile(t))
  /\ Finish(t)
  /\ UNCHANGED <<activeDownloads, completed, slots>>

WaitedAndBegins(t) ==
  /\ downloads[file[t]] # None /\ file[t] \in pendingDownloads /\ ~Complete(file[t])
  /\ SetState(file[t], "downloading")
  /\ slots' = slots + 1
  /\ activeDownloads' = activeDownloads \cup {file[t]}
  /\ completed' = completed \ {file[t]}
  /\ Goto(t, "monitor")
  /\ UNCHANGED <<active, file>>

SlotObtained(t) ==
  /\ pc[t] = "waiting" /\ SlotFree
  /\ pendingDownloads' = pendingDownloads \ {file[t]}
  /\ WaitedInVain(t) \/ WaitedAndBegins(t)
  /\ UNCHANGED <<metadata, paused, pinned, data, cacheFiles, client, streams,
                 phase, todo, after>>

WaitCancelled(t) ==
  /\ pc[t] = "waiting" /\ Closing
  /\ pendingDownloads' = pendingDownloads \ {file[t]}
  /\ active' = Decremented(active, SourceFile(t))
  /\ ReleaseThen(t, "idle")
  /\ UNCHANGED <<disk, cacheFiles, client, downloads, activeDownloads, completed,
                 slots, streams, phase, todo>>

\* The monitor finds the file complete.
MonitorCompleted(t) ==
  /\ pc[t] = "monitor"
  /\ downloads[file[t]] # None /\ Complete(file[t])
  /\ SetState(file[t], "cached")
  /\ Goto(t, "completed")
  /\ UNCHANGED <<metadata, paused, pinned, data, cacheFiles, client, activeDownloads,
                 pendingDownloads, completed, slots, counts, phase, file, todo, after>>

MonitorNotifies(t) ==
  /\ pc[t] = "completed"
  /\ NotifyCompleted(t, "leaving")

MonitorIgnoresClose(t) ==
  /\ pc[t] = "monitor"
  /\ downloads[file[t]] = None
  /\ Goto(t, "leaving")
  /\ UNCHANGED <<disk, cacheFiles, client, jobs, counts, phase, file, todo, after>>

\* The monitor ends early: the record is gone, or the provider is closing.
MonitorStopped(t) ==
  /\ pc[t] = "monitor"
  /\ downloads[file[t]] = None \/ Closing
  /\ Goto(t, "leaving")
  /\ UNCHANGED <<disk, cacheFiles, client, jobs, counts, phase, file, todo, after>>

\* The monitor's deferred function: it forgets the job and reads the record to
\* learn which source to release, releases it, and gives the slot back last.
MonitorLeaves(t) ==
  /\ pc[t] = "leaving"
  /\ activeDownloads' = activeDownloads \ {file[t]}
  /\ Goto(t, IF downloads[file[t]] = None THEN "lost" ELSE "left")
  /\ UNCHANGED <<disk, cacheFiles, client, downloads, pendingDownloads, completed,
                 slots, counts, phase, file, todo, after>>

MonitorReleases(t) ==
  /\ pc[t] \in {"left", "lost"}
  /\ active' = IF pc[t] = "left" THEN Decremented(active, SourceFile(t)) ELSE active
  /\ ReleaseThen(t, "released")
  /\ UNCHANGED <<disk, cacheFiles, client, jobs, streams, phase, todo>>

FreeSlotLeaks(t) ==
  /\ pc[t] = "released"
  /\ Goto(t, "idle")
  /\ after' = [after EXCEPT ![t] = "idle"]
  /\ UNCHANGED <<disk, cacheFiles, client, jobs, counts, phase, file, todo>>

FreeSlot(t) ==
  /\ pc[t] = "released"
  /\ slots' = slots - 1
  /\ Goto(t, "idle")
  /\ after' = [after EXCEPT ![t] = "idle"]
  /\ UNCHANGED <<disk, cacheFiles, client, downloads, activeDownloads,
                 pendingDownloads, completed, counts, phase, file, todo>>

-----------------------------------------------------------------------------
\* Pruning the cache: after a release, at startup, or because another provider
\* of the combined cache released something.

PruneStart(t) ==
  /\ "evict" \in Events
  /\ t \in Requests /\ pc[t] = "idle"
  /\ Goto(t, "pruning")
  /\ UNCHANGED <<disk, cacheFiles, client, jobs, counts, phase, file, todo, after>>

\* The combined cache is within its capacity, or Evict has freed enough.
PruneDone(t) ==
  /\ pc[t] \in {"pruning", "evicting"}
  /\ Goto(t, after[t])
  /\ todo' = [todo EXCEPT ![t] = {}]
  /\ UNCHANGED <<disk, cacheFiles, client, jobs, counts, phase, file, after>>

\* evictionCandidates: the registered files with data, complete or partial.
EvictLock(t) ==
  /\ "evict" \in Events
  /\ pc[t] = "pruning" /\ MayWriteLock
  /\ Goto(t, "evicting")
  /\ todo' = [todo EXCEPT ![t] = {f \in cacheFiles : form[f] \notin {"none", "flat"}}]
  /\ UNCHANGED <<disk, cacheFiles, client, jobs, counts, phase, file, after>>

\* The next candidate, in the order of last access (any order here), is skipped
\* when its source is in use or pinned.
MayEvictUnstreamed(f) == streams[SourceOf[f]] = 0 /\ SourceOf[f] \notin pinned
MayEvict(f) == active[SourceOf[f]] = 0 /\ SourceOf[f] \notin pinned

EvictSkip(t, f) ==
  /\ pc[t] = "evicting" /\ f \in todo[t]
  /\ ~MayEvict(f)
  /\ todo' = [todo EXCEPT ![t] = @ \ {f}]
  /\ UNCHANGED <<disk, cacheFiles, client, jobs, counts, phase, pc, file, after>>

EvictChoose(t, f) ==
  /\ pc[t] = "evicting" /\ f \in todo[t]
  /\ MayEvict(f)
  /\ Goto(t, "evictChosen")
  /\ file' = [file EXCEPT ![t] = f]
  /\ todo' = [todo EXCEPT ![t] = @ \ {f}]
  /\ UNCHANGED <<disk, cacheFiles, client, jobs, counts, phase, after>>

DropTorrent(s) ==
  /\ attached' = attached \ {s}
  /\ allowed' = allowed \ {s}

\* The file was listed as a .part and has got its path since: nothing is removed.
EvictMissed(t) ==
  /\ pc[t] = "evictChosen" /\ form[file[t]] = "plain"
  /\ DropTorrent(SourceFile(t))
  /\ Goto(t, "evicting")
  /\ file' = [file EXCEPT ![t] = NoFile]
  /\ UNCHANGED <<disk, cacheFiles, jobs, counts, phase, todo, after>>

\* dropTorrent, remove the file (of two, the one at its path), markDownloadEvicted.
EvictRemove(t) ==
  /\ pc[t] = "evictChosen"
  /\ DropTorrent(SourceFile(t))
  /\ form' = [form EXCEPT ![file[t]] = IF @ = "both" THEN "part" ELSE "none"]
  /\ have' = [have EXCEPT ![file[t]] = IF form[file[t]] = "both" THEN @ ELSE 0]
  /\ IF downloads[file[t]] = None \/ file[t] \in activeDownloads
       THEN UNCHANGED <<downloads, record, completed>>
       ELSE SetState(file[t], "evicted") /\ completed' = completed \ {file[t]}
  /\ Goto(t, "evicting")
  /\ file' = [file EXCEPT ![t] = NoFile]
  /\ UNCHANGED <<metadata, paused, pinned, verify, cacheFiles, activeDownloads,
                 pendingDownloads, slots, counts, phase, todo, after>>

-----------------------------------------------------------------------------
\* ResumeTrackDownloads: at startup, and after a source is resumed.

ResumeStart(t) ==
  /\ \/ phase = "starting" /\ t \in Requests /\ pc[t] = "idle" /\ phase' = "resuming"
     \/ pc[t] = "resumeWanted" /\ UNCHANGED phase
  /\ MayReadLock
  /\ Goto(t, "resuming")
  /\ todo' = [todo EXCEPT ![t] = {f \in Files : record[f] # None}]
  /\ UNCHANGED <<disk, cacheFiles, client, jobs, counts, file, after>>

\* The next record of the directory is loaded unless it is in memory.  Finished
\* jobs and those of paused sources are left alone.
ResumeEntry(t, f) ==
  /\ pc[t] = "resuming" /\ f \in todo[t]
  /\ downloads' = [downloads EXCEPT ![f] = IF @ = None THEN record[f] ELSE @]
  /\ todo' = [todo EXCEPT ![t] = @ \ {f}]
  /\ IF record[f] \in Unfinished /\ SourceOf[f] \notin paused
       THEN Goto(t, "resumeFile") /\ file' = [file EXCEPT ![t] = f]
       ELSE UNCHANGED <<pc, file>>
  /\ UNCHANGED <<disk, cacheFiles, client, activeDownloads, pendingDownloads,
                 completed, slots, counts, phase, after>>

ResumeAttach(t) ==
  /\ pc[t] = "resumeFile"
  /\ SourceFile(t) \in metadata
  /\ AddTorrent(t)
  /\ Goto(t, "resumeAttached")
  /\ UNCHANGED <<disk, cacheFiles, jobs, counts, phase, file, todo, after>>

\* markDownloadFailed; the process returns to the list of records.
MarkDownloadFailed(t) ==
  /\ IF downloads[file[t]] = None THEN UNCHANGED <<downloads, record>>
                                  ELSE SetState(file[t], "failed")
  /\ Goto(t, "resuming")
  /\ file' = [file EXCEPT ![t] = NoFile]
  /\ UNCHANGED <<metadata, paused, pinned, data, cacheFiles, client, activeDownloads,
                 pendingDownloads, completed, slots, counts, phase, after>>

ResumeWithoutMetadata(t) ==
  /\ pc[t] = "resumeFile"
  /\ SourceFile(t) \notin metadata
  /\ MarkDownloadFailed(t)
  /\ UNCHANGED todo

\* The context ends while the process waits for the torrent: this record is
\* marked failed and the rest of the list is skipped.
ResumeCancelled(t) ==
  /\ "cancel" \in Events
  /\ pc[t] = "resumeAttached"
  /\ MarkDownloadFailed(t)
  /\ todo' = [todo EXCEPT ![t] = {}]

ResumeSchedule(t) ==
  /\ pc[t] = "resumeAttached"
  /\ Schedule(t, "resuming", NoFile)
  /\ UNCHANGED <<metadata, paused, pinned, data, cacheFiles, client, phase, todo>>

\* The end of the list, or the end of the context.
ResumeDone(t) ==
  /\ pc[t] = "resuming"
  /\ todo[t] = {} \/ "cancel" \in Events
  /\ Goto(t, "idle")
  /\ todo' = [todo EXCEPT ![t] = {}]
  /\ phase' = IF phase = "resuming" THEN "running" ELSE phase
  /\ UNCHANGED <<disk, cacheFiles, client, jobs, counts, file, after>>

-----------------------------------------------------------------------------
\* Administrative requests.

\* Importers write <info-hash>.torrent without taking the provider's lock.
ImportSource(s) ==
  /\ s \notin metadata
  /\ metadata' = metadata \cup {s}
  /\ UNCHANGED <<paused, pinned, record, data, cacheFiles, client, jobs, counts,
                 phase, procs>>

\* FetchMagnetMetadata: the torrent joins the client for as long as its metadata
\* is fetched, under the read lock, and is dropped when that ends.
FetchMagnet(t, f) ==
  /\ "magnet" \in Events /\ ~Closing
  /\ t \in Requests /\ pc[t] = "idle" /\ MayReadLock
  /\ SourceOf[f] \notin metadata
  /\ attached' = attached \cup {SourceOf[f]}
  /\ allowed' = allowed \cup {SourceOf[f]}
  /\ Goto(t, "fetching")
  /\ file' = [file EXCEPT ![t] = f]
  /\ UNCHANGED <<disk, cacheFiles, jobs, counts, phase, todo, after>>

FetchDone(t) ==
  /\ pc[t] = "fetching"
  /\ DropTorrent(SourceFile(t))
  /\ Finish(t)
  /\ UNCHANGED <<disk, cacheFiles, jobs, counts, phase, todo, after>>

\* A scan registers the files of a torrent as eviction candidates, without a lock;
\* when it asks for their paths (CachedPath) nothing is left to migrate.
ReadCatalog(s) ==
  /\ s \in metadata /\ FilesOf(s) \cap cacheFiles = {}
  /\ MigrateLegacyData(s)
  /\ cacheFiles' = cacheFiles \cup FilesOf(s)
  /\ UNCHANGED <<metadata, paused, pinned, record, client, jobs, counts, phase, procs>>

\* PinSource: one marker, written or removed under the read lock.
PinSource(s) ==
  /\ "pin" \in Events /\ phase = "running" /\ MayReadLock
  /\ s \in metadata
  /\ pinned' \in {pinned \cup {s}, pinned \ {s}}
  /\ UNCHANGED <<metadata, paused, record, data, cacheFiles, client, jobs, counts,
                 phase, procs>>

\* setSourcePaused: the marker first, then the attached torrent.
PauseSource(t, f) ==
  /\ "pause" \in Events
  /\ NewRequest(t) /\ MayReadLock
  /\ SourceOf[f] \in metadata
  /\ paused' = paused \cup {SourceOf[f]}
  /\ Goto(t, "pausing")
  /\ file' = [file EXCEPT ![t] = f]
  /\ UNCHANGED <<metadata, pinned, record, data, cacheFiles, client, jobs, counts,
                 phase, todo, after>>

PauseTorrent(t) ==
  /\ pc[t] = "pausing"
  /\ allowed' = allowed \ {SourceFile(t)}
  /\ Finish(t)
  /\ UNCHANGED <<disk, cacheFiles, attached, jobs, counts, phase, todo, after>>

ResumeSource(t, f) ==
  /\ "pause" \in Events
  /\ NewRequest(t) /\ MayReadLock
  /\ SourceOf[f] \in metadata
  /\ paused' = paused \ {SourceOf[f]}
  /\ Goto(t, "unpausing")
  /\ file' = [file EXCEPT ![t] = f]
  /\ UNCHANGED <<metadata, pinned, record, data, cacheFiles, client, jobs, counts,
                 phase, todo, after>>

AllowData(s) == allowed' = allowed \cup ({s} \cap attached)

UnpauseWithoutResume(t) ==
  /\ pc[t] = "unpausing"
  /\ AllowData(SourceFile(t))
  /\ Finish(t)
  /\ UNCHANGED <<disk, cacheFiles, attached, jobs, counts, phase, todo, after>>

UnpauseTorrent(t) ==
  /\ pc[t] = "unpausing"
  /\ AllowData(SourceFile(t))
  /\ Goto(t, "resumeWanted")
  /\ file' = [file EXCEPT ![t] = NoFile]
  /\ UNCHANGED <<disk, cacheFiles, attached, jobs, counts, phase, todo, after>>

MayRemoveUnstreamed(s) == s \in metadata /\ streams[s] = 0
MayRemove(s) == s \in metadata /\ active[s] = 0

\* RemoveSource, under the write lock: the source must not be in use; then the
\* torrent, its metadata and its markers go, and last the jobs and the data.
RemoveSource(t, f) ==
  /\ "remove" \in Events
  /\ NewRequest(t) /\ MayWriteLock
  /\ MayRemove(SourceOf[f])
  /\ Goto(t, "removeChecked")
  /\ file' = [file EXCEPT ![t] = f]
  /\ UNCHANGED <<disk, cacheFiles, client, jobs, counts, phase, todo, after>>

RemoveMetadata(t) ==
  /\ pc[t] = "removeChecked"
  /\ DropTorrent(SourceFile(t))
  /\ metadata' = metadata \ {SourceFile(t)}
  /\ paused' = paused \ {SourceFile(t)}
  /\ pinned' = pinned \ {SourceFile(t)}
  /\ Goto(t, "removing")
  /\ UNCHANGED <<record, data, cacheFiles, jobs, counts, phase, file, todo, after>>

RemoveDownloads(t, deleteData) ==
  LET gone == {f \in FilesOf(SourceFile(t)) : downloads[f] # None}
      deleted == {f \in FilesOf(SourceFile(t)) : deleteData /\ form[f] # "flat"}
  IN  /\ pc[t] = "removing"
      /\ downloads' = [f \in Files |-> IF f \in gone THEN None ELSE downloads[f]]
      /\ record' = [f \in Files |-> IF f \in gone THEN None ELSE record[f]]
      /\ activeDownloads' = activeDownloads \ gone
      /\ have' = [f \in Files |-> IF f \in deleted THEN 0 ELSE have[f]]
      /\ form' = [f \in Files |-> IF f \in deleted THEN "none" ELSE form[f]]
      /\ verify' = IF deleteData THEN verify \ {SourceFile(t)} ELSE verify
      /\ Finish(t)
      /\ UNCHANGED <<metadata, paused, pinned, cacheFiles, client, pendingDownloads,
                     completed, slots, counts, phase, todo, after>>

RefreshedWhateverState(f) ==
  IF downloads[f] = None THEN None
  ELSE IF Complete(f) THEN "cached"
  ELSE IF f \notin activeDownloads THEN "evicted" ELSE downloads[f]

\* A dashboard request refreshes the records (TrackDownloads).
Refreshed(f) ==
  IF downloads[f] # None /\ f \in activeDownloads /\ Complete(f) THEN "cached"
  ELSE IF f \notin activeDownloads /\ downloads[f] = "cached" /\ ~HasPath(f) THEN "evicted"
  ELSE downloads[f]

\* The request ends early when it is cancelled or when a record cannot be written;
\* an evicted file is in memory by then, one found complete is not.
TrackDownloads(seen, unsaved) ==
  /\ phase = "running"
  /\ unsaved \subseteq {f \in Files \ seen : "full" \in Events /\ Refreshed(f) = "evicted"}
  /\ downloads' = [f \in Files |-> IF f \in seen \cup unsaved THEN Refreshed(f) ELSE downloads[f]]
  /\ record' = [f \in Files |-> IF f \in seen /\ downloads[f] # None THEN Refreshed(f)
                                                                  ELSE record[f]]
  /\ UNCHANGED <<metadata, paused, pinned, data, cacheFiles, client, activeDownloads,
                 pendingDownloads, completed, slots, counts, phase, procs>>

Dashboard ==
  \E seen \in SUBSET Files, f \in Files :
    TrackDownloads(seen, {}) \/ TrackDownloads(seen, {f})

-----------------------------------------------------------------------------
\* Close: downloadCancel, then wait for the jobs, then for the lock, and when the
\* client is closed for the completion handlers.

\* The importer of magnets has been closed before.
CloseBegin ==
  /\ "close" \in Events /\ \A t \in Procs : pc[t] # "fetching"
  /\ phase = "running" /\ phase' = "closing"
  /\ UNCHANGED <<disk, cacheFiles, client, jobs, counts, procs>>

CloseDrained ==
  /\ phase = "closing" /\ JobProcs = {}
  /\ phase' = "drained"
  /\ UNCHANGED <<disk, cacheFiles, client, jobs, counts, procs>>

CloseClient ==
  /\ phase = "drained" /\ MayWriteLock
  /\ phase' = "disconnected"
  /\ attached' = {} /\ allowed' = {}
  /\ UNCHANGED <<disk, cacheFiles, jobs, counts, procs>>

CloseHandled ==
  /\ phase = "disconnected" /\ \A t \in Workers : pc[t] = "idle"
  /\ phase' = "closed"
  /\ UNCHANGED <<disk, cacheFiles, client, jobs, counts, procs>>

\* Memory of a new process.
NoCount == [s \in Sources |-> 0]
Idle == [t \in Procs |-> "idle"]

Init ==
  /\ metadata = {} /\ paused = {} /\ pinned = {}
  /\ record = [f \in Files |-> None]
  /\ form \in [Files -> IF "legacy" \in Events THEN {"none", "flat", "both"} ELSE {"none"}]
  /\ have \in [Files -> 0..Size] /\ \A f \in Files : form[f] # "both" => have[f] = 0
  /\ verify = {}
  /\ cacheFiles = {} /\ attached = {} /\ allowed = {}
  /\ downloads = [f \in Files |-> None]
  /\ activeDownloads = {} /\ pendingDownloads = {} /\ completed = {}
  /\ active = NoCount /\ streams = NoCount /\ slots = 0
  /\ phase = "starting"
  /\ pc = Idle /\ file = [t \in Procs |-> NoFile]
  /\ todo = [t \in Procs |-> {}] /\ after = Idle

\* The process dies at any moment, or exits after Close; the next one finds the
\* disk as it was left.
Restart ==
  /\ "crash" \in Events \/ phase = "closed"
  /\ cacheFiles' = {} /\ attached' = {} /\ allowed' = {}
  /\ downloads' = [f \in Files |-> None]
  /\ activeDownloads' = {} /\ pendingDownloads' = {} /\ completed' = {}
  /\ active' = NoCount /\ streams' = NoCount /\ slots' = 0
  /\ phase' = "starting"
  /\ pc' = Idle /\ file' = [t \in Procs |-> NoFile]
  /\ todo' = [t \in Procs |-> {}] /\ after' = Idle
  /\ UNCHANGED disk

RequestStep(t) ==
  \/ \E f \in Files : Open(t, f)
  \/ OpenPrepared(t) \/ Attach(t) \/ OpenCancelled(t) \/ QueueTrackDownload(t) \/ RetainStream(t)
  \/ ReadToEnd(t) \/ CloseStream(t)

JobStep(t) ==
  \/ SlotObtained(t) \/ WaitCancelled(t)
  \/ MonitorCompleted(t) \/ MonitorNotifies(t) \/ MonitorStopped(t)
  \/ MonitorLeaves(t) \/ MonitorReleases(t) \/ FreeSlot(t)
  \/ HandlerDone(t)

PruneStep(t) ==
  \/ PruneStart(t) \/ PruneDone(t) \/ EvictLock(t) \/ EvictRemove(t) \/ EvictMissed(t)
  \/ \E f \in Files : EvictSkip(t, f) \/ EvictChoose(t, f)

ResumeStep(t) ==
  \/ ResumeStart(t) \/ ResumeAttach(t) \/ ResumeWithoutMetadata(t)
  \/ ResumeCancelled(t) \/ ResumeSchedule(t) \/ ResumeDone(t)
  \/ \E f \in Files : ResumeEntry(t, f)

AdminStep(t) ==
  \/ \E f \in Files : PauseSource(t, f) \/ ResumeSource(t, f) \/ RemoveSource(t, f)
  \/ \E f \in Files : FetchMagnet(t, f)
  \/ FetchDone(t) \/ PauseTorrent(t) \/ UnpauseTorrent(t)
  \/ RemoveMetadata(t) \/ \E deleteData \in BOOLEAN : RemoveDownloads(t, deleteData)

ProcStep(t) ==
  RequestStep(t) \/ JobStep(t) \/ PruneStep(t) \/ ResumeStep(t) \/ AdminStep(t)

Next ==
  \/ /\ phase # "closed"
     /\ \/ \E t \in Procs : ProcStep(t)
        \/ \E f \in Files : Piece(f)
        \/ \E s \in Sources : ImportSource(s) \/ ReadCatalog(s) \/ PinSource(s)
        \/ Dashboard
        \/ CloseBegin \/ CloseDrained \/ CloseClient \/ CloseHandled
  \/ Restart

Spec == Init /\ [][Next]_vars

-----------------------------------------------------------------------------
\* Safety.

\* The reference count of a source is the number of goroutines that use it: open
\* streams, jobs that wait or run, completion handlers.  active guards Evict and
\* RemoveSource; streams is what the dashboard reports as active streams.
RefCount ==
  \A s \in Sources : /\ active[s] = Cardinality(Holders(s))
                     /\ streams[s] = Cardinality(Streams(s))

\* Every occupied slot belongs to a job that will give it back, and there are
\* never more than MaxActiveDownloads of them.
SlotCount == slots = Cardinality(SlotHolders) /\ slots <= MaxActive

\* The torrent of a stream, of a job and of a request in progress is attached:
\* nobody holds a handle of a torrent that eviction or removal has dropped.
HandlesAttached ==
  phase \notin {"disconnected", "closed"} =>
    \A t \in Procs : pc[t] \in RefPC \cup {"attached", "queued", "resumeAttached"}
                       => SourceFile(t) \in attached

\* A file has at most one job, and the two maps say exactly which one it is.
Waiters(f) == {t \in Procs : pc[t] = "waiting" /\ file[t] = f}
Monitors(f) == {t \in Procs : pc[t] \in {"monitor", "completed", "leaving"} /\ file[t] = f}
OneJob ==
  \A f \in Files :
    /\ f \notin activeDownloads \cap pendingDownloads
    /\ Cardinality(Waiters(f)) = IF f \in pendingDownloads THEN 1 ELSE 0
    /\ Cardinality(Monitors(f)) = IF f \in activeDownloads THEN 1 ELSE 0

\* A job's record outlives the job: the monitor's deferred release always finds
\* the source it has to release.
JobsHaveRecords ==
  \A t \in Procs :
    /\ pc[t] # "lost"
    /\ pc[t] \in {"waiting", "monitor", "completed", "leaving", "left"}
         => downloads[file[t]] # None

\* A completion handler reads a complete file, and no two handlers read the same.
HandlersSafe ==
  /\ \A t \in Procs : pc[t] = "handler" => Complete(file[t])
  /\ \A t, u \in Procs : pc[t] = "handler" /\ pc[u] = "handler" /\ file[t] = file[u] => t = u

\* What the dashboard shows as waiting or downloading is carried out: the file has
\* a job, its source is paused or being removed, or a run of ResumeTrackDownloads
\* will come to it.  A run whose request is cancelled leaves the rest of its list
\* behind ("cancel").
ResumeComing(f) ==
  \E t \in Procs :
    \/ pc[t] = "unpausing" /\ SourceFile(t) = SourceOf[f]
    \/ pc[t] = "resumeWanted"
    \/ pc[t] \in {"resuming", "resumeFile", "resumeAttached"} /\ f \in todo[t]
    \/ pc[t] \in {"resumeFile", "resumeAttached"} /\ f = file[t]
BeingRemoved(f) == \E t \in Procs : pc[t] = "removing" /\ SourceFile(t) = SourceOf[f]
DownloadsCarriedOut ==
  \A f \in Files :
    downloads[f] \in Unfinished =>
      Busy(f) \/ SourceOf[f] \in paused \/ ResumeComing(f) \/ BeingRemoved(f) \/ Closing

\* A job in progress is resumed by the next process, unless its file is complete
\* and as long as records can be written (not "full").
JobsResumable ==
  \A f \in activeDownloads \cup pendingDownloads :
    \/ record[f] \in Unfinished
    \/ f \in activeDownloads /\ record[f] = "cached" /\ Complete(f)

\* Cached data disappears only from a source that is not pinned and that no
\* stream, job, handler or request in progress uses: neither a piece of a file nor
\* the file.  An open may rename a complete file to .part to have it verified, or
\* remove one beside a .part, under anybody's eyes; the pieces remain.
InUse(s) == \E t \in Procs : pc[t] \in (RefPC \cup ReadPC) \ FreePC /\ SourceFile(t) = s
DataKept ==
  [][\A f \in Files :
       have'[f] < have[f] \/ (form[f] # "none" /\ form'[f] = "none")
         => SourceOf[f] \notin pinned /\ ~InUse(SourceOf[f])]_vars

-----------------------------------------------------------------------------
\* Liveness.  A goroutine that can run runs: every started operation continues,
\* a job's monitor looks at its file again, Close goes on.  Nobody has to send a
\* request, close a stream or cancel one.  The swarm eventually delivers a piece
\* that is wanted and allowed.
\* A goroutine blocked on the slot channel, or on the RWMutex, is served although
\* others take it in between: both queue their waiters first in, first out.
Continues(t) ==
  \/ OpenPrepared(t) \/ Attach(t) \/ QueueTrackDownload(t) \/ RetainStream(t)
  \/ WaitCancelled(t) \/ MonitorCompleted(t) \/ MonitorNotifies(t)
  \/ MonitorStopped(t) \/ MonitorLeaves(t) \/ MonitorReleases(t) \/ FreeSlot(t)
  \/ HandlerDone(t) \/ PruneDone(t) \/ EvictRemove(t) \/ ResumeStep(t)
  \/ PauseTorrent(t) \/ UnpauseTorrent(t) \/ RemoveMetadata(t)
  \/ \E deleteData \in BOOLEAN : RemoveDownloads(t, deleteData)

Fairness ==
  /\ \A t \in Procs : WF_vars(Continues(t))
  /\ \A t \in Requests : SF_vars(ResumeStart(t))
  /\ \A t \in Workers : SF_vars(SlotObtained(t))
  /\ \A f \in Files : WF_vars(Piece(f))
  /\ WF_vars(CloseDrained) /\ SF_vars(CloseClient) /\ WF_vars(CloseHandled)

FairSpec == Spec /\ Fairness

\* A job, waiting or running, ends with its file cached, unless the provider is
\* closed first: no slot is lost and no waiter is forgotten.
JobsFinish ==
  \A f \in Files : f \in pendingDownloads \cup activeDownloads
                     ~> downloads[f] = "cached" \/ Closing

\* Close terminates: every job sees the cancelled context and every request in
\* progress gives its lock back, and the handlers are waited for.
CloseFinishes == phase = "closing" ~> phase = "closed"
=============================================================================
