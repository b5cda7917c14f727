--------------------------- MODULE TorrentLocking ---------------------------
(***************************************************************************)
(* The locks of the torrent provider and of the combined cache: the        *)
(* RWMutex "operation", downloadMu, and CacheStatus.pruneMu, as they are   *)
(* taken by playback, download jobs, source removal and eviction.          *)
(*                                                                         *)
(* The cache-changed handler that release and releaseStream call is        *)
(* CacheStatus.Prune, and it runs synchronously: in the goroutine, and     *)
(* under the locks, of the caller.  TorrentDownloads abstracts from that   *)
(* and takes each critical section as one step; here the locks are the     *)
(* state, and files and reference counts are left out.                     *)
(***************************************************************************)
EXTENDS FiniteSets

CONSTANTS
  Procs,   \* goroutines
  Nobody,  \* no goroutine
  Events   \* what happens in the instance, see Environment

\* "grow": the combined cache, of which torrents are one part, exceeds its
\* capacity at times;
\* "cached": a file that is already complete is opened, resumed or waited for;
\* "remove": sources are removed;
\* "race": a complete file is scheduled, and its prune runs, while the cache
\* exceeds its capacity or is being pruned.
Environment == {"grow", "cached", "remove", "race"}

ASSUME EventsAssumption == Events \subseteq Environment /\ Nobody \notin Procs

VARIABLES
  pc,          \* where a goroutine is
  ret,         \* where it continues when Prune returns
  readers,     \* goroutines that hold operation.RLock
  writer,      \* the goroutine that holds operation.Lock
  downloadMu,  \* the goroutine that holds downloadMu
  pruneMu,     \* the goroutine that holds CacheStatus.pruneMu
  over         \* the combined cache exceeds its capacity

locks == <<readers, writer, downloadMu, pruneMu>>
vars == <<pc, ret, locks, over>>

WaitingPC == {"evictLock", "removeLock"}
EvictPC == {"evictLock", "evicting"}
PrunePC == {"prune", "stats"} \cup EvictPC
PC == PrunePC \cup WaitingPC
        \cup {"idle", "open", "scheduling", "scheduled", "retain", "streaming",
              "begin", "begun", "leaving", "removing"}

TypeOK ==
  /\ pc \in [Procs -> PC]
  /\ ret \in [Procs -> {"idle", "scheduled", "begun"}]
  /\ readers \subseteq Procs
  /\ writer \in Procs \cup {Nobody}
  /\ downloadMu \in Procs \cup {Nobody} /\ pruneMu \in Procs \cup {Nobody}
  /\ over \in BOOLEAN
  /\ writer # Nobody => readers = {}

Init ==
  /\ pc = [t \in Procs |-> "idle"] /\ ret = [t \in Procs |-> "idle"]
  /\ readers = {} /\ writer = Nobody
  /\ downloadMu = Nobody /\ pruneMu = Nobody
  /\ over = FALSE

-----------------------------------------------------------------------------
Goto(t, p) == pc' = [pc EXCEPT ![t] = p]

\* sync.RWMutex: a writer that waits keeps new readers out.
MayRLock == writer = Nobody /\ \A u \in Procs : pc[u] \notin WaitingPC
MayLock == writer = Nobody /\ readers = {}

LockDownloads(t) == downloadMu = Nobody /\ downloadMu' = t
UnlockDownloads(t) == downloadMu = t /\ downloadMu' = Nobody

\* release, releaseStream: Prune is called where the caller stands, and returns
\* to control point next.
CallPrune(t, next) == Goto(t, "prune") /\ ret' = [ret EXCEPT ![t] = next]

\* Nothing has to be evicted, and nobody is about to evict.
Roomy == ~over /\ \A u \in Procs : pc[u] \notin EvictPC

\* Somebody calls Prune in the middle of a critical section.
PrunesInside == \E u \in Procs : pc[u] \in PrunePC /\ ret[u] # "idle"

-----------------------------------------------------------------------------
\* Playback: open, then the stream.

Open(t) ==
  /\ pc[t] = "idle" /\ MayRLock
  /\ readers' = readers \cup {t}
  /\ Goto(t, "open")
  /\ UNCHANGED <<ret, writer, downloadMu, pruneMu, over>>

QueueTrackDownload(t) ==
  /\ pc[t] = "open" /\ LockDownloads(t)
  /\ Goto(t, "scheduling")
  /\ UNCHANGED <<ret, readers, writer, pruneMu, over>>

\* The job exists, begins or waits for a slot.
ScheduleJob(t) ==
  /\ pc[t] = "scheduling"
  /\ Goto(t, "scheduled")
  /\ UNCHANGED <<ret, locks, over>>

\* The file is complete: scheduleTrackDownloadLocked gives the reference back,
\* inside the critical section of downloadMu and under operation.RLock.
ScheduleCached(t) ==
  /\ "cached" \in Events /\ ("race" \in Events \/ Roomy)
  /\ pc[t] = "scheduling"
  /\ CallPrune(t, "scheduled")
  /\ UNCHANGED <<locks, over>>

Scheduled(t) ==
  /\ pc[t] = "scheduled" /\ UnlockDownloads(t)
  /\ Goto(t, "retain")
  /\ UNCHANGED <<ret, readers, writer, pruneMu, over>>

RetainStream(t) ==
  /\ pc[t] = "retain"
  /\ readers' = readers \ {t}
  /\ Goto(t, "streaming")
  /\ UNCHANGED <<ret, writer, downloadMu, pruneMu, over>>

CloseStream(t) ==
  /\ pc[t] = "streaming"
  /\ CallPrune(t, "idle")
  /\ UNCHANGED <<locks, over>>

-----------------------------------------------------------------------------
\* Download jobs: a waiter that obtained its slot, and a monitor that leaves.

SlotObtained(t) ==
  /\ pc[t] = "idle" /\ LockDownloads(t)
  /\ Goto(t, "begin")
  /\ UNCHANGED <<ret, readers, writer, pruneMu, over>>

BeginJob(t) ==
  /\ pc[t] = "begin"
  /\ Goto(t, "begun")
  /\ UNCHANGED <<ret, locks, over>>

\* The file is complete by now: the reference is released under downloadMu.
BeginCached(t) ==
  /\ "cached" \in Events /\ ("race" \in Events \/ Roomy)
  /\ pc[t] = "begin"
  /\ CallPrune(t, "begun")
  /\ UNCHANGED <<locks, over>>

Begun(t) ==
  /\ pc[t] = "begun" /\ UnlockDownloads(t)
  /\ Goto(t, "idle")
  /\ ret' = [ret EXCEPT ![t] = "idle"]
  /\ UNCHANGED <<readers, writer, pruneMu, over>>

MonitorLeaves(t) ==
  /\ pc[t] = "idle" /\ LockDownloads(t)
  /\ Goto(t, "leaving")
  /\ UNCHANGED <<ret, readers, writer, pruneMu, over>>

\* The monitor releases its reference after the critical section.
ReleaseUnderLock(t) ==
  /\ pc[t] = "leaving"
  /\ CallPrune(t, "begun")
  /\ UNCHANGED <<locks, over>>

MonitorReleases(t) ==
  /\ pc[t] = "leaving" /\ UnlockDownloads(t)
  /\ CallPrune(t, "idle")
  /\ UNCHANGED <<readers, writer, pruneMu, over>>

-----------------------------------------------------------------------------
\* CacheStatus.Prune and Provider.Evict.

Prune(t) ==
  /\ pc[t] = "prune" /\ pruneMu = Nobody
  /\ pruneMu' = t
  /\ Goto(t, "stats")
  /\ UNCHANGED <<ret, readers, writer, downloadMu, over>>

PruneReturn(t) ==
  /\ pc[t] = "stats" /\ ~over
  /\ pruneMu' = Nobody
  /\ Goto(t, ret[t])
  /\ UNCHANGED <<ret, readers, writer, downloadMu, over>>

\* The goroutine announces itself as a writer and waits.
EvictWait(t) ==
  /\ pc[t] = "stats" /\ over
  /\ Goto(t, "evictLock")
  /\ UNCHANGED <<ret, locks, over>>

EvictLock(t) ==
  /\ pc[t] = "evictLock" /\ MayLock
  /\ writer' = t
  /\ Goto(t, "evicting")
  /\ UNCHANGED <<ret, readers, downloadMu, pruneMu, over>>

\* markDownloadEvicted locks downloadMu for every file that goes; when all are
\* gone that may go, the locks are given back.
Evict(t) ==
  /\ pc[t] = "evicting" /\ downloadMu = Nobody
  /\ over' \in BOOLEAN
  /\ writer' = Nobody /\ pruneMu' = Nobody
  /\ Goto(t, ret[t])
  /\ UNCHANGED <<ret, readers, downloadMu>>

-----------------------------------------------------------------------------
\* Source removal, and the growth of the cache.

RemoveLocksDownloadsFirst(t) ==
  /\ "remove" \in Events
  /\ pc[t] = "idle" /\ LockDownloads(t)
  /\ Goto(t, "removeLock")
  /\ UNCHANGED <<ret, readers, writer, pruneMu, over>>

RemoveWait(t) ==
  /\ "remove" \in Events
  /\ pc[t] = "idle"
  /\ Goto(t, "removeLock")
  /\ UNCHANGED <<ret, locks, over>>

RemoveLock(t) ==
  /\ pc[t] = "removeLock" /\ MayLock
  /\ writer' = t
  /\ Goto(t, "removing")
  /\ UNCHANGED <<ret, readers, downloadMu, pruneMu, over>>

\* removeDownloadsForSource locks downloadMu.
RemoveSource(t) ==
  /\ pc[t] = "removing" /\ downloadMu = Nobody
  /\ writer' = Nobody
  /\ Goto(t, "idle")
  /\ UNCHANGED <<ret, readers, downloadMu, pruneMu, over>>

\* Downloads, transcodes and the other providers change the size of the cache.
Grow ==
  /\ "grow" \in Events /\ ("race" \in Events \/ ~PrunesInside)
  /\ over' = ~over
  /\ UNCHANGED <<pc, ret, locks>>

\* What a goroutine does once it has begun, and what begins an operation.
Continue(t) ==
  \/ QueueTrackDownload(t) \/ ScheduleJob(t) \/ ScheduleCached(t) \/ Scheduled(t)
  \/ RetainStream(t)
  \/ BeginJob(t) \/ BeginCached(t) \/ Begun(t) \/ MonitorReleases(t)
  \/ Prune(t) \/ PruneReturn(t) \/ EvictWait(t) \/ EvictLock(t) \/ Evict(t)
  \/ RemoveLock(t) \/ RemoveSource(t)

Begin(t) ==
  Open(t) \/ CloseStream(t) \/ SlotObtained(t) \/ MonitorLeaves(t) \/ RemoveWait(t)

Next == Grow \/ \E t \in Procs : Begin(t) \/ Continue(t)

Spec == Init /\ [][Next]_vars

\* Goroutines run, and a mutex serves those that wait for it.
FairSpec == Spec /\ \A t \in Procs : SF_vars(Continue(t))

-----------------------------------------------------------------------------
\* What the goroutines wait for that hold, or are about to take, a lock.
Waits(t) ==
  \/ pc[t] \in {"open", "evicting", "removing"} /\ downloadMu # Nobody
  \/ pc[t] = "prune" /\ pruneMu # Nobody
  \/ pc[t] \in WaitingPC /\ ~MayLock
Busy == {t \in Procs : pc[t] \notin {"idle", "streaming"}}

\* Not everyone waits for everyone: whatever order playback, jobs, removals and prunes
\* take operation, downloadMu and pruneMu in, one of those at work can go on.  The case
\* that is left out is the one of the deadlock: a prune that scheduleTrackDownloadLocked
\* or beginTrackDownload called under its locks, while the cache has to be evicted from.
InsideRoomy == PrunesInside => Roomy
SomebodyProceeds == InsideRoomy /\ Busy # {} => \E t \in Busy : ~Waits(t)

\* A request that has its torrent gets its stream, whatever prunes, jobs and
\* removals do in the meantime.
OpenFinishes == \A t \in Procs : pc[t] = "open" ~> pc[t] = "streaming"

\* A prune comes to an end and returns to the goroutine that called it.
PruneFinishes == \A t \in Procs : pc[t] = "prune" ~> pc[t] \notin PrunePC
=============================================================================
