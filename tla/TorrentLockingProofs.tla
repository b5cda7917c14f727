------------------------ MODULE TorrentLockingProofs ------------------------
(* Theorems about TorrentLocking, for any number of goroutines. *)
EXTENDS TorrentLocking, TLAPS

-----------------------------------------------------------------------------
\* The inductive invariant.

\* Control points at which operation.RLock and downloadMu are held.  A prune that was
\* called inside a critical section holds the locks of its caller.
ReadPC == {"open", "scheduling", "scheduled", "retain"}
DownloadPC == {"scheduling", "scheduled", "begin", "begun", "leaving"}
HoldsRead(t) == pc[t] \in ReadPC \/ (pc[t] \in PrunePC /\ ret[t] = "scheduled")
HoldsDownloads(t) == pc[t] \in DownloadPC \/ (pc[t] \in PrunePC /\ ret[t] # "idle")

\* Whoever holds a lock is where the code holds it, and the other way round.
LocksHeld ==
  /\ \A t \in Procs : t \in readers <=> HoldsRead(t)
  /\ \A t \in Procs : downloadMu = t <=> HoldsDownloads(t)
  /\ \A t \in Procs : writer = t <=> pc[t] \in {"evicting", "removing"}
  /\ \A t \in Procs : pruneMu = t <=> pc[t] \in {"stats"} \cup EvictPC

IInv == TypeOK /\ LocksHeld

\* Nobody holds a lock at first.
LEMMA InitIInv == Init => IInv
BY EventsAssumption
   DEF Init, IInv, TypeOK, LocksHeld, HoldsRead, HoldsDownloads,
       PC, PrunePC, EvictPC, WaitingPC, ReadPC, DownloadPC

\* Every step of a goroutine takes and gives back the locks its new place says.
LEMMA StepLocks ==
  ASSUME TypeOK, LocksHeld, NEW t \in Procs, Begin(t) \/ Continue(t)
  PROVE  TypeOK' /\ LocksHeld'
<1> USE EventsAssumption DEF TypeOK, LocksHeld, HoldsRead, HoldsDownloads
<1> USE DEF PC, PrunePC, EvictPC, WaitingPC, ReadPC, DownloadPC, Goto, locks, CallPrune
<1>1. CASE Open(t) \/ QueueTrackDownload(t) \/ ScheduleJob(t) \/ ScheduleCached(t)
  BY <1>1 DEF Open, QueueTrackDownload, ScheduleJob, ScheduleCached, MayRLock, LockDownloads
<1>2. CASE Scheduled(t) \/ RetainStream(t) \/ CloseStream(t)
  BY <1>2 DEF Scheduled, RetainStream, CloseStream, UnlockDownloads
<1>3. CASE SlotObtained(t) \/ BeginJob(t) \/ BeginCached(t) \/ Begun(t)
  BY <1>3 DEF SlotObtained, BeginJob, BeginCached, Begun, LockDownloads, UnlockDownloads
<1>4. CASE MonitorLeaves(t) \/ MonitorReleases(t)
  BY <1>4 DEF MonitorLeaves, MonitorReleases, LockDownloads, UnlockDownloads
<1>5. CASE Prune(t) \/ PruneReturn(t) \/ EvictWait(t)
  BY <1>5 DEF Prune, PruneReturn, EvictWait
<1>6. CASE EvictLock(t) \/ Evict(t)
  BY <1>6 DEF EvictLock, Evict, MayLock
<1>7. CASE RemoveWait(t) \/ RemoveLock(t) \/ RemoveSource(t)
  BY <1>7 DEF RemoveWait, RemoveLock, RemoveSource, MayLock
<1> QED BY <1>1, <1>2, <1>3, <1>4, <1>5, <1>6, <1>7 DEF Begin, Continue

\* The inductive invariant holds in every reachable state.
THEOREM InvariantHolds == Spec => []IInv
<1>1. IInv /\ Grow => IInv'
  BY DEF IInv, Grow, TypeOK, LocksHeld, HoldsRead, HoldsDownloads, locks
<1>2. IInv /\ UNCHANGED vars => IInv'
  BY DEF IInv, vars, TypeOK, LocksHeld, HoldsRead, HoldsDownloads, locks
<1>3. IInv /\ [Next]_vars => IInv'
  BY <1>1, <1>2, StepLocks DEF IInv, Next
<1> QED BY <1>3, InitIInv, PTL DEF Spec

\* The locks exclude each other, also with the prunes that run under the locks of their
\* callers: a writer of operation is alone, and downloadMu and pruneMu have one holder.
LocksExclude ==
  /\ \A t, u \in Procs : pc[t] \in {"evicting", "removing"} => ~HoldsRead(u)
  /\ \A t, u \in Procs : pc[t] \in {"evicting", "removing"} /\ pc[u] \in {"evicting", "removing"} => t = u
  /\ \A t, u \in Procs : HoldsDownloads(t) /\ HoldsDownloads(u) => t = u

\* operation, downloadMu and pruneMu are held where the code holds them, in every state
\* and also under the race that the deadlock needs.
THEOREM LocksAreExclusive == Spec => []LocksExclude
<1>1. IInv => LocksExclude
  BY EventsAssumption DEF IInv, TypeOK, LocksHeld, LocksExclude
<1> QED BY <1>1, InvariantHolds, PTL

\* For any number of goroutines, and also under the race: no order in which the locks are
\* taken makes everyone wait, except through a prune that was called under the locks of
\* scheduleTrackDownloadLocked or beginTrackDownload while the cache has to be evicted from.
THEOREM DeadlockNeedsRace == Spec => []SomebodyProceeds
<1>1. IInv => SomebodyProceeds
  <2> SUFFICES ASSUME IInv, InsideRoomy, \A t \in Busy : Waits(t), NEW p \in Busy
               PROVE  FALSE
    BY DEF SomebodyProceeds
  <2> USE DEF PrunePC, EvictPC, WaitingPC, ReadPC, DownloadPC
  <2>1. downloadMu = Nobody
    <3> SUFFICES ASSUME downloadMu # Nobody PROVE FALSE
      OBVIOUS
    <3>1. PICK d \in Procs : downloadMu = d /\ HoldsDownloads(d)
      BY DEF IInv, TypeOK, LocksHeld
    <3>2. pc[d] = "prune" /\ ret[d] # "idle" /\ pruneMu # Nobody
      BY <3>1 DEF Busy, Waits, HoldsDownloads, InsideRoomy, PrunesInside, Roomy
    <3>3. PICK u \in Procs : pruneMu = u
      BY <3>2 DEF IInv, TypeOK
    <3>4. pc[u] = "stats"
      BY <3>2, <3>3 DEF IInv, LocksHeld, InsideRoomy, PrunesInside, Roomy
    <3> QED BY <3>4 DEF Busy, Waits
  <2>2. writer = Nobody
    BY <2>1 DEF IInv, TypeOK, LocksHeld, Busy, Waits
  <2>3. readers = {}
    <3> SUFFICES ASSUME NEW u \in Procs, u \in readers PROVE FALSE
      BY DEF IInv, TypeOK
    <3>1. HoldsRead(u) /\ ~HoldsDownloads(u)
      BY <2>1, EventsAssumption DEF IInv, LocksHeld
    <3> QED BY <3>1, <2>1 DEF HoldsRead, HoldsDownloads, Busy, Waits
  <2>4. pc[p] = "prune" /\ pruneMu # Nobody
    BY <2>1, <2>2, <2>3 DEF Busy, Waits, MayLock
  <2>5. PICK u \in Procs : pruneMu = u /\ pc[u] \in {"stats"} \cup EvictPC
    BY <2>4 DEF IInv, TypeOK, LocksHeld
  <2> QED BY <2>1, <2>2, <2>3, <2>5 DEF Busy, Waits, MayLock
<1> QED BY <1>1, InvariantHolds, PTL

\* The goroutine waits for operation.Lock, which its own read lock keeps from it.
Stuck(t) == pc[t] = "evictLock" /\ t \in readers

\* The case that SomebodyProceeds leaves out is final: a goroutine that evicts under its own
\* operation.RLock, as scheduleTrackDownloadLocked makes it, never gets on, and from then on
\* nobody opens a track.
StuckForGood == [][\A t \in Procs : Stuck(t) => Stuck(t)' /\ ~MayRLock']_vars

\* The deadlock of the finding, for any number of goroutines: nothing that another one does
\* ends the wait of a goroutine that evicts under its own read lock.
THEOREM StuckStaysStuck == Spec => StuckForGood
<1> USE DEF EvictPC, PrunePC, WaitingPC, Goto, locks, CallPrune
<1>1. ASSUME IInv, Next, NEW t \in Procs, Stuck(t)
      PROVE  Stuck(t)'
  <2> USE <1>1 DEF Stuck, IInv, TypeOK, LocksHeld
  <2>1. CASE Grow
    BY <2>1 DEF Grow
  <2>2. ASSUME NEW u \in Procs, Begin(u) \/ Continue(u) PROVE Stuck(t)'
    <3>1. CASE Open(u) \/ QueueTrackDownload(u) \/ ScheduleJob(u) \/ ScheduleCached(u)
      BY <3>1 DEF Open, QueueTrackDownload, ScheduleJob, ScheduleCached
    <3>2. CASE Scheduled(u) \/ RetainStream(u) \/ CloseStream(u)
      BY <3>2 DEF Scheduled, RetainStream, CloseStream
    <3>3. CASE SlotObtained(u) \/ BeginJob(u) \/ BeginCached(u) \/ Begun(u)
      BY <3>3 DEF SlotObtained, BeginJob, BeginCached, Begun
    <3>4. CASE MonitorLeaves(u) \/ MonitorReleases(u)
      BY <3>4 DEF MonitorLeaves, MonitorReleases
    <3>5. CASE Prune(u) \/ PruneReturn(u) \/ EvictWait(u)
      BY <3>5 DEF Prune, PruneReturn, EvictWait
    <3>6. CASE EvictLock(u) \/ Evict(u)
      BY <3>6 DEF EvictLock, Evict, MayLock
    <3>7. CASE RemoveWait(u) \/ RemoveLock(u) \/ RemoveSource(u)
      BY <3>7 DEF RemoveWait, RemoveLock, RemoveSource
    <3> QED BY <2>2, <3>1, <3>2, <3>3, <3>4, <3>5, <3>6, <3>7 DEF Begin, Continue
  <2> QED BY <2>1, <2>2 DEF Next
<1>2. ASSUME NEW t \in Procs, Stuck(t)'
      PROVE  ~MayRLock'
  BY <1>2 DEF Stuck, MayRLock
<1>3. IInv /\ [Next]_vars => [\A t \in Procs : Stuck(t) => Stuck(t)' /\ ~MayRLock']_vars
  BY <1>1, <1>2
<1> QED BY <1>3, InvariantHolds, PTL DEF Spec, StuckForGood
=============================================================================
