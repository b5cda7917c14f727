# Peerphonic: TLA+ models, checks and proofs

Peerphonic is a music server written in Go. It speaks OpenSubsonic to players and
a small API of its own to its web interface, and it plays from three kinds of
source: a local directory, torrents and Soulseek. What is hard in it is what
happens behind the API: a file that is not there yet is downloaded while it is
played, several requests share that download, a cache of limited size is pruned
meanwhile, the catalog follows what scans, imports and edits do at the same time,
and everything must survive a restart. These modules model those parts.

Paths below are relative to `src/backend/`; `torrent/` stands for
`internal/adapters/providers/torrent/`, `soulseek/` for
`internal/adapters/providers/soulseek/`, `services/` for
`internal/core/services/` and `sqlite/` for `internal/adapters/storage/sqlite/`.

## 1. Inventory

| Component | State | Operations | Shares state with | What makes it correct |
|---|---|---|---|---|
| Torrent provider, `torrent/provider.go`, `downloads.go`, `magnet.go` | torrents of the client, download records in memory and on disk, `activeDownloads`, `pendingDownloads`, slots, two reference counts per source, pause and pin markers, data of an older layout | open, read, close a stream; schedule, monitor, finish a job; resume; pause, resume, pin, remove a source; evict; fetch a magnet; close | combined cache (synchronous callback), importer, enricher | references equal users, one job per file, slots given back, data not taken from under users, records resumable, close ends |
| Soulseek downloads, `soulseek/download.go`, `monitoring.go`, `persistence.go` | jobs and records per file, gate, readers per file, persisted jobs; batches and transfers at slskd | resolve, ensure, enqueue with retries, monitor, cancel, retry, evict, restore, resume, close | slskd (HTTP), combined cache, pins | slots neither lost nor doubled, jobs fail for a reason, waiters answered, records restorable, files kept while they are read |
| Operations with a Soulseek peer, `soulseek/slskd.go` | a gate per peer, counted users | acquire, repeat, release | slskd | one operation per peer at a time |
| Soulseek searches, browsing, covers, `soulseek/slskd.go`, `artwork.go`; discovery, `services/discovery.go` | searches at slskd, retained results and collections, artwork jobs, covers on disk | search, preview, add, open artwork, close | slskd, peer gates, catalog | requests end, searches are deleted at slskd |
| Combined cache, `services/cache_status.go` | `pruneMu` | prune, stats | calls both providers' `Evict`, is called by them | no deadlock, limit restored |
| Media cache and transcoding, `services/media_cache.go`, `transcoding.go`, `internal/streaming/ffmpeg.go` | entries (database), blobs (files), flights, jobs | transcode, open, put, prune | OpenSubsonic handler | only complete variants, `Put` reports what is stored, nothing lost from the index, waiters answered |
| Scan manager, scanners, enrichment, imports, `internal/scanner/` | scan status, import jobs and their records, the metadata directory | scan, upload, import a magnet, remove, enrich | catalog, torrent provider | one scan at a time, the catalog comes to match the directories, imports end |
| Catalog, `sqlite/catalog.go` (and PostgreSQL) | tracks, sources, album and track aliases | replace a provider's tracks, save sources, update a track | scanners, discovery, edits | replacement is atomic, ids that clients keep keep resolving |
| Accounts, `services/users.go` | accounts, permissions, sealed credentials | create, change, delete accounts; authenticate | API handlers, credential key | an administrator remains, managers do not touch administrators |
| Annotations and playlists, `services/annotations.go`, `playlists.go` | rows in the database | star, rate, scrobble; create, update, delete lists | catalog | plays are counted once, entries are not lost |
| Start-up, credential key, migrations, backup and restore, `internal/backup/`, `internal/adapters/auth/`, `sqlite/identity_migration.go`, `logical_track_migration.go` | database file, key file, archive, recovery copies | open, migrate, create the key, back up, restore | command line, accounts | all or nothing, nothing is lost, the key fits the credentials |
| Library cache, `services/library_cache.go` | pins per track, album and source | pin, unpin, prefetch | providers' pin checkers | a pinned item is prefetched and not evicted |
| Play queue, transfer settings, streaming, artwork services | rows, files | overwrite, apply and save, dispatch | providers | no relation between requests |
| Observability, `internal/observability/` | counters, failure windows | record, limit | API handlers | the limiter blocks and unblocks |
| API handlers, metadata readers, configuration, web frontend | none of their own | decode, dispatch, encode | everything | not concurrent |

Components call each other directly; there are no queues between them. Callbacks
are the critical interactions: a provider that gives a reference back calls
`CacheStatus.Prune`, which calls the providers' `Evict`, in the caller's goroutine
and under the caller's locks; a completed file calls the enricher, which reads the
file while it may be evicted and writes to the catalog while a scan replaces it.
Everything else meets in the database: services read in one transaction, decide,
and write in another.

The behaviours that are hard to test are listed, each at its line, under `hazards`
in `PROJECT.json`.

## 2. Modules

| Module | Models |
|---|---|
| `TorrentDownloads` | the torrent provider: streams, jobs, slots, completion handlers, eviction, resume, administration, close, crash and restart |
| `TorrentLocking` | the locks of the torrent provider and of the combined cache, with the synchronous prune |
| `SoulseekDownloads` | the Soulseek download coordinator with slskd |
| `TranscodeCache` | single flight of transcodes, FFmpeg and its reader, the media cache |
| `Catalog` | the catalog tables, the scan manager and the scanners, imports, enrichment, edits, added discoveries |
| `Accounts` | the user service |
| `UserData` (extends `Accounts`) | annotations and playlists, in the same database |
| `Storage` (extends `UserData`) | start-up, credential key, migrations, backup and restore; composes the three |
| `SingleFlight` | abstract specification: one request at a time produces a variant or a cover, the others wait for it; `TranscodeCache` and `Search` implement it |
| `PeerTurns` | abstract specification: operations with a peer take turns |
| `PeerOperations` | the gates of the Soulseek client; implements `PeerTurns` |
| `Search` (extends `PeerOperations`) | searches, browsing, covers, discovery, close of the client |
| `TorrentDownloadsProofs`, `TorrentLockingProofs`, `SoulseekProofs`, `TranscodeProofs`, `CatalogProofs`, `StorageProofs`, `SearchProofs` | theorems about the modules they are named after; `StorageProofs` covers `Accounts`, `UserData` and `Storage`, `SearchProofs` the refinements of `PeerTurns` and `SingleFlight` |
| `Sums` | sums and increasing sequences without recursion, for `TranscodeCache` and `UserData` |
| `Counting` | lemmas on counters, sums and orders that four of them share |
| `MC...` | instances: a few model values, scenarios, symmetry, a view |

What the environment does in an instance (a crash, an eviction, an outage, ...) is
named by a set of events. `TorrentDownloads`, `TorrentLocking` and `TranscodeCache`
have a constant `Events`. The other specifications have a constant `Scenarios`, a
set of such sets of which the initial state chooses one: several small
environments are explored in one run, each in full, without the product of all of
them. `SoulseekDownloads` and `Search` scenarios also say which requests are made.
A guard `"crash" \in Events` (or `\in events`, `Happens("crash")`) is thus not a
guard of the code: the theorems hold for every value of the constant, the runs
choose the values that their question needs.

Definitions that no action uses and that stand just before the one they resemble
(`DecrementedTwice` before `Decremented`) are wrong variants of it. They are the
mutants of `PROJECT.json`: for every checked property, the model with the wrong
variant in place violates it. Some variables are history only (`Storage.owedDbs`,
`db.played`, `req[c].stale`): no guard reads them, properties do.

### TorrentDownloads

A process is a goroutine, `pc` is where it is. `Requests` serve HTTP requests;
`Workers` run jobs (`waitForDownloadSlot`, then `monitorTrackDownload`) and
completion handlers. The number of both is a bound of the instance. The RWMutex
`operation` is derived from the control points at which it is held (`ReadPC`,
`WritePC`). A critical section of `downloadMu`, `cacheMu` or `completionMu` is one
step; between two critical sections anything may happen.

| Actions | Code |
|---|---|
| `Open`, `OpenPrepared`, `Attach`, `OpenCancelled`, `QueueTrackDownload`, `RetainStream`, `ReadToEnd`, `CloseStream` | `open`, `boundedReader` |
| `MigrateLegacyData`, `PrepareData`, `PrepareFails`, `VerifyData` | `migrateLegacyData`, `prepareLegacyData`, `reconcileCacheData` and the client's verification; parts of every open and of `ReadCatalog` |
| `ScheduleBusy`, `ScheduleCached`, `ScheduleBegin`, `ScheduleWait` | the four ways of `scheduleTrackDownloadLocked` |
| `SlotObtained`, `WaitCancelled` | `waitForDownloadSlot` |
| `MonitorCompleted`, `MonitorNotifies`, `MonitorStopped`, `MonitorLeaves`, `MonitorReleases`, `FreeSlot` | `monitorTrackDownload` and its deferred function |
| `NotifyFirst`, `NotifyAgain`, `HandlerDone` | `notifyCompleted` |
| `PruneStart` ... `EvictMissed`, `EvictRemove` | the cache-changed handler and `Evict` |
| `Resume...` | `ResumeTrackDownloads`, at startup and by `ResumeSource` |
| `PauseSource`, `ResumeSource`, `RemoveSource`, `PinSource`, `FetchMagnet`, ... | administration |
| `Dashboard` | `TrackDownloads`: the refresh of the records that the dashboard causes |
| `Close...`, `Restart` | `Close`; the end of the process at any moment, or after `Close` |

`have` counts the pieces of a file, `form` says where it lies: nowhere, in the
directory of an older release (`flat`), as a `.part`, at its path (`plain`), or both
of the last two. `SetState` writes the record in memory, and the one on disk unless
the disk is `full`: the code ignores that error everywhere.

Abstractions. A file has `Size` pieces, and only their number counts. The swarm
delivers any piece that is wanted and allowed (`Piece`, external). The prune that
follows a release inside `scheduleTrackDownloadLocked` and `waitForDownloadSlot` is
left to `TorrentLocking`.
`RemoveMetadata` removes the metadata file and the markers in one step. Transfer
limits and the read-only reports are left out.

### TorrentLocking

Here the locks are the state and everything else is left out: who reads, who
writes, who holds `downloadMu` and `pruneMu`, who waits as a writer (which keeps
new readers out, as `sync.RWMutex` does), and whether the combined cache exceeds
its capacity. `CallPrune` is the synchronous call of the cache-changed handler and
`ret` is where it returns to. Paths that take one of these locks alone and call
nothing under it (`TrackDownloads`, statistics, pausing, pinning) cannot take part in
a cycle and are left out. `ScheduleCached`, `BeginCached` and `Grow` carry guards that
are not in the code: without the event `race` they keep a complete file from being
scheduled while the cache has to be evicted from, which is the case of the finding.

### SoulseekDownloads

A job object has one goroutine (`pc[j]`: `startEnqueue`, then `monitorDownload`)
and at most one execution of `finishJob` (`fin[j]`), which any goroutine may
cause. Persisting is a step of its own wherever it happens after the job's lock was
given back, since `persistJob` writes what the job is when it gets `persistMu`, not
what it was when the caller decided. A cancellation stops the job in one step
(`CancelStops`) and finishes it in another, and the job's own goroutine may see the
done context in between and finish it as failed.
slskd is external: it accepts a batch, refuses it (no batch, or failures, or later a
batch without transfers: the event `refuse`) or answers with an error, the answer may
be lost after it has accepted, a transfer is queued, in progress, and then succeeds,
is rejected, breaks, or is cancelled. `PathOf` is the path of a key: `finalPath` is made
of the track and the filename (`soulseek/download.go:235`), so alternatives of one track
may share it, while readers are counted per key.

Job objects and transfers are drawn from finite sets and reused when nobody refers
to them any more (`Free`, `Unused`); the view `Reachable` of the MC module hides
what is left in unused ones. Abstractions: persisting does not fail, a complete
file has the right size, also where keys share a path (slskd renames a file whose
target exists; that name is not modelled), the order in which candidates are evicted is
any order, and a prune may start at any moment.

### TranscodeCache

The request that leads a flight owns four things that run concurrently: its own
reading, FFmpeg, the goroutine that waits for FFmpeg, and the goroutine that
copies into the cache. They are fields of one record. Output is counted in chunks;
a blob is the number of chunks in it. The order of the entries by last access is the
set `older` of pairs of an older and a newer entry.
`PutBlob` (rename) happens outside the lock, `PutEntry` and the prune under it, and
the two deletions of an eviction are two steps, so that a crash may fall between
any two of them. On a disk that is `full` every write and every deletion may fail, the
deletions whose error `Put` and `Open` ignore included. `Total`, the sum that `pruneLocked` adds up, is a number of units
(`SumOf`), which the provers can reason about. `OneFlight` is the refinement of
`SingleFlight`: the leader of a variant is the request between `flights[key] = flight`
and `finishFlight`. Abstractions: `SetPinned` and `Remove` are never called by the
application and are left out; a request that found the variant in the cache reads
an open file, which an eviction does not disturb.

### Catalog

An audio file is a key: a file of the music directory, the audio file of a torrent,
or a file a Soulseek peer offers. `rows`, `source`, `albumAlias` and `trackAlias`
are the tables; one transaction is one step, and between two of them anything may
happen. A scan is a process of stages (`scan[p].stage`), run by the periodic tick
or a manual start (`Background`), by a request that has uploaded or removed a
source, or by the job of a magnet; `scanning` is what `Manager.begin` looks at.

| Actions | Code |
|---|---|
| `Start`, `Begin`, `Finish` | `Manager.Start`, `ScanNow`, `Run`, `begin`, `finish` |
| `ScanLocal`, `ScanReplaceLocal`, `ScanAlias` | `Scanner.Scan`, `normalizeCompilationAlbums`, `SaveTrackAlias` per file |
| `ScanList`, `ScanTorrent`, `ScanReplaceTorrents` | the scanner of the metadata directory |
| `ReplaceProviderTracks`, `UpdateTrack` | the transactions of `sqlite/catalog.go` |
| `Upload`, `Remove`, `RequestScan` | `Importer.Import`, `SourceManager.RemoveSource`, and the scan after them |
| `ImportURI`, `Fetched`, `JobWrite`, `JobScan`, `JobRefused`, `JobConclude`, `JobExit`, `Restart` | `MagnetImporter` |
| `Complete`, `EnrichRead`, `EnrichWrite`; `EditRead`, `EditWrite` | `Enricher.Enrich`; `UpdateTrackMetadata` |
| `AddDiscovered`, `AddCollection`, `RefreshRead`, `RefreshWrite` | `DiscoveryService.Add`, `AddCollection`, and `Refresh`, which reads a row and saves it again later |

A file that cannot be read (`Unreadable`) is skipped (`Skip`): the scan reports a warning
(`lastWarned`), succeeds, and the replacement drops the sources of that file. Only the
root of a directory, the database and a cancelled context make a scan fail (`ScanFail`).
An album id leads to the tracks filed under it, and to aliases only if there are none
(`TracksByAlbum`).

Abstractions. An album is the pair of its album artist and its name, and the id of
a track is its title, artist and album: the hashes of the code are injective here.
A torrent holds one audio file. What a path or a tag says is given by constants
(`Title`, `Home`, `Tags`). The case of a discovered track without a canonical identity
is left out: the Soulseek client gives every track an artist and an album
(`soulseek/slskd.go:451-499`). `calm` is the moment after which the environment rests;
the liveness properties are about what follows it.

### Accounts, UserData, Storage

One specification in three layers over one database record `db`: its accounts,
annotations and playlists. A request is admitted with the user it was
authenticated as (`Admit`) and acts later on what it read then; `mu` is
`UserService.mu`, which the changes of accounts take and which annotations and
playlists do not. `Storage` adds the server process (`phase`: opening, migrating,
loading or creating the key, ensuring an administrator, serving), the key file, and
the two maintenance commands. Every rename of a restore is a step. An error is undone
(`RestoreFails`), or undone in part, because a link was made whose staged file could not
be removed or because an error of the undoing is ignored (`RestoreStuck`); a crash undoes
nothing (`RestoreCrashes`). `Plays` is again a sum of
units, and `WithoutPositions` takes the kept positions in increasing order
(`InOrder`) instead of walking the list.

Abstractions. A credential is the key it was sealed with. A snapshot and an archive
verify. An old id is renumbered as the constants `Identities` and `LogicalTracks`
say. An operator runs one maintenance command at a time, restores while the server
is stopped in order, and repeats a restore that was interrupted or could not be undone
before anything else is backed up.

### PeerTurns, PeerOperations, Search

`PeerTurns` says what slskd needs: operations with one peer take turns.
`PeerOperations` is `doPeerJSON`: a gate is made when a request needs one, counted
by its users, and forgotten by the last; its semaphore is given back before the
count is, so a gate can be found free and about to be forgotten. `Turns` is the
refinement mapping: the turn of a peer belongs to those who are past the semaphore
(`Operating`). Names are spelled differently and folded (`Fold`). `Search` adds
everything that uses the gates, and what does not: searches with their two rounds
and retries, the goroutine that deletes them, the retained results and collections
of the discovery service, each with its own time, the single flight of covers with its monitor, and
`Client.Close`. `CoversShared` is its refinement of `SingleFlight`. How answers of slskd become tracks is a choice among results.

## 3. Runs

| Run | Bounds | Events | Shows |
|---|---|---|---|
| `torrent_jobs` | 1 torrent, 2 files of 2 pieces, 2 requests, 3 workers, 1 slot | pin, remove, evict, crash, legacy | references, slots, one job per file, handlers, resumable records, attached torrents, kept data |
| `torrent_admin` | 1 file of 1 piece, 2 requests, 2 workers | all but cancel | records outlive jobs, what is shown as a download is carried out |
| `torrent_live` | 1 file, 2 requests, 2 workers, 1 slot | evict, cancel, close | jobs finish, close ends |
| `torrent_locks` | 3 goroutines | grow, cached, remove | not everyone waits for everyone, opens and prunes end |
| `torrent_locks_cached` | 3 goroutines | grow, cached, race | **violation**, see Findings |
| `soulseek_jobs` | 1 key, or 2 with one path, 2 job objects, 2 attempts; up to 2 requests and 2 transfers | {cancel, evict}, {outage, crash}, {close, crash, refuse}, {evict} with 2 keys | slots, explained failures, records describe jobs and can be restored, a file that is read goes only in the name of another key |
| `soulseek_streams` | 2 keys with one path | {evict} | **violation**, see Findings |
| `soulseek_live` | 1 or 2 files, 2 jobs, 1 slot, 1 transfer | {cancel, outage}, {close} with 2 files | waiters answered, jobs end, close ends although a job waits for the gate |
| `transcode` | 2 variants, one too large, 2 requests, capacity 1 | full, crash | complete blobs, `Put` answers truly, blobs are accounted for, waiters answered |
| `catalog` | 2 local files in one directory, 2 torrents, 1 peer, 1 request | {retag, warn}, {magnet, nopeers, diskfull, restart}, {magnet, fail}, {upload, remove, fail}, {complete, edit, remove, restart}, {complete, discover, warn}, {edit, discover}, {edit, refresh} | after a scan without errors and warnings the catalog is what the directories hold, album ids keep leading somewhere, imports end, the catalog settles |
| `storage` | 3 names, 2 requests at a time, 4 media, 1 playlist, 2 keys | {users}, {notes, kill}, {lists, rescan}, {legacy, kill, stop, backup, restore, fail, stuck, crash}, {plays, stop, backup, restore, fail, stuck, crash} | an administrator remains and is guarded, plays and entries are kept, restores that can be undone are atomic, none loses anything, the key fits |
| `search` | 3 requests with two spellings of one user, 1 result, 1 cover, 2 attempts | 5 combinations of searches, previews, lookups and covers with cancel, close, age | the gates implement `PeerTurns`, searches are deleted, requests end |

Why the bounds are enough for the interesting cases. One slot and two files make
one job wait for another; a file that is evicted and requested again waits for the
slot that its own previous job still holds, so one file suffices for the liveness
run. Three workers are a waiting job, a monitored one and a completion handler at
the same time. Two requests race each other to the same file. Two pieces let a
file be partial. In the Soulseek runs the second job object is the successor of a
cancelled, failed or evicted one, or the job of the other key of the path. In `transcode`
the second variant is larger than the cache: it evicts the first one before it is
discarded, while the first may be stored anew. The cache of `torrent_jobs` may begin with files of the older layout, whole or
not, so that an open moves and verifies one file while another of the torrent is
downloaded or read. In `catalog` two files of one directory make and unmake a
compilation, and one recording exists in the music directory, in a torrent and at
a peer, so that three providers share a row; two magnet jobs and the periodic scan
compete for one scan. In `storage` the third account appears and disappears while
two requests are about the same name; two restores, one of them failed or
interrupted, make the second preserve what the first left; the legacy database
holds an account sealed with the key beside it, annotations of an old and a new id,
and a playlist with both. In `search`
three previews are one inside the gate, one waiting and one arriving while the
gate is forgotten. Interchangeable goroutines, jobs, transfers, clients and names
are reduced by symmetry in the runs without liveness. Two views leave out what no step and
no property reads: what is left in job objects and transfers nobody refers to
(`Reachable`), and the states of the transcodes that the dashboard shows
(`WithoutDashboard`).

What a run leaves out on purpose, or a property exempts, because the code violates
the property there:

* `torrent_jobs` without `magnet` (`HandlesAttached`): `FetchMagnetMetadata`
  (`torrent/magnet.go:39`) drops the torrent when it returns, although a stream may
  have begun to use it after the metadata was imported another way.
* `torrent_jobs` without `cancel` and `pause` (`JobsResumable`): a `ResumeSource`
  request that is cancelled while it waits for the torrent marks the record as
  failed (`torrent/downloads.go:110`), although the job of that file may be running.
  Both events are needed: `JobsAreResumable` proves the property if one of them does
  not happen. It is left out with `full` too: a record that could not be written is not
  resumed.
* `torrent_admin` without `cancel` (`DownloadsCarriedOut`): a `ResumeSource` request that
  is cancelled leaves the rest of its list as waiting, with no job until the next start.
* `DataKept` speaks of pieces and of a file that is gone altogether. An open that verifies
  a migrated source renames a complete file to `.part`, or removes it beside a `.part`,
  under the read lock and whoever uses it (`torrent/provider.go:616-624`); the pieces stay.
* `torrent_live` without `pause`: the job of a paused source keeps its slot
  (`torrent/provider.go:761`), and others wait until it is resumed.
* `torrent_locks` without `race`: the finding.
* `FailuresExplained` lets a job that slskd has not accepted fail when the server
  stops: a job whose batch is being posted at `Close` is persisted as failed
  (`soulseek/download.go:373`); and, by the same line, one that is cancelled while its batch
  is posted, if its own goroutine is faster than `finishJob(Cancelled)`. It says nothing
  during an outage.
* `ActiveKept` lets a file go under a reader of another key with the same path: the
  second finding. `UsedFilesAreKept` says that nothing else takes it.
* `JobsRecorded` exempts scenarios with `cancel` and `evict`: the delayed persist of
  a finished job overwrites the record of its successor
  (`soulseek/persistence.go:18`). It exempts `pruneAtStart` too, the eviction that
  precedes the resumption of the jobs: a refresh of the dashboard shows the file as
  evicted before `markEvicted` has written it, a retry makes a successor, and then
  the record of the evicted job replaces the successor's. A job that waits for slskd's
  answer has the record `queued`, which a restart marks as failed
  (`soulseek/persistence.go:137-143`). The second part of `RecordsRestorable` exempts a
  process that is closing, whose jobs leave their records for the next one, and a job that
  a cancellation has stopped and is about to finish.
* `NoOrphans` exempts a crash, and a `Put` that can neither save its entry nor delete its
  blob (`services/media_cache.go:50`), which it reports as failed.
* `CatalogCurrent` asks less of a scan with warnings: the catalog then holds nothing that
  the directories lack, but the sources of the skipped files are gone
  (`internal/scanner/torrents/scanner_test.go:48` wants it so). `CatalogSettles` is about a time when
  files can be read again.
* No run claims that pinned Soulseek files are kept: the prune at startup
  (`cmd/peerphonic/app.go:193`) precedes the pin checker (`:239`).
* `catalog` without `early`: a magnet that is submitted again after its job has
  failed, before its goroutine has left the active set, becomes a job that nobody
  runs (`ImportsEnd`; `internal/scanner/torrents/magnet_importer.go`).
* `AlbumsResolve` says that an album id goes on leading to the track, or to the tracks that
  are filed under it: an album that keeps a track no longer leads to the one that moved,
  because `TracksByAlbum` (`sqlite/catalog.go:610-613`) reads aliases only if it finds no
  track. It exempts the album that a row leaves when a track is added or refreshed from
  Soulseek: `saveTrackSource` (`sqlite/source_writer.go:66`) overwrites `album_id` and
  leaves no alias, so an album id that an edit had given the track leads nowhere.
  Aliases survive the addition.
* `CatalogSettles` does not include the ids made from paths: `SaveTrackAlias` follows
  the replacement in transactions of its own, so they are gone in between.
* `AdministratorsGuarded` exempts a request whose target has been deleted and created
  again after it looked: `UpdatePassword` reads the role outside the mutex
  (`services/users.go:166`).
* `EntriesKept` exempts requests that worked on an older version of the list, and
  entries whose track the catalog did not have when the list was read: both are
  lost when the list is written back (`services/playlists.go:104`).
* `Storage.Restore` requires that the server was stopped in order (`~hot`): a
  restore moves the database but knows nothing of the write-ahead log a killed
  server leaves beside it.
* `RestoreAtomic` and `CredentialsUsable` exempt a restore that was interrupted, or that
  failed and was not undone (`RestoreStuck`), and was not repeated: the restored database
  may stand without its key, and a start creates a new one. Not undone is a restore without
  `--force` whose staged file could not be removed after the link was made
  (`internal/backup/restore.go:233-237`), and one whose undoing met errors, which are
  ignored (`:239-242`, `:255-258`). `RestoreAtomic` then still says that each place has the
  archived file, the old one or none, and `RecoveryKept` holds throughout.
* `SearchesDeleted` exempts a client that is closed, and searches whose POST was
  answered but the answer was lost, which the client cannot name.

### Findings

A complete torrent file that is scheduled while the combined cache is over its
capacity deadlocks the provider. `waitForDownloadSlot` (`torrent/downloads.go:193`, the
path of the trace) releases its reference under `downloadMu`, and
`scheduleTrackDownloadLocked` (`:162`) under `operation.RLock` and `downloadMu`; the
release prunes synchronously; the prune waits for `operation.Lock`, which an open that
waits for `downloadMu`, or the goroutine itself, keeps from it. `docs/user-guide.md:90`
promises that "Completed cached data is reused by later playback and range requests."
`DeadlockNeedsRace` proves that this is the only deadlock of these locks, and
`StuckStaysStuck` that a goroutine which evicts under its own read lock waits for ever.

An eviction takes a Soulseek file from a stream. `evict` (`soulseek/monitoring.go:259`)
looks at the readers of a record's own key and removes the record's path; alternatives of
one track with the same filename share the path. A stream that has the file open reads
on, one that has not yet opened it fails. `docs/providers.md:66` says "Active streams
are protected." (`soulseek_streams`, `StreamsProtected`).

### Known deviations

Behaviours met while modelling that a maintainer may want to change. No document
says otherwise, so no run claims a violation; where the model reaches them, the
list above says which property steps aside.

* A Soulseek job that is cancelled while its batch is posted, or between two
  attempts, is finished as cancelled and then set to queued again
  (`soulseek/download.go:452`, `:405`): it is not monitored and cannot be retried.
* Torrent data of an older layout: a file beside a fresh `.part` is ignored; in a source
  that is to be verified, a `.part` beside a complete file makes every open of the source
  fail (`PrepareFails`); records that could not be written are lost without a word.
* Media cache: a `Put` whose blob is evicted between its rename and the lock leaves an entry
  without a blob until the next lookup of it; a blob whose entry and deletion both failed is
  known to nobody.
* `restore` of Soulseek jobs takes slots without looking at the limit
  (`soulseek/monitoring.go:67`).
* `processReader.wait` (`internal/streaming/ffmpeg.go:85`) calls `command.Wait` while
  stdout is being read. `Wait` closes the pipe when the process has exited; a reader
  that has not reached the end gets an error, and the complete variant is neither
  delivered nor cached.
* Catalog: an upload or removal that meets a running scan leaves the catalog as it
  is until the next scan; the first failing scanner keeps the others from running;
  edits last until the next scan that finds the track, and an enrichment or an
  added discovery writes back what it read before an edit.
* Accounts: annotations, playlists and the queue are kept by name and survive the
  account; a new account of that name finds them.
* Restore and key: a key file is empty between its creation and its writing, and a
  process killed there does not start again.
* Search: a cancelled client that leads a cover fails everybody who waits for it; the
  job of a fetched cover stays in the map, so a cover that is deleted later is not
  fetched again; a collection may be kept after a newer search has replaced its
  result; a search whose start was answered after `Close` is not deleted.
* Outside the models: two concurrent changes of the transfer settings may leave
  another limit applied than saved; unpinning a track may race pinning it again.

### Fairness

Weak fairness of every step that a goroutine takes by itself: the Go scheduler
runs it. Strong fairness where a goroutine competes for something that others take
in between: the slot channel and the mutexes, whose waiters are queued; the
Soulseek gate, whose release wakes all waiters, so that a job which newcomers beat
to it for ever is left out; a magnet job that wants to scan, which tries twice a
second while scans are minutes apart; and the deadline of a search, a timer that
stays ready while the select around it takes ticks. Periodic scans come (`Start`).
The environment is fair only where it has to be: the swarm delivers a wanted
piece, slskd answers or the HTTP client's timeout does, slskd ends its transfers,
FFmpeg ends, the client that leads a flight reads its stream or goes away (the
server sets no write timeout, so a client that does neither stalls the flight),
and a process that is to be closed in a Soulseek scenario is closed at some time.
Nobody has to send a request, to cancel, to close a stream, or to crash. The
liveness of `Catalog` is claimed from the moment on at which files stop changing.

## 4. Proofs

A run explores one instance; the theorems hold for every value of the constants:
any numbers of files, goroutines, requests, peers, accounts and slots, and every
set of events unless a hypothesis is named. Each proofs module has an inductive
invariant, some have further ones that rest on the first, with one
lemma per conjunct with one step per action, and short final theorems. The
invariants were checked by TLC before they were proved.

| Module | Theorem | States |
|---|---|---|
| `TorrentDownloadsProofs` | `TypeCorrect` | `Spec => []TypeOK` |
| | `ReferencesBalanced`, `SlotsBounded`, `RecordsOutliveJobs` | `RefCount`, `SlotCount`, `JobsHaveRecords` |
| | `HandlesStayAttached` | `HandlesAttached`, if `"magnet" \notin Events` |
| | `DataIsKept` | `DataKept` (action property) |
| | `JobsAreSingle`, `HandlersAreSafe` | `OneJob`, `HandlersSafe` |
| | `DownloadsAreCarriedOut` | `DownloadsCarriedOut`, if `"cancel" \notin Events` |
| | `StartUpMeetsNoJob` | if `"pause" \notin Events`, the resumption at start-up meets neither a job nor a request |
| | `JobsAreResumable` | `JobsResumable`, if `"full" \notin Events` and `"pause" \notin Events \/ "cancel" \notin Events` |
| `TorrentLockingProofs` | `LocksAreExclusive` | readers, writers and mutexes exclude each other |
| | `DeadlockNeedsRace` | `SomebodyProceeds`, the race of the finding included |
| | `StuckStaysStuck` | who waits for the write lock under its own read lock waits for ever |
| `SoulseekProofs` | `GateIsBalanced`, `RecordsAreRestorable`, `JobsAreRecorded`, `FailuresAreExplained` | `SlotsHeld`, `RecordsRestorable`, `JobsRecorded`, `FailuresExplained` |
| | `ReadersKeepFiles`, `UsedFilesAreKept` | `ActiveKept`, and that a request loses its file only through another key of the path (action properties) |
| | `WaitersHaveJobs` | a request that waits has a job that is ready, is about to be, or is worked on |
| `TranscodeProofs` | `VariantsAreComplete` | `BlobsComplete` |
| | `BlobsAreAccountedFor`, `PutsAnswerTruly` | `NoOrphans`, `PutAnswers` (action properties) |
| | `NobodyWaitsInVain` | a flight has one leader, and nobody waits for a flight without one |
| | `FlightsAreSingle` | `OneFlight`: `TranscodeCache` implements `SingleFlight` |
| `CatalogProofs` | `CatalogIsCurrent` | `CatalogCurrent` |
| | `AlbumsKeepResolving` | `AlbumsResolve` (action property) |
| `StorageProofs` | `AdministratorsRemain`, `RecoveryCopiesKept`, `CredentialsStayUsable`, `PlaysAreCounted` | `AdministratorRemains`, `RecoveryKept`, `CredentialsUsable`, `PlaysCounted` |
| | `AccountsGuarded`, `RestoresAtomic`, `EntriesAreKept` | `AdministratorsGuarded`, `RestoreAtomic`, `EntriesKept` (action properties) |
| `SearchProofs` | `TurnsTaken` | `PeersTakeTurns`: `Search` implements `PeerTurns` |
| | `CoversAndSearchesHeld` | nobody waits for a cover that nobody fetches, no open search is without its request |
| | `CoversAreShared` | `CoversShared`: the covers of `Search` implement `SingleFlight` |

The theorems that state the inductive invariants are `InvariantHolds`, `JobsAgree` and
`StartUpMeetsNoJob` (torrents), `InvariantHolds` (of the locks), `CoordinatorInvariant`,
`CacheInvariant`, `CacheStaysBounded`, `StoredIsIndexed` and `NobodyWaitsInVain`, `ScansKeep`,
`StorageInvariant` and `UserDataInvariant`, `GatesKept` and `CoversAndSearchesHeld`.

### Assumptions

The named assumptions of the modules, which TLC evaluates in the runs. The proofs
use nothing else about the constants.

* `ConstantsAssumption` of `TorrentDownloads`, `SoulseekDownloads` and
  `TranscodeCache`: finite sets of goroutines and jobs, positive limits, every file
  has a torrent, every key a path, special values are not members of the sets.
* `PeerAssumption`: requests are finitely many, and there are as many gate objects as
  requests, since the code makes one whenever it needs one.
* `EventsAssumption` of `TorrentLocking`: nobody is not a goroutine.
* `CatalogAssumption`: the three kinds of file are disjoint, files are finitely many,
  and no id is `None`.
* `SearchAssumption`: every request is about a result and a cover, and limits are positive.
* `AccountsAssumption` and `UserDataAssumption`: names, clients and media are finitely
  many, the configured administrator is a name, songs are media.
* `StorageAssumption`: the database of an older release has rows of the right form,
  sealed with the key that lies beside it, play counts that add up to what it has
  confirmed, and an administrator among its accounts.

The hypotheses on `Events` are not assumptions of the model: `"magnet"`, `"cancel"`
together with `"pause"`, `"full"`, and `"cancel"` for the downloads that are carried out,
are the deviations listed in section 3, and without its hypothesis TLC refutes each of the
three theorems. No other theorem has a hypothesis but `StartUpMeetsNoJob`.
`StartUpMeetsNoJob` is the step on the way to `JobsAreResumable` without `"pause"`.

### The inductive invariants

*TorrentDownloads.* `RefCount` alone is not inductive: a release decrements the
count of the source of the file it holds, and the decrement stops at zero, so it
must be known that the goroutine is counted; an eviction drops data after looking
at the count, so it must be known that nobody can take a reference in between.
`IInv` adds `LockExclusion` (one writer of `operation` and no reader besides it),
`AfterOK` (only a prune, or the step that follows it, has a place to return to),
`WritersAlone` (while a writer works on a source, the source has no reference, and
once it is chosen for eviction or its markers are removed it is not pinned),
`JobsHaveRecords`, and `HandlesAttachedUnlessMagnet`. `SlotsMove`, `RefsMove` and
`StreamsMove` show that a step changes the set of holders by at most the goroutine
itself and the one it spawns; `CountedStep` turns that into cardinalities. The
second invariant `JInv` ties the two maps of jobs to the goroutines that run them,
records to metadata, and handlers to complete files that hold a reference. A cancelled
resumption marks a record as failed, so `JobsResumable` needs to know that the file it
is about has no job. `StartUp` says so as long as nothing is paused: the run of
`ResumeTrackDownloads` at start-up is the only one, requests come after it, and the jobs
there are belong to files that it has already dealt with.

A third, `CInv`, is about what the dashboard shows (`DownloadsCarriedOut`): nothing is
loaded before the run at start-up, a monitor that has left its loop has written how its
job ended, and what memory shows as unfinished without a job is unfinished on disk too, so
that the next run of `ResumeTrackDownloads` lists it. Data moves in every open, so
`FlatEmpty` says that a file of the older layout counts as no data until it is moved;
what `DataKept` needs of the rest is that only an eviction and a removal lower what there
is, and `WritersAlone` says that those are alone.

*TorrentLocking.* `IInv` is `TypeOK` and `LocksHeld`: where a goroutine is says which
locks it holds, with the race or without it. Goroutines that all wait then form a cycle
that must pass through a prune under the locks of its caller; if there is none, or it
finds nothing to evict, the order `operation`, `downloadMu`, `pruneMu` lets one of them
go on.

*SoulseekDownloads.* `SlotsHeld` needs to know which goroutine may still give a slot
back, which depends on whether the job is finished, whether its `finishJob` has run,
and whether its goroutine was started; a cancellation may come between any two of
these. `IInv` describes that (`SlotsOK`, `CreatedOwned`, `JobsManned`), what the two
maps say of each other (`MapsOK`), who the batches belong to (`BatchesOK`), what a
record on disk may say while its job goes on (`RecordsOK`), why a job has failed
(`FailuresOK`), that the readers of a key are counted (`ReadersCounted`), and that
an eviction's candidates stay without readers while it holds `cacheMu`
(`EvictionOK`). `Woken` adds that a finished job is ready or its `finishJob` is yet to
say so; with `JobsManned` no wake-up is lost (`WaitersHaveJobs`).

*TranscodeCache.* A blob is written when a copy is committed, so `LeadersOK` follows
the leader of a flight: a copy is committed only at the end of the stream of an
FFmpeg that ended well, and then everything it wrote has been read. `PruningOK` says
that a prune holds the lock, and that a blob which appears under a victim belongs
to a `Put` that waits for the lock; without it the deletion of the victim's entry
would orphan the blob. `BInv` follows the capacity as long as deletions succeed: only the holder of the lock adds an
entry, by which the cache may exceed the capacity, and it goes on to prune until it does
not; the sums change with the entries by the lemmas of `Counting`. `AnswersOK` adds that the
variant of a `Put` that prunes is in the index and is not its own victim unless it alone
exceeds the capacity, from which `PutAnswers` follows. `FlightsLed` makes
the map of flights and the requests agree on who leads; every step is then shown to be
one of five moves (quiet, joins, gives up, leads, lands), which are the steps of
`SingleFlight`.

*Catalog.* One scan at a time, every source names a row, and for each stage of a scan
what it has achieved so far: the tracks it found are in the directory, and are all of
them unless a file was skipped with a warning, unless a file has changed since; a provider that was replaced has exactly its sources. Other
writers keep these because they neither add nor remove the sources of a scanned
provider.

*Storage.* Which files and keys exist in each phase of the server and at each step of
a restore, and what is left of them when it fails and cannot be undone; that a request about an account was admitted with the rights that its
effect needs, or is marked stale; that a deletion which has passed its check holds
the mutex and leaves an administrator; that each database, snapshot and archive goes
with the key that sealed it. `DInv` says that every database there is, wherever a
restore has put it, holds annotations whose counts add up and well-formed lists, and
that a request which has read a list accounts for everything it is going to drop, or is
marked stale. That a migration neither loses nor doubles a play is the lemma that a sum
over groups is the sum over all; that a written list has what is claimed is the lemma
that removing positions leaves the counts of the others.

*Search.* A gate in use is the gate of its peer, its count is the number of requests
that refer to it, and one of them at most is past its semaphore. The step
simulation maps a request that is past the semaphore to a turn in `PeerTurns`. `AInv` is
about covers: a job in the map is being fetched by its leader or its monitor, or is over,
and who waits for one waits for such a job of the same cover. `SearchesHeld` says that an
open search is polled by its request, which every way out of `searchOnce` ends with its
deletion.

### Only model-checked

Every invariant and action property of the passing runs is stated by a theorem. What is
left to TLC is liveness under fairness: `JobsFinish`, `CloseFinishes` (both),
`OpenFinishes`, `PruneFinishes`, `RequestsAnswered`, `JobsEnd`, `WaitersAnswered`,
`ImportsEnd`, `CatalogSettles`, `SearchesDeleted`, `RequestsEnd`. Fairness and `ENABLED` are
out of the prover's reach. Four of them have a safety core that is proved: whoever waits
has somebody who will answer (`WaitersHaveJobs` for `RequestsAnswered`,
`NobodyWaitsInVain` for `WaitersAnswered`, `CoversAndSearchesHeld` for `RequestsEnd` and
`SearchesDeleted`). The sums of `PlaysCounted` and `PutAnswers` and the order of
`EntriesKept` would need an induction over data if they were folds; as cardinalities and
as the increasing enumeration of a set they need the library's facts on finite sets and
one use of the least element of a set of numbers.

## 5. Plan

Done: the models of sections 2 and 3, and the theorems above. Two things would add most
next: an abstract specification of the media cache (a partial map of variants from which
entries may disappear) that `TranscodeCache` implements, and the library cache's two
prefetch workers, whose pins are constants of the download models so far.

### Not modelled

* Play queue: one row per user that a request overwrites; nothing relates two
  requests.
* Library cache: pins are a set in the database and two workers that call the
  streaming service. They appear as pinned files in the two download models.
* Observability: counters, and a limiter that is a small sequential algorithm under
  one mutex.
* Transfer settings, streaming, download and artwork services, local provider: calls
  in sequence, or stateless dispatch.
* The blocking reader of a growing Soulseek file: it polls a file and a state that
  `SoulseekDownloads` has; the bytes it returns are not modelled.
* Of the catalog: artist aliases, listing and searching, and the SQL text. The
  PostgreSQL catalog does the same as the SQLite one.
* API handlers beyond authentication, permissions and transcodes; tag parsing, flags,
  configuration, logging, the web frontend: encodings without concurrent state.
