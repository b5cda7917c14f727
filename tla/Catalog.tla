------------------------------- MODULE Catalog -------------------------------
\* The catalog and what keeps it up to date: the scan manager, the scanners of the
\* music directory and of the torrent metadata directory, the importer of torrent
\* files and magnet links, the removal of sources, the enrichment of completed
\* tracks, metadata edits, and the Soulseek results that are added to it.
\*
\* An audio file is a key: a file below the music directory (Locals), the one audio
\* file of a torrent (Torrents), or a file a Soulseek peer offers (Peers; one that has a
\* name besides its extension, so that it has a canonical identity).
EXTENDS Naturals, FiniteSets

CONSTANTS Locals, Torrents, Peers,
          Requests,        \* requests of the API that upload or remove a torrent
          Title,           \* [Keys -> titles]: what a file is called
          Dir,             \* [Locals -> directories]
          RootDir,         \* the music directory itself: it never is a compilation
          Tags,            \* the metadata records a local file may carry
          Home,            \* [Torrents \cup Peers -> albums]: the album their path names
          EditedAlbum,     \* the album an administrator moves a track to
          Library, Shelf,  \* the initial contents of the two directories
          Scenarios,       \* sets of events: what happens besides scans in a behaviour
          Absent, None     \* no file; no track

VARIABLES
  events,       \* the scenario of this behaviour
  calm,         \* nothing happens any more besides periodic scans
  musicDir,     \* [Locals -> Tags \cup {Absent}]
  torrentDir,   \* torrents whose metadata file exists
  cached,       \* torrents whose audio file is complete in the cache
  rows,         \* table tracks: a function from track ids to [album, tagged]
  source,       \* table track_sources: [Keys -> track ids \cup {None}]
  albumAlias,   \* table album_alias_tracks
  trackAlias,   \* table track_aliases: [Locals \cup Peers -> track ids \cup {None}]
  scanning, lastOK, lastWarned,  \* Manager.status: Scanning, LastError = "", the last run's warnings
  scan,         \* the scan each process runs
  dirty,        \* the files have changed since the last scan began
  jobs, saved,  \* MagnetImporter.jobs, and the records on disk
  active,       \* MagnetImporter.active
  run,          \* program counter of MagnetImporter.run
  req,          \* program counter of an API request
  enrich,       \* enrichments of completed tracks under way
  edit,         \* the metadata edit under way
  refresh       \* the search for other sources of a track under way

vars == <<events, calm, musicDir, torrentDir, cached, rows, source, albumAlias, trackAlias,
          scanning, lastOK, lastWarned, scan, dirty, jobs, saved, active, run, req, enrich, edit,
          refresh>>
files == <<musicDir, torrentDir, cached>>
tables == <<rows, source, albumAlias, trackAlias>>
manager == <<scanning, lastOK, lastWarned, scan>>
imports == <<jobs, saved, active, run>>
writers == <<enrich, edit, refresh>>

Keys == Locals \cup Torrents \cup Peers
Background == "background"
Procs == Torrents \cup Requests \cup {Background}

Provider(k) == CASE k \in Locals -> "local" [] k \in Torrents -> "torrent" [] OTHER -> "soulseek"

-----------------------------------------------------------------------------
(* Identities.  An album is the pair of its album artist and its name; the     *)
(* canonical id of a track covers its title, its artist and its album.         *)

CanonicalTrackID(k, artist, album) == <<Title[k], artist, album>>
OwnAlbum(m) == <<m.albumArtist, m.album>>

Various == "Various Artists"
GenericAlbums == {Various, "Unknown Album"}

\* The ids that the tags, the directories and the paths can give to a track.
Artists == {m.artist : m \in Tags} \cup {Home[k][1] : k \in Torrents \cup Peers}
Albums ==
  {OwnAlbum(m) : m \in Tags} \cup {Home[k] : k \in Torrents \cup Peers}
    \cup {<<Various, name>> : name \in {m.album : m \in Tags} \cup {Dir[l] : l \in Locals}}
TrackIDs == {CanonicalTrackID(k, artist, album) : k \in Keys, artist \in Artists, album \in Albums}

ASSUME CatalogAssumption ==
  /\ Locals \cap Torrents = {} /\ (Locals \cup Torrents) \cap Peers = {}
  /\ Requests \cap Torrents = {} /\ Background \notin Torrents \cup Requests
  /\ IsFiniteSet(Keys)
  /\ Absent \notin Tags
  /\ Library \in [Locals -> Tags \cup {Absent}] /\ Shelf \subseteq Torrents
  /\ DOMAIN Title = Keys /\ DOMAIN Dir = Locals /\ DOMAIN Home = Torrents \cup Peers
  /\ None \notin TrackIDs

\* The files of a directory, and whether the scanner treats them as a compilation:
\* several artists, and no album artist they agree on.
FilesIn(found, l) == {x \in DOMAIN found : Dir[x] = Dir[l]}
IsCompilation(found, l) ==
  LET group == FilesIn(found, l)
      albumArtists == {found[x].albumArtist : x \in group}
  IN  /\ Dir[l] # RootDir
      /\ Cardinality({found[x].artist : x \in group}) > 1
      /\ \/ Cardinality(albumArtists) > 1
         \/ \A x \in group : ~found[x].explicit
         \/ albumArtists = {Various}

compilationAlbumName(found, l) ==
  LET names == {found[x].album : x \in FilesIn(found, l)}
  IN  IF Cardinality(names) = 1 /\ names \cap GenericAlbums = {}
      THEN found[l].album
      ELSE Dir[l]

\* The album a local file is filed under.
AlbumOf(found, l) ==
  IF IsCompilation(found, l) THEN <<Various, compilationAlbumName(found, l)>>
  ELSE OwnAlbum(found[l])

LocalTrack(found, l) == CanonicalTrackID(l, found[l].artist, AlbumOf(found, l))

\* The path of a remote file names one artist, for the track and for the album.
TorrentTrack(t) == CanonicalTrackID(t, Home[t][1], Home[t])

-----------------------------------------------------------------------------
(* The tables.                                                                 *)

Alias(provider, album, id) == [provider |-> provider, album |-> album, track |-> id]

\* Mutant: the aliases of the provider are replaced with its sources.
AliasesOfOthers(provider, kept, ids, moved) ==
  {a \in albumAlias : a.provider # provider /\ a.track \in kept}

\* The album aliases that outlive a replacement: those of other providers, and, for the
\* tracks the provider still has, the aliases they had and the albums they leave.
AliasesKept(provider, kept, ids, moved) ==
  {a \in albumAlias : IF a.provider = provider THEN a.track \in ids ELSE a.track \in kept}
    \cup {Alias(provider, rows[i].album, i) : i \in moved}

\* incoming: a function from keys to [id, row].  One transaction: the sources and the
\* album aliases of the provider are replaced, tracks left without a source go (with
\* the aliases that refer to them), and the ids a kept track's album has had stay.
ReplaceProviderTracks(provider, incoming, aliases) ==
  LET ids == {incoming[k].id : k \in DOMAIN incoming}
      row(i) == incoming[CHOOSE k \in DOMAIN incoming : incoming[k].id = i].row
      others == [k \in Keys |-> IF Provider(k) = provider THEN None ELSE source[k]]
      kept == {i \in DOMAIN rows : \E k \in Keys : others[k] = i}
      moved == {i \in ids \cap DOMAIN rows : rows[i].album # row(i).album}
  IN  /\ rows' = [i \in kept \cup ids |-> IF i \in ids THEN row(i) ELSE rows[i]]
      /\ source' = [k \in Keys |-> IF k \in DOMAIN incoming THEN incoming[k].id ELSE others[k]]
      /\ albumAlias' = AliasesKept(provider, kept, ids, moved) \cup aliases
      /\ trackAlias' = [k \in DOMAIN trackAlias |-> IF trackAlias[k] \in kept THEN trackAlias[k] ELSE None]

\* The tracks an album id leads to: those filed under it, or, only if there are none, those
\* it is an alias for.
Filed(album) == {i \in DOMAIN rows : rows[i].album = album}
TracksByAlbum(album) ==
  IF Filed(album) # {} THEN Filed(album)
  ELSE {i \in DOMAIN rows : \E a \in albumAlias : a.album = album /\ a.track = i}

\* The sources of a track.
SourcesOf(id) == {k \in Keys : source[k] = id}

\* A track that moves to another album stays reachable under the album it leaves.
UpdateTrack(id, row) ==
  /\ rows' = [rows EXCEPT ![id] = row]
  /\ albumAlias' = albumAlias \cup
       (IF rows[id].album = row.album THEN {}
        ELSE {Alias(Provider(k), rows[id].album, id) : k \in SourcesOf(id)})
  /\ UNCHANGED <<source, trackAlias>>

-----------------------------------------------------------------------------
(* The scan manager and the two scanners; Group runs one after the other.      *)

NoScan == [stage |-> "none", found |-> <<>>, todo |-> {}, seen |-> <<>>, warned |-> FALSE]
Stage(p, stage, warned) == scan' = [scan EXCEPT ![p] = [NoScan EXCEPT !.stage = stage, !.warned = warned]]

\* Mutant: begin does not look whether a scan is running.
BeginAny(p) ==
  /\ scanning' = TRUE
  /\ lastOK' = TRUE
  /\ Stage(p, "local", FALSE)
  /\ dirty' = FALSE
  /\ UNCHANGED lastWarned

\* begin: the caller goes on only if no scan is running.
Begin(p) ==
  /\ ~scanning
  /\ scanning' = TRUE
  /\ lastOK' = TRUE
  /\ Stage(p, "local", FALSE)
  /\ dirty' = FALSE
  /\ UNCHANGED lastWarned

\* A periodic tick or a manual start; both are skipped while a scan runs.
Start ==
  /\ Begin(Background)
  /\ UNCHANGED <<events, calm, files, tables, imports, req, writers>>

\* The files of the music directory, with their tags.
Files == [l \in {x \in Locals : musicDir[x] # Absent} |-> musicDir[l]]

\* Some files or directories cannot be read for a while.
Unreadable == "warn" \in events /\ ~calm

\* The walk of the music directory.  What cannot be read is skipped with a warning.
ScanLocal(p) ==
  /\ scan[p].stage = "local"
  /\ \E readable \in SUBSET DOMAIN Files :
       /\ readable = DOMAIN Files \/ Unreadable
       /\ scan' = [scan EXCEPT ![p].stage = "walked",
                               ![p].found = [l \in readable |-> Files[l]],
                               ![p].warned = readable # DOMAIN Files]
  /\ UNCHANGED <<events, calm, files, tables, scanning, lastOK, lastWarned, dirty, imports, req, writers>>

\* normalizeCompilationAlbums, the aliases of the albums it changes, and the replacement.
ScanReplaceLocal(p) ==
  LET found == scan[p].found
      incoming == [l \in DOMAIN found |->
                     [id |-> LocalTrack(found, l), row |-> [album |-> AlbumOf(found, l), tagged |-> TRUE]]]
      changed == {l \in DOMAIN found : OwnAlbum(found[l]) # AlbumOf(found, l)}
  IN  /\ scan[p].stage = "walked"
      /\ ReplaceProviderTracks("local", incoming,
           {Alias("local", OwnAlbum(found[l]), incoming[l].id) : l \in changed})
      /\ scan' = [scan EXCEPT ![p].stage = "aliases", ![p].todo = DOMAIN found]
      /\ UNCHANGED <<events, calm, files, scanning, lastOK, lastWarned, dirty, imports, req, writers>>

\* SaveTrackAlias for one local file: the id made from its path names its track.
ScanAlias(p, l) ==
  /\ scan[p].stage = "aliases" /\ l \in scan[p].todo
  /\ trackAlias' = [trackAlias EXCEPT ![l] = LocalTrack(scan[p].found, l)]
  /\ scan' = [scan EXCEPT ![p].todo = @ \ {l}]
  /\ UNCHANGED <<events, calm, files, rows, source, albumAlias, scanning, lastOK,
                 lastWarned, dirty, imports, req, writers>>

\* The torrent scanner lists the metadata directory ...
ScanList(p) ==
  /\ scan[p].stage = "aliases" /\ scan[p].todo = {}
  /\ scan' = [scan EXCEPT ![p] = [NoScan EXCEPT !.stage = "torrents", !.todo = torrentDir, !.warned = scan[p].warned]]
  /\ UNCHANGED <<events, calm, files, tables, scanning, lastOK, lastWarned, dirty, imports, req, writers>>

Read(p, t, tagged) ==
  scan' = [scan EXCEPT ![p].todo = @ \ {t},
                       ![p].seen = [x \in DOMAIN @ \cup {t} |-> IF x = t THEN tagged ELSE @[x]],
                       ![p].warned = @ \/ (tagged # (t \in cached))]
Skip(p, t) == scan' = [scan EXCEPT ![p].todo = @ \ {t}, ![p].warned = TRUE]

\* Mutant: the scanner never looks into the cache, so it drops what enrichment wrote.
ScanTorrentPlain(p, t) ==
  /\ scan[p].stage = "torrents" /\ t \in scan[p].todo
  /\ IF t \in torrentDir THEN Read(p, t, FALSE) ELSE Skip(p, t)
  /\ UNCHANGED <<events, calm, files, tables, scanning, lastOK, lastWarned, dirty, imports, req, writers>>

\* ... and reads each file, with the tags of its audio file if that is complete in the
\* cache.  A file that has gone or cannot be read or parsed is skipped, tags that cannot be
\* read are left out; each with a warning ...
ScanTorrent(p, t) ==
  /\ scan[p].stage = "torrents" /\ t \in scan[p].todo
  /\ \/ t \in torrentDir /\ Read(p, t, t \in cached)
     \/ t \in torrentDir \cap cached /\ Unreadable /\ Read(p, t, FALSE)
     \/ (t \notin torrentDir \/ Unreadable) /\ Skip(p, t)
  /\ UNCHANGED <<events, calm, files, tables, scanning, lastOK, lastWarned, dirty, imports, req, writers>>

\* ... and replaces the torrent tracks.
ScanReplaceTorrents(p) ==
  LET seen == scan[p].seen
  IN  /\ scan[p].stage = "torrents" /\ scan[p].todo = {}
      /\ ReplaceProviderTracks("torrent",
           [t \in DOMAIN seen |-> [id |-> TorrentTrack(t), row |-> [album |-> Home[t], tagged |-> seen[t]]]],
           {})
      /\ Stage(p, "ok", scan[p].warned)
      /\ UNCHANGED <<events, calm, files, scanning, lastOK, lastWarned, dirty, imports, req, writers>>

\* The music directory itself is gone, a database error or a cancelled context: Group stops.
ScanFail(p) ==
  /\ "fail" \in events /\ ~calm
  /\ scan[p].stage \in {"local", "walked", "aliases", "torrents"}
  /\ Stage(p, "failed", FALSE)
  /\ UNCHANGED <<events, calm, files, tables, scanning, lastOK, lastWarned, dirty, imports, req, writers>>

\* finish, and what the caller of the scan does with its result.
Finish(p) ==
  /\ scan[p].stage \in {"ok", "failed"}
  /\ scanning' = FALSE
  /\ lastOK' = (scan[p].stage = "ok") /\ lastWarned' = scan[p].warned
  /\ scan' = [scan EXCEPT ![p] = NoScan]
  /\ run' = IF p \in Torrents THEN [run EXCEPT ![p] = scan[p].stage] ELSE run
  /\ req' = IF p \in Requests THEN [req EXCEPT ![p] = "idle"] ELSE req
  /\ UNCHANGED <<events, calm, files, tables, dirty, jobs, saved, active, writers>>

-----------------------------------------------------------------------------
(* Imports of torrent files and removals, through the API.                     *)

\* Importer.Import writes the metadata file; the scan follows.
Upload(r, t) ==
  /\ "upload" \in events /\ ~calm
  /\ req[r] = "idle"
  /\ torrentDir' = torrentDir \cup {t}
  /\ dirty' = TRUE
  /\ req' = [req EXCEPT ![r] = "scan"]
  /\ UNCHANGED <<events, calm, musicDir, cached, tables, manager, imports, writers>>

\* SourceManager.RemoveSource: the metadata file goes, and the data if asked for.  A
\* source with an enrichment under way is busy.
Remove(r, t) ==
  /\ "remove" \in events /\ ~calm
  /\ req[r] = "idle" /\ t \in torrentDir /\ enrich[t].pc = "none"
  /\ torrentDir' = torrentDir \ {t}
  /\ \E data \in BOOLEAN : cached' = IF data THEN cached \ {t} ELSE cached
  /\ dirty' = TRUE
  /\ req' = [req EXCEPT ![r] = "scan"]
  /\ UNCHANGED <<events, calm, musicDir, tables, manager, imports, writers>>

\* ScanNow of the request: refused with ErrScanInProgress while a scan is running.
RequestScan(r) ==
  /\ req[r] = "scan"
  /\ \/ Begin(r) /\ req' = [req EXCEPT ![r] = "scanning"]
     \/ /\ scanning
        /\ req' = [req EXCEPT ![r] = "idle"]
        /\ UNCHANGED <<manager, dirty>>
  /\ UNCHANGED <<events, calm, files, tables, imports, writers>>

-----------------------------------------------------------------------------
(* Magnet links.                                                               *)

Unfinished == {"fetching", "scanning"}

\* persistLocked: the record on disk follows, unless the disk refuses.
Persist(t, state) ==
  \/ saved' = [saved EXCEPT ![t] = state]
  \/ "diskfull" \in events /\ ~calm /\ UNCHANGED saved

startLocked(t) ==
  IF t \in active THEN UNCHANGED <<active, run>>
  ELSE /\ active' = active \cup {t}
       /\ run' = [run EXCEPT ![t] = "fetch"]

\* ImportURI: a job that has not failed is returned as it is.  "early": also while the
\* goroutine of the failed job has not left yet.
ImportURI(t) ==
  /\ "magnet" \in events /\ ~calm
  /\ jobs[t] \in {"none", "failed"}
  /\ "early" \in events \/ t \notin active
  /\ \/ /\ jobs' = [jobs EXCEPT ![t] = "fetching"]
        /\ saved' = [saved EXCEPT ![t] = "fetching"]
        /\ startLocked(t)
     \/ /\ "diskfull" \in events
        /\ jobs' = [jobs EXCEPT ![t] = "none"]
        /\ UNCHANGED <<saved, active, run>>
  /\ UNCHANGED <<events, calm, files, tables, manager, dirty, req, writers>>

setState(t, state) ==
  /\ jobs' = [jobs EXCEPT ![t] = state]
  /\ Persist(t, state)

\* FetchMagnetMetadata returns, from the metadata file if there is one, from peers
\* otherwise; then setState, whose error fails the job.
Fetched(t) ==
  /\ run[t] = "fetch"
  /\ \/ /\ setState(t, "scanning")
        /\ run' = [run EXCEPT ![t] = IF saved'[t] = "scanning" THEN "import" ELSE "failed"]
     \/ /\ "nopeers" \in events /\ ~calm /\ t \notin torrentDir
        /\ run' = [run EXCEPT ![t] = "failed"]
        /\ UNCHANGED <<jobs, saved>>
  /\ UNCHANGED <<events, calm, files, tables, manager, dirty, active, req, writers>>

\* Importer.Import writes the metadata file ...
JobWrite(t) ==
  /\ run[t] = "import"
  /\ torrentDir' = torrentDir \cup {t}
  /\ dirty' = TRUE
  /\ run' = [run EXCEPT ![t] = "scan"]
  /\ UNCHANGED <<events, calm, musicDir, cached, tables, manager, jobs, saved, active, req, writers>>

\* ... and scans; while another scan is running it is called again after a pause.
JobScan(t) ==
  /\ run[t] = "scan"
  /\ Begin(t)
  /\ run' = [run EXCEPT ![t] = "scanning"]
  /\ UNCHANGED <<events, calm, files, tables, jobs, saved, active, req, writers>>

\* Mutant: a refused scan is taken for the end of the import.
JobRefusedEnds(t) ==
  /\ run[t] = "scan" /\ scanning
  /\ run' = [run EXCEPT ![t] = "exit"]
  /\ UNCHANGED <<events, calm, files, tables, manager, dirty, jobs, saved, active, req, writers>>

JobRefused(t) ==
  /\ run[t] = "scan" /\ scanning
  /\ run' = [run EXCEPT ![t] = "import"]
  /\ UNCHANGED <<events, calm, files, tables, manager, dirty, jobs, saved, active, req, writers>>

\* complete or fail.
JobConclude(t) ==
  /\ run[t] \in {"ok", "failed"}
  /\ setState(t, IF run[t] = "ok" THEN "ready" ELSE "failed")
  /\ run' = [run EXCEPT ![t] = "exit"]
  /\ UNCHANGED <<events, calm, files, tables, manager, dirty, active, req, writers>>

\* The deferred removal from the active set.
JobExit(t) ==
  /\ run[t] = "exit"
  /\ active' = active \ {t}
  /\ run' = [run EXCEPT ![t] = "none"]
  /\ UNCHANGED <<events, calm, files, tables, manager, dirty, jobs, saved, req, writers>>

-----------------------------------------------------------------------------
(* Enrichment and edits: read a row, then write it back.                       *)

Idle == [pc |-> "none", row |-> None]

\* A download completes: the completed handler runs in a goroutine of its own.
Complete(t) ==
  /\ "complete" \in events /\ ~calm
  /\ t \in torrentDir /\ t \notin cached /\ enrich[t].pc = "none"
  /\ cached' = cached \cup {t}
  /\ dirty' = TRUE
  /\ enrich' = [enrich EXCEPT ![t].pc = "read"]
  /\ UNCHANGED <<events, calm, musicDir, torrentDir, tables, manager, imports, req, edit, refresh>>

\* Catalog.Track, and the tags of the file; the album of the row is kept.
EnrichRead(t) ==
  LET id == TorrentTrack(t)
  IN  /\ enrich[t].pc = "read"
      /\ enrich' = [enrich EXCEPT ![t] =
                      IF id \in DOMAIN rows THEN [pc |-> "write", row |-> [rows[id] EXCEPT !.tagged = TRUE]]
                      ELSE Idle]
      /\ UNCHANGED <<events, calm, files, tables, manager, dirty, imports, req, edit, refresh>>

EnrichWrite(t) ==
  LET id == TorrentTrack(t)
  IN  /\ enrich[t].pc = "write"
      /\ IF id \in DOMAIN rows THEN UpdateTrack(id, enrich[t].row) ELSE UNCHANGED tables
      /\ enrich' = [enrich EXCEPT ![t] = Idle]
      /\ UNCHANGED <<events, calm, files, manager, dirty, imports, req, edit, refresh>>

\* UpdateTrackMetadata, moving a track to another album.
EditRead(id) ==
  /\ "edit" \in events /\ ~calm
  /\ edit = None /\ rows[id].album # EditedAlbum
  /\ edit' = [id |-> id, row |-> [rows[id] EXCEPT !.album = EditedAlbum]]
  /\ UNCHANGED <<events, calm, files, tables, manager, dirty, imports, req, enrich, refresh>>

EditWrite ==
  /\ edit # None
  /\ IF edit.id \in DOMAIN rows THEN UpdateTrack(edit.id, edit.row) ELSE UNCHANGED tables
  /\ edit' = None
  /\ UNCHANGED <<events, calm, files, manager, dirty, imports, req, enrich, refresh>>

\* SaveTrackSources: rows are inserted or overwritten, sources come to belong to their row;
\* the album a row leaves gets no alias.
SaveTrackSources(saves, sources) ==
  /\ rows' = [i \in DOMAIN rows \cup DOMAIN saves |-> IF i \in DOMAIN saves THEN saves[i] ELSE rows[i]]
  /\ source' = [x \in Keys |-> IF x \in DOMAIN sources THEN sources[x] ELSE source[x]]
  /\ UNCHANGED albumAlias

PeerTrack(k) == CanonicalTrackID(k, Home[k][1], Home[k])
PeerRow(id) == [album |-> id[3], tagged |-> FALSE]
\* The same recording at a peer, as far as names tell.
SameRecording(id) == {x \in Peers : Title[x] = id[1] /\ Home[x][1] = id[2]}

\* DiscoveryService.Add saves a search result, with the same recording at other peers as
\* further sources; SaveTrackAlias lets its id name the track (a second write; the sources
\* just saved keep the row it refers to).
AddDiscovered(k) ==
  LET id == PeerTrack(k)
  IN  /\ "discover" \in events /\ ~calm
      /\ \E others \in SUBSET (SameRecording(id) \ {k}) :
           SaveTrackSources([i \in {id} |-> PeerRow(i)], [x \in others \cup {k} |-> id])
      /\ trackAlias' = [trackAlias EXCEPT ![k] = id]
      /\ UNCHANGED <<events, calm, files, manager, dirty, imports, req, writers>>

\* AddCollection saves the files of a peer's directory, each under its own id.
AddCollection(album) ==
  LET tracks == {k \in Peers : Home[k] = album}
  IN  /\ "discover" \in events /\ ~calm /\ tracks # {}
      /\ SaveTrackSources([i \in {PeerTrack(k) : k \in tracks} |-> PeerRow(i)],
                          [k \in tracks |-> PeerTrack(k)])
      /\ UNCHANGED <<events, calm, files, trackAlias, manager, dirty, imports, req, writers>>

\* A stream whose sources are unavailable: the handler reads the row ...
RefreshRead(id) ==
  /\ "refresh" \in events /\ ~calm
  /\ refresh = None
  /\ refresh' = [id |-> id, row |-> rows[id]]
  /\ UNCHANGED <<events, calm, files, tables, manager, dirty, imports, req, enrich, edit>>

\* ... searches, and DiscoveryService.Refresh saves what it found with the row it had read.
RefreshWrite ==
  /\ refresh # None
  /\ \E found \in SUBSET SameRecording(refresh.id) :
       IF found = {} THEN UNCHANGED <<rows, source, albumAlias>>
       ELSE SaveTrackSources([i \in {refresh.id} |-> refresh.row], [x \in found |-> refresh.id])
  /\ refresh' = None
  /\ UNCHANGED <<events, calm, files, trackAlias, manager, dirty, imports, req, enrich, edit>>

-----------------------------------------------------------------------------
(* The environment.                                                            *)

\* Somebody adds, changes or removes a file of the music directory.
Retag(l) ==
  /\ "retag" \in events /\ ~calm
  /\ \E m \in (Tags \cup {Absent}) \ {musicDir[l]} : musicDir' = [musicDir EXCEPT ![l] = m]
  /\ dirty' = TRUE
  /\ UNCHANGED <<events, calm, torrentDir, cached, tables, manager, imports, req, writers>>

\* The process ends and starts again: load reads the records, and the jobs that were not
\* finished are started.
Restart ==
  /\ "restart" \in events /\ ~calm
  /\ scanning' = FALSE /\ lastOK' = FALSE /\ lastWarned' = FALSE
  /\ scan' = [p \in Procs |-> NoScan]
  /\ dirty' = TRUE
  /\ jobs' = saved
  /\ active' = {t \in Torrents : saved[t] \in Unfinished}
  /\ run' = [t \in Torrents |-> IF saved[t] \in Unfinished THEN "fetch" ELSE "none"]
  /\ req' = [r \in Requests |-> "idle"]
  /\ enrich' = [t \in Torrents |-> Idle]
  /\ edit' = None /\ refresh' = None
  /\ UNCHANGED <<events, calm, files, tables, saved>>

CalmDown ==
  /\ ~calm
  /\ calm' = TRUE
  /\ UNCHANGED <<events, files, tables, manager, dirty, imports, req, writers>>

Init ==
  /\ events \in Scenarios
  /\ calm = FALSE
  /\ musicDir = Library
  /\ torrentDir = Shelf
  /\ cached = {}
  /\ rows = <<>>
  /\ source = [k \in Keys |-> None]
  /\ albumAlias = {}
  /\ trackAlias = [k \in Locals \cup Peers |-> None]
  /\ scanning = FALSE /\ lastOK = FALSE /\ lastWarned = FALSE
  /\ scan = [p \in Procs |-> NoScan]
  /\ dirty = TRUE
  /\ jobs = [t \in Torrents |-> "none"] /\ saved = jobs
  /\ active = {} /\ run = [t \in Torrents |-> "none"]
  /\ req = [r \in Requests |-> "idle"]
  /\ enrich = [t \in Torrents |-> Idle]
  /\ edit = None /\ refresh = None

ScanStep(p) ==
  \/ ScanLocal(p) \/ ScanReplaceLocal(p) \/ ScanList(p) \/ ScanReplaceTorrents(p) \/ Finish(p)
  \/ \E l \in Locals : ScanAlias(p, l)
  \/ \E t \in Torrents : ScanTorrent(p, t)

JobStep(t) == Fetched(t) \/ JobWrite(t) \/ JobRefused(t) \/ JobConclude(t) \/ JobExit(t)
EnrichStep(t) == EnrichRead(t) \/ EnrichWrite(t)

Next ==
  \/ Start
  \/ \E p \in Procs : ScanStep(p) \/ ScanFail(p)
  \/ \E r \in Requests : RequestScan(r) \/ \E t \in Torrents : Upload(r, t) \/ Remove(r, t)
  \/ \E t \in Torrents : ImportURI(t) \/ JobStep(t) \/ JobScan(t) \/ Complete(t) \/ EnrichStep(t)
  \/ \E id \in DOMAIN rows : EditRead(id) \/ RefreshRead(id)
  \/ EditWrite
  \/ (\E k \in Peers : AddDiscovered(k)) \/ (\E album \in Albums : AddCollection(album)) \/ RefreshWrite
  \/ \E l \in Locals : Retag(l)
  \/ Restart \/ CalmDown

Spec == Init /\ [][Next]_vars

\* Goroutines proceed (one at a time scans) and ticks come; a magnet job tries again twice a
\* second while scans are minutes apart, so it does not find one running every time.
Fairness ==
  /\ WF_vars(Start)
  /\ WF_vars(\E p \in Procs : ScanStep(p))
  /\ \A r \in Requests : WF_vars(RequestScan(r))
  /\ \A t \in Torrents : /\ WF_vars(JobStep(t)) /\ WF_vars(EnrichStep(t))
                         /\ SF_vars(JobWrite(t) /\ ~scanning) /\ SF_vars(JobScan(t))
  /\ WF_vars(EditWrite) /\ WF_vars(RefreshWrite)

FairSpec == Spec /\ Fairness
-----------------------------------------------------------------------------
(* Properties.                                                                 *)

\* Every value is of its kind, and every source names a row (the foreign key).
TypeOK ==
  /\ events \in Scenarios /\ calm \in BOOLEAN /\ dirty \in BOOLEAN
  /\ scanning \in BOOLEAN /\ lastOK \in BOOLEAN /\ lastWarned \in BOOLEAN
  /\ musicDir \in [Locals -> Tags \cup {Absent}]
  /\ torrentDir \subseteq Torrents /\ cached \subseteq Torrents /\ active \subseteq Torrents
  /\ DOMAIN rows \subseteq TrackIDs
  /\ \A k \in Keys : source[k] \in DOMAIN rows \cup {None}
  /\ jobs \in [Torrents -> {"none", "fetching", "scanning", "ready", "failed"}]
  /\ run \in [Torrents -> {"none", "fetch", "import", "scan", "scanning", "ok", "failed", "exit"}]
  /\ req \in [Requests -> {"idle", "scan", "scanning"}]

\* A track is reached from an album id it has had: among the tracks the id leads to, or by
\* way of those that are filed there now.  (TracksByAlbum looks at aliases only if no track is
\* filed under the album: a track that has moved is not listed while others stay behind.)
Reached(album, id) == Filed(album) # {} \/ id \in TracksByAlbum(album)

\* The sources are exactly the files, each filed under its canonical id; the album that a
\* local file's own tags name leads to tracks; and path ids name the tracks of their files.
SourcesMatch ==
  /\ \A t \in Torrents : source[t] = IF t \in torrentDir THEN TorrentTrack(t) ELSE None
  /\ \A l \in Locals : source[l] = IF l \in DOMAIN Files THEN LocalTrack(Files, l) ELSE None
AlbumsMatch == \A l \in DOMAIN Files : Reached(OwnAlbum(Files[l]), source[l])
PathsMatch == \A l \in Locals : source[l] # None => trackAlias[l] = source[l]
TagsMatch == \A t \in torrentDir \cap cached : rows[TorrentTrack(t)].tagged
NoneInvented ==
  /\ \A t \in Torrents : source[t] # None => t \in torrentDir
  /\ \A l \in Locals : source[l] # None => l \in DOMAIN Files

\* When a scan has ended without an error and no file has changed since it began, the catalog
\* has no source that the two directories do not have, and the ids made from the paths of
\* local files, which older clients use, lead to their tracks, whoever wrote to the tables
\* meanwhile.  If the scan reported no warning either, the catalog is what the directories
\* hold.  (A scan with warnings has dropped the tracks of the files it could not read.  A
\* refresh may put back a row read before the scan, and with it an album nobody uses now.)
CatalogCurrent ==
  ~scanning /\ lastOK /\ ~dirty =>
    /\ NoneInvented /\ PathsMatch
    /\ ~lastWarned => SourcesMatch /\ ("refresh" \in events \/ AlbumsMatch)

\* An album id never goes dead: what leads to a track goes on leading to it, or to the tracks
\* that are filed there instead, as long as the track keeps its sources; an alias as long as
\* one of them is of the provider it was saved for.  Clients keep album ids across scans, edits
\* and enrichments.  Only SaveTrackSources overwrites the album of a row without an alias for
\* the one it leaves: adding a track from Soulseek once more, or refreshing its sources, breaks
\* the album id that the row was given meanwhile.
SavesSources == (\E k \in Peers : AddDiscovered(k)) \/ (\E album \in Albums : AddCollection(album)) \/ RefreshWrite
AlbumsResolve ==
  [][\A id \in DOMAIN rows \cap DOMAIN rows' :
       SourcesOf(id) # {} /\ SourcesOf(id) \subseteq SourcesOf(id)' =>
         /\ \A a \in albumAlias :
              a.track = id /\ (\E k \in SourcesOf(id) : Provider(k) = a.provider) =>
                Reached(a.album, id)'
         /\ Reached(rows[id].album, id)' \/ SavesSources]_vars

\* Once nothing else happens every magnet import ends.
ImportsEnd == calm ~> \A t \in Torrents : jobs[t] \notin Unfinished

\* Once nothing else happens the catalog comes to match the files and stays so, tags of the
\* completed tracks included: a scan that overwrites an enrichment or that could not read a
\* file, and an edit or a refresh that writes back what it read before, are made good by the
\* next scan.  (Files can be read again then.  The ids made from paths are gone between the
\* two steps of every scan of the music directory: see ScanAlias.)
CatalogSettles == calm ~> [](SourcesMatch /\ AlbumsMatch /\ TagsMatch)
=============================================================================
