---------------------------- MODULE CatalogProofs ----------------------------
\* Proofs about Catalog: after a scan that went well the catalog is what the directories
\* hold, and album ids keep leading to their tracks, for any files, torrents and peers.
EXTENDS Catalog, TLAPS

-----------------------------------------------------------------------------
(* The inductive invariant.                                                    *)

\* The album that a track id covers.
Canonical(id) == id[3]

IsScan(s) ==
  /\ DOMAIN s = {"stage", "found", "todo", "seen", "warned"}
  /\ DOMAIN s.found \subseteq Locals /\ \A l \in DOMAIN s.found : s.found[l] \in Tags
  /\ DOMAIN s.seen \subseteq Torrents
  /\ s.warned \in BOOLEAN

ScanTypeOK == DOMAIN scan = Procs /\ \A p \in Procs : IsScan(scan[p])
FileTypeOK == musicDir \in [Locals -> Tags \cup {Absent}] /\ torrentDir \subseteq Torrents

\* The manager lets one process scan at a time.
OneScan ==
  /\ \A p \in Procs : scan[p].stage # "none" => scanning
  /\ \A p, q \in Procs : scan[p].stage # "none" /\ scan[q].stage # "none" => p = q

\* The foreign key of the sources, and the reason for which the album of a track's id leads
\* to it: it is the album of the row, or an alias saved for the file's provider.  (A refresh
\* may write back a row that was read before a scan.)
RowsOK == DOMAIN rows \subseteq TrackIDs /\ \A k \in Keys : source[k] \in DOMAIN rows \cup {None}
Leads(provider, album, id) ==
  rows[id].album = album \/ Alias(provider, album, id) \in albumAlias
CanonicalLeads ==
  "refresh" \in events \/ \A l \in Locals : source[l] # None => Leads("local", Canonical(source[l]), source[l])
TablesOK == RowsOK /\ CanonicalLeads /\ DOMAIN trackAlias = Locals \cup Peers

\* The refresh under way is of a track.
RefreshOK == refresh # None => "refresh" \in events /\ refresh.id \in TrackIDs

\* The parts of a match between the tables and the files.
LocalsFiled == \A l \in Locals : source[l] = IF l \in DOMAIN Files THEN LocalTrack(Files, l) ELSE None
OwnAlbumsLead ==
  \A l \in DOMAIN Files :
    OwnAlbum(Files[l]) # AlbumOf(Files, l) => Alias("local", OwnAlbum(Files[l]), source[l]) \in albumAlias
TorrentsFiled == \A t \in Torrents : source[t] = IF t \in torrentDir THEN TorrentTrack(t) ELSE None
LocalsExist == \A l \in Locals : source[l] # None => l \in DOMAIN Files
TorrentsExist == \A t \in Torrents : source[t] # None => t \in torrentDir
Exist == LocalsExist /\ PathsMatch /\ TorrentsExist
Filled == LocalsFiled /\ OwnAlbumsLead

\* What a scan has achieved by each stage, if no file has changed since it began: nothing that
\* is not there, and everything if there was no warning.
Walked(s) == DOMAIN s.found \subseteq DOMAIN Files /\ (s.warned \/ s.found = Files)
Replaced(s) ==
  /\ DOMAIN s.found \subseteq DOMAIN Files /\ (s.warned \/ (s.found = Files /\ Filled))
  /\ \A l \in Locals : source[l] = IF l \in DOMAIN s.found THEN LocalTrack(s.found, l) ELSE None
  /\ \A l \in DOMAIN s.found : l \notin s.todo => trackAlias[l] = source[l]
Listed(s) ==
  /\ LocalsExist /\ PathsMatch /\ DOMAIN s.seen \cup s.todo \subseteq torrentDir
  /\ s.warned \/ (Filled /\ DOMAIN s.seen \cup s.todo = torrentDir)
Matched == Filled /\ TorrentsFiled
Achieved(s) ==
  /\ s.stage = "walked" => Walked(s)
  /\ s.stage = "aliases" => Replaced(s)
  /\ s.stage = "torrents" => Listed(s)
  /\ s.stage = "ok" => Exist /\ (s.warned \/ Matched)

ScansSound == ~dirty => \A p \in Procs : Achieved(scan[p])
ResultSound == ~scanning /\ lastOK /\ ~dirty => Exist /\ (lastWarned \/ Matched)

IInv == ScanTypeOK /\ FileTypeOK /\ OneScan /\ TablesOK /\ ScansSound /\ ResultSound

-----------------------------------------------------------------------------
(* Identities.                                                                 *)

\* The id the scanner gives to a local file is a track id, and covers the album it is filed
\* under.
LEMMA LocalIDs ==
  ASSUME NEW found, NEW l \in DOMAIN found,
         DOMAIN found \subseteq Locals, \A x \in DOMAIN found : found[x] \in Tags
  PROVE  LocalTrack(found, l) \in TrackIDs /\ Canonical(LocalTrack(found, l)) = AlbumOf(found, l)
<1>1. compilationAlbumName(found, l) \in {m.album : m \in Tags} \cup {Dir[x] : x \in Locals}
  BY DEF compilationAlbumName
<1>2. <<Various, compilationAlbumName(found, l)>> \in Albums
  BY <1>1, Zenon DEF Albums
<1>3. OwnAlbum(found[l]) \in Albums
  BY Zenon DEF Albums
<1>4. AlbumOf(found, l) \in Albums
  BY <1>2, <1>3 DEF AlbumOf
<1>5. found[l].artist \in Artists /\ l \in Keys
  BY DEF Artists, Keys
<1> HIDE DEF AlbumOf
<1> QED
  BY <1>4, <1>5 DEF LocalTrack, TrackIDs, CanonicalTrackID, Canonical

\* So does the id made from the path of a remote file.
LEMMA RemoteIDs ==
  ASSUME NEW k \in Torrents \cup Peers
  PROVE  LET id == CanonicalTrackID(k, Home[k][1], Home[k])
         IN  id \in TrackIDs /\ Canonical(id) = Home[k]
<1>1. Home[k] \in Albums /\ Home[k][1] \in Artists /\ k \in Keys
  BY DEF Albums, Artists, Keys
<1> QED
  BY <1>1 DEF TrackIDs, CanonicalTrackID, Canonical

\* Every file has the provider of its kind.
LEMMA Providers ==
  /\ \A k \in Locals : Provider(k) = "local" /\ k \in Keys
  /\ \A k \in Torrents : Provider(k) = "torrent" /\ k \in Keys
  /\ \A k \in Peers : Provider(k) = "soulseek" /\ k \in Keys
BY CatalogAssumption DEF Provider, Keys

-----------------------------------------------------------------------------
(* The tables.                                                                 *)

\* What a scanner hands to ReplaceProviderTracks: files of the provider, each with its
\* canonical id and a row under the album of that id.
Incoming(provider, incoming) ==
  \A k \in DOMAIN incoming :
    /\ k \in Keys /\ Provider(k) = provider
    /\ incoming[k].id \in TrackIDs
    /\ incoming[k].row.album = Canonical(incoming[k].id)

\* ReplaceProviderTracks leaves the provider with the sources it is given, keeps the sources of
\* the others with their rows, aliases and path ids, and files every row it writes under the
\* album of its id.
LEMMA Replacement ==
  ASSUME NEW provider, NEW incoming, NEW aliases, RowsOK, Incoming(provider, incoming),
         ReplaceProviderTracks(provider, incoming, aliases)
  PROVE  /\ \A k \in Keys : source'[k] = IF k \in DOMAIN incoming THEN incoming[k].id
                                         ELSE IF Provider(k) = provider THEN None ELSE source[k]
         /\ RowsOK'
         /\ aliases \subseteq albumAlias'
         /\ \A k \in Keys : Provider(k) # provider /\ source[k] # None =>
              \A a \in albumAlias : a.track = source[k] /\ a.provider # provider => a \in albumAlias'
         /\ \A a \in albumAlias : a.provider = provider /\ (\E k \in DOMAIN incoming : incoming[k].id = a.track)
              => a \in albumAlias'
         /\ \A i \in DOMAIN rows' :
              IF \E k \in DOMAIN incoming : incoming[k].id = i
              THEN /\ rows'[i].album = Canonical(i)
                   /\ i \in DOMAIN rows /\ rows[i].album # Canonical(i) =>
                        Alias(provider, rows[i].album, i) \in albumAlias'
              ELSE i \in DOMAIN rows /\ rows'[i] = rows[i]
         /\ DOMAIN trackAlias' = DOMAIN trackAlias
         /\ \A x \in DOMAIN trackAlias, k \in Keys :
              Provider(k) # provider /\ source[k] # None /\ trackAlias[x] = source[k] =>
                trackAlias'[x] = trackAlias[x]
<1> DEFINE ids == {incoming[k].id : k \in DOMAIN incoming}
           row(i) == incoming[CHOOSE k \in DOMAIN incoming : incoming[k].id = i].row
           others == [k \in Keys |-> IF Provider(k) = provider THEN None ELSE source[k]]
           kept == {i \in DOMAIN rows : \E k \in Keys : others[k] = i}
           moved == {i \in ids \cap DOMAIN rows : rows[i].album # row(i).album}
<1>1. /\ rows' = [i \in kept \cup ids |-> IF i \in ids THEN row(i) ELSE rows[i]]
      /\ source' = [k \in Keys |-> IF k \in DOMAIN incoming THEN incoming[k].id ELSE others[k]]
      /\ albumAlias' = AliasesKept(provider, kept, ids, moved) \cup aliases
      /\ trackAlias' = [k \in DOMAIN trackAlias |-> IF trackAlias[k] \in kept THEN trackAlias[k] ELSE None]
  BY DEF ReplaceProviderTracks
<1>2. \A i \in ids : row(i).album = Canonical(i)
  BY DEF Incoming
<1>3. \A k \in Keys : Provider(k) # provider /\ source[k] # None => source[k] \in kept
  BY DEF RowsOK
<1> HIDE DEF row
<1>4. ids \subseteq TrackIDs /\ kept \subseteq DOMAIN rows
  BY DEF Incoming
<1>5. \A k \in Keys : source'[k] = IF k \in DOMAIN incoming THEN incoming[k].id
                                   ELSE IF Provider(k) = provider THEN None ELSE source[k]
  BY <1>1
<1>6. DOMAIN rows' = kept \cup ids
  BY <1>1
<1>7. RowsOK'
  <2>1. DOMAIN rows' \subseteq TrackIDs
    BY <1>4, <1>6 DEF RowsOK
  <2>2. ASSUME NEW k \in Keys PROVE source'[k] \in DOMAIN rows' \cup {None}
    BY <1>3, <1>5, <1>6
  <2> QED BY <2>1, <2>2 DEF RowsOK
<1>8. \A a \in albumAlias : a.track \in ids /\ a.provider = provider => a \in albumAlias'
  BY <1>1 DEF AliasesKept
<1>9. \A a \in albumAlias : a.track \in kept /\ a.provider # provider => a \in albumAlias'
  BY <1>1 DEF AliasesKept
<1>10. \A i \in moved : Alias(provider, rows[i].album, i) \in albumAlias'
  BY <1>1 DEF AliasesKept
<1>11. ASSUME NEW i \in DOMAIN rows', i \in ids
       PROVE  /\ rows'[i].album = Canonical(i)
              /\ i \in DOMAIN rows /\ rows[i].album # Canonical(i) =>
                   Alias(provider, rows[i].album, i) \in albumAlias'
  BY <1>1, <1>2, <1>6, <1>10, <1>11
<1>12. ASSUME NEW i \in DOMAIN rows', i \notin ids
       PROVE  i \in DOMAIN rows /\ rows'[i] = rows[i]
  BY <1>1, <1>4, <1>6, <1>12
<1>13. \A i : i \in ids <=> \E k \in DOMAIN incoming : incoming[k].id = i
  OBVIOUS
<1>14. DOMAIN trackAlias' = DOMAIN trackAlias
  BY <1>1
<1>15. \A x \in DOMAIN trackAlias : trackAlias[x] \in kept => trackAlias'[x] = trackAlias[x]
  BY <1>1
<1>16. aliases \subseteq albumAlias'
  BY <1>1
<1> HIDE DEF ids, kept, moved
<1>17. \A k \in Keys : Provider(k) # provider /\ source[k] # None =>
         \A a \in albumAlias : a.track = source[k] /\ a.provider # provider => a \in albumAlias'
  BY <1>3, <1>9
<1>18. \A x \in DOMAIN trackAlias, k \in Keys :
         Provider(k) # provider /\ source[k] # None /\ trackAlias[x] = source[k] =>
           trackAlias'[x] = trackAlias[x]
  BY <1>3, <1>15
<1>19. \A a \in albumAlias : a.provider = provider /\ (\E k \in DOMAIN incoming : incoming[k].id = a.track)
         => a \in albumAlias'
  BY <1>8, <1>13
<1> QED
  BY <1>5, <1>7, <1>11, <1>12, <1>13, <1>14, <1>16, <1>17, <1>18, <1>19

\* UpdateTrack leaves the sources alone and only adds aliases; the album a row leaves keeps
\* leading to it, for the provider of each of its files.
LEMMA Update ==
  ASSUME NEW id \in DOMAIN rows, NEW row, UpdateTrack(id, row)
  PROVE  /\ source' = source /\ trackAlias' = trackAlias
         /\ DOMAIN rows' = DOMAIN rows
         /\ albumAlias \subseteq albumAlias'
         /\ \A i \in DOMAIN rows : i # id => rows'[i] = rows[i]
         /\ rows'[id].album = rows[id].album \/
              \A k \in SourcesOf(id) : Alias(Provider(k), rows[id].album, id) \in albumAlias'
BY DEF UpdateTrack

-----------------------------------------------------------------------------
(* The steps, by what they may disturb.                                        *)

\* What the invariant depends on.
state == <<events, musicDir, torrentDir, tables, manager, dirty>>

\* A step that changes none of it: imports, requests and reads of a row.
LEMMA Elsewhere == ASSUME IInv, UNCHANGED state PROVE IInv'
<1> USE DEF state, tables, manager
<1>1. ScanTypeOK' /\ FileTypeOK' /\ OneScan'
  BY DEF IInv, ScanTypeOK, FileTypeOK, OneScan
<1>2. TablesOK'
  BY DEF IInv, TablesOK, RowsOK, CanonicalLeads, Leads
<1>3. Files' = Files
  BY DEF Files
<1>4. Matched' = Matched /\ Exist' = Exist /\ Filled' = Filled
  BY <1>3 DEF Matched, Filled, Exist, LocalsFiled, OwnAlbumsLead, PathsMatch, TorrentsFiled, LocalsExist, TorrentsExist
<1>5. \A s : Achieved(s)' = Achieved(s)
  BY <1>3, <1>4 DEF Achieved, Walked, Replaced, Listed, LocalsExist, PathsMatch
<1> QED BY <1>1, <1>2, <1>4, <1>5 DEF IInv, ScansSound, ResultSound

\* A step that changes files, and leaves the tables and the scans alone.
LEMMA FilesChange ==
  ASSUME IInv, FileTypeOK', dirty', UNCHANGED <<events, tables, manager>>
  PROVE  IInv'
<1> USE DEF tables, manager
<1>1. ScanTypeOK' /\ OneScan'
  BY DEF IInv, ScanTypeOK, OneScan
<1>2. TablesOK'
  BY DEF IInv, TablesOK, RowsOK, CanonicalLeads, Leads
<1> QED BY <1>1, <1>2 DEF IInv, ScansSound, ResultSound

\* The empty scan is a scan.
LEMMA NoScanOK ==
  ASSUME NEW st, NEW td, NEW w \in BOOLEAN
  PROVE  /\ IsScan(NoScan) /\ NoScan.stage = "none"
         /\ IsScan([NoScan EXCEPT !.stage = st, !.warned = w])
         /\ IsScan([NoScan EXCEPT !.stage = st, !.todo = td, !.warned = w])
<1>1. DOMAIN NoScan.found = {} /\ DOMAIN NoScan.seen = {}
  BY DEF NoScan
<1>2. DOMAIN NoScan = {"stage", "found", "todo", "seen", "warned"} /\ NoScan.warned \in BOOLEAN /\ NoScan.stage = "none"
  BY DEF NoScan
<1> HIDE DEF NoScan
<1> QED BY <1>1, <1>2 DEF IsScan

\* A scan begins: nobody else scans, and it has achieved nothing yet.
LEMMA ScanBegins ==
  ASSUME IInv, NEW p \in Procs, Begin(p), UNCHANGED <<events, musicDir, torrentDir, tables>>
  PROVE  IInv'
<1> PICK new : new = [NoScan EXCEPT !.stage = "local", !.warned = FALSE]
  OBVIOUS
<1>1. scan' = [scan EXCEPT ![p] = new] /\ scanning' = TRUE /\ ~scanning
  BY DEF Begin, Stage
<1>2. IsScan(new) /\ new.stage = "local"
  BY NoScanOK DEF NoScan
<1>3. ScanTypeOK'
  BY <1>1, <1>2 DEF IInv, ScanTypeOK
<1>4. \A q \in Procs : scan[q].stage = "none"
  BY <1>1 DEF IInv, OneScan
<1>5. \A q \in Procs : scan'[q].stage = IF q = p THEN "local" ELSE "none"
  BY <1>1, <1>2, <1>4 DEF IInv, ScanTypeOK
<1>6. OneScan'
  BY <1>1, <1>5 DEF OneScan
<1>7. TablesOK' /\ FileTypeOK'
  BY DEF IInv, TablesOK, RowsOK, CanonicalLeads, Leads, FileTypeOK, tables
<1>8. ScansSound'
  BY <1>5 DEF ScansSound, Achieved
<1>9. ResultSound'
  BY <1>1 DEF ResultSound
<1> QED BY <1>3, <1>6, <1>7, <1>8, <1>9 DEF IInv

\* A step of one scan that keeps the tables: what it achieves is all there is to show.
LEMMA ScanMoves ==
  ASSUME IInv, NEW p \in Procs, NEW new, scan[p].stage # "none",
         scan' = [scan EXCEPT ![p] = new], IsScan(new), new.stage # "none",
         ~dirty => Achieved(new),
         UNCHANGED <<events, musicDir, torrentDir, tables, scanning, lastOK, lastWarned, dirty>>
  PROVE  IInv'
<1> USE DEF tables
<1>1. ScanTypeOK' /\ FileTypeOK'
  BY DEF IInv, ScanTypeOK, FileTypeOK
<1>2. \A q \in Procs : scan'[q] = IF q = p THEN new ELSE scan[q]
  BY DEF IInv, ScanTypeOK
<1>3. OneScan'
  BY <1>2 DEF IInv, OneScan
<1>4. TablesOK'
  BY DEF IInv, TablesOK, RowsOK, CanonicalLeads, Leads
<1>5. Files' = Files
  BY DEF Files
<1>6. Matched' = Matched /\ Exist' = Exist /\ Filled' = Filled
  BY <1>5 DEF Matched, Filled, Exist, LocalsFiled, OwnAlbumsLead, PathsMatch, TorrentsFiled, LocalsExist, TorrentsExist
<1>7. \A s : Achieved(s)' = Achieved(s)
  BY <1>5, <1>6 DEF Achieved, Walked, Replaced, Listed, LocalsExist, PathsMatch
<1>8. ScansSound'
  BY <1>2, <1>7 DEF IInv, ScansSound
<1> QED BY <1>1, <1>3, <1>4, <1>6, <1>8 DEF IInv, ResultSound

\* A scan rewrites the tables: it is the only one, so again what it achieves is all there is
\* to show.
LEMMA ScanWrites ==
  ASSUME IInv, NEW p \in Procs, NEW new, scan[p].stage # "none",
         scan' = [scan EXCEPT ![p] = new], IsScan(new), new.stage # "none",
         ~dirty => Achieved(new)', TablesOK',
         UNCHANGED <<events, musicDir, torrentDir, scanning, lastOK, lastWarned, dirty>>
  PROVE  IInv'
<1>1. ScanTypeOK' /\ FileTypeOK'
  BY DEF IInv, ScanTypeOK, FileTypeOK
<1>2. \A q \in Procs : scan'[q] = IF q = p THEN new ELSE scan[q]
  BY DEF IInv, ScanTypeOK
<1>3. OneScan' /\ scanning
  BY <1>2 DEF IInv, OneScan
<1>4. \A q \in Procs : q # p => scan'[q].stage = "none"
  BY <1>2 DEF IInv, OneScan
<1>5. ScansSound'
  <2> SUFFICES ASSUME ~dirty, NEW q \in Procs PROVE Achieved(scan[q])'
    BY DEF ScansSound
  <2>1. CASE q = p
    BY <2>1, <1>2
  <2>2. CASE q # p
    BY <2>2, <1>4 DEF Achieved
  <2> QED BY <2>1, <2>2
<1> QED BY <1>1, <1>3, <1>5 DEF IInv, ResultSound

\* A write to the tables from elsewhere that keeps the sources, the path ids and the aliases
\* of the scanned files takes nothing back from a scan.
LEMMA OthersWrite ==
  ASSUME IInv, TablesOK', albumAlias \subseteq albumAlias',
         \A k \in Locals \cup Torrents : source'[k] = source[k],
         \A l \in Locals : trackAlias'[l] = trackAlias[l],
         UNCHANGED <<events, musicDir, torrentDir, manager, dirty>>
  PROVE  IInv'
<1> USE DEF manager
<1>1. ScanTypeOK' /\ FileTypeOK' /\ OneScan'
  BY DEF IInv, ScanTypeOK, FileTypeOK, OneScan
<1>2. Files' = Files
  BY DEF Files
<1>3. DOMAIN Files \subseteq Locals
  BY DEF Files
<1>4. (LocalsFiled => LocalsFiled') /\ (TorrentsFiled => TorrentsFiled')
  BY <1>2 DEF LocalsFiled, TorrentsFiled
<1>5. OwnAlbumsLead => OwnAlbumsLead'
  BY <1>2, <1>3 DEF OwnAlbumsLead
<1>6. PathsMatch => PathsMatch'
  BY DEF PathsMatch
<1>7. (Filled => Filled') /\ (Matched => Matched') /\ (LocalsExist' = LocalsExist) /\ (Exist => Exist')
  BY <1>2, <1>4, <1>5, <1>6 DEF Matched, Filled, Exist, LocalsExist, TorrentsExist
<1>8. \A s : Replaced(s) /\ IsScan(s) => Replaced(s)'
  BY <1>2, <1>3, <1>7 DEF Replaced, IsScan
<1>9. \A s : IsScan(s) /\ Achieved(s) => Achieved(s)'
  BY <1>2, <1>6, <1>7, <1>8 DEF Achieved, Walked, Listed
<1> QED BY <1>1, <1>7, <1>9 DEF IInv, ScanTypeOK, ScansSound, ResultSound

-----------------------------------------------------------------------------
(* The steps of a scan.                                                        *)

\* The walk finds the files as they are, or some of them and warns.
LEMMA ScanLocalStep == ASSUME IInv, NEW p \in Procs, ScanLocal(p) PROVE IInv'
<1> PICK readable \in SUBSET DOMAIN Files :
      scan' = [scan EXCEPT ![p].stage = "walked", ![p].found = [l \in readable |-> Files[l]],
                           ![p].warned = readable # DOMAIN Files]
  BY DEF ScanLocal
<1> PICK found : found = [l \in readable |-> Files[l]]
  OBVIOUS
<1> PICK warned : warned = (readable # DOMAIN Files)
  OBVIOUS
<1> PICK new : new = [scan[p] EXCEPT !.stage = "walked", !.found = found, !.warned = warned]
  OBVIOUS
<1>1. scan' = [scan EXCEPT ![p] = new] /\ IsScan(scan[p])
  BY DEF IInv, ScanTypeOK
<1>2. DOMAIN Files \subseteq Locals /\ \A l \in DOMAIN Files : Files[l] \in Tags
  BY DEF Files, IInv, FileTypeOK
<1>3. /\ DOMAIN new = {"stage", "found", "todo", "seen", "warned"}
      /\ new.stage = "walked" /\ new.found = found /\ new.seen = scan[p].seen /\ new.warned = warned
  BY <1>1 DEF IsScan
<1>4. DOMAIN found = readable /\ \A l \in readable : found[l] = Files[l]
  OBVIOUS
<1>5. IsScan(new)
  BY <1>1, <1>2, <1>3, <1>4 DEF IsScan
<1>6. ~warned => found = Files
  BY DEF Files
<1>7. Achieved(new)
  BY <1>3, <1>4, <1>6 DEF Achieved, Walked
<1> QED BY <1>1, <1>3, <1>5, <1>7, ScanMoves DEF ScanLocal, files

\* The replacement files every local file it has found under its canonical id, and saves an
\* alias for each album the normalisation changes.
LEMMA ScanReplaceLocalStep == ASSUME IInv, NEW p \in Procs, ScanReplaceLocal(p) PROVE IInv'
<1> PICK found : found = scan[p].found
  OBVIOUS
<1> DEFINE incoming == [l \in DOMAIN found |->
                          [id |-> LocalTrack(found, l), row |-> [album |-> AlbumOf(found, l), tagged |-> TRUE]]]
           changed == {l \in DOMAIN found : OwnAlbum(found[l]) # AlbumOf(found, l)}
           aliases == {Alias("local", OwnAlbum(found[l]), incoming[l].id) : l \in changed}
<1> PICK new : new = [scan[p] EXCEPT !.stage = "aliases", !.todo = DOMAIN found]
  OBVIOUS
<1>1. IsScan(scan[p]) /\ scan' = [scan EXCEPT ![p] = new]
  BY DEF ScanReplaceLocal, IInv, ScanTypeOK
<1>2. /\ DOMAIN new = {"stage", "found", "todo", "seen", "warned"}
      /\ new.stage = "aliases" /\ new.found = found /\ new.seen = scan[p].seen /\ new.todo = DOMAIN found
      /\ new.warned = scan[p].warned
  BY <1>1 DEF IsScan
<1>3. IsScan(new)
  BY <1>1, <1>2 DEF IsScan
<1>4. DOMAIN found \subseteq Locals /\ \A l \in DOMAIN found : found[l] \in Tags
  BY <1>1 DEF IsScan
<1>5. \A l \in DOMAIN found : LocalTrack(found, l) \in TrackIDs /\ Canonical(LocalTrack(found, l)) = AlbumOf(found, l)
  BY <1>4, LocalIDs
<1>6. \A l \in DOMAIN incoming : l \in DOMAIN found /\ incoming[l].id = LocalTrack(found, l)
                                 /\ incoming[l].row.album = AlbumOf(found, l)
  OBVIOUS
<1>7. ReplaceProviderTracks("local", incoming, aliases)
  BY DEF ScanReplaceLocal
<1>8. DOMAIN incoming = DOMAIN found
  OBVIOUS
<1>9. \A l \in changed : Alias("local", OwnAlbum(found[l]), incoming[l].id) \in aliases
  OBVIOUS
<1> HIDE DEF incoming, aliases
<1>10. Incoming("local", incoming)
  BY <1>4, <1>5, <1>6, Providers DEF Incoming
<1>11. RowsOK
  BY DEF IInv, TablesOK
<1>12. \A l \in Locals : source'[l] = IF l \in DOMAIN found THEN LocalTrack(found, l) ELSE None
  BY <1>6, <1>7, <1>8, <1>10, <1>11, Replacement, Providers
<1>13. RowsOK' /\ DOMAIN trackAlias' = DOMAIN trackAlias /\ aliases \subseteq albumAlias'
  BY <1>7, <1>10, <1>11, Replacement
<1>14. CanonicalLeads'
  <2> SUFFICES ASSUME NEW l \in Locals, source'[l] # None
               PROVE  rows'[source'[l]].album = Canonical(source'[l])
    BY DEF CanonicalLeads, Leads
  <2>1. l \in DOMAIN incoming /\ source'[l] = incoming[l].id
    BY <1>6, <1>8, <1>12
  <2>2. source'[l] \in DOMAIN rows'
    BY <1>13, Providers DEF RowsOK
  <2> QED BY <2>1, <2>2, <1>7, <1>10, <1>11, Replacement
<1>15. TablesOK'
  BY <1>13, <1>14 DEF TablesOK, IInv
<1>16. Files' = Files
  BY DEF ScanReplaceLocal, Files, files
<1>17. scan[p].stage = "walked"
  BY DEF ScanReplaceLocal
<1>18. ASSUME ~dirty PROVE Achieved(new)'
  <2>1. DOMAIN found \subseteq DOMAIN Files /\ (scan[p].warned \/ found = Files)
    BY <1>17, <1>18 DEF IInv, ScansSound, Achieved, Walked
  <2>2. ASSUME found = Files PROVE Filled'
    <3>1. LocalsFiled'
      BY <1>12, <1>16, <2>2 DEF LocalsFiled
    <3>2. OwnAlbumsLead'
      <4> SUFFICES ASSUME NEW l \in DOMAIN found, OwnAlbum(found[l]) # AlbumOf(found, l)
                   PROVE  Alias("local", OwnAlbum(found[l]), source'[l]) \in albumAlias'
        BY <1>16, <2>2 DEF OwnAlbumsLead
      <4>1. l \in changed /\ source'[l] = incoming[l].id
        BY <1>4, <1>6, <1>8, <1>12
      <4> QED BY <4>1, <1>9, <1>13
    <3> QED BY <3>1, <3>2 DEF Filled
  <2> QED BY <1>2, <1>12, <1>16, <2>1, <2>2 DEF Achieved, Replaced
<1>19. UNCHANGED <<events, musicDir, torrentDir, scanning, lastOK, lastWarned, dirty>>
  BY DEF ScanReplaceLocal, files
<1> QED BY <1>1, <1>2, <1>3, <1>15, <1>17, <1>18, <1>19, ScanWrites

\* One more path id names the track of its file.
LEMMA ScanAliasStep == ASSUME IInv, NEW p \in Procs, NEW l \in Locals, ScanAlias(p, l) PROVE IInv'
<1> PICK todo : todo = scan[p].todo \ {l}
  OBVIOUS
<1> PICK new : new = [scan[p] EXCEPT !.todo = todo]
  OBVIOUS
<1>1. /\ IsScan(scan[p]) /\ scan' = [scan EXCEPT ![p] = new]
      /\ trackAlias' = [trackAlias EXCEPT ![l] = LocalTrack(scan[p].found, l)]
      /\ UNCHANGED <<events, musicDir, torrentDir, rows, source, albumAlias, scanning, lastOK, lastWarned, dirty>>
      /\ scan[p].stage = "aliases"
  BY DEF ScanAlias, IInv, ScanTypeOK, files
<1>2. /\ DOMAIN new = {"stage", "found", "todo", "seen", "warned"} /\ new.stage = "aliases"
      /\ new.found = scan[p].found /\ new.seen = scan[p].seen /\ new.todo = todo
      /\ new.warned = scan[p].warned
  BY <1>1 DEF IsScan
<1>3. IsScan(new)
  BY <1>1, <1>2 DEF IsScan
<1>4. DOMAIN trackAlias' = DOMAIN trackAlias /\ l \in DOMAIN trackAlias
  BY <1>1 DEF IInv, TablesOK
<1>5. TablesOK'
  BY <1>1, <1>4 DEF IInv, TablesOK, RowsOK, CanonicalLeads, Leads
<1>6. Files' = Files
  BY <1>1 DEF Files
<1>7. ASSUME ~dirty PROVE Achieved(new)'
  <2>1. Replaced(scan[p])
    BY <1>1, <1>7 DEF IInv, ScansSound, Achieved
  <2>2. (Filled => Filled') /\ DOMAIN scan[p].found \subseteq Locals
    BY <1>1, <1>6 DEF Filled, LocalsFiled, OwnAlbumsLead, IsScan
  <2>3. \A x \in DOMAIN scan[p].found : x \notin todo => trackAlias'[x] = source[x]
    <3> SUFFICES ASSUME NEW x \in DOMAIN scan[p].found, x \notin todo PROVE trackAlias'[x] = source[x]
      OBVIOUS
    <3>1. CASE x = l
      <4>1. trackAlias'[l] = LocalTrack(scan[p].found, l)
        BY <1>1, <1>4
      <4>2. source[l] = LocalTrack(scan[p].found, l)
        BY <2>1, <3>1 DEF Replaced
      <4> QED BY <3>1, <4>1, <4>2
    <3>2. CASE x # l
      <4>1. trackAlias[x] = source[x]
        BY <2>1, <3>2 DEF Replaced
      <4>2. x \in DOMAIN trackAlias
        BY <2>2 DEF IInv, TablesOK
      <4> QED BY <1>1, <3>2, <4>1, <4>2
    <3> QED BY <3>1, <3>2
  <2> QED BY <1>1, <1>2, <1>6, <2>1, <2>2, <2>3 DEF Achieved, Replaced
<1> QED BY <1>1, <1>2, <1>3, <1>5, <1>7, ScanWrites

\* All path ids are saved when the torrent scanner lists its directory.
LEMMA ScanListStep == ASSUME IInv, NEW p \in Procs, ScanList(p) PROVE IInv'
<1> PICK new : new = [NoScan EXCEPT !.stage = "torrents", !.todo = torrentDir, !.warned = scan[p].warned]
  OBVIOUS
<1>1. /\ scan' = [scan EXCEPT ![p] = new]
      /\ scan[p].stage = "aliases" /\ scan[p].todo = {}
      /\ UNCHANGED <<events, musicDir, torrentDir, tables, scanning, lastOK, lastWarned, dirty>>
  BY DEF ScanList, files
<1>2. IsScan(new)
  BY NoScanOK DEF IInv, ScanTypeOK, IsScan
<1>3. new.stage = "torrents" /\ new.todo = torrentDir /\ DOMAIN new.seen = {} /\ new.warned = scan[p].warned
  BY DEF NoScan
<1>4. ASSUME ~dirty PROVE Achieved(new)
  <2>1. Replaced(scan[p])
    BY <1>1, <1>4 DEF IInv, ScansSound, Achieved
  <2>2. PathsMatch
    <3> SUFFICES ASSUME NEW l \in Locals, source[l] # None PROVE trackAlias[l] = source[l]
      BY DEF PathsMatch
    <3>1. l \in DOMAIN scan[p].found
      BY <2>1 DEF Replaced
    <3> QED BY <3>1, <2>1, <1>1 DEF Replaced
  <2>3. LocalsExist
    BY <2>1 DEF Replaced, LocalsExist
  <2> QED BY <1>3, <2>1, <2>2, <2>3 DEF Achieved, Replaced, Listed
<1> QED BY <1>1, <1>2, <1>3, <1>4, ScanMoves

\* A listed torrent is read or skipped with a warning.
LEMMA ScanTorrentStep == ASSUME IInv, NEW p \in Procs, NEW t \in Torrents, ScanTorrent(p, t) PROVE IInv'
<1> PICK todo : todo = scan[p].todo \ {t}
  OBVIOUS
<1> PICK old : old = scan[p].seen
  OBVIOUS
<1>1. /\ IsScan(scan[p]) /\ scan[p].stage = "torrents" /\ t \in scan[p].todo
      /\ UNCHANGED <<events, musicDir, torrentDir, tables, scanning, lastOK, lastWarned, dirty>>
  BY DEF ScanTorrent, IInv, ScanTypeOK, files
<1>2. ASSUME ~dirty PROVE Listed(scan[p])
  BY <1>1, <1>2 DEF IInv, ScansSound, Achieved
<1>3. ASSUME NEW tagged \in BOOLEAN, t \in torrentDir, Read(p, t, tagged) PROVE IInv'
  <2> PICK seen : seen = [x \in DOMAIN old \cup {t} |-> IF x = t THEN tagged ELSE old[x]]
    OBVIOUS
  <2> PICK warned : warned = (scan[p].warned \/ (tagged # (t \in cached)))
    OBVIOUS
  <2> PICK new : new = [scan[p] EXCEPT !.todo = todo, !.seen = seen, !.warned = warned]
    OBVIOUS
  <2>1. scan' = [scan EXCEPT ![p] = new]
    BY <1>3 DEF Read, IInv, ScanTypeOK
  <2>2. /\ DOMAIN new = {"stage", "found", "todo", "seen", "warned"} /\ new.stage = "torrents"
        /\ new.found = scan[p].found /\ new.seen = seen /\ new.todo = todo /\ new.warned = warned
    BY <1>1 DEF IsScan
  <2>3. DOMAIN seen = DOMAIN old \cup {t} /\ warned \in BOOLEAN /\ (scan[p].warned => warned)
    BY <1>1 DEF IsScan
  <2>4. IsScan(new)
    BY <1>1, <2>2, <2>3 DEF IsScan
  <2>5. ASSUME ~dirty PROVE Achieved(new)
    BY <1>1, <1>2, <1>3, <2>2, <2>3, <2>5 DEF Achieved, Listed
  <2> QED BY <1>1, <2>1, <2>2, <2>4, <2>5, ScanMoves
<1>4. ASSUME Skip(p, t) PROVE IInv'
  <2> PICK new : new = [scan[p] EXCEPT !.todo = todo, !.warned = TRUE]
    OBVIOUS
  <2>1. scan' = [scan EXCEPT ![p] = new]
    BY <1>4 DEF Skip, IInv, ScanTypeOK
  <2>2. /\ DOMAIN new = {"stage", "found", "todo", "seen", "warned"} /\ new.stage = "torrents"
        /\ new.found = scan[p].found /\ new.seen = old /\ new.todo = todo /\ new.warned = TRUE
    BY <1>1 DEF IsScan
  <2>3. IsScan(new)
    BY <1>1, <2>2 DEF IsScan
  <2>4. ASSUME ~dirty PROVE Achieved(new)
    BY <1>1, <1>2, <2>2, <2>4 DEF Achieved, Listed
  <2> QED BY <1>1, <2>1, <2>2, <2>3, <2>4, ScanMoves
<1>5. Skip(p, t) \/ \E tagged \in BOOLEAN : t \in torrentDir /\ Read(p, t, tagged)
  <2> HIDE DEF Read, Skip
  <2>1. (t \in cached) \in BOOLEAN /\ FALSE \in BOOLEAN
    OBVIOUS
  <2> QED BY <2>1, Zenon DEF ScanTorrent
<1> QED BY <1>3, <1>4, <1>5

\* The replacement of the torrent tracks completes the match, and takes nothing from the
\* local files.
LEMMA ScanReplaceTorrentsStep == ASSUME IInv, NEW p \in Procs, ScanReplaceTorrents(p) PROVE IInv'
<1> PICK seen : seen = scan[p].seen
  OBVIOUS
<1> DEFINE incoming == [t \in DOMAIN seen |->
                          [id |-> TorrentTrack(t), row |-> [album |-> Home[t], tagged |-> seen[t]]]]
<1> PICK new : new = [NoScan EXCEPT !.stage = "ok", !.warned = scan[p].warned]
  OBVIOUS
<1>1. /\ IsScan(scan[p]) /\ scan' = [scan EXCEPT ![p] = new]
      /\ scan[p].stage = "torrents" /\ scan[p].todo = {}
      /\ UNCHANGED <<events, musicDir, torrentDir, scanning, lastOK, lastWarned, dirty>>
  BY DEF ScanReplaceTorrents, IInv, ScanTypeOK, files, Stage
<1>2. IsScan(new) /\ new.stage = "ok" /\ new.warned = scan[p].warned
  BY <1>1, NoScanOK DEF NoScan, IsScan
<1>3. DOMAIN seen \subseteq Torrents
  BY <1>1 DEF IsScan
<1>4. \A t \in Torrents : TorrentTrack(t) \in TrackIDs /\ Canonical(TorrentTrack(t)) = Home[t]
  BY RemoteIDs DEF TorrentTrack
<1>5. \A t \in DOMAIN incoming : t \in DOMAIN seen /\ incoming[t].id = TorrentTrack(t)
                                 /\ incoming[t].row.album = Home[t]
  OBVIOUS
<1>6. ReplaceProviderTracks("torrent", incoming, {})
  BY DEF ScanReplaceTorrents
<1>7. DOMAIN incoming = DOMAIN seen
  OBVIOUS
<1> HIDE DEF incoming
<1>8. Incoming("torrent", incoming) /\ RowsOK
  BY <1>3, <1>4, <1>5, Providers DEF Incoming, IInv, TablesOK
<1>9. \A t \in Torrents : source'[t] = IF t \in DOMAIN seen THEN TorrentTrack(t) ELSE None
  BY <1>5, <1>6, <1>7, <1>8, Replacement, Providers
<1>10. \A l \in Locals : l \in Keys /\ Provider(l) # "torrent" /\ l \notin DOMAIN incoming
  BY <1>3, <1>7, Providers, CatalogAssumption
<1>11. \A l \in Locals : source'[l] = source[l]
  BY <1>6, <1>8, <1>10, Replacement
<1>12. RowsOK' /\ DOMAIN trackAlias' = DOMAIN trackAlias
  BY <1>6, <1>8, Replacement
<1>13. \A l \in Locals : source[l] # None =>
         \A album : Alias("local", album, source[l]) \in albumAlias =>
                    Alias("local", album, source[l]) \in albumAlias'
  <2> SUFFICES ASSUME NEW l \in Locals, source[l] # None, NEW album, Alias("local", album, source[l]) \in albumAlias
               PROVE  Alias("local", album, source[l]) \in albumAlias'
    OBVIOUS
  <2> PICK a \in albumAlias : a = Alias("local", album, source[l])
    OBVIOUS
  <2>1. a.track = source[l] /\ a.provider # "torrent"
    BY DEF Alias
  <2> QED BY <2>1, <1>6, <1>8, <1>10, Replacement
<1>14. CanonicalLeads'
  <2> SUFFICES ASSUME "refresh" \notin events, NEW l \in Locals, source[l] # None
               PROVE  \/ rows'[source[l]].album = Canonical(source[l])
                      \/ Alias("local", Canonical(source[l]), source[l]) \in albumAlias'
    BY <1>1, <1>11 DEF CanonicalLeads, Leads
  <2> PICK i : i = source[l]
    OBVIOUS
  <2>1. i \in DOMAIN rows'
    BY <1>10, <1>11, <1>12 DEF RowsOK
  <2>2. rows'[i].album = Canonical(i) \/ rows'[i] = rows[i]
    BY <2>1, <1>6, <1>8, Replacement
  <2>3. rows[i].album = Canonical(i) \/ Alias("local", Canonical(i), i) \in albumAlias
    BY DEF IInv, TablesOK, CanonicalLeads, Leads
  <2> QED BY <2>2, <2>3, <1>13
<1>15. TablesOK'
  BY <1>12, <1>14 DEF TablesOK, IInv
<1>16. Files' = Files /\ DOMAIN Files \subseteq Locals
  BY <1>1 DEF Files
<1>17. ASSUME ~dirty PROVE Achieved(new)'
  <2>1. Listed(scan[p])
    BY <1>1, <1>17 DEF IInv, ScansSound, Achieved
  <2>2. LocalsExist' /\ TorrentsExist'
    BY <2>1, <1>1, <1>9, <1>11, <1>16 DEF Listed, LocalsExist, TorrentsExist
  <2>3. PathsMatch'
    <3> SUFFICES ASSUME NEW l \in Locals, source[l] # None PROVE trackAlias'[l] = source[l]
      BY <1>11 DEF PathsMatch
    <3>1. trackAlias[l] = source[l] /\ l \in DOMAIN trackAlias
      BY <2>1 DEF Listed, PathsMatch, IInv, TablesOK
    <3> QED BY <3>1, <1>6, <1>8, <1>10, Replacement
  <2>4. ASSUME ~scan[p].warned PROVE Matched'
    <3>1. Filled /\ DOMAIN seen = torrentDir
      BY <1>1, <2>1, <2>4 DEF Listed
    <3>2. LocalsFiled' /\ TorrentsFiled'
      BY <3>1, <1>1, <1>9, <1>11, <1>16 DEF Filled, LocalsFiled, TorrentsFiled
    <3>3. \A l \in DOMAIN Files : source[l] # None
      <4> SUFFICES ASSUME NEW l \in DOMAIN Files PROVE source[l] # None
        OBVIOUS
      <4>1. source[l] = LocalTrack(Files, l)
        BY <3>1, <1>16 DEF Filled, LocalsFiled
      <4>2. \A x \in DOMAIN Files : Files[x] \in Tags
        BY DEF Files, IInv, FileTypeOK
      <4>3. LocalTrack(Files, l) \in TrackIDs
        BY <1>16, <4>2, LocalIDs
      <4> QED BY <4>1, <4>3, CatalogAssumption
    <3>4. OwnAlbumsLead'
      BY <3>1, <3>3, <1>11, <1>13, <1>16 DEF Filled, OwnAlbumsLead
    <3> QED BY <3>2, <3>4 DEF Matched, Filled
  <2> QED BY <1>2, <2>2, <2>3, <2>4 DEF Achieved, Exist
<1> QED BY <1>1, <1>2, <1>15, <1>17, ScanWrites

\* A scan that fails claims nothing.
LEMMA ScanFailStep == ASSUME IInv, NEW p \in Procs, ScanFail(p) PROVE IInv'
<1> PICK new : new = [NoScan EXCEPT !.stage = "failed", !.warned = FALSE]
  OBVIOUS
<1>1. scan' = [scan EXCEPT ![p] = new] /\ scan[p].stage # "none"
  BY DEF ScanFail, Stage
<1>2. IsScan(new) /\ new.stage = "failed"
  BY NoScanOK DEF NoScan
<1>3. Achieved(new)
  BY <1>2 DEF Achieved
<1> QED BY <1>1, <1>2, <1>3, ScanMoves DEF ScanFail, files

\* finish: the result is good only if the scan got to its end, and then it has achieved a match.
LEMMA FinishStep == ASSUME IInv, NEW p \in Procs, Finish(p) PROVE IInv'
<1>1. /\ scan' = [scan EXCEPT ![p] = NoScan] /\ scan[p].stage # "none"
      /\ scanning' = FALSE /\ (lastOK' <=> scan[p].stage = "ok") /\ lastWarned' = scan[p].warned
      /\ UNCHANGED <<events, musicDir, torrentDir, tables, dirty>>
  BY DEF Finish, files
<1>2. IsScan(NoScan) /\ NoScan.stage = "none"
  BY NoScanOK
<1>3. ScanTypeOK'
  BY <1>1, <1>2 DEF IInv, ScanTypeOK
<1>4. \A q \in Procs : scan'[q].stage = "none"
  BY <1>1, <1>2 DEF IInv, OneScan, ScanTypeOK
<1>5. OneScan' /\ ScansSound'
  BY <1>4 DEF OneScan, ScansSound, Achieved
<1>6. FileTypeOK' /\ TablesOK'
  BY <1>1 DEF IInv, FileTypeOK, TablesOK, RowsOK, CanonicalLeads, Leads, tables
<1>7. Files' = Files
  BY <1>1 DEF Files
<1>8. Matched' = Matched /\ Exist' = Exist
  BY <1>1, <1>7 DEF Matched, Filled, Exist, LocalsFiled, OwnAlbumsLead, PathsMatch, TorrentsFiled, LocalsExist,
                    TorrentsExist, tables
<1>9. ~dirty /\ scan[p].stage = "ok" => Exist /\ (scan[p].warned \/ Matched)
  BY DEF IInv, ScansSound, Achieved
<1>10. ResultSound'
  BY <1>1, <1>8, <1>9 DEF ResultSound
<1> QED BY <1>3, <1>5, <1>6, <1>10 DEF IInv

-----------------------------------------------------------------------------
(* The writes of others.                                                       *)

\* UpdateTrack, of an enrichment or of an edit.
LEMMA UpdateStep ==
  ASSUME IInv, NEW id \in DOMAIN rows, NEW row, UpdateTrack(id, row),
         UNCHANGED <<events, musicDir, torrentDir, manager, dirty>>
  PROVE  IInv'
<1>1. /\ source' = source /\ trackAlias' = trackAlias /\ DOMAIN rows' = DOMAIN rows
      /\ albumAlias \subseteq albumAlias'
  BY Update
<1>2. RowsOK'
  BY <1>1 DEF IInv, TablesOK, RowsOK
<1>3. CanonicalLeads'
  <2> SUFFICES ASSUME "refresh" \notin events, NEW l \in Locals, source[l] # None
               PROVE  \/ rows'[source[l]].album = Canonical(source[l])
                      \/ Alias("local", Canonical(source[l]), source[l]) \in albumAlias'
    BY <1>1 DEF CanonicalLeads, Leads
  <2> PICK i : i = source[l]
    OBVIOUS
  <2>1. rows[i].album = Canonical(i) \/ Alias("local", Canonical(i), i) \in albumAlias
    BY DEF IInv, TablesOK, CanonicalLeads, Leads
  <2>2. l \in Keys /\ Provider(l) = "local" /\ i \in DOMAIN rows
    BY Providers DEF IInv, TablesOK, RowsOK
  <2>3. rows'[i].album = rows[i].album \/ Alias("local", rows[i].album, i) \in albumAlias'
    <3>1. CASE i = id
      <4>1. l \in SourcesOf(id)
        BY <2>2, <3>1 DEF SourcesOf
      <4> QED BY <4>1, <2>2, <3>1, Update
    <3>2. CASE i # id
      BY <2>2, <3>2, Update
    <3> QED BY <3>1, <3>2
  <2> QED BY <2>1, <2>3, <1>1
<1> QED BY <1>1, <1>2, <1>3, OthersWrite DEF IInv, TablesOK

\* SaveTrackSources gives sources to peers' files only, and takes nothing back from a scan.
LEMMA SaveStep ==
  ASSUME IInv, NEW saves, NEW sources, SaveTrackSources(saves, sources),
         DOMAIN saves \subseteq TrackIDs, DOMAIN sources \subseteq Peers,
         \A k \in DOMAIN sources : sources[k] \in DOMAIN saves,
         "refresh" \in events \/ \A i \in DOMAIN saves : saves[i].album = Canonical(i),
         DOMAIN trackAlias' = DOMAIN trackAlias, \A l \in Locals : trackAlias'[l] = trackAlias[l],
         UNCHANGED <<events, musicDir, torrentDir, manager, dirty>>
  PROVE  IInv'
<1>1. /\ rows' = [i \in DOMAIN rows \cup DOMAIN saves |-> IF i \in DOMAIN saves THEN saves[i] ELSE rows[i]]
      /\ source' = [x \in Keys |-> IF x \in DOMAIN sources THEN sources[x] ELSE source[x]]
      /\ albumAlias' = albumAlias
  BY DEF SaveTrackSources
<1>2. DOMAIN rows' = DOMAIN rows \cup DOMAIN saves
  BY <1>1
<1>3. \A x \in Keys : source'[x] \in DOMAIN saves \/ source'[x] = source[x]
  BY <1>1
<1>4. \A x \in Locals \cup Torrents : source'[x] = source[x] /\ x \in Keys
  BY <1>1, CatalogAssumption DEF Keys
<1>5. RowsOK'
  BY <1>2, <1>3 DEF IInv, TablesOK, RowsOK
<1>6. "refresh" \in events \/ \A i \in DOMAIN rows' : rows'[i].album = Canonical(i) \/ rows'[i] = rows[i]
  BY <1>1
<1>7. CanonicalLeads'
  BY <1>1, <1>4, <1>5, <1>6 DEF CanonicalLeads, Leads, RowsOK, IInv, TablesOK
<1> QED BY <1>1, <1>4, <1>5, <1>7, OthersWrite DEF IInv, TablesOK

\* A Soulseek result is added: the row it writes is under the album of its id.
LEMMA AddDiscoveredStep == ASSUME IInv, NEW k \in Peers, AddDiscovered(k) PROVE IInv'
<1> PICK id : id = PeerTrack(k)
  OBVIOUS
<1>1. PICK others \in SUBSET (SameRecording(id) \ {k}) :
        SaveTrackSources([i \in {id} |-> PeerRow(i)], [x \in others \cup {k} |-> id])
  BY DEF AddDiscovered
<1>2. id \in TrackIDs
  BY RemoteIDs DEF PeerTrack
<1>3. \A i : PeerRow(i).album = Canonical(i)
  BY DEF PeerRow, Canonical
<1>4. others \cup {k} \subseteq Peers
  BY DEF SameRecording
<1>5. DOMAIN trackAlias' = DOMAIN trackAlias /\ \A l \in Locals : trackAlias'[l] = trackAlias[l]
  BY CatalogAssumption DEF AddDiscovered, IInv, TablesOK
<1> HIDE DEF PeerRow
<1> QED BY <1>1, <1>2, <1>3, <1>4, <1>5, SaveStep DEF AddDiscovered, files

\* So are those of a collection.
LEMMA AddCollectionStep == ASSUME IInv, NEW album, AddCollection(album) PROVE IInv'
<1> PICK tracks : tracks = {k \in Peers : Home[k] = album}
  OBVIOUS
<1> PICK ids : ids = {PeerTrack(k) : k \in tracks}
  OBVIOUS
<1>1. SaveTrackSources([i \in ids |-> PeerRow(i)], [k \in tracks |-> PeerTrack(k)])
  BY DEF AddCollection
<1>2. ids \subseteq TrackIDs
  BY RemoteIDs DEF PeerTrack
<1>3. \A i : PeerRow(i).album = Canonical(i)
  BY DEF PeerRow, Canonical
<1>4. tracks \subseteq Peers /\ trackAlias' = trackAlias /\ \A k \in tracks : PeerTrack(k) \in ids
  BY DEF AddCollection
<1> HIDE DEF PeerRow, PeerTrack
<1> QED BY <1>1, <1>2, <1>3, <1>4, SaveStep DEF AddCollection, files

\* A refresh writes a row back as it was read.
LEMMA RefreshStep == ASSUME IInv, RefreshOK, RefreshWrite PROVE IInv'
<1>1. PICK found \in SUBSET SameRecording(refresh.id) :
        IF found = {} THEN UNCHANGED <<rows, source, albumAlias>>
        ELSE SaveTrackSources([i \in {refresh.id} |-> refresh.row], [x \in found |-> refresh.id])
  BY DEF RefreshWrite
<1>2. refresh.id \in TrackIDs /\ "refresh" \in events
  BY DEF RefreshOK, RefreshWrite
<1>3. found \subseteq Peers /\ trackAlias' = trackAlias /\ UNCHANGED <<events, musicDir, torrentDir, manager, dirty>>
  BY DEF SameRecording, RefreshWrite, files
<1>4. CASE found = {}
  BY <1>1, <1>3, <1>4, Elsewhere DEF state, tables
<1>5. CASE found # {}
  BY <1>1, <1>2, <1>3, <1>5, SaveStep
<1> QED BY <1>4, <1>5

\* A refresh is of a track that was in the catalog.
LEMMA RefreshStays == ASSUME IInv, RefreshOK, [Next]_vars PROVE RefreshOK'
<1> USE DEF writers
<1>1. CASE UNCHANGED <<events, refresh>>
  BY <1>1 DEF RefreshOK
<1>2. ASSUME NEW id \in DOMAIN rows, RefreshRead(id) PROVE RefreshOK'
  BY <1>2 DEF RefreshRead, RefreshOK, IInv, TablesOK, RowsOK
<1>3. CASE refresh' = None
  BY <1>3 DEF RefreshOK
<1>4. ASSUME NEW p \in Procs, ScanStep(p) \/ ScanFail(p) PROVE UNCHANGED <<events, refresh>>
  BY <1>4 DEF ScanStep, ScanFail, ScanLocal, ScanReplaceLocal, ScanList, ScanReplaceTorrents, Finish, ScanAlias,
              ScanTorrent
<1>5. \A r \in Requests : RequestScan(r) \/ (\E t \in Torrents : Upload(r, t) \/ Remove(r, t))
        => UNCHANGED <<events, refresh>>
  BY DEF RequestScan, Upload, Remove
<1>6. \A t \in Torrents : ImportURI(t) \/ JobStep(t) \/ JobScan(t) \/ Complete(t) \/ EnrichStep(t)
        => UNCHANGED <<events, refresh>>
  BY DEF ImportURI, JobStep, Fetched, JobWrite, JobRefused, JobConclude, JobExit, JobScan, Complete,
         EnrichStep, EnrichRead, EnrichWrite
<1>7. \/ Start \/ CalmDown \/ EditWrite \/ (\E id \in DOMAIN rows : EditRead(id)) \/ (\E l \in Locals : Retag(l))
      \/ (\E k \in Peers : AddDiscovered(k)) \/ (\E album \in Albums : AddCollection(album)) \/ UNCHANGED vars
      => UNCHANGED <<events, refresh>>
  BY DEF Start, CalmDown, EditWrite, EditRead, Retag, AddDiscovered, AddCollection, vars
<1>8. Restart \/ RefreshWrite => refresh' = None
  BY DEF Restart, RefreshWrite
<1> QED BY <1>1, <1>2, <1>3, <1>4, <1>5, <1>6, <1>7, <1>8, Zenon DEF Next

-----------------------------------------------------------------------------
(* The theorems.                                                               *)

\* The empty catalog satisfies the invariant.
LEMMA InitIInv == Init => IInv /\ RefreshOK
<1> SUFFICES ASSUME Init PROVE IInv /\ RefreshOK
  OBVIOUS
<1>1. IsScan(NoScan) /\ NoScan.stage = "none"
  BY NoScanOK
<1>2. ScanTypeOK /\ OneScan /\ ScansSound
  BY <1>1 DEF Init, ScanTypeOK, OneScan, ScansSound
<1>3. FileTypeOK
  BY CatalogAssumption DEF Init, FileTypeOK
<1>4. DOMAIN rows = {}
  BY DEF Init
<1>5. TablesOK
  BY <1>4 DEF Init, TablesOK, RowsOK, CanonicalLeads, Keys
<1> QED BY <1>2, <1>3, <1>5 DEF Init, IInv, ResultSound, RefreshOK

\* Every step preserves the invariant.
LEMMA NextIInv == IInv /\ RefreshOK /\ [Next]_vars => IInv'
<1> SUFFICES ASSUME IInv, RefreshOK, [Next]_vars PROVE IInv'
  OBVIOUS
<1> USE DEF files, state, tables, manager, writers, imports
<1>1. CASE Start
  BY <1>1, ScanBegins DEF Start, Procs
<1>2. CASE \E p \in Procs : ScanStep(p) \/ ScanFail(p)
  BY <1>2, ScanLocalStep, ScanReplaceLocalStep, ScanAliasStep, ScanListStep, ScanTorrentStep,
     ScanReplaceTorrentsStep, ScanFailStep, FinishStep DEF ScanStep
<1>3. ASSUME NEW r \in Requests, RequestScan(r) PROVE IInv'
  <2>1. CASE Begin(r)
    BY <1>3, <2>1, ScanBegins DEF RequestScan, Procs
  <2>2. CASE UNCHANGED <<manager, dirty>>
    BY <1>3, <2>2, Elsewhere DEF RequestScan
  <2> QED BY <1>3, <2>1, <2>2 DEF RequestScan
<1>4. ASSUME NEW r \in Requests, NEW t \in Torrents, Upload(r, t) \/ Remove(r, t) PROVE IInv'
  <2>1. FileTypeOK' /\ dirty' /\ UNCHANGED <<events, tables, manager>>
    BY <1>4 DEF Upload, Remove, IInv, FileTypeOK
  <2> QED BY <2>1, FilesChange
<1>5. ASSUME NEW t \in Torrents, ImportURI(t) PROVE IInv'
  BY <1>5, Elsewhere DEF ImportURI
<1>6. ASSUME NEW t \in Torrents, JobStep(t) PROVE IInv'
  <2>1. CASE JobWrite(t)
    <3>1. FileTypeOK' /\ dirty' /\ UNCHANGED <<events, tables, manager>>
      BY <2>1 DEF JobWrite, IInv, FileTypeOK
    <3> QED BY <3>1, FilesChange
  <2>2. CASE Fetched(t) \/ JobRefused(t) \/ JobConclude(t) \/ JobExit(t)
    BY <2>2, Elsewhere DEF Fetched, JobRefused, JobConclude, JobExit
  <2> QED BY <1>6, <2>1, <2>2 DEF JobStep
<1>7. ASSUME NEW t \in Torrents, JobScan(t) PROVE IInv'
  BY <1>7, ScanBegins DEF JobScan, Procs
<1>8. ASSUME NEW t \in Torrents, Complete(t) PROVE IInv'
  <2>1. FileTypeOK' /\ dirty' /\ UNCHANGED <<events, tables, manager>>
    BY <1>8 DEF Complete, IInv, FileTypeOK
  <2> QED BY <2>1, FilesChange
<1>9. ASSUME NEW t \in Torrents, EnrichStep(t) PROVE IInv'
  <2>1. CASE EnrichRead(t)
    BY <2>1, Elsewhere DEF EnrichRead
  <2>2. CASE EnrichWrite(t)
    <3>1. CASE TorrentTrack(t) \in DOMAIN rows
      BY <2>2, <3>1, UpdateStep DEF EnrichWrite
    <3>2. CASE TorrentTrack(t) \notin DOMAIN rows
      BY <2>2, <3>2, Elsewhere DEF EnrichWrite
    <3> QED BY <3>1, <3>2
  <2> QED BY <1>9, <2>1, <2>2 DEF EnrichStep
<1>10. ASSUME NEW id \in DOMAIN rows, EditRead(id) \/ RefreshRead(id) PROVE IInv'
  BY <1>10, Elsewhere DEF EditRead, RefreshRead
<1>11. CASE EditWrite
  <2>1. CASE edit.id \in DOMAIN rows
    BY <1>11, <2>1, UpdateStep DEF EditWrite
  <2>2. CASE edit.id \notin DOMAIN rows
    BY <1>11, <2>2, Elsewhere DEF EditWrite
  <2> QED BY <2>1, <2>2
<1>12. CASE (\E k \in Peers : AddDiscovered(k)) \/ (\E album \in Albums : AddCollection(album)) \/ RefreshWrite
  BY <1>12, AddDiscoveredStep, AddCollectionStep, RefreshStep
<1>13. ASSUME NEW l \in Locals, Retag(l) PROVE IInv'
  <2>1. FileTypeOK' /\ dirty' /\ UNCHANGED <<events, tables, manager>>
    BY <1>13 DEF Retag, IInv, FileTypeOK
  <2> QED BY <2>1, FilesChange
<1>14. CASE Restart
  <2>1. /\ scan' = [p \in Procs |-> NoScan] /\ dirty' /\ ~scanning'
        /\ UNCHANGED <<events, musicDir, torrentDir, tables>>
    BY <1>14 DEF Restart
  <2>2. IsScan(NoScan) /\ NoScan.stage = "none"
    BY NoScanOK
  <2>3. ScanTypeOK' /\ OneScan'
    BY <2>1, <2>2 DEF ScanTypeOK, OneScan
  <2>4. FileTypeOK' /\ TablesOK'
    BY <2>1 DEF IInv, FileTypeOK, TablesOK, RowsOK, CanonicalLeads, Leads
  <2> QED BY <2>1, <2>3, <2>4 DEF IInv, ScansSound, ResultSound
<1>15. CASE CalmDown
  BY <1>15, Elsewhere DEF CalmDown
<1>16. CASE UNCHANGED vars
  BY <1>16, Elsewhere DEF vars
<1> QED
  BY <1>1, <1>2, <1>3, <1>4, <1>5, <1>6, <1>7, <1>8, <1>9, <1>10, <1>11, <1>12, <1>13, <1>14,
     <1>15, <1>16 DEF Next

\* The manager lets one process scan at a time, sources name rows, and what a scan has
\* achieved by a stage holds until it ends or a file changes: the invariant of every behaviour.
THEOREM ScansKeep == Spec => [](IInv /\ RefreshOK)
<1>1. IInv /\ RefreshOK /\ [Next]_vars => (IInv /\ RefreshOK)'
  BY NextIInv, RefreshStays
<1> QED BY InitIInv, <1>1, PTL DEF Spec

\* An album that is a row's, or an alias of it, leads to it or to the tracks filed there.
ResolvesTo(album, id) ==
  /\ id \in DOMAIN rows
  /\ rows[id].album = album \/ \E a \in albumAlias : a.album = album /\ a.track = id

\* So the album id is not dead.
LEMMA Resolution == ASSUME NEW album, NEW id, ResolvesTo(album, id) PROVE Reached(album, id)
BY DEF ResolvesTo, Reached, TracksByAlbum, Filed

\* A match of the tables is a match of the catalog as clients see it.
LEMMA MatchResolves ==
  ASSUME IInv, Matched PROVE SourcesMatch /\ ("refresh" \in events \/ AlbumsMatch)
<1>1. DOMAIN Files \subseteq Locals /\ \A x \in DOMAIN Files : Files[x] \in Tags
  BY DEF Files, IInv, FileTypeOK
<1>2. ASSUME "refresh" \notin events, NEW l \in DOMAIN Files PROVE Reached(OwnAlbum(Files[l]), source[l])
  <2> PICK i : i = source[l]
    OBVIOUS
  <2>1. i = LocalTrack(Files, l)
    BY <1>1 DEF Matched, Filled, LocalsFiled
  <2>2. i \in TrackIDs /\ Canonical(i) = AlbumOf(Files, l)
    BY <1>1, <2>1, LocalIDs
  <2>3. i # None /\ i \in DOMAIN rows /\ l \in Locals
    BY <1>1, <2>2, CatalogAssumption, Providers DEF IInv, TablesOK, RowsOK
  <2>4. rows[i].album = Canonical(i) \/ Alias("local", Canonical(i), i) \in albumAlias
    BY <1>2, <2>3 DEF IInv, TablesOK, CanonicalLeads, Leads
  <2>5. \/ rows[i].album = OwnAlbum(Files[l])
        \/ Alias("local", OwnAlbum(Files[l]), i) \in albumAlias
    BY <2>2, <2>4 DEF Matched, Filled, OwnAlbumsLead
  <2>6. \A album : Alias("local", album, i).album = album /\ Alias("local", album, i).track = i
    BY DEF Alias
  <2> HIDE DEF Alias
  <2>7. ResolvesTo(OwnAlbum(Files[l]), i)
    BY <2>3, <2>5, <2>6 DEF ResolvesTo
  <2> QED BY <2>7, Resolution
<1> QED BY <1>2 DEF Matched, Filled, SourcesMatch, AlbumsMatch, LocalsFiled, TorrentsFiled

\* A scan that ended without an error has left nothing in the catalog that the directories do
\* not have, and one without warnings leaves the catalog as the directories are, as long as no
\* file has changed since it began: other writers of the tables (enrichments, edits, additions
\* from Soulseek) never undo it, however their steps mix with those of the scan.
THEOREM CatalogIsCurrent == Spec => []CatalogCurrent
<1>1. IInv => CatalogCurrent
  BY MatchResolves DEF IInv, ResultSound, CatalogCurrent, Exist, LocalsExist, TorrentsExist, NoneInvented
<1> QED BY <1>1, ScansKeep, PTL

-----------------------------------------------------------------------------
(* Album ids.                                                                  *)

\* The albums that lead to a track go on leading to it.
AliasesLead(id) ==
  \A a \in albumAlias :
    a.track = id /\ (\E k \in SourcesOf(id) : Provider(k) = a.provider) => ResolvesTo(a.album, id)'
AlbumLeads(id) == ResolvesTo(rows[id].album, id)'

\* ReplaceProviderTracks saves the album a row leaves and the aliases of its provider, and
\* does not touch those of the others.
LEMMA ReplacementLeads ==
  ASSUME NEW provider, NEW incoming, NEW aliases, RowsOK, Incoming(provider, incoming),
         ReplaceProviderTracks(provider, incoming, aliases),
         NEW id \in DOMAIN rows \cap DOMAIN rows', SourcesOf(id) \subseteq SourcesOf(id)'
  PROVE  AliasesLead(id) /\ AlbumLeads(id)
<1>1. \A k \in Keys : source'[k] = IF k \in DOMAIN incoming THEN incoming[k].id
                                   ELSE IF Provider(k) = provider THEN None ELSE source[k]
  BY Replacement
<1>2. id # None
  BY CatalogAssumption DEF RowsOK
<1>3. ASSUME NEW a \in albumAlias, a.track = id, NEW k \in SourcesOf(id), Provider(k) = a.provider
      PROVE  ResolvesTo(a.album, id)'
  <2>1. k \in Keys /\ source[k] = id /\ source'[k] = id
    BY <1>3 DEF SourcesOf
  <2>2. a \in albumAlias'
    <3>1. CASE a.provider = provider
      <4>1. k \in DOMAIN incoming /\ incoming[k].id = a.track
        BY <2>1, <3>1, <1>1, <1>2, <1>3
      <4> QED BY <3>1, <4>1, Replacement
    <3>2. CASE a.provider # provider
      BY <1>2, <1>3, <2>1, <3>2, Replacement
    <3> QED BY <3>1, <3>2
  <2> QED BY <2>2, <1>3 DEF ResolvesTo
<1>4. AlbumLeads(id)
  <2>1. \/ rows'[id].album = rows[id].album
        \/ Alias(provider, rows[id].album, id) \in albumAlias'
    BY Replacement
  <2>2. \A album : Alias(provider, album, id).album = album /\ Alias(provider, album, id).track = id
    BY DEF Alias
  <2> HIDE DEF Alias
  <2> QED BY <2>1, <2>2 DEF AlbumLeads, ResolvesTo
<1> QED BY <1>3, <1>4 DEF AliasesLead

\* UpdateTrack saves the album a row leaves for the provider of every source of it.
LEMMA UpdateLeads ==
  ASSUME NEW i \in DOMAIN rows, NEW row, UpdateTrack(i, row),
         NEW id \in DOMAIN rows, SourcesOf(id) # {}
  PROVE  AliasesLead(id) /\ AlbumLeads(id)
<1>1. albumAlias \subseteq albumAlias' /\ DOMAIN rows' = DOMAIN rows
  BY Update
<1>2. AliasesLead(id)
  BY <1>1 DEF AliasesLead, ResolvesTo
<1>3. \/ rows'[id].album = rows[id].album
      \/ \E k \in SourcesOf(id) : Alias(Provider(k), rows[id].album, id) \in albumAlias'
  BY Update
<1>4. \A k, album : Alias(Provider(k), album, id).album = album /\ Alias(Provider(k), album, id).track = id
  BY DEF Alias
<1> QED BY <1>1, <1>2, <1>3, <1>4 DEF AlbumLeads, ResolvesTo

\* A step that leaves the rows and the aliases alone changes nothing about albums.
LEMMA NothingLeads ==
  ASSUME NEW id \in DOMAIN rows, UNCHANGED <<rows, albumAlias>>
  PROVE  AliasesLead(id) /\ AlbumLeads(id)
BY DEF AliasesLead, AlbumLeads, ResolvesTo

\* Every step that can write the tables is a replacement with what a scanner found, an
\* update, or an addition from Soulseek.
LEMMA TableWriters ==
  ASSUME IInv, Next
  PROVE  \/ \E provider, incoming, aliases :
              Incoming(provider, incoming) /\ ReplaceProviderTracks(provider, incoming, aliases)
         \/ \E i \in DOMAIN rows : \E row : UpdateTrack(i, row)
         \/ SavesSources
         \/ UNCHANGED <<rows, albumAlias>>
<1> USE DEF tables
<1>1. ASSUME NEW p \in Procs, ScanReplaceLocal(p)
      PROVE  \E provider, incoming, aliases :
               Incoming(provider, incoming) /\ ReplaceProviderTracks(provider, incoming, aliases)
  <2> PICK found : found = scan[p].found
    OBVIOUS
  <2> DEFINE incoming == [l \in DOMAIN found |->
                            [id |-> LocalTrack(found, l), row |-> [album |-> AlbumOf(found, l), tagged |-> TRUE]]]
             aliases == {Alias("local", OwnAlbum(found[l]), incoming[l].id) :
                           l \in {x \in DOMAIN found : OwnAlbum(found[x]) # AlbumOf(found, x)}}
  <2>1. ReplaceProviderTracks("local", incoming, aliases)
    BY <1>1 DEF ScanReplaceLocal
  <2>2. DOMAIN found \subseteq Locals /\ \A l \in DOMAIN found : found[l] \in Tags
    BY DEF IInv, ScanTypeOK, IsScan
  <2>3. \A l \in DOMAIN found : LocalTrack(found, l) \in TrackIDs /\ Canonical(LocalTrack(found, l)) = AlbumOf(found, l)
    BY <2>2, LocalIDs
  <2>4. \A l \in DOMAIN incoming : l \in DOMAIN found /\ incoming[l].id = LocalTrack(found, l)
                                   /\ incoming[l].row.album = AlbumOf(found, l)
    OBVIOUS
  <2> HIDE DEF incoming, aliases
  <2>5. Incoming("local", incoming)
    BY <2>2, <2>3, <2>4, Providers DEF Incoming
  <2> QED BY <2>1, <2>5
<1>2. ASSUME NEW p \in Procs, ScanReplaceTorrents(p)
      PROVE  \E provider, incoming, aliases :
               Incoming(provider, incoming) /\ ReplaceProviderTracks(provider, incoming, aliases)
  <2> PICK seen : seen = scan[p].seen
    OBVIOUS
  <2> DEFINE incoming == [t \in DOMAIN seen |->
                            [id |-> TorrentTrack(t), row |-> [album |-> Home[t], tagged |-> seen[t]]]]
  <2>1. ReplaceProviderTracks("torrent", incoming, {})
    BY <1>2 DEF ScanReplaceTorrents
  <2>2. DOMAIN seen \subseteq Torrents
    BY DEF IInv, ScanTypeOK, IsScan
  <2>3. \A t \in Torrents : TorrentTrack(t) \in TrackIDs /\ Canonical(TorrentTrack(t)) = Home[t]
    BY RemoteIDs DEF TorrentTrack
  <2>4. \A t \in DOMAIN incoming : t \in DOMAIN seen /\ incoming[t].id = TorrentTrack(t)
                                   /\ incoming[t].row.album = Home[t]
    OBVIOUS
  <2> HIDE DEF incoming
  <2>5. Incoming("torrent", incoming)
    BY <2>2, <2>3, <2>4, Providers DEF Incoming
  <2> QED BY <2>1, <2>5
<1>3. ASSUME NEW p \in Procs, ScanStep(p) \/ ScanFail(p), ~ScanReplaceLocal(p), ~ScanReplaceTorrents(p)
      PROVE  UNCHANGED <<rows, albumAlias>>
  BY <1>3 DEF ScanStep, ScanFail, ScanLocal, ScanList, Finish, ScanAlias, ScanTorrent
<1>4. ASSUME NEW t \in Torrents, EnrichStep(t)
      PROVE  (\E i \in DOMAIN rows : \E row : UpdateTrack(i, row)) \/ UNCHANGED <<rows, albumAlias>>
  BY <1>4 DEF EnrichStep, EnrichRead, EnrichWrite
<1>5. ASSUME EditWrite
      PROVE  (\E i \in DOMAIN rows : \E row : UpdateTrack(i, row)) \/ UNCHANGED <<rows, albumAlias>>
  BY <1>5 DEF EditWrite
<1>6. Start \/ Restart \/ CalmDown => UNCHANGED <<rows, albumAlias>>
  BY DEF Start, Restart, CalmDown
<1>7. \A r \in Requests : RequestScan(r) \/ (\E t \in Torrents : Upload(r, t) \/ Remove(r, t))
        => UNCHANGED <<rows, albumAlias>>
  BY DEF RequestScan, Upload, Remove
<1>8. \A t \in Torrents : ImportURI(t) \/ JobStep(t) \/ JobScan(t) \/ Complete(t) => UNCHANGED <<rows, albumAlias>>
  BY DEF ImportURI, JobStep, Fetched, JobWrite, JobRefused, JobConclude, JobExit, JobScan, Complete
<1>9. \A id \in DOMAIN rows : EditRead(id) \/ RefreshRead(id) => UNCHANGED <<rows, albumAlias>>
  BY DEF EditRead, RefreshRead
<1>10. \A l \in Locals : Retag(l) => UNCHANGED <<rows, albumAlias>>
  BY DEF Retag
<1> QED
  BY <1>1, <1>2, <1>3, <1>4, <1>5, <1>6, <1>7, <1>8, <1>9, <1>10, Zenon DEF Next, SavesSources

\* An album id that leads to a track keeps leading to it, or to the tracks filed there instead,
\* while the track has its sources, through scans, edits and enrichments by anyone in any order;
\* only an addition from Soulseek or a refresh may take the album of a row away.
THEOREM AlbumsKeepResolving == Spec => AlbumsResolve
<1> DEFINE Step == \A id \in DOMAIN rows \cap DOMAIN rows' :
       SourcesOf(id) # {} /\ SourcesOf(id) \subseteq SourcesOf(id)' =>
         /\ \A a \in albumAlias :
              a.track = id /\ (\E k \in SourcesOf(id) : Provider(k) = a.provider) =>
                Reached(a.album, id)'
         /\ Reached(rows[id].album, id)' \/ SavesSources
<1>1. ASSUME IInv, [Next]_vars PROVE [Step]_vars
  <2> SUFFICES ASSUME Next, NEW id \in DOMAIN rows \cap DOMAIN rows',
                      SourcesOf(id) # {}, SourcesOf(id) \subseteq SourcesOf(id)'
               PROVE  AliasesLead(id) /\ (AlbumLeads(id) \/ SavesSources)
    <3>1. \A album, id : ResolvesTo(album, id)' => Reached(album, id)'
      BY DEF ResolvesTo, Reached, TracksByAlbum, Filed
    <3> QED BY <1>1, <3>1 DEF AliasesLead, AlbumLeads
  <2>1. CASE \E provider, incoming, aliases :
               Incoming(provider, incoming) /\ ReplaceProviderTracks(provider, incoming, aliases)
    BY <1>1, <2>1, ReplacementLeads DEF IInv, TablesOK
  <2>2. CASE \E i \in DOMAIN rows : \E row : UpdateTrack(i, row)
    BY <2>2, UpdateLeads
  <2>3. CASE SavesSources
    <3>1. albumAlias' = albumAlias
      BY <2>3 DEF SavesSources, AddDiscovered, AddCollection, RefreshWrite, SaveTrackSources
    <3>2. AliasesLead(id)
      BY <3>1 DEF AliasesLead, ResolvesTo
    <3> QED BY <2>3, <3>2
  <2>4. CASE UNCHANGED <<rows, albumAlias>>
    BY <2>4, NothingLeads
  <2> QED BY <1>1, <2>1, <2>2, <2>3, <2>4, TableWriters
<1>2. IInv /\ [Next]_vars => [Step]_vars
  BY <1>1
<1> QED BY <1>2, ScansKeep, PTL DEF Spec, AlbumsResolve
=============================================================================
