------------------------------- MODULE Storage -------------------------------
\* The files of the server: the database and the credential key.  Start-up opens and
\* migrates the database, loads or creates the key and makes sure of an administrator;
\* the backup command archives both files, the restore command puts them back.  The
\* specification composes this with Accounts and UserData.
\*
\* An operator runs one maintenance command at a time, restores while the server is
\* stopped, and takes no backup between a restore that was interrupted or could not be
\* undone ("crashed") and its repetition.
EXTENDS UserData, FiniteSetsExt

CONSTANTS Identities, LogicalTracks,  \* pairs <<old id, new id>> the data migrations find
          Legacy,                     \* the contents of a database of an older release
          Catalogued,                 \* the media the catalog has at first
          MaxKeys

VARIABLES
  key,        \* the key file: None, 0 (empty), or the key in it
  keys,       \* keys generated so far
  hot,        \* a write-ahead log lies beside the database
  archive,    \* the last backup
  job,        \* the backup or restore command
  dbCopies, keyCopies,    \* the recovery copies
  owedDbs, owedKeys       \* what restores have replaced or were to replace (history only)

files == <<key, keys, hot, archive, job, dbCopies, keyCopies, owedDbs, owedKeys>>
vars == <<userVars, files>>

Latest == 3
EmptyDatabase ==
  [schema |-> 0, played |-> 0, users |-> [n \in Names |-> None],
   notes |-> [n \in Names |-> [m \in Media |-> NoNote]], lists |-> [l \in Lists |-> Unused]]

Notes == [star : BOOLEAN, rated : BOOLEAN, plays : Nat]
Playlists == [owner : Names, tracks : Seq(Media)]
Rows == [role : {"admin", "user"}, perms : SUBSET {Manage}, sealed : Nat \ {0}]
IsDatabase(d) ==
  /\ d = [schema |-> d.schema, played |-> d.played, users |-> d.users, notes |-> d.notes, lists |-> d.lists]
  /\ d.schema \in 0 .. Latest
  /\ d.users \in [Names -> Rows \cup {None}]
HoldsPlays(d) == d.notes \in [Names -> [Media -> Notes]] /\ Plays(d) = d.played
HoldsLists(d) == d.lists \in [Lists -> Playlists \cup {None, Unused}]

\* The accounts of an older release are sealed with its key, and one is an administrator;
\* the plays it has counted are the ones it has confirmed.
ASSUME StorageAssumption ==
  /\ Identities \subseteq Media \X Media /\ LogicalTracks \subseteq Songs \X Songs
  /\ MaxKeys \in Nat
  /\ None \notin Rows \cup Nat
  /\ IsDatabase(Legacy) /\ HoldsPlays(Legacy) /\ HoldsLists(Legacy)
  /\ \A n \in Names : Legacy.users[n] # None => Legacy.users[n].sealed = 1
  /\ \E n \in Names : Legacy.users[n] # None /\ Legacy.users[n].role = "admin"

-----------------------------------------------------------------------------
(* Data migrations.                                                            *)

\* addIdentityMapping: an old id that stands for several new ones is left alone.
NewID(pairs, m) ==
  LET new == {p[2] : p \in {q \in pairs : q[1] = m}}
  IN  IF Cardinality(new) = 1 THEN CHOOSE i \in new : TRUE ELSE m

\* Mutant: of two annotations that become one, the play count of one is kept.
MergeLargest(notes, pairs) ==
  [m \in Media |->
     LET group == {i \in Media : NewID(pairs, i) = m}
     IN  [star  |-> \E i \in group : notes[i].star,
          rated |-> \E i \in group : notes[i].rated,
          plays |-> Max({0} \cup {notes[i].plays : i \in group})]]

\* Annotations that come to name the same thing are merged.
MergeAnnotations(notes, pairs) ==
  [m \in Media |->
     LET group == {i \in Media : NewID(pairs, i) = m}
     IN  [star  |-> \E i \in group : notes[i].star,
          rated |-> \E i \in group : notes[i].rated,
          plays |-> SumOf([i \in group |-> notes[i].plays])]]

\* migrateCanonicalCatalogIdentities.
Renumber(contents, pairs) ==
  [contents EXCEPT !.notes = [n \in Names |-> MergeAnnotations(@[n], pairs)]]

\* moveTrackReferences: the entries of playlists follow their track, in their places.
RenumberEntries(tracks) == [i \in DOMAIN tracks |-> NewID(LogicalTracks, tracks[i])]
RenumberList(list) ==
  IF list \in {None, Unused} THEN list ELSE [list EXCEPT !.tracks = RenumberEntries(@)]

\* migrateLogicalTracks also moves the entries of playlists.
MigrateTracks(contents) ==
  [Renumber(contents, LogicalTracks) EXCEPT !.lists = [l \in Lists |-> RenumberList(@[l])]]

\* The schema, as one step, and the two data migrations.
Migration(contents) ==
  CASE contents.schema = 0 -> contents
    [] contents.schema = 1 -> Renumber(contents, Identities)
    [] contents.schema = 2 -> MigrateTracks(contents)

-----------------------------------------------------------------------------
(* The server process.                                                         *)

\* sqlite.Open: the file is created if it is missing.
Open ==
  /\ phase = "down" /\ job.pc \in {"idle", "crashed"}
  /\ phase' = "opening"
  /\ db' = IF db = None THEN EmptyDatabase ELSE db
  /\ hot' = TRUE
  /\ owedDbs' = owedDbs \ {db} /\ owedKeys' = owedKeys \ {key}
  /\ UNCHANGED <<events, codec, mu, req, library, key, keys, archive, job, dbCopies, keyCopies>>

\* applyMigration: a transaction that also records the version.
Migrate ==
  /\ phase = "opening"
  /\ IF db.schema < Latest
     THEN /\ db' = [Migration(db) EXCEPT !.schema = @ + 1]
          /\ UNCHANGED phase
     ELSE /\ phase' = "key"
          /\ UNCHANGED db
  /\ UNCHANGED <<events, codec, mu, req, library, files>>

\* loadOrCreateKey: an existing file must have the size of a key; a missing one is
\* created exclusively, and written after that.
LoadKey ==
  /\ phase = "key"
  /\ \/ /\ key \notin {None, 0}
        /\ codec' = key /\ phase' = "bootstrap"
        /\ UNCHANGED <<key, hot>>
     \/ /\ key = 0
        /\ phase' = "down" /\ hot' = FALSE
        /\ UNCHANGED <<key, codec>>
     \/ /\ key = None
        /\ key' = 0 /\ phase' = "newkey"
        /\ UNCHANGED <<codec, hot>>
  /\ UNCHANGED <<events, db, mu, req, library, keys, archive, job, dbCopies, keyCopies, owedDbs, owedKeys>>

WriteKey ==
  /\ phase = "newkey"
  /\ keys' = keys + 1
  /\ key' = keys + 1 /\ codec' = keys + 1
  /\ phase' = "bootstrap"
  /\ UNCHANGED <<events, db, mu, req, library, hot, archive, job, dbCopies, keyCopies, owedDbs, owedKeys>>

\* EnsureBootstrapAdmin: only in a database without any account.
EnsureBootstrapAdmin ==
  /\ phase = "bootstrap"
  /\ IF \E n \in Names : HasAccount(n) THEN UNCHANGED db
     ELSE SetAccount(Bootstrap, Account("admin", {}, codec))
  /\ phase' = "serving"
  /\ UNCHANGED <<events, codec, mu, req, library, files>>

ProcessEnds ==
  /\ phase' = "down" /\ codec' = None /\ mu' = None
  /\ req' = [c \in Clients |-> Idle]
  /\ UNCHANGED <<events, db, library, key, keys, archive, job, dbCopies, keyCopies, owedDbs, owedKeys>>

\* Shutdown: requests that take too long are cut off; closing the database checkpoints it.
Stop ==
  /\ "stop" \in events /\ phase = "serving"
  /\ hot' = FALSE
  /\ ProcessEnds

Kill ==
  /\ "kill" \in events /\ phase # "down"
  /\ UNCHANGED hot
  /\ ProcessEnds

-----------------------------------------------------------------------------
(* Backup, also while the server runs.                                         *)

NoJob == [pc |-> "idle", force |-> FALSE, was |-> "idle", before |-> None, snapshot |-> None, moved |-> {}]

\* The key must be there; VACUUM INTO reads a committed state of the database.
Snapshot ==
  /\ "backup" \in events
  /\ job.pc = "idle" /\ db # None /\ key \notin {None, 0}
  /\ job' = [NoJob EXCEPT !.pc = "backup", !.snapshot = db]
  /\ UNCHANGED <<userVars, key, keys, hot, archive, dbCopies, keyCopies, owedDbs, owedKeys>>

\* The archive gets its name once it is complete.
WriteArchive ==
  /\ job.pc = "backup"
  /\ archive' = [db |-> job.snapshot, key |-> key]
  /\ job' = NoJob
  /\ UNCHANGED <<userVars, key, keys, hot, dbCopies, keyCopies, owedDbs, owedKeys>>

BackupFails ==
  /\ job.pc = "backup" /\ "fail" \in events
  /\ job' = NoJob
  /\ UNCHANGED <<userVars, key, keys, hot, archive, dbCopies, keyCopies, owedDbs, owedKeys>>

-----------------------------------------------------------------------------
(* Restore.  The staging of the two files changes nothing that matters here.   *)

Restoring == {"preserve", "preservekey", "commit", "commitkey"}

\* The archive verifies; without --force no target may exist.  A server that was killed
\* has left a write-ahead log, which restore knows nothing of: it is started first.
Restore(force) ==
  /\ "restore" \in events
  /\ job.pc \in {"idle", "crashed"} /\ phase = "down" /\ ~hot
  /\ archive # None
  /\ force \/ (db = None /\ key = None)
  /\ job' = [NoJob EXCEPT !.pc = IF force THEN "preserve" ELSE "commit", !.force = force,
                          !.was = job.pc, !.before = [db |-> db, key |-> key]]
  /\ owedDbs' = owedDbs \cup ({db} \ {None}) /\ owedKeys' = owedKeys \cup ({key} \ {None})
  /\ UNCHANGED <<userVars, key, keys, hot, archive, dbCopies, keyCopies>>

\* Mutant: recovery copies have no timestamp, so a second restore overwrites the first copy.
PreserveDatabaseOnce ==
  /\ job.pc = "preserve"
  /\ db' = None
  /\ dbCopies' = IF db = None THEN dbCopies ELSE {db}
  /\ job' = [job EXCEPT !.pc = "preservekey", !.moved = IF db = None THEN {} ELSE {"db"}]
  /\ UNCHANGED <<events, phase, codec, mu, req, library, key, keys, hot, archive, keyCopies, owedDbs, owedKeys>>

\* The existing files are renamed, the database first.
PreserveDatabase ==
  /\ job.pc = "preserve"
  /\ db' = None
  /\ dbCopies' = dbCopies \cup ({db} \ {None})
  /\ job' = [job EXCEPT !.pc = "preservekey", !.moved = IF db = None THEN {} ELSE {"db"}]
  /\ UNCHANGED <<events, phase, codec, mu, req, library, key, keys, hot, archive, keyCopies, owedDbs, owedKeys>>

PreserveKey ==
  /\ job.pc = "preservekey"
  /\ key' = None
  /\ keyCopies' = keyCopies \cup ({key} \ {None})
  /\ job' = [job EXCEPT !.pc = "commit", !.moved = IF key = None THEN @ ELSE @ \cup {"key"}]
  /\ UNCHANGED <<userVars, keys, hot, archive, dbCopies, owedDbs, owedKeys>>

\* The staged files take their places.
CommitDatabase ==
  /\ job.pc = "commit"
  /\ db' = archive.db
  /\ job' = [job EXCEPT !.pc = "commitkey"]
  /\ UNCHANGED <<events, phase, codec, mu, req, library, key, keys, hot, archive,
                 dbCopies, keyCopies, owedDbs, owedKeys>>

\* Mutant: a key that exists is kept.
CommitMissingKey ==
  /\ job.pc = "commitkey"
  /\ key' = IF job.before.key = None THEN archive.key ELSE job.before.key
  /\ job' = NoJob
  /\ UNCHANGED <<userVars, keys, hot, archive, dbCopies, keyCopies, owedDbs, owedKeys>>

CommitKey ==
  /\ job.pc = "commitkey"
  /\ key' = archive.key
  /\ job' = NoJob
  /\ UNCHANGED <<userVars, keys, hot, archive, dbCopies, keyCopies, owedDbs, owedKeys>>

\* Mutant: an error leaves the database that has been committed in its place.
RestoreFailsHalfway ==
  /\ job.pc \in Restoring /\ "fail" \in events
  /\ db' = IF job.pc # "commitkey" /\ "db" \in job.moved THEN job.before.db ELSE db
  /\ key' = IF "key" \in job.moved THEN job.before.key ELSE key
  /\ dbCopies' = IF job.pc # "commitkey" /\ "db" \in job.moved THEN dbCopies \ {job.before.db} ELSE dbCopies
  /\ keyCopies' = IF "key" \in job.moved THEN keyCopies \ {job.before.key} ELSE keyCopies
  /\ job' = [NoJob EXCEPT !.pc = job.was]
  /\ UNCHANGED <<events, phase, codec, mu, req, library, keys, hot, archive, owedDbs, owedKeys>>

\* An error: what has been committed is removed, what has been preserved is moved back.
RestoreFails ==
  /\ job.pc \in Restoring /\ "fail" \in events
  /\ db' = IF "db" \in job.moved THEN job.before.db ELSE IF job.pc = "commitkey" THEN None ELSE db
  /\ key' = IF "key" \in job.moved THEN job.before.key ELSE key
  /\ dbCopies' = IF "db" \in job.moved THEN dbCopies \ {job.before.db} ELSE dbCopies
  /\ keyCopies' = IF "key" \in job.moved THEN keyCopies \ {job.before.key} ELSE keyCopies
  /\ job' = [NoJob EXCEPT !.pc = job.was]
  /\ UNCHANGED <<events, phase, codec, mu, req, library, keys, hot, archive, owedDbs, owedKeys>>

\* An error that is not undone: what fails while the files are put back is ignored, and
\* without --force a file that was linked stays when its staged copy cannot be removed.
RestoreStuck ==
  /\ job.pc \in Restoring /\ "stuck" \in events /\ keys < MaxKeys
  /\ \E back \in SUBSET job.moved, left, linked \in BOOLEAN :
       /\ left => job.pc = "commitkey" /\ "db" \notin back
       /\ linked => job.pc \in {"commit", "commitkey"} /\ ~job.force
       /\ back # job.moved \/ left \/ linked
       /\ db' = IF "db" \in back THEN job.before.db
                ELSE IF job.pc = "commit" /\ linked THEN archive.db
                ELSE IF job.pc = "commitkey" /\ ~left THEN None ELSE db
       /\ key' = IF "key" \in back THEN job.before.key
                 ELSE IF job.pc = "commitkey" /\ linked THEN archive.key ELSE key
       /\ dbCopies' = IF "db" \in back THEN dbCopies \ {job.before.db} ELSE dbCopies
       /\ keyCopies' = IF "key" \in back THEN keyCopies \ {job.before.key} ELSE keyCopies
  /\ job' = [NoJob EXCEPT !.pc = "crashed"]
  /\ UNCHANGED <<events, phase, codec, mu, req, library, keys, hot, archive, owedDbs, owedKeys>>

\* The command is killed between two steps.
RestoreCrashes ==
  /\ job.pc \in Restoring /\ "crash" \in events /\ keys < MaxKeys
  /\ job' = [NoJob EXCEPT !.pc = "crashed"]
  /\ UNCHANGED <<userVars, key, keys, hot, archive, dbCopies, keyCopies, owedDbs, owedKeys>>

-----------------------------------------------------------------------------

Init ==
  /\ events \in Scenarios
  /\ phase = "down" /\ codec = None /\ mu = None
  /\ db = IF "legacy" \in events THEN Legacy ELSE None
  /\ req = [c \in Clients |-> Idle]
  /\ library = Catalogued
  /\ key = (IF "legacy" \in events THEN 1 ELSE None)
  /\ keys = (IF "legacy" \in events THEN 1 ELSE 0)
  /\ hot = FALSE
  /\ archive = None /\ job = NoJob
  /\ dbCopies = {} /\ keyCopies = {} /\ owedDbs = {} /\ owedKeys = {}

StartStep == Open \/ Migrate \/ LoadKey \/ WriteKey \/ EnsureBootstrapAdmin

Next ==
  \/ AccountsNext /\ UNCHANGED <<library, files>>
  \/ UserDataNext /\ UNCHANGED files
  \/ StartStep \/ Stop \/ Kill
  \/ Snapshot \/ WriteArchive \/ BackupFails
  \/ \E force \in BOOLEAN : Restore(force)
  \/ PreserveDatabase \/ PreserveKey \/ CommitDatabase \/ CommitKey
  \/ RestoreFails \/ RestoreStuck \/ RestoreCrashes

Spec == Init /\ [][Next]_vars

-----------------------------------------------------------------------------
(* Properties.                                                                 *)

\* A restore that returns has replaced both files or neither, unless it was interrupted or
\* what it had done could not be undone; and then too each file is the archived one, the
\* one that was there, or missing.
RestoreAtomic ==
  [][job.pc \in Restoring /\ job'.pc \notin Restoring =>
       /\ \/ db' = archive.db /\ key' = archive.key
          \/ db' = job.before.db /\ key' = job.before.key
          \/ RestoreCrashes \/ RestoreStuck
       /\ db' \in {archive.db, job.before.db, None} /\ key' \in {archive.key, job.before.key, None}]_vars

\* Whatever a restore replaces is still there, in its place or as a recovery copy, after
\* errors and interruptions at any point and however often the restore is repeated.
RecoveryKept == owedDbs \subseteq dbCopies \cup {db} /\ owedKeys \subseteq keyCopies \cup {key}

\* The key of the running server opens the credentials of every account, after restarts,
\* restores and restores that failed and were undone; one that was interrupted or could not
\* be undone has to be repeated first.
CredentialsUsable ==
  phase = "serving" /\ job.pc # "crashed" => \A n \in Names : HasAccount(n) => db.users[n].sealed = codec
=============================================================================
