---------------------------- MODULE StorageProofs ----------------------------
(* What Storage keeps, for any number of accounts, requests and restarts: an           *)
(* administrator, the guards on administrators' accounts, the recovery copies, a key    *)
(* that opens the credentials, the confirmed plays and the entries of playlists.        *)
EXTENDS Storage, Counting, TLAPS

-----------------------------------------------------------------------------
\* The inductive invariant.

\* A database with accounts has an administrator, wherever it lies.
Administered(d) ==
  (\E n \in Names : d.users[n] # None) => \E n \in Names : d.users[n] # None /\ IsAdmin(d.users[n])
Sound(d) == IsDatabase(d) /\ Administered(d)

\* The key opens the credentials in the database.
Sealed(d, k) == \A n \in Names : d.users[n] # None => d.users[n].sealed = k

\* The files while the server starts and runs, and the archive.
FilesOK ==
  /\ phase \in {"down", "opening", "key", "newkey", "bootstrap", "serving"}
  /\ key \in Nat \cup {None} /\ keys \in Nat
  /\ db = None \/ Sound(db)
  /\ phase # "down" => Sound(db)
  /\ phase = "newkey" => key = 0
  /\ phase \in {"bootstrap", "serving"} => codec = key /\ key \in Nat \ {0}
  /\ archive # None =>
       /\ Sound(archive.db) /\ archive.key \in Nat \ {0}
       /\ Sealed(archive.db, archive.key)

\* The files during a backup and between the steps of a restore.
JobOK ==
  /\ job = [pc |-> job.pc, force |-> job.force, was |-> job.was, before |-> job.before,
            snapshot |-> job.snapshot, moved |-> job.moved]
  /\ job.pc \in {"idle", "crashed", "backup"} \cup Restoring
  /\ job.pc \in {"idle", "backup"} /\ (phase # "down" \/ db # None) => Sealed(db, key)
  /\ job.pc = "backup" => Sound(job.snapshot) /\ Sealed(job.snapshot, key) /\ key \in Nat \ {0}

RestoreOK ==
  job.pc \in Restoring =>
    /\ phase = "down" /\ archive # None /\ job.was \in {"idle", "crashed"}
    /\ job.before.db = None \/ Sound(job.before.db)
    /\ job.before.key \in Nat \cup {None}
    /\ job.was = "idle" /\ job.before.db # None => Sealed(job.before.db, job.before.key)
    /\ db = IF job.pc = "preserve" THEN job.before.db
            ELSE IF job.pc = "commitkey" THEN archive.db ELSE None
    /\ key = IF job.pc \in {"preserve", "preservekey"} THEN job.before.key ELSE None
    /\ "db" \in job.moved <=> job.pc # "preserve" /\ job.before.db # None
    /\ "key" \in job.moved <=> job.pc \in {"commit", "commitkey"} /\ job.before.key # None

\* What is owed is there; it is among the copies wherever its place may be taken.
CopiesOK ==
  /\ None \notin owedDbs /\ None \notin owedKeys
  /\ owedDbs \subseteq dbCopies \cup {db} /\ owedKeys \subseteq keyCopies \cup {key}
  /\ phase # "down" \/ job.pc \in {"preservekey", "commit", "commitkey"} => owedDbs \subseteq dbCopies
  /\ phase # "down" \/ job.pc \in {"commit", "commitkey"} => owedKeys \subseteq keyCopies

\* The requests under way: what they bring is sealed with the loaded key.
RequestOK(r, k) ==
  /\ r = [op |-> r.op, actor |-> r.actor, target |-> r.target, arg |-> r.arg, stale |-> r.stale]
  /\ r.stale \in BOOLEAN
  /\ r.op \in {"create", "password", "delete", "deleting", "permissions"} => r.target \in Names
  /\ r.op = "create" => r.arg \in Rows /\ r.arg.sealed = k
  /\ r.op = "password" => r.arg = k
  /\ r.op = "permissions" => r.arg \in SUBSET {Manage}

RequestsOK ==
  /\ req = [c \in Clients |-> req[c]]
  /\ \A c \in Clients : RequestOK(req[c], codec)
  /\ phase # "serving" => \A c \in Clients : req[c] = Idle

\* Between the checks of a deletion and the deletion nobody else touches the accounts, and
\* what was checked of an administrator's account still holds or is known to be stale.
GuardOK(c, r) ==
  /\ r.op = "deleting" =>
       /\ mu = c
       /\ r.target \in Administrators => IsAdmin(r.actor) /\ Administrators \ {r.target} # {}
  /\ r.op = "password" /\ r.target \in Administrators =>
       IsAdmin(r.actor) \/ r.actor.name = r.target \/ r.stale = TRUE

GuardsOK ==
  /\ phase = "serving" => Administrators # {}
  /\ \A c \in Clients : GuardOK(c, req[c])

IInv == FilesOK /\ JobOK /\ RestoreOK /\ CopiesOK /\ RequestsOK /\ GuardsOK

\* At first there is nothing, or what an older release has left.
LEMMA InitIInv == Init => IInv
<1> SUFFICES ASSUME Init PROVE IInv
  OBVIOUS
<1> USE DEF Init
<1>1. Legacy.users \in [Names -> Rows \cup {None}] /\ Sound(Legacy) /\ Sealed(Legacy, 1)
  BY StorageAssumption DEF Sound, Administered, Sealed, IsDatabase, IsAdmin
<1>2. FilesOK
  BY <1>1 DEF FilesOK
<1>3. JobOK /\ RestoreOK
  BY <1>1 DEF JobOK, RestoreOK, Restoring, NoJob
<1>4. CopiesOK
  BY DEF CopiesOK
<1>5. RequestsOK
  BY DEF RequestsOK, RequestOK, Idle
<1>6. GuardsOK
  BY DEF GuardsOK, GuardOK, Idle
<1> QED BY <1>2, <1>3, <1>4, <1>5, <1>6 DEF IInv

-----------------------------------------------------------------------------
\* Requests.

\* A running server may write its database without thinking of the other files, as long
\* as it leaves an administrator and seals credentials with the key it has loaded.
LEMMA ServingFiles ==
  ASSUME IInv, phase = "serving", phase' = phase, codec' = codec, UNCHANGED files,
         Sound(db'), Sealed(db, key) => Sealed(db', key)
  PROVE  FilesOK' /\ JobOK' /\ RestoreOK' /\ CopiesOK'
<1> USE DEF files
<1>1. FilesOK'
  BY DEF IInv, FilesOK
<1>2. JobOK'
  BY DEF IInv, JobOK
<1>3. RestoreOK'
  BY DEF IInv, RestoreOK
<1>4. CopiesOK'
  BY DEF IInv, CopiesOK
<1> QED BY <1>1, <1>2, <1>3, <1>4

\* The accounts are what makes a database sound and sealed.
LEMMA SameUsers ==
  ASSUME NEW d, NEW e, IsDatabase(e), e.users = d.users, Sound(d)
  PROVE  Sound(e) /\ \A k : Sealed(d, k) => Sealed(e, k)
BY DEF Sound, Administered, Sealed

\* A request is taken in, or it is over: the accounts stay as they are.
LEMMA RequestIInv ==
  ASSUME IInv, phase = "serving", NEW c \in Clients, NEW r, RequestOK(r, codec), GuardOK(c, r),
         req' = [req EXCEPT ![c] = r], UNCHANGED <<phase, db, codec, mu, files>>
  PROVE  IInv'
<1>1. FilesOK' /\ JobOK' /\ RestoreOK' /\ CopiesOK'
  BY ServingFiles DEF IInv, FilesOK
<1>2. RequestsOK'
  BY DEF IInv, RequestsOK, RequestOK
<1>3. GuardsOK'
  BY DEF IInv, RequestsOK, GuardsOK, GuardOK, Administrators, HasAccount
<1> QED BY <1>1, <1>2, <1>3 DEF IInv

\* The requests that only look at the accounts before they wait for the mutex.
LEMMA AdmitIInv ==
  ASSUME IInv, NEW c \in Clients, NEW n \in Names, NEW op, NEW target, NEW arg,
         phase = "serving", Admit(c, n, op, target, arg), UNCHANGED <<phase, db, codec, mu, files>>,
         op \in {"create", "password", "delete", "permissions"} => target \in Names,
         op = "create" => arg \in Rows /\ arg.sealed = codec,
         op = "password" => arg = codec /\ (n = target \/ (IsAdmin(db.users[target]) => IsAdmin(User(n)))),
         op = "permissions" => arg \in SUBSET {Manage},
         op # "deleting"
  PROVE  IInv'
<1> DEFINE r == [op |-> op, actor |-> User(n), target |-> target, arg |-> arg, stale |-> FALSE]
<1>1. RequestOK(r, codec)
  BY DEF RequestOK
<1>2. GuardOK(c, r)
  BY DEF GuardOK, Administrators, User
<1>3. req' = [req EXCEPT ![c] = r]
  BY DEF Admit
<1> QED BY <1>1, <1>2, <1>3, RequestIInv

\* UpdatePassword and CreateUser look at the role of the target without the mutex, DeleteUser
\* and UpdatePermissions with it.
LEMMA AccountRequestIInv ==
  ASSUME IInv, NEW c \in Clients, NEW n \in Names, NEW t \in Names, UNCHANGED <<library, files>>,
         \/ RequestPassword(c, n, t) \/ RequestDelete(c, n, t)
         \/ \E perms \in {{}, {Manage}} :
              \/ RequestPermissions(c, n, t, perms)
              \/ \E role \in {"admin", "user"} : RequestCreate(c, n, t, role, perms)
  PROVE  IInv'
<1> USE DEF Authenticated, Serving
<1>1. CASE RequestPassword(c, n, t)
  BY <1>1, AdmitIInv DEF RequestPassword
<1>2. CASE RequestDelete(c, n, t)
  BY <1>2, AdmitIInv DEF RequestDelete
<1>3. ASSUME NEW perms \in {{}, {Manage}}, RequestPermissions(c, n, t, perms) PROVE IInv'
  BY <1>3, AdmitIInv DEF RequestPermissions
<1>4. ASSUME NEW perms \in {{}, {Manage}}, NEW role \in {"admin", "user"}, RequestCreate(c, n, t, role, perms)
      PROVE  IInv'
  <2>1. codec \in Nat \ {0} /\ phase = "serving"
    BY <1>4 DEF IInv, FilesOK, RequestCreate
  <2> DEFINE row == Account(role, IF role = "admin" THEN {} ELSE perms, codec)
  <2>2. row \in Rows /\ row.sealed = codec
    BY <2>1 DEF Rows, Account
  <2>3. Admit(c, n, "create", t, row)
    BY <1>4 DEF RequestCreate
  <2>4. UNCHANGED <<phase, db, codec, mu, files>>
    BY <1>4 DEF RequestCreate
  <2> HIDE DEF row
  <2> QED BY <2>1, <2>2, <2>3, <2>4, AdmitIInv
<1> QED BY <1>1, <1>2, <1>3, <1>4
-----------------------------------------------------------------------------
\* Changes of accounts.

\* A change of a row concerns the accounts only.
LEMMA SetAccountUsers ==
  ASSUME IsDatabase(db), NEW t \in Names, NEW account \in Rows \cup {None}, SetAccount(t, account)
  PROVE  IsDatabase(db') /\ db'.users = [db.users EXCEPT ![t] = account]
<1>1. db = [schema |-> db.schema, played |-> db.played, users |-> db.users, notes |-> db.notes, lists |-> db.lists]
  BY DEF IsDatabase
<1>2. db' = [schema |-> db.schema, played |-> db.played, users |-> [db.users EXCEPT ![t] = account],
             notes |-> db.notes, lists |-> db.lists]
  BY <1>1 DEF SetAccount
<1>3. [db.users EXCEPT ![t] = account] \in [Names -> Rows \cup {None}]
  BY DEF IsDatabase
<1> QED BY <1>2, <1>3 DEF IsDatabase

\* The changes of passwords and permissions leave every role alone.
LEMMA SameRoles ==
  ASSUME IInv, phase = "serving", NEW c \in Clients, NEW t \in Names, NEW row \in Rows,
         mu = None, HasAccount(t), row.role = db.users[t].role,
         row.sealed = codec \/ row.sealed = db.users[t].sealed,
         SetAccount(t, row), req' = Answered(c), UNCHANGED <<phase, codec, mu, files>>
  PROVE  IInv'
<1>1. Sound(db) /\ IsDatabase(db)
  BY DEF IInv, FilesOK, Sound
<1>2. IsDatabase(db') /\ db'.users = [db.users EXCEPT ![t] = row] /\ db.users \in [Names -> Rows \cup {None}]
  BY <1>1, SetAccountUsers DEF IsDatabase
<1>3. row # None
  BY StorageAssumption
<1>4. Administrators' = Administrators
  BY <1>2, <1>3 DEF Administrators, HasAccount, IsAdmin
<1>5. Sound(db')
  BY <1>1, <1>2, <1>3 DEF Sound, Administered, HasAccount, IsAdmin
<1>6. Sealed(db, key) => Sealed(db', key)
  BY <1>2, <1>3 DEF Sealed, HasAccount, IInv, FilesOK
<1>7. FilesOK' /\ JobOK' /\ RestoreOK' /\ CopiesOK'
  BY <1>5, <1>6, ServingFiles
<1>8. RequestsOK'
  BY DEF IInv, RequestsOK, RequestOK, Answered, Idle
<1>9. GuardsOK'
  BY <1>4 DEF IInv, RequestsOK, GuardsOK, GuardOK, Answered, Idle
<1> QED BY <1>7, <1>8, <1>9 DEF IInv

\* A request that finds nothing to do.
LEMMA AnsweredIInv ==
  ASSUME IInv, phase = "serving", NEW c \in Clients, req' = Answered(c), UNCHANGED <<phase, db, codec, mu, files>>
  PROVE  IInv'
<1>1. RequestOK(Idle, codec) /\ GuardOK(c, Idle)
  BY DEF RequestOK, GuardOK, Idle
<1> QED BY <1>1, RequestIInv DEF Answered

\* UpdatePassword seals the new password with the loaded key; UpdatePermissions is for users.
LEMMA UpdateIInv ==
  ASSUME IInv, NEW c \in Clients, UpdatePassword(c) \/ UpdatePermissions(c), UNCHANGED <<library, files>>
  PROVE  IInv'
<1> PICK t : t = req[c].target
  OBVIOUS
<1>1. phase = "serving" /\ t \in Names /\ RequestOK(req[c], codec) /\ db.users \in [Names -> Rows \cup {None}]
  BY DEF UpdatePassword, UpdatePermissions, Serving, IInv, RequestsOK, RequestOK, FilesOK,
     Sound, IsDatabase
<1>2. CASE HasAccount(t) /\ UpdatePassword(c)
  <2> DEFINE row == [db.users[t] EXCEPT !.sealed = req[c].arg]
  <2>1. req[c].arg = codec /\ codec \in Nat \ {0} /\ db.users[t] \in Rows
    BY <1>1, <1>2 DEF UpdatePassword, Serving, RequestOK, IInv, FilesOK, HasAccount
  <2>2. row \in Rows /\ row.role = db.users[t].role /\ row.sealed = codec
    BY <2>1 DEF Rows
  <2>3. SetAccount(t, row) /\ mu = None /\ req' = Answered(c) /\ UNCHANGED <<phase, codec, mu, files>>
    BY <1>2 DEF UpdatePassword
  <2> HIDE DEF row
  <2> QED BY <1>1, <1>2, <2>2, <2>3, SameRoles
<1>3. CASE HasAccount(t) /\ ~IsAdmin(db.users[t]) /\ UpdatePermissions(c)
  <2> DEFINE row == [db.users[t] EXCEPT !.perms = req[c].arg]
  <2>1. req[c].arg \in SUBSET {Manage} /\ db.users[t] \in Rows
    BY <1>1, <1>3 DEF UpdatePermissions, Serving, RequestOK, HasAccount
  <2>2. row \in Rows /\ row.role = db.users[t].role /\ row.sealed = db.users[t].sealed
    BY <2>1 DEF Rows
  <2>3. SetAccount(t, row) /\ mu = None /\ req' = Answered(c) /\ UNCHANGED <<phase, codec, mu, files>>
    BY <1>3 DEF UpdatePermissions
  <2> HIDE DEF row
  <2> QED BY <1>1, <1>3, <2>2, <2>3, SameRoles
<1>4. CASE UNCHANGED db
  BY <1>1, <1>4, AnsweredIInv DEF UpdatePassword, UpdatePermissions
<1> QED BY <1>2, <1>3, <1>4 DEF UpdatePassword, UpdatePermissions

\* Who has looked at something that a request replaces is marked, and nothing else of a
\* request that is under way changes.
LEMMA OvertakenRequests ==
  ASSUME IInv, phase = "serving", phase' = phase, codec' = codec,
         NEW c \in Clients, NEW t, req' = Overtaking(c, t)
  PROVE  /\ RequestsOK' /\ req'[c] = Idle
         /\ \A d \in Clients \ {c} :
              /\ req'[d].op = req[d].op /\ req'[d].actor = req[d].actor /\ req'[d].target = req[d].target
              /\ req'[d].arg = req[d].arg
              /\ req[d].target = t \/ req[d].stale = TRUE => req'[d].stale = TRUE
<1>1. /\ req'[c] = Idle /\ req' = [d \in Clients |-> req'[d]]
      /\ \A d \in Clients \ {c} :
           req'[d] = IF req[d].target = t THEN [req[d] EXCEPT !.stale = TRUE] ELSE req[d]
  BY DEF Overtaking
<1>2. \A d \in Clients \ {c} : RequestOK(req[d], codec)
  BY DEF IInv, RequestsOK
<1>3. \A d \in Clients \ {c} :
        /\ req'[d].op = req[d].op /\ req'[d].actor = req[d].actor /\ req'[d].target = req[d].target
        /\ req'[d].arg = req[d].arg
        /\ req[d].target = t \/ req[d].stale = TRUE => req'[d].stale = TRUE
  BY <1>1, <1>2 DEF RequestOK
<1>4. ASSUME NEW d \in Clients PROVE RequestOK(req'[d], codec')
  <2>1. CASE d = c
    <3>1. RequestOK(Idle, codec')
      BY DEF RequestOK, Idle
    <3> QED BY <1>1, <2>1, <3>1
  <2>2. CASE d # c
    <3>1. req'[d] = [op |-> req'[d].op, actor |-> req'[d].actor, target |-> req'[d].target,
                     arg |-> req'[d].arg, stale |-> req'[d].stale]
      BY <1>1, <1>2, <2>2 DEF RequestOK
    <3>2. req'[d].stale \in BOOLEAN
      BY <1>1, <1>2, <2>2 DEF RequestOK
    <3> QED BY <1>2, <1>3, <2>2, <3>1, <3>2 DEF RequestOK
  <2> QED BY <2>1, <2>2
<1>5. RequestsOK'
  BY <1>1, <1>4 DEF RequestsOK
<1> QED BY <1>1, <1>3, <1>5

\* Whoever has looked at the name before a new account takes it is known to be stale.
LEMMA CreateIInv ==
  ASSUME IInv, NEW c \in Clients, CreateUser(c), UNCHANGED <<library, files>>
  PROVE  IInv'
<1> PICK t : t = req[c].target
  OBVIOUS
<1> PICK row : row = req[c].arg
  OBVIOUS
<1>1. /\ phase = "serving" /\ mu = None /\ t \in Names /\ row \in Rows /\ row.sealed = codec
      /\ UNCHANGED <<phase, codec, mu, files>>
  BY DEF CreateUser, Serving, IInv, RequestsOK, RequestOK
<1>2. CASE HasAccount(t)
  BY <1>1, <1>2, AnsweredIInv DEF CreateUser
<1>3. CASE ~HasAccount(t)
  <2>1. SetAccount(t, row) /\ Sound(db) /\ IsDatabase(db)
    BY <1>3 DEF CreateUser, IInv, FilesOK, Sound, Serving
  <2>2. IsDatabase(db') /\ db'.users = [db.users EXCEPT ![t] = row] /\ db.users \in [Names -> Rows \cup {None}]
    BY <1>1, <2>1, SetAccountUsers DEF IsDatabase
  <2>3. /\ RequestsOK' /\ req'[c] = Idle
        /\ \A d \in Clients \ {c} :
             /\ req'[d].op = req[d].op /\ req'[d].actor = req[d].actor /\ req'[d].target = req[d].target
             /\ req[d].target = t \/ req[d].stale = TRUE => req'[d].stale = TRUE
    <3>1. req' = Overtaking(c, t)
      BY <1>3 DEF CreateUser
    <3> QED BY <1>1, <3>1, OvertakenRequests
  <2>4. row # None
    BY <1>1, StorageAssumption
  <2>5. Administrators \subseteq Administrators' /\ Administrators' \subseteq Administrators \cup {t}
        /\ t \notin Administrators
    BY <1>3, <2>2, <2>4 DEF Administrators, HasAccount, IsAdmin
  <2>6. Administrators # {}
    BY <1>1 DEF IInv, GuardsOK
  <2>7. Sound(db')
    BY <2>2, <2>5, <2>6 DEF Sound, Administered, Administrators, HasAccount
  <2>8. Sealed(db, key) => Sealed(db', key)
    BY <1>1, <2>2 DEF Sealed, IInv, FilesOK
  <2>9. FilesOK' /\ JobOK' /\ RestoreOK' /\ CopiesOK'
    BY <1>1, <2>7, <2>8, ServingFiles
  <2>11. \A d \in Clients \ {c} : GuardOK(d, req[d]) /\ req[d].op # "deleting"
    BY <1>1, AccountsAssumption DEF IInv, GuardsOK, GuardOK
  <2>12. ASSUME NEW d \in Clients PROVE GuardOK(d, req[d])'
    <3>1. CASE d = c
      BY <2>3, <3>1 DEF GuardOK, Idle
    <3>2. CASE d # c /\ req[d].target = t
      <4>1. req'[d].stale = TRUE
        BY <2>3, <3>2
      <4> QED BY <2>3, <2>11, <3>2, <4>1 DEF GuardOK
    <3>3. CASE d # c /\ req[d].target # t
      <4>1. req[d].stale = TRUE => req'[d].stale = TRUE
        BY <2>3, <3>3
      <4> QED BY <2>3, <2>5, <2>11, <3>3, <4>1 DEF GuardOK
    <3> QED BY <3>1, <3>2, <3>3
  <2>13. GuardsOK'
    BY <2>5, <2>6, <2>12 DEF GuardsOK
  <2> QED BY <2>3, <2>9, <2>13 DEF IInv
<1> QED BY <1>2, <1>3

\* DeleteUser counts the administrators with the mutex held and leaves one.
LEMMA DeleteIInv ==
  ASSUME IInv, NEW c \in Clients, DeleteCheck(c) \/ DeleteUser(c), UNCHANGED <<library, files>>
  PROVE  IInv'
<1> PICK t : t = req[c].target
  OBVIOUS
<1>1. /\ phase = "serving" /\ t \in Names /\ RequestOK(req[c], codec)
      /\ UNCHANGED <<phase, codec, files>>
  BY DEF DeleteCheck, DeleteUser, Serving, IInv, RequestsOK, RequestOK
<1>2. CASE DeleteCheck(c) /\ ~MayDelete(req[c].actor, req[c].target)
  BY <1>1, <1>2, AnsweredIInv DEF DeleteCheck
<1>3. CASE DeleteCheck(c) /\ MayDelete(req[c].actor, req[c].target)
  <2>1. /\ mu = None /\ mu' = c /\ db' = db
        /\ req' = [req EXCEPT ![c].op = "deleting"]
    BY <1>3 DEF DeleteCheck
  <2>2. FilesOK' /\ JobOK' /\ RestoreOK' /\ CopiesOK'
    BY <1>1, <2>1, ServingFiles DEF IInv, FilesOK
  <2>3. RequestsOK'
    BY <1>1, <2>1 DEF IInv, RequestsOK, RequestOK
  <2>4. t \in Administrators => IsAdmin(req[c].actor) /\ Administrators \ {t} # {}
    <3> SUFFICES ASSUME t \in Administrators PROVE IsAdmin(req[c].actor) /\ Administrators \ {t} # {}
      OBVIOUS
    <3>1. IsAdmin(req[c].actor) /\ Cardinality(Administrators) > 1
      BY <1>3 DEF MayDelete, Administrators
    <3>2. IsFiniteSet(Administrators)
      BY AccountsAssumption, FS_Subset DEF Administrators
    <3>3. Cardinality(Administrators \ {t}) = Cardinality(Administrators) - 1 /\ Cardinality(Administrators) \in Nat
      BY <3>2, FS_RemoveElement, FS_CardinalityType
    <3> QED BY <3>1, <3>3, FS_EmptySet
  <2>5. \A d \in Clients : req[d].op # "deleting"
    BY <2>1, AccountsAssumption DEF IInv, GuardsOK, GuardOK
  <2>6. Administrators' = Administrators
    BY <2>1 DEF Administrators, HasAccount
  <2>7. GuardsOK'
    BY <1>1, <2>1, <2>4, <2>5, <2>6 DEF IInv, GuardsOK, GuardOK, RequestsOK, RequestOK
  <2> QED BY <2>2, <2>3, <2>7 DEF IInv
<1>4. CASE DeleteUser(c)
  <2>1. SetAccount(t, None) /\ mu' = None /\ req' = Answered(c) /\ req[c].op = "deleting" /\ Sound(db) /\ IsDatabase(db)
    BY <1>1, <1>4 DEF DeleteUser, Serving, IInv, FilesOK, Sound
  <2>2. IsDatabase(db') /\ db'.users = [db.users EXCEPT ![t] = None] /\ db.users \in [Names -> Rows \cup {None}]
    BY <1>1, <2>1, SetAccountUsers DEF IsDatabase
  <2>3. Administrators' = Administrators \ {t}
    BY <1>1, <2>2 DEF Administrators, HasAccount
  <2>4. Administrators' # {}
    BY <1>1, <2>1, <2>3 DEF IInv, GuardsOK, GuardOK
  <2>5. Sound(db')
    BY <2>2, <2>4 DEF Sound, Administered, Administrators, HasAccount
  <2>6. Sealed(db, key) => Sealed(db', key)
    BY <2>2 DEF Sealed
  <2>7. FilesOK' /\ JobOK' /\ RestoreOK' /\ CopiesOK'
    BY <1>1, <2>5, <2>6, ServingFiles
  <2>8. RequestsOK'
    BY <1>1, <2>1 DEF IInv, RequestsOK, RequestOK, Answered, Idle
  <2>9. \A d \in Clients \ {c} : req[d].op # "deleting"
    BY <2>1 DEF IInv, GuardsOK, GuardOK
  <2>10. GuardsOK'
    BY <1>1, <2>1, <2>3, <2>4, <2>9 DEF IInv, GuardsOK, GuardOK, RequestsOK, Answered, Idle
  <2> QED BY <2>7, <2>8, <2>10 DEF IInv
<1> QED BY <1>2, <1>3, <1>4
\* All steps of the user service.
LEMMA AccountsIInv ==
  ASSUME IInv, AccountsNext, UNCHANGED <<library, files>>
  PROVE  IInv'
BY AccountRequestIInv, CreateIInv, UpdateIInv, DeleteIInv DEF AccountsNext

-----------------------------------------------------------------------------
\* Annotations and playlists.

\* A transaction on the tables beside the accounts.
LEMMA DataIInv ==
  ASSUME IInv, phase = "serving", NEW c \in Clients, NEW t, req' = Answered(c) \/ req' = Overtaking(c, t),
         IsDatabase(db'), db'.users = db.users,
         phase' = phase, codec' = codec, mu' = mu, UNCHANGED files
  PROVE  IInv'
<1>1. Sound(db)
  BY DEF IInv, FilesOK
<1>2. Sound(db') /\ (Sealed(db, key) => Sealed(db', key))
  BY <1>1, SameUsers
<1>3. FilesOK' /\ JobOK' /\ RestoreOK' /\ CopiesOK'
  BY <1>2, ServingFiles
<1>4. Administrators' = Administrators
  BY DEF Administrators, HasAccount
<1>5. CASE req' = Answered(c)
  <2>1. RequestsOK'
    BY <1>5 DEF IInv, RequestsOK, RequestOK, Answered, Idle
  <2>2. GuardsOK'
    BY <1>4, <1>5 DEF IInv, RequestsOK, GuardsOK, GuardOK, Answered, Idle
  <2> QED BY <1>3, <2>1, <2>2 DEF IInv
<1>6. CASE req' = Overtaking(c, t)
  <2>1. /\ RequestsOK' /\ req'[c] = Idle
        /\ \A d \in Clients \ {c} :
             /\ req'[d].op = req[d].op /\ req'[d].actor = req[d].actor /\ req'[d].target = req[d].target
             /\ req[d].target = t \/ req[d].stale = TRUE => req'[d].stale = TRUE
    BY <1>6, OvertakenRequests
  <2>2. ASSUME NEW d \in Clients PROVE GuardOK(d, req[d])'
    <3>1. CASE d = c
      BY <2>1, <3>1 DEF GuardOK, Idle
    <3>2. CASE d # c
      <4>1. GuardOK(d, req[d])
        BY DEF IInv, GuardsOK
      <4> QED BY <1>4, <2>1, <3>2, <4>1 DEF GuardOK
    <3> QED BY <3>1, <3>2
  <2>3. GuardsOK'
    BY <1>4, <2>2 DEF IInv, GuardsOK
  <2> QED BY <1>3, <2>1, <2>3 DEF IInv
<1> QED BY <1>5, <1>6

\* Neither service touches accounts.
LEMMA UserDataIInv ==
  ASSUME IInv, UserDataNext, UNCHANGED files
  PROVE  IInv'
<1> USE DEF Serving
<1>1. ASSUME NEW c \in Clients, NEW n \in Names, NEW m, NEW update, RequestAnnotation(c, n, m, update) PROVE IInv'
  BY <1>1, AdmitIInv DEF RequestAnnotation
<1>2. ASSUME NEW c \in Clients, NEW n \in Names, NEW l, NEW tracks, NEW asked,
             phase = "serving", RequestSave(c, n, l, tracks, asked)
      PROVE  IInv'
  <2>1. PICK arg : Admit(c, n, "save", l, arg)
    BY <1>2 DEF RequestSave
  <2> QED BY <1>2, <2>1, AdmitIInv DEF RequestSave
<1>3. ASSUME NEW c \in Clients, NEW n \in Names, NEW l,
             (\E m \in Songs : RequestCreatePlaylist(c, n, l, m)) \/ RequestUpdatePlaylist(c, n, l)
      PROVE  IInv'
  BY <1>2, <1>3 DEF RequestCreatePlaylist, RequestUpdatePlaylist, Lister
<1>4. ASSUME NEW c \in Clients, NEW n \in Names, NEW l, RequestDeletePlaylist(c, n, l) PROVE IInv'
  BY <1>4, AdmitIInv DEF RequestDeletePlaylist, Lister
<1>5. phase = "serving" => /\ db = [schema |-> db.schema, played |-> db.played, users |-> db.users,
                                    notes |-> db.notes, lists |-> db.lists]
                           /\ IsDatabase(db)
  BY DEF IInv, FilesOK, Sound, IsDatabase
<1>6. ASSUME NEW c \in Clients, UpdateMediaAnnotations(c) PROVE IInv'
  <2>1. PICK notes, played : db' = [db EXCEPT !.notes = notes, !.played = played]
    BY <1>5, <1>6 DEF UpdateMediaAnnotations
  <2>2. db'.users = db.users /\ IsDatabase(db')
    BY <1>5, <1>6, <2>1 DEF UpdateMediaAnnotations, IsDatabase
  <2> QED BY <1>6, <2>2, DataIInv DEF UpdateMediaAnnotations
<1>7. ASSUME NEW c \in Clients, SavePlaylist(c) \/ DeletePlaylist(c) PROVE IInv'
  <2>1. PICK value : WriteList(c, value)
    BY <1>7 DEF SavePlaylist, DeletePlaylist
  <2>2. phase = "serving"
    BY <1>7 DEF SavePlaylist, DeletePlaylist
  <2>3. PICK lists : db' = [db EXCEPT !.lists = lists]
    BY <2>1 DEF WriteList
  <2>4. db'.users = db.users /\ IsDatabase(db')
    BY <1>5, <2>2, <2>3 DEF IsDatabase
  <2> QED BY <2>1, <2>2, <2>4, DataIInv DEF WriteList
<1>8. ASSUME NEW m, Rescan(m) PROVE IInv'
  BY <1>8 DEF Rescan, accountVars, files, IInv, FilesOK, JobOK, RestoreOK, CopiesOK, RequestsOK,
     GuardsOK,
              GuardOK, Administrators, HasAccount
<1> QED BY <1>1, <1>3, <1>4, <1>6, <1>7, <1>8 DEF UserDataNext
-----------------------------------------------------------------------------
\* The server process.

\* A process that does not serve has no requests; the files are all there is to show.
LEMMA NotServing ==
  ASSUME IInv, phase # "serving", phase' # "serving", req' = req,
         FilesOK', JobOK', RestoreOK', CopiesOK'
  PROVE  IInv'
<1>1. \A c \in Clients : req[c] = Idle
  BY DEF IInv, RequestsOK
<1>2. \A c \in Clients : RequestOK(Idle, codec')
  BY DEF RequestOK, Idle
<1>3. RequestsOK'
  BY <1>1, <1>2 DEF IInv, RequestsOK
<1>4. \A c \in Clients : Idle.op = "none"
  BY DEF Idle
<1>5. GuardsOK'
  BY <1>1, <1>4 DEF GuardsOK, GuardOK
<1> QED BY <1>3, <1>5 DEF IInv

\* Migrations keep the accounts.
LEMMA MigrationUsers ==
  ASSUME NEW d, IsDatabase(d), d.schema < Latest
  PROVE  IsDatabase([Migration(d) EXCEPT !.schema = @ + 1])
         /\ [Migration(d) EXCEPT !.schema = @ + 1].users = d.users
<1>1. d = [schema |-> d.schema, played |-> d.played, users |-> d.users, notes |-> d.notes, lists |-> d.lists]
      /\ d.schema \in {0, 1, 2} /\ d.users \in [Names -> Rows \cup {None}]
  BY DEF IsDatabase, Latest
<1>2. PICK notes : Renumber(d, Identities) = [d EXCEPT !.notes = notes]
  BY DEF Renumber
<1>3. PICK notes2, lists2 : MigrateTracks(d) = [[d EXCEPT !.notes = notes2] EXCEPT !.lists = lists2]
  BY DEF MigrateTracks, Renumber
<1>4. Migration(d) \in {d, Renumber(d, Identities), MigrateTracks(d)}
  BY <1>1 DEF Migration
<1>5. PICK notes3, lists3 : Migration(d) = [schema |-> d.schema, played |-> d.played, users |-> d.users,
                                            notes |-> notes3, lists |-> lists3]
  BY <1>1, <1>2, <1>3, <1>4
<1>6. [Migration(d) EXCEPT !.schema = @ + 1] = [schema |-> d.schema + 1, played |-> d.played, users |-> d.users,
                                                notes |-> notes3, lists |-> lists3]
  BY <1>5
<1>7. d.schema + 1 \in 0 .. Latest
  BY <1>1 DEF Latest
<1> QED BY <1>1, <1>6, <1>7 DEF IsDatabase

\* Start-up: what was owed of the files in place is given up when the server takes them over;
\* a key is generated only for a database without accounts.
LEMMA StartIInv ==
  ASSUME IInv, StartStep
  PROVE  IInv'
<1> USE DEF files
<1>1. CASE Open
  <2> DEFINE new == IF db = None THEN EmptyDatabase ELSE db
  <2>1. Sound(EmptyDatabase) /\ \A k : Sealed(EmptyDatabase, k)
    BY DEF EmptyDatabase, Sound, Sealed, Administered, IsDatabase, Latest
  <2>2. Sound(db') /\ (job.pc = "idle" => Sealed(db', key))
    BY <1>1, <2>1 DEF Open, IInv, FilesOK, JobOK
  <2>3. FilesOK'
    BY <1>1, <2>2 DEF Open, IInv, FilesOK
  <2>4. JobOK'
    BY <1>1, <2>2 DEF Open, IInv, JobOK, Restoring
  <2>5. RestoreOK'
    BY <1>1 DEF Open, RestoreOK, Restoring
  <2>6. CopiesOK'
    BY <1>1 DEF Open, IInv, CopiesOK
  <2> QED BY <1>1, <2>3, <2>4, <2>5, <2>6, NotServing DEF Open
<1>2. CASE Migrate
  <2>1. Sound(db) /\ IsDatabase(db) /\ phase = "opening"
    BY <1>2 DEF Migrate, IInv, FilesOK, Sound
  <2>2. IsDatabase(db') /\ db'.users = db.users
    BY <1>2, <2>1, MigrationUsers DEF Migrate
  <2>3. Sound(db') /\ \A k : Sealed(db, k) => Sealed(db', k)
    BY <2>1, <2>2, SameUsers
  <2>4. phase' \in {"opening", "key"} /\ req' = req /\ UNCHANGED files
    BY <1>2, <2>1 DEF Migrate
  <2>5. FilesOK'
    BY <2>1, <2>3, <2>4 DEF IInv, FilesOK
  <2>6. JobOK'
    BY <2>1, <2>3, <2>4 DEF IInv, JobOK
  <2>7. RestoreOK'
    BY <2>1, <2>4 DEF IInv, RestoreOK
  <2>8. CopiesOK'
    BY <2>1, <2>4 DEF IInv, CopiesOK
  <2> QED BY <2>1, <2>4, <2>5, <2>6, <2>7, <2>8, NotServing
<1>3. CASE LoadKey
  <2>1. phase = "key" /\ Sound(db) /\ db' = db /\ req' = req /\ UNCHANGED <<keys, archive, job, dbCopies, keyCopies, owedDbs, owedKeys>>
    BY <1>3 DEF LoadKey, IInv, FilesOK
  <2>2. \/ key \in Nat \ {0} /\ codec' = key /\ phase' = "bootstrap" /\ key' = key
        \/ key = 0 /\ phase' = "down" /\ key' = key
        \/ key = None /\ key' = 0 /\ phase' = "newkey"
    BY <1>3 DEF LoadKey, IInv, FilesOK
  <2>3. key = None /\ Sealed(db, key) => Sealed(db, 0)
    BY <2>1, StorageAssumption DEF Sealed, Sound, IsDatabase, Rows
  <2>4. FilesOK'
    BY <2>1, <2>2 DEF IInv, FilesOK
  <2>5. JobOK'
    BY <2>1, <2>2, <2>3, StorageAssumption DEF IInv, JobOK
  <2>6. RestoreOK'
    BY <2>1 DEF IInv, RestoreOK
  <2>7. CopiesOK'
    BY <2>1, <2>2 DEF IInv, CopiesOK
  <2> QED BY <2>1, <2>2, <2>4, <2>5, <2>6, <2>7, NotServing
<1>4. CASE WriteKey
  <2>1. /\ phase = "newkey" /\ Sound(db) /\ db' = db /\ req' = req /\ phase' = "bootstrap"
        /\ UNCHANGED <<archive, job, dbCopies, keyCopies, owedDbs, owedKeys>>
        /\ key = 0 /\ key' \in Nat \ {0} /\ codec' = key' /\ keys' \in Nat
    BY <1>4 DEF WriteKey, IInv, FilesOK
  <2>2. Sealed(db, 0) => Sealed(db, key')
    BY <2>1 DEF Sealed, Sound, IsDatabase, Rows
  <2>3. FilesOK'
    BY <2>1 DEF IInv, FilesOK
  <2>4. JobOK'
    BY <2>1, <2>2 DEF IInv, JobOK
  <2>5. RestoreOK'
    BY <2>1 DEF IInv, RestoreOK
  <2>6. CopiesOK'
    BY <2>1 DEF IInv, CopiesOK
  <2> QED BY <2>1, <2>3, <2>4, <2>5, <2>6, NotServing
<1>5. CASE EnsureBootstrapAdmin
  <2>1. /\ phase = "bootstrap" /\ phase' = "serving" /\ req' = req /\ codec' = codec /\ UNCHANGED files
        /\ Sound(db) /\ IsDatabase(db) /\ codec = key /\ key \in Nat \ {0}
    BY <1>5 DEF EnsureBootstrapAdmin, IInv, FilesOK, Sound
  <2>2. Sound(db') /\ Administrators' # {} /\ (Sealed(db, key) => Sealed(db', key))
    <3>1. CASE \E n \in Names : HasAccount(n)
      <4>1. db' = db
        BY <1>5, <3>1 DEF EnsureBootstrapAdmin
      <4>2. \E n \in Names : db.users[n] # None /\ IsAdmin(db.users[n])
        BY <2>1, <3>1 DEF Sound, Administered, HasAccount
      <4> QED BY <2>1, <4>1, <4>2 DEF Administrators, HasAccount
    <3>2. CASE ~\E n \in Names : HasAccount(n)
      <4> DEFINE row == Account("admin", {}, codec)
      <4>1. SetAccount(Bootstrap, row) /\ Bootstrap \in Names
        BY <1>5, <3>2, AccountsAssumption DEF EnsureBootstrapAdmin
      <4>2. row \in Rows /\ row # None /\ IsAdmin(row) /\ row.sealed = key
        BY <2>1, StorageAssumption DEF Account, Rows, IsAdmin
      <4> HIDE DEF row
      <4>3. IsDatabase(db') /\ db'.users = [db.users EXCEPT ![Bootstrap] = row] /\ db.users \in [Names -> Rows \cup {None}]
        BY <2>1, <4>1, <4>2, SetAccountUsers DEF IsDatabase
      <4>4. Administrators' # {}
        BY <4>1, <4>2, <4>3 DEF Administrators, HasAccount
      <4>5. Sound(db')
        BY <4>3, <4>4 DEF Sound, Administered, Administrators, HasAccount
      <4>6. Sealed(db', key)
        BY <3>2, <4>1, <4>2, <4>3 DEF Sealed, HasAccount
      <4> QED BY <4>4, <4>5, <4>6
    <3> QED BY <3>1, <3>2
  <2>3. FilesOK'
    BY <2>1, <2>2 DEF IInv, FilesOK
  <2>4. JobOK'
    BY <2>1, <2>2 DEF IInv, JobOK
  <2>5. RestoreOK'
    BY <2>1 DEF IInv, RestoreOK
  <2>6. CopiesOK'
    BY <2>1 DEF IInv, CopiesOK
  <2>7. \A c \in Clients : req[c] = Idle
    BY <2>1 DEF IInv, RequestsOK
  <2>8. RequestsOK'
    BY <2>1 DEF IInv, RequestsOK
  <2>9. GuardsOK'
    BY <2>1, <2>2, <2>7 DEF GuardsOK, GuardOK, Idle
  <2> QED BY <2>3, <2>4, <2>5, <2>6, <2>8, <2>9 DEF IInv
<1> QED BY <1>1, <1>2, <1>3, <1>4, <1>5 DEF StartStep

\* The end of the process, regular or not, leaves the files as they are.
LEMMA EndIInv ==
  ASSUME IInv, Stop \/ Kill
  PROVE  IInv'
<1>1. phase # "down" /\ ProcessEnds
  BY DEF Stop, Kill
<1>2. /\ phase' = "down" /\ req' = [c \in Clients |-> Idle]
      /\ UNCHANGED <<db, key, keys, archive, job, dbCopies, keyCopies, owedDbs, owedKeys>>
  BY <1>1 DEF ProcessEnds
<1>3. FilesOK'
  BY <1>1, <1>2 DEF IInv, FilesOK
<1>4. JobOK'
  BY <1>1, <1>2 DEF IInv, JobOK
<1>5. RestoreOK'
  BY <1>1, <1>2 DEF IInv, RestoreOK
<1>6. CopiesOK'
  BY <1>1, <1>2 DEF IInv, CopiesOK
<1>7. RequestsOK'
  BY <1>2 DEF RequestsOK, RequestOK, Idle
<1>8. GuardsOK'
  BY <1>2 DEF GuardsOK, GuardOK, Idle
<1> QED BY <1>3, <1>4, <1>5, <1>6, <1>7, <1>8 DEF IInv
-----------------------------------------------------------------------------
\* Backup and restore.

\* The commands have nothing to do with requests, and restore runs without the server.
LEMMA CommandRequests ==
  ASSUME IInv, UNCHANGED <<phase, codec, mu, req>>, db' = db \/ phase = "down"
  PROVE  RequestsOK' /\ GuardsOK'
<1>1. RequestsOK'
  BY DEF IInv, RequestsOK
<1>2. CASE db' = db
  <2>1. Administrators' = Administrators
    BY <1>2 DEF Administrators, HasAccount
  <2> QED BY <1>1, <2>1 DEF IInv, GuardsOK, GuardOK
<1>3. CASE phase = "down"
  <2>1. \A c \in Clients : req'[c] = Idle
    BY <1>3 DEF IInv, RequestsOK
  <2> QED BY <1>1, <1>3, <2>1 DEF GuardsOK, GuardOK, Idle
<1> QED BY <1>2, <1>3

\* The archive holds a database and the key that opens it: the key does not change while
\* a backup is under way.
LEMMA BackupIInv ==
  ASSUME IInv, Snapshot \/ WriteArchive \/ BackupFails
  PROVE  IInv'
<1> USE DEF userVars, accountVars, NoJob
<1>1. /\ UNCHANGED <<phase, db, codec, mu, req, key, keys, dbCopies, keyCopies, owedDbs, owedKeys>>
      /\ RequestsOK' /\ GuardsOK'
  BY CommandRequests DEF Snapshot, WriteArchive, BackupFails
<1>2. CASE Snapshot
  <2>1. job.pc = "idle" /\ db # None /\ key \in Nat \ {0} /\ archive' = archive
        /\ job'.pc = "backup" /\ job'.snapshot = db
    BY <1>2 DEF Snapshot, IInv, FilesOK
  <2>2. FilesOK' /\ CopiesOK' /\ RestoreOK'
    BY <1>1, <2>1 DEF IInv, FilesOK, CopiesOK, RestoreOK, Restoring
  <2>3. JobOK'
    BY <1>1, <1>2, <2>1 DEF Snapshot, IInv, JobOK, FilesOK
  <2> QED BY <1>1, <2>2, <2>3 DEF IInv
<1>3. CASE WriteArchive
  <2>1. job.pc = "backup" /\ archive' = [db |-> job.snapshot, key |-> key] /\ job' = NoJob
    BY <1>3 DEF WriteArchive
  <2>2. CopiesOK' /\ RestoreOK'
    BY <1>1, <2>1 DEF IInv, CopiesOK, RestoreOK, Restoring
  <2>3. FilesOK'
    BY <1>1, <2>1 DEF IInv, FilesOK, JobOK
  <2>4. JobOK'
    BY <1>1, <2>1 DEF IInv, JobOK
  <2> QED BY <1>1, <2>2, <2>3, <2>4 DEF IInv
<1>4. CASE BackupFails
  <2>1. job.pc = "backup" /\ archive' = archive /\ job' = NoJob
    BY <1>4 DEF BackupFails
  <2>2. FilesOK' /\ CopiesOK' /\ RestoreOK' /\ JobOK'
    BY <1>1, <2>1 DEF IInv, FilesOK, CopiesOK, RestoreOK, Restoring, JobOK
  <2> QED BY <1>1, <2>2 DEF IInv
<1> QED BY <1>2, <1>3, <1>4

RestoreStep ==
  PreserveDatabase \/ PreserveKey \/ CommitDatabase \/ CommitKey
  \/ RestoreFails \/ RestoreStuck \/ RestoreCrashes

\* What a restore that is not undone may leave in the two places.
StuckWith(back) ==
  /\ back \subseteq job.moved
  /\ db' \in {archive.db, db, None, job.before.db} /\ key' \in {archive.key, key, job.before.key}
  /\ IF "db" \in back THEN db' = job.before.db /\ dbCopies' = dbCopies \ {job.before.db}
                         ELSE dbCopies' = dbCopies /\ (db' = db \/ job.pc \in {"commit", "commitkey"})
  /\ IF "key" \in back THEN key' = job.before.key /\ keyCopies' = keyCopies \ {job.before.key}
                          ELSE keyCopies' = keyCopies /\ (key' = key \/ job.pc = "commitkey")

\* RestoreStuck, one fact for each file.
LEMMA StuckFiles ==
  ASSUME RestoreStuck
  PROVE  \E back : StuckWith(back)
<1>1. PICK back \in SUBSET job.moved, left \in BOOLEAN, linked \in BOOLEAN :
        /\ db' = IF "db" \in back THEN job.before.db
                 ELSE IF job.pc = "commit" /\ linked THEN archive.db
                 ELSE IF job.pc = "commitkey" /\ ~left THEN None ELSE db
        /\ key' = IF "key" \in back THEN job.before.key
                  ELSE IF job.pc = "commitkey" /\ linked THEN archive.key ELSE key
        /\ dbCopies' = IF "db" \in back THEN dbCopies \ {job.before.db} ELSE dbCopies
        /\ keyCopies' = IF "key" \in back THEN keyCopies \ {job.before.key} ELSE keyCopies
  BY DEF RestoreStuck
<1>2. StuckWith(back)
  BY <1>1 DEF StuckWith
<1> QED BY <1>2

\* Restore begins: nothing has moved yet.
LEMMA RestoreIInv ==
  ASSUME IInv, NEW force \in BOOLEAN, Restore(force)
  PROVE  IInv'
<1> USE DEF userVars, accountVars, NoJob
<1>1. /\ phase = "down" /\ archive # None /\ job.pc \in {"idle", "crashed"}
      /\ UNCHANGED <<phase, db, codec, mu, req, key, keys, archive, dbCopies, keyCopies>>
      /\ RequestsOK' /\ GuardsOK'
  BY CommandRequests DEF Restore
<1>2. /\ job'.pc \in {"preserve", "commit"} /\ (job'.pc = "commit" => db = None /\ key = None)
      /\ job' = [pc |-> job'.pc, force |-> force, was |-> job.pc, before |-> [db |-> db, key |-> key],
                 snapshot |-> None, moved |-> {}]
  BY DEF Restore
<1>3. FilesOK'
  BY <1>1 DEF IInv, FilesOK
<1>4. JobOK'
  BY <1>2 DEF JobOK, Restoring
<1>5. RestoreOK'
  BY <1>1, <1>2 DEF IInv, FilesOK, JobOK, RestoreOK
<1>6. CopiesOK'
  BY <1>1, <1>2 DEF Restore, IInv, CopiesOK
<1> QED BY <1>1, <1>3, <1>4, <1>5, <1>6 DEF IInv

\* Its steps move one file each; an error undoes them, all or some, an interruption leaves
\* them, and what was owed has a copy before its place is taken.
LEMMA RestoreStepIInv ==
  ASSUME IInv, RestoreStep
  PROVE  IInv'
<1> USE DEF userVars, accountVars, Restoring
<1>1. /\ phase = "down" /\ job.pc \in Restoring
      /\ UNCHANGED <<phase, codec, mu, req, keys, archive, owedDbs, owedKeys>>
      /\ RequestsOK' /\ GuardsOK'
  BY CommandRequests DEF RestoreStep, PreserveDatabase, PreserveKey, CommitDatabase, CommitKey,
     RestoreFails, RestoreStuck, RestoreCrashes, IInv, RestoreOK
<1>2. CASE PreserveDatabase
  <2> USE <1>1, <1>2 DEF PreserveDatabase, IInv
  <2>1. FilesOK'
    BY DEF FilesOK
  <2>2. JobOK'
    BY DEF JobOK
  <2>3. RestoreOK'
    BY DEF RestoreOK, JobOK
  <2>4. CopiesOK'
    BY DEF CopiesOK, JobOK
  <2> QED BY <2>1, <2>2, <2>3, <2>4
<1>3. CASE PreserveKey
  <2> USE <1>1, <1>3 DEF PreserveKey, IInv
  <2>1. FilesOK'
    BY DEF FilesOK
  <2>2. JobOK'
    BY DEF JobOK
  <2>3. RestoreOK'
    BY DEF RestoreOK, JobOK
  <2>4. CopiesOK'
    BY DEF CopiesOK, JobOK
  <2> QED BY <2>1, <2>2, <2>3, <2>4
<1>4. CASE CommitDatabase
  <2> USE <1>1, <1>4 DEF CommitDatabase, IInv
  <2>1. FilesOK'
    BY DEF FilesOK, RestoreOK
  <2>2. JobOK'
    BY DEF JobOK
  <2>3. RestoreOK'
    BY DEF RestoreOK, JobOK
  <2>4. CopiesOK'
    BY DEF CopiesOK, JobOK
  <2> QED BY <2>1, <2>2, <2>3, <2>4
<1>5. CASE CommitKey
  <2> USE <1>1, <1>5 DEF CommitKey, IInv, NoJob
  <2>1. FilesOK'
    BY DEF FilesOK, RestoreOK
  <2>2. JobOK'
    BY DEF FilesOK, RestoreOK, JobOK
  <2>3. RestoreOK'
    BY DEF RestoreOK
  <2>4. CopiesOK'
    BY DEF CopiesOK
  <2> QED BY <2>1, <2>2, <2>3, <2>4
<1>6. CASE RestoreFails
  <2>1. db' = job.before.db /\ key' = job.before.key
    BY <1>1, <1>6 DEF RestoreFails, IInv, RestoreOK
  <2>2. job'.pc = job.was /\ job.was \in {"idle", "crashed"} /\ job' = [NoJob EXCEPT !.pc = job.was]
    BY <1>1, <1>6 DEF RestoreFails, IInv, RestoreOK, NoJob
  <2>3. FilesOK'
    BY <1>1, <2>1 DEF IInv, FilesOK, RestoreOK
  <2>4. JobOK'
    BY <1>1, <2>1, <2>2 DEF IInv, JobOK, RestoreOK, NoJob
  <2>5. RestoreOK'
    BY <2>2 DEF RestoreOK
  <2>6. owedDbs' \subseteq dbCopies' \cup {db'}
    BY <1>1, <1>6, <2>1 DEF RestoreFails, IInv, CopiesOK, RestoreOK
  <2>7. owedKeys' \subseteq keyCopies' \cup {key'}
    BY <1>1, <1>6, <2>1 DEF RestoreFails, IInv, CopiesOK, RestoreOK
  <2>8. CopiesOK'
    BY <1>1, <2>2, <2>6, <2>7 DEF IInv, CopiesOK
  <2> QED BY <1>1, <2>3, <2>4, <2>5, <2>8 DEF IInv
<1>7. CASE RestoreCrashes
  <2> USE <1>1, <1>7 DEF RestoreCrashes, IInv, NoJob
  <2>1. FilesOK'
    BY DEF FilesOK
  <2>2. JobOK'
    BY DEF JobOK
  <2>3. RestoreOK'
    BY DEF RestoreOK
  <2>4. CopiesOK'
    BY DEF CopiesOK
  <2> QED BY <2>1, <2>2, <2>3, <2>4
<1>8. CASE RestoreStuck
  <2>1. PICK back : StuckWith(back)
    BY <1>8, StuckFiles
  <2>2. job' = [NoJob EXCEPT !.pc = "crashed"]
    BY <1>8 DEF RestoreStuck
  <2>3. FilesOK'
    BY <1>1, <2>1 DEF StuckWith, IInv, FilesOK, RestoreOK
  <2>4. JobOK' /\ RestoreOK'
    BY <2>2 DEF JobOK, RestoreOK, NoJob
  <2>5. owedDbs' \subseteq dbCopies' \cup {db'}
    BY <1>1, <2>1 DEF StuckWith, IInv, CopiesOK, RestoreOK
  <2>6. owedKeys' \subseteq keyCopies' \cup {key'}
    BY <1>1, <2>1 DEF StuckWith, IInv, CopiesOK, RestoreOK
  <2>7. CopiesOK'
    BY <1>1, <2>2, <2>5, <2>6 DEF IInv, CopiesOK, NoJob
  <2> QED BY <1>1, <2>3, <2>4, <2>7 DEF IInv
<1> QED BY <1>2, <1>3, <1>4, <1>5, <1>6, <1>7, <1>8 DEF RestoreStep

-----------------------------------------------------------------------------
\* The theorems.

\* Every step of the server, of its clients and of the commands.
LEMMA StepIInv ==
  ASSUME IInv, [Next]_vars
  PROVE  IInv'
<1>1. CASE UNCHANGED vars
  BY <1>1 DEF vars, userVars, accountVars, files, IInv, FilesOK, JobOK, RestoreOK, CopiesOK,
     RequestsOK, GuardsOK,
              GuardOK, Administrators, HasAccount
<1>2. CASE Next
  BY <1>2, AccountsIInv, UserDataIInv, StartIInv, EndIInv, BackupIInv, RestoreIInv,
     RestoreStepIInv
     DEF Next, RestoreStep
<1> QED BY <1>1, <1>2

\* The files, the requests and the accounts fit together at every moment: the inductive
\* invariant of start-up (catalog.go, credentials.go), the user service and the commands.
THEOREM StorageInvariant == Spec => []IInv
<1>1. Init => IInv
  BY InitIInv
<1>2. IInv /\ [Next]_vars => IInv'
  BY StepIInv
<1> QED BY <1>1, <1>2, PTL DEF Spec

\* UserService never leaves the server without an administrator: DeleteUser checks and
\* deletes with its mutex held, and start-up makes an administrator for an empty database.
THEOREM AdministratorsRemain == Spec => []AdministratorRemains
<1>1. IInv => AdministratorRemains
  BY DEF IInv, GuardsOK, AdministratorRemains
<1> QED BY <1>1, StorageInvariant, PTL

\* UpdatePassword and DeleteUser change an administrator's account for an administrator or
\* for its owner only, unless the account took the name after UpdatePassword had looked.
THEOREM AccountsGuarded == Spec => AdministratorsGuarded
<1>1. IInv => [\A c \in Clients :
                 LET r == req[c]
                 IN  /\ phase' = "serving" /\ r.target \in Administrators
                     /\ r.op \in {"password", "deleting"} /\ req'[c].op = "none"
                     => IsAdmin(r.actor) \/ r.actor.name = r.target \/ r.stale]_<<db, phase, req>>
  BY DEF IInv, GuardsOK, GuardOK
<1> QED BY <1>1, StorageInvariant, PTL DEF AdministratorsGuarded

\* restore: what it has replaced is in its place or among the recovery copies, after any
\* number of errors, interruptions and repetitions.
THEOREM RecoveryCopiesKept == Spec => []RecoveryKept
<1>1. IInv => RecoveryKept
  BY DEF IInv, CopiesOK, RecoveryKept
<1> QED BY <1>1, StorageInvariant, PTL

\* RestoreAtomic: a restore that is undone when it fails replaces both files or neither, and
\* one that is interrupted or stuck never leaves anything else in the two places.
THEOREM RestoresAtomic == Spec => RestoreAtomic
<1> DEFINE Outcome ==
             /\ \/ db' = archive.db /\ key' = archive.key
                \/ db' = job.before.db /\ key' = job.before.key
                \/ RestoreCrashes \/ RestoreStuck
             /\ db' \in {archive.db, job.before.db, None} /\ key' \in {archive.key, job.before.key, None}
<1>1. ASSUME IInv, [Next]_vars, job.pc \in Restoring, job'.pc \notin Restoring
      PROVE  Outcome
  <2>1. CASE job' = job
    BY <1>1, <2>1
  <2>2. CASE CommitKey
    BY <1>1, <2>2 DEF CommitKey, userVars, accountVars, IInv, RestoreOK
  <2>3. CASE RestoreFails
    BY <1>1, <2>3 DEF RestoreFails, IInv, RestoreOK, Restoring
  <2>4. CASE Snapshot \/ WriteArchive \/ BackupFails \/ \E force \in BOOLEAN : Restore(force)
    BY <1>1, <2>4 DEF Snapshot, WriteArchive, BackupFails, Restore, Restoring
  <2>5. CASE PreserveDatabase \/ PreserveKey \/ CommitDatabase
    BY <1>1, <2>5 DEF PreserveDatabase, PreserveKey, CommitDatabase, Restoring, IInv, JobOK
  <2>6. CASE StartStep \/ Stop \/ Kill
    <3>1. job' = job
      BY <2>6 DEF StartStep, Open, Migrate, LoadKey, WriteKey, EnsureBootstrapAdmin, Stop, Kill,
         ProcessEnds, files
    <3> QED BY <1>1, <3>1
  <2>7. db \in {archive.db, job.before.db, None} /\ key \in {archive.key, job.before.key, None}
    BY <1>1 DEF IInv, RestoreOK
  <2>8. CASE RestoreCrashes
    BY <2>7, <2>8 DEF RestoreCrashes, userVars, accountVars
  <2>9. CASE RestoreStuck
    <3>1. PICK back : StuckWith(back)
      BY <2>9, StuckFiles
    <3> QED BY <2>7, <2>9, <3>1 DEF StuckWith
  <2> HIDE DEF Outcome
  <2> QED BY <1>1, <2>1, <2>2, <2>3, <2>4, <2>5, <2>6, <2>8, <2>9 DEF Next, vars, files
<1>2. IInv /\ [Next]_vars => [job.pc \in Restoring /\ job'.pc \notin Restoring => Outcome]_vars
  BY <1>1
<1> QED BY <1>2, StorageInvariant, PTL DEF Spec, RestoreAtomic

\* The key the server has loaded opens every account's credentials: backups pair a database
\* with its key, and no restore that returns separates them, unless it failed and could not
\* be undone.
THEOREM CredentialsStayUsable == Spec => []CredentialsUsable
<1>1. IInv => CredentialsUsable
  <2> SUFFICES ASSUME IInv, phase = "serving", job.pc # "crashed", NEW n \in Names, HasAccount(n)
               PROVE  db.users[n].sealed = codec
    BY DEF CredentialsUsable
  <2>1. job.pc \in {"idle", "backup"}
    BY DEF IInv, JobOK, RestoreOK
  <2> QED BY <2>1 DEF IInv, JobOK, FilesOK, Sealed, HasAccount
<1> QED BY <1>1, StorageInvariant, PTL

-----------------------------------------------------------------------------
\* What users keep.

\* A database whose play counts add up to what was confirmed, and whose playlists are lists
\* of media.
Holds(d) == HoldsPlays(d) /\ HoldsLists(d)
Updates == {"star", "unstar", "rate", "unrate", "scrobble"}

\* So is every database, wherever it lies.
DataOK ==
  /\ db = None \/ Holds(db)
  /\ phase # "down" => Holds(db)
  /\ archive # None => Holds(archive.db)
  /\ job.pc = "backup" => Holds(job.snapshot)
  /\ job.pc \in Restoring => job.before.db = None \/ Holds(job.before.db)

\* What a save is about to write accounts for every entry of the list, unless the list has
\* been written since the request read it.
Accounted(l, arg) == \A m \in Media : Count(Entries(l), m) <= Count(arg.tracks, m) + arg.lost[m]
KeepsData(r) ==
  /\ r.op = "annotate" => r.actor.name \in Names /\ r.target \in Media /\ r.arg \in Updates
  /\ r.op \in {"save", "unlist"} => r.target \in Lists
  /\ r.op = "save" =>
       /\ r.actor.name \in Names /\ r.arg.tracks \in Seq(Media)
       /\ r.stale = TRUE \/ Accounted(r.target, r.arg)

DInv == DataOK /\ \A c \in Clients : KeepsData(req[c])

-----------------------------------------------------------------------------
\* Sums and counts of what users keep.

\* The play counts of one user.
PlaysOf(notes) == SumOf([m \in Media |-> notes[m].plays])

\* They add up to a number.
LEMMA PlaysOfNat ==
  ASSUME NEW notes \in [Media -> Notes]
  PROVE  PlaysOf(notes) \in Nat /\ [m \in Media |-> notes[m].plays] \in [Media -> Nat]
<1>1. [m \in Media |-> notes[m].plays] \in [Media -> Nat]
  BY DEF Notes
<1> QED BY <1>1, SumFinite, UserDataAssumption DEF PlaysOf

\* A database of a new installation.
LEMMA EmptyHolds == Holds(EmptyDatabase)
<1>1. EmptyDatabase.notes = [n \in Names |-> [m \in Media |-> NoNote]] /\ EmptyDatabase.played = 0
      /\ EmptyDatabase.lists = [l \in Lists |-> Unused]
  BY DEF EmptyDatabase
<1>2. NoNote \in Notes /\ NoNote.plays = 0
  BY DEF NoNote, Notes
<1>3. EmptyDatabase.notes \in [Names -> [Media -> Notes]]
  BY <1>1, <1>2
<1>4. ASSUME NEW n \in Names PROVE SumOf([m \in Media |-> EmptyDatabase.notes[n][m].plays]) = 0
  <2>1. \A m \in Media : EmptyDatabase.notes[n][m].plays = 0
    BY <1>1, <1>2
  <2>2. PICK f : f = [m \in Media |-> EmptyDatabase.notes[n][m].plays]
    OBVIOUS
  <2>3. f \in [Media -> Nat] /\ \A m \in Media : f[m] = 0
    BY <2>1, <2>2
  <2> QED BY <2>2, <2>3, SumZero
<1>5. Plays(EmptyDatabase) = 0
  <2>1. PICK f : f = [n \in Names |-> SumOf([m \in Media |-> EmptyDatabase.notes[n][m].plays])]
    OBVIOUS
  <2>2. f \in [Names -> Nat] /\ \A n \in Names : f[n] = 0
    BY <1>4, <2>1
  <2> QED BY <2>1, <2>2, SumZero DEF Plays
<1> QED BY <1>1, <1>3, <1>5 DEF Holds, HoldsPlays, HoldsLists

\* An id is replaced by an id.
LEMMA NewIDMedia ==
  ASSUME NEW pairs, NEW S, pairs \subseteq S \X S, NEW m \in S
  PROVE  NewID(pairs, m) \in S
<1>1. PICK new : new = {p[2] : p \in {q \in pairs : q[1] = m}}
  OBVIOUS
<1>2. new \subseteq S
  BY <1>1
<1>3. CASE Cardinality(new) = 1
  <2>1. new # {}
    BY <1>3, FS_EmptySet
  <2> QED BY <1>1, <1>2, <1>3, <2>1 DEF NewID
<1>4. CASE Cardinality(new) # 1
  BY <1>1, <1>4 DEF NewID
<1> QED BY <1>3, <1>4

\* Merging annotations moves play counts and loses none.
LEMMA MergeKeepsPlays ==
  ASSUME NEW pairs, pairs \subseteq Media \X Media, NEW notes \in [Media -> Notes]
  PROVE  /\ MergeAnnotations(notes, pairs) \in [Media -> Notes]
         /\ PlaysOf(MergeAnnotations(notes, pairs)) = PlaysOf(notes)
<1>1. PICK merged : merged = MergeAnnotations(notes, pairs)
  OBVIOUS
<1>2. PICK h : h = [i \in Media |-> NewID(pairs, i)]
  OBVIOUS
<1>3. h \in [Media -> Media]
  BY <1>2, NewIDMedia
<1>4. PICK f : f = [m \in Media |-> notes[m].plays]
  OBVIOUS
<1>5. f \in [Media -> Nat] /\ PlaysOf(notes) = SumOf(f)
  BY <1>4, PlaysOfNat DEF PlaysOf
<1>6. ASSUME NEW m \in Media
      PROVE  LET part == [i \in {y \in Media : h[y] = m} |-> f[i]]
             IN  /\ merged[m].plays = SumOf(part) /\ SumOf(part) \in Nat
                 /\ merged[m] \in Notes
  <2>1. PICK group : group = {i \in Media : NewID(pairs, i) = m}
    OBVIOUS
  <2>2. group = {y \in Media : h[y] = m} /\ group \subseteq Media
    BY <1>2, <2>1
  <2>3. PICK part : part = [i \in group |-> f[i]]
    OBVIOUS
  <2>4. part = [i \in group |-> notes[i].plays] /\ part \in [group -> Nat]
    BY <1>4, <1>5, <2>2, <2>3
  <2>5. SumOf(part) \in Nat
    BY <2>2, <2>4, SumFinite, FS_Subset, UserDataAssumption
  <2>6. merged[m] = [star |-> \E i \in group : notes[i].star, rated |-> \E i \in group : notes[i].rated,
                     plays |-> SumOf(part)]
    BY <1>1, <2>1, <2>4 DEF MergeAnnotations
  <2>7. merged[m] \in Notes /\ merged[m].plays = SumOf(part)
    BY <2>5, <2>6 DEF Notes
  <2> QED BY <2>2, <2>3, <2>5, <2>7
<1>7. merged \in [Media -> Notes]
  <2>1. merged = [m \in Media |-> merged[m]]
    BY <1>1 DEF MergeAnnotations
  <2> QED BY <1>6, <2>1
<1>8. PICK g : g = [m \in Media |-> merged[m].plays]
  OBVIOUS
<1>9. g \in [Media -> Nat] /\ \A m \in Media : g[m] = GroupSum(f, h, m)
  <2>1. DOMAIN f = Media
    BY <1>4
  <2> QED BY <1>6, <1>8, <2>1 DEF GroupSum
<1>10. SumOf(g) = SumOf(f)
  <2>1. IsFiniteSet(Media)
    BY UserDataAssumption
  <2> QED BY <1>3, <1>5, <1>9, <2>1, SumRegrouped
<1> QED BY <1>1, <1>5, <1>7, <1>8, <1>10 DEF PlaysOf

\* Annotations, the confirmed plays and the playlists are what counts.
LEMMA SameHoldings ==
  ASSUME NEW d, NEW e, e.notes = d.notes, e.played = d.played, e.lists = d.lists, Holds(d)
  PROVE  Holds(e)
BY DEF Holds, HoldsPlays, HoldsLists, Plays

\* The data migration of annotations.
LEMMA RenumberHolds ==
  ASSUME NEW d, IsDatabase(d), Holds(d), NEW pairs, pairs \subseteq Media \X Media
  PROVE  /\ Holds(Renumber(d, pairs)) /\ Renumber(d, pairs).lists = d.lists
         /\ IsDatabase(Renumber(d, pairs)) /\ Renumber(d, pairs).schema = d.schema
<1>1. PICK notes : notes = [n \in Names |-> MergeAnnotations(d.notes[n], pairs)]
  OBVIOUS
<1>2. PICK e : e = Renumber(d, pairs)
  OBVIOUS
<1>3. e = [d EXCEPT !.notes = notes]
  BY <1>1, <1>2 DEF Renumber
<1>4. /\ e = [schema |-> e.schema, played |-> e.played, users |-> e.users, notes |-> e.notes, lists |-> e.lists]
      /\ e.notes = notes /\ e.played = d.played /\ e.lists = d.lists /\ e.users = d.users /\ e.schema = d.schema
  BY <1>3 DEF IsDatabase
<1>5. ASSUME NEW n \in Names
      PROVE  notes[n] \in [Media -> Notes] /\ PlaysOf(notes[n]) = PlaysOf(d.notes[n])
  <2>1. d.notes[n] \in [Media -> Notes] /\ notes[n] = MergeAnnotations(d.notes[n], pairs)
    BY <1>1 DEF Holds, HoldsPlays
  <2> QED BY <2>1, MergeKeepsPlays
<1>6. notes \in [Names -> [Media -> Notes]]
  <2>1. notes = [n \in Names |-> notes[n]]
    BY <1>1
  <2> QED BY <1>5, <2>1
<1>7. Plays(e) = Plays(d)
  <2>1. \A n \in Names : SumOf([m \in Media |-> notes[n][m].plays]) = SumOf([m \in Media |-> d.notes[n][m].plays])
    BY <1>5 DEF PlaysOf
  <2>2. PICK f, g : /\ f = [n \in Names |-> SumOf([m \in Media |-> notes[n][m].plays])]
                    /\ g = [n \in Names |-> SumOf([m \in Media |-> d.notes[n][m].plays])]
    OBVIOUS
  <2>3. f = g
    BY <2>1, <2>2
  <2> QED BY <1>4, <2>2, <2>3 DEF Plays
<1> QED BY <1>2, <1>4, <1>6, <1>7 DEF Holds, HoldsPlays, HoldsLists, IsDatabase

\* The data migration of tracks renames the entries of playlists.
LEMMA MigrateTracksHolds ==
  ASSUME NEW d, IsDatabase(d), Holds(d)
  PROVE  Holds(MigrateTracks(d))
<1>1. LogicalTracks \subseteq Media \X Media
  BY StorageAssumption, UserDataAssumption
<1>2. PICK r : r = Renumber(d, LogicalTracks)
  OBVIOUS
<1>3. Holds(r) /\ IsDatabase(r)
  BY <1>1, <1>2, RenumberHolds
<1>4. PICK lists : lists = [l \in Lists |-> RenumberList(r.lists[l])]
  OBVIOUS
<1>5. PICK e : e = MigrateTracks(d)
  OBVIOUS
<1>6. e = [r EXCEPT !.lists = lists]
  BY <1>2, <1>4, <1>5 DEF MigrateTracks
<1>7. e.lists = lists /\ e.notes = r.notes /\ e.played = r.played
  BY <1>3, <1>6 DEF IsDatabase
<1>8. ASSUME NEW l \in Lists, r.lists[l] \notin {None, Unused} PROVE lists[l] \in Playlists
  <2>1. PICK old : old = r.lists[l]
    OBVIOUS
  <2>2. old \in Playlists /\ old.tracks \in Seq(Media)
    BY <1>3, <1>8, <2>1 DEF Holds, HoldsLists, Playlists
  <2>3. PICK tracks : tracks = RenumberEntries(old.tracks)
    OBVIOUS
  <2>4. \A i \in DOMAIN old.tracks : NewID(LogicalTracks, old.tracks[i]) \in Media
    BY <1>1, <2>2, NewIDMedia
  <2>5. tracks \in Seq(Media)
    BY <2>2, <2>3, <2>4 DEF RenumberEntries
  <2>6. lists[l] = [old EXCEPT !.tracks = tracks]
    BY <1>4, <1>8, <2>1, <2>3 DEF RenumberList
  <2> QED BY <2>2, <2>5, <2>6 DEF Playlists
<1>9. lists \in [Lists -> Playlists \cup {None, Unused}]
  <2>1. \A l \in Lists : r.lists[l] \in {None, Unused} => lists[l] = r.lists[l]
    BY <1>4 DEF RenumberList
  <2>2. lists = [l \in Lists |-> lists[l]]
    BY <1>4
  <2> QED BY <1>8, <2>1, <2>2
<1> QED BY <1>3, <1>5, <1>7, <1>9 DEF Holds, HoldsPlays, HoldsLists, Plays

\* Every migration, and the version it records.
LEMMA MigrationHolds ==
  ASSUME NEW d, IsDatabase(d), Holds(d), d.schema < Latest
  PROVE  Holds([Migration(d) EXCEPT !.schema = @ + 1])
<1>1. PICK e : e = Migration(d)
  OBVIOUS
<1>2. Holds(e) /\ e = [schema |-> e.schema, played |-> e.played, users |-> e.users, notes |-> e.notes, lists |-> e.lists]
  <2>1. CASE d.schema = 0
    BY <1>1, <2>1 DEF Migration, IsDatabase
  <2>2. CASE d.schema = 1
    <3>1. e = Renumber(d, Identities)
      BY <1>1, <2>2 DEF Migration
    <3> QED BY <3>1, RenumberHolds, StorageAssumption DEF IsDatabase
  <2>3. CASE d.schema = 2
    <3>1. e = MigrateTracks(d)
      BY <1>1, <2>3 DEF Migration
    <3>2. LogicalTracks \subseteq Media \X Media
      BY StorageAssumption, UserDataAssumption
    <3>3. PICK r : r = Renumber(d, LogicalTracks)
      OBVIOUS
    <3>4. IsDatabase(r)
      BY <3>2, <3>3, RenumberHolds
    <3>5. PICK lists : e = [r EXCEPT !.lists = lists]
      BY <3>1, <3>3 DEF MigrateTracks
    <3>6. e = [schema |-> e.schema, played |-> e.played, users |-> e.users, notes |-> e.notes, lists |-> e.lists]
      BY <3>4, <3>5 DEF IsDatabase
    <3> QED BY <3>1, <3>6, MigrateTracksHolds
  <2> QED BY <2>1, <2>2, <2>3 DEF IsDatabase, Latest
<1>3. PICK f : f = [e EXCEPT !.schema = @ + 1]
  OBVIOUS
<1>4. f.notes = e.notes /\ f.played = e.played /\ f.lists = e.lists
  BY <1>2, <1>3
<1> QED BY <1>1, <1>2, <1>3, <1>4, SameHoldings

\* A play adds one to a count of one user, other updates add nothing.
LEMMA ApplyPlays ==
  ASSUME NEW note \in Notes, NEW update \in Updates
  PROVE  /\ Apply(note, update) \in Notes
         /\ Apply(note, update).plays = IF update = "scrobble" THEN note.plays + 1 ELSE note.plays
<1>1. CASE update \in {"star", "unstar"}
  BY <1>1 DEF Apply, Notes
<1>2. CASE update \in {"rate", "unrate"}
  BY <1>2 DEF Apply, Notes
<1>3. CASE update = "scrobble"
  BY <1>3 DEF Apply, Notes
<1> QED BY <1>1, <1>2, <1>3 DEF Updates

\* The positions of a track in a list.
LEMMA PositionsFinite ==
  ASSUME NEW tracks \in Seq(Media), NEW m, NEW S \in SUBSET DOMAIN tracks
  PROVE  /\ IsFiniteSet(DOMAIN tracks) /\ IsFiniteSet({i \in S : tracks[i] = m})
         /\ Cardinality({i \in S : tracks[i] = m}) \in Nat /\ Count(tracks, m) \in Nat
<1>1. PICK n \in Nat : n = Len(tracks) /\ DOMAIN tracks = 1 .. n
  OBVIOUS
<1>2. IsFiniteSet(1 .. n)
  <2>1. 1 \in Int /\ n \in Int
    OBVIOUS
  <2> QED BY <2>1, FS_Interval
<1>3. ASSUME NEW T \in SUBSET DOMAIN tracks
      PROVE  IsFiniteSet({i \in T : tracks[i] = m}) /\ Cardinality({i \in T : tracks[i] = m}) \in Nat
  <2>1. PICK U : U = {i \in T : tracks[i] = m}
    OBVIOUS
  <2>2. U \in SUBSET (1 .. n)
    BY <1>1, <2>1
  <2>3. IsFiniteSet(U)
    BY <1>2, <2>2, FS_Subset
  <2>4. Cardinality(U) \in Nat
    BY <2>3, FS_CardinalityType
  <2> QED BY <2>1, <2>3, <2>4
<1>4. DOMAIN tracks \in SUBSET DOMAIN tracks
  OBVIOUS
<1>5. Count(tracks, m) \in Nat
  BY <1>3, <1>4 DEF Count
<1> QED BY <1>1, <1>2, <1>3, <1>5

\* What is not at a position to be removed is kept, however often the track is listed.
LEMMA WithoutPositionsKeeps ==
  ASSUME NEW tracks \in Seq(Media), NEW remove, NEW m
  PROVE  /\ WithoutPositions(tracks, remove) \in Seq(Media)
         /\ Count(tracks, m) <= Count(WithoutPositions(tracks, remove), m) +
                                Cardinality({i \in DOMAIN tracks \cap remove : tracks[i] = m})
<1>1. PICK n \in Nat : n = Len(tracks) /\ DOMAIN tracks = 1 .. n
  OBVIOUS
<1>2. PICK K : K = DOMAIN tracks \ remove
  OBVIOUS
<1>3. K \in SUBSET (1 .. n)
  BY <1>1, <1>2
<1>4. PICK kept, k : kept = InOrder(K) /\ k = Cardinality(K)
  OBVIOUS
<1>5. k \in Nat /\ kept \in [1 .. k -> K] /\ kept \in Surjection(1 .. k, K)
  BY <1>3, <1>4, InOrderCovers
<1>6. PICK short : short = WithoutPositions(tracks, remove)
  OBVIOUS
<1>7. short = [i \in 1 .. k |-> tracks[kept[i]]]
  <2>1. DOMAIN kept = 1 .. k
    BY <1>5
  <2> QED BY <1>2, <1>4, <1>6, <2>1 DEF WithoutPositions
<1>8. \A i \in 1 .. k : tracks[kept[i]] \in Media
  <2>1. \A j \in DOMAIN tracks : tracks[j] \in Media
    OBVIOUS
  <2>2. \A i \in 1 .. k : kept[i] \in DOMAIN tracks
    BY <1>2, <1>5
  <2> QED BY <2>1, <2>2
<1>9. short \in Seq(Media) /\ DOMAIN short = 1 .. k
  BY <1>5, <1>7, <1>8
<1>10. PICK A, B, C, D : /\ A = {i \in DOMAIN tracks : tracks[i] = m}
                         /\ B = {i \in DOMAIN tracks \cap remove : tracks[i] = m}
                         /\ C = {i \in K : tracks[i] = m}
                         /\ D = {i \in DOMAIN short : short[i] = m}
  OBVIOUS
<1>11. IsFiniteSet(B) /\ IsFiniteSet(C) /\ IsFiniteSet(D)
  <2>1. IsFiniteSet(B)
    BY <1>10, PositionsFinite
  <2>2. K \in SUBSET DOMAIN tracks
    BY <1>2
  <2>3. IsFiniteSet(C)
    BY <1>10, <2>2, PositionsFinite
  <2>4. IsFiniteSet(D)
    BY <1>9, <1>10, PositionsFinite
  <2> QED BY <2>1, <2>3, <2>4
<1>12. Cardinality(C) <= Cardinality(D)
  <2>1. PICK f : f = [i \in D |-> kept[i]]
    OBVIOUS
  <2>2. D = {i \in 1 .. k : tracks[kept[i]] = m}
    BY <1>7, <1>9, <1>10
  <2>3. f \in [D -> C]
    BY <1>5, <1>10, <2>1, <2>2
  <2>4. \A j \in K : \E i \in 1 .. k : kept[i] = j
    BY <1>5, Fun_SurjectionProperties
  <2>5. \A j \in C : \E i \in D : f[i] = j
    BY <1>10, <2>1, <2>2, <2>4
  <2>6. f \in Surjection(D, C)
    BY <2>3, <2>5, Fun_IsSurj
  <2> QED BY <1>11, <2>6, FS_Surjection
<1>13. A = B \cup C /\ B \cap C = {}
  BY <1>2, <1>10
<1>14. Cardinality(A) = Cardinality(B) + Cardinality(C) - Cardinality(B \cap C)
  BY <1>11, <1>13, FS_Union
<1>15. Cardinality(B \cap C) = 0
  BY <1>13, FS_EmptySet
<1>16. Cardinality(B) \in Nat /\ Cardinality(C) \in Nat /\ Cardinality(D) \in Nat
  BY <1>11, FS_CardinalityType
<1>17. Cardinality(A) <= Cardinality(D) + Cardinality(B)
  BY <1>12, <1>14, <1>15, <1>16
<1> QED BY <1>6, <1>9, <1>10, <1>17 DEF Count

\* Adding entries at the end takes none away.
LEMMA AppendKeeps ==
  ASSUME NEW tracks \in Seq(Media), NEW added \in Seq(Media), NEW m
  PROVE  tracks \o added \in Seq(Media) /\ Count(tracks, m) <= Count(tracks \o added, m)
<1>1. PICK all : all = tracks \o added
  OBVIOUS
<1>2. all \in Seq(Media) /\ DOMAIN tracks \subseteq DOMAIN all /\ \A i \in DOMAIN tracks : all[i] = tracks[i]
  BY <1>1
<1>3. PICK A, B : A = {i \in DOMAIN tracks : tracks[i] = m} /\ B = {i \in DOMAIN all : all[i] = m}
  OBVIOUS
<1>4. A \in SUBSET B
  BY <1>2, <1>3
<1>5. IsFiniteSet(B)
  BY <1>2, <1>3, PositionsFinite
<1>6. Cardinality(A) <= Cardinality(B)
  BY <1>4, <1>5, FS_Subset
<1> QED BY <1>1, <1>2, <1>3, <1>6 DEF Count

\* A user who reads a list sees the entries the catalog has, all of them.
LEMMA PlaylistSees ==
  ASSUME HoldsLists(db), NEW l \in Lists
  PROVE  /\ Entries(l) \in Seq(Media) /\ Playlist(l) \in Seq(Media)
         /\ \A m \in library : Count(Entries(l), m) <= Count(Playlist(l), m)
<1>1. PICK tracks : tracks = Entries(l)
  OBVIOUS
<1>2. tracks \in Seq(Media)
  <2>1. CASE db.lists[l] \in {None, Unused}
    BY <1>1, <2>1 DEF Entries
  <2>2. CASE db.lists[l] \notin {None, Unused}
    <3>1. db.lists[l] \in Playlists
      BY <2>2 DEF HoldsLists
    <3> QED BY <1>1, <2>2, <3>1 DEF Entries, Playlists
  <2> QED BY <2>1, <2>2
<1>3. PICK unseen : unseen = Unseen(l)
  OBVIOUS
<1>4. Playlist(l) = WithoutPositions(tracks, unseen)
  BY <1>1, <1>3 DEF Playlist
<1>5. WithoutPositions(tracks, unseen) \in Seq(Media)
  BY <1>2, WithoutPositionsKeeps
<1>6. ASSUME NEW m \in library PROVE Count(tracks, m) <= Count(WithoutPositions(tracks, unseen), m)
  <2>1. {i \in DOMAIN tracks \cap unseen : tracks[i] = m} = {}
    BY <1>1, <1>3 DEF Unseen
  <2>2. Cardinality({i \in DOMAIN tracks \cap unseen : tracks[i] = m}) = 0
    BY <2>1, FS_EmptySet
  <2>3. Count(tracks, m) <= Count(WithoutPositions(tracks, unseen), m) +
                            Cardinality({i \in DOMAIN tracks \cap unseen : tracks[i] = m})
    BY <1>2, WithoutPositionsKeeps
  <2>4. Count(WithoutPositions(tracks, unseen), m) \in Nat /\ Count(tracks, m) \in Nat
    BY <1>2, <1>5, PositionsFinite
  <2> QED BY <2>2, <2>3, <2>4
<1> QED BY <1>1, <1>2, <1>4, <1>5, <1>6

-----------------------------------------------------------------------------
\* Every step keeps what users keep.

UserOps == {"annotate", "save", "unlist"}

\* The database changes, the archive and the job do not.
LEMMA DataKept ==
  ASSUME DataOK, UNCHANGED <<archive, job>>, Holds(db')
  PROVE  DataOK'
BY DEF DataOK

\* A request stays good as long as a write to its list marks it.
LEMMA RequestsKeep ==
  ASSUME IInv, DInv, NEW changed,
         \A l \in Lists \ changed : db'.lists[l] = db.lists[l],
         \A d \in Clients :
           \/ req'[d].op \notin UserOps
           \/ /\ req'[d].op = req[d].op /\ req'[d].actor = req[d].actor /\ req'[d].target = req[d].target
              /\ req'[d].arg = req[d].arg
              /\ req[d].target \in changed \/ req[d].stale = TRUE => req'[d].stale = TRUE
  PROVE  \A d \in Clients : KeepsData(req[d])'
<1> SUFFICES ASSUME NEW d \in Clients PROVE KeepsData(req[d])'
  OBVIOUS
<1>1. CASE req'[d].op \notin UserOps
  BY <1>1 DEF KeepsData, UserOps
<1>2. CASE req'[d].op \in UserOps
  <2>1. /\ req'[d].op = req[d].op /\ req'[d].actor = req[d].actor /\ req'[d].target = req[d].target
        /\ req'[d].arg = req[d].arg
        /\ req[d].target \in changed \/ req[d].stale = TRUE => req'[d].stale = TRUE
    BY <1>2
  <2>2. KeepsData(req[d])
    BY DEF DInv
  <2>3. ASSUME req[d].op = "save", req'[d].stale # TRUE PROVE Accounted(req[d].target, req[d].arg)'
    <3>1. PICK l \in Lists : l = req[d].target
      BY <2>2, <2>3 DEF KeepsData
    <3>2. l \notin changed /\ db'.lists[l] = db.lists[l]
      BY <2>1, <2>3, <3>1
    <3>3. PICK arg : arg = req[d].arg
      OBVIOUS
    <3>4. Accounted(l, arg)
      BY <2>1, <2>2, <2>3, <3>1, <3>3 DEF KeepsData
    <3>5. Accounted(l, arg)'
      BY <3>2, <3>4 DEF Accounted, Entries
    <3>6. l = req'[d].target /\ arg = req'[d].arg
      BY <2>1, <3>1, <3>3
    <3> QED BY <3>5, <3>6 DEF Accounted
  <2> QED BY <2>1, <2>2, <2>3 DEF KeepsData
<1> QED BY <1>1, <1>2

\* A process that does not serve has no requests.
LEMMA NoRequestsKeep ==
  ASSUME IInv', phase' # "serving"
  PROVE  \A d \in Clients : KeepsData(req[d])'
<1>1. \A d \in Clients : req'[d] = Idle
  BY DEF IInv, RequestsOK
<1> QED BY <1>1 DEF KeepsData, Idle

\* A row of the accounts changes, annotations and playlists do not.
LEMMA SetAccountHolds ==
  ASSUME IsDatabase(db), Holds(db), NEW t, NEW account, SetAccount(t, account)
  PROVE  Holds(db') /\ db'.lists = db.lists
<1>1. PICK users : db' = [db EXCEPT !.users = users]
  BY DEF SetAccount
<1>2. db'.notes = db.notes /\ db'.played = db.played /\ db'.lists = db.lists
  BY <1>1 DEF IsDatabase
<1> QED BY <1>2, SameHoldings

\* Changes of accounts leave annotations and playlists alone.
LEMMA AccountsData ==
  ASSUME IInv, DInv, AccountsNext, UNCHANGED <<library, files>>
  PROVE  DInv'
<1>1. phase = "serving" /\ phase' = phase /\ codec' = codec
  BY DEF AccountsNext, RequestPassword, RequestDelete, RequestPermissions, RequestCreate,
     CreateUser, UpdatePassword,
         DeleteCheck, DeleteUser, UpdatePermissions, Authenticated, Serving
<1>2. IsDatabase(db) /\ Holds(db)
  BY <1>1 DEF IInv, FilesOK, Sound, DInv, DataOK
<1>3. db' = db \/ \E t, account : SetAccount(t, account)
  BY DEF AccountsNext, RequestPassword, RequestDelete, RequestPermissions, RequestCreate,
     CreateUser, UpdatePassword,
         DeleteCheck, DeleteUser, UpdatePermissions
<1>4. Holds(db') /\ db'.lists = db.lists
  BY <1>2, <1>3, SetAccountHolds
<1>5. DataOK'
  BY <1>4, DataKept DEF DInv, files
<1>6. PICK c \in Clients :
        \/ \E r : req' = [req EXCEPT ![c] = r] /\ r.op \notin UserOps
        \/ \E t : req' = Overtaking(c, t)
  <2>1. ASSUME NEW c \in Clients, NEW n, NEW op, NEW t, NEW arg, Admit(c, n, op, t, arg), op \notin UserOps
        PROVE  \E r : req' = [req EXCEPT ![c] = r] /\ r.op \notin UserOps
    <3>1. PICK r : r = [op |-> op, actor |-> User(n), target |-> t, arg |-> arg, stale |-> FALSE]
      OBVIOUS
    <3>2. r.op = op /\ req' = [req EXCEPT ![c] = r]
      BY <2>1, <3>1 DEF Admit
    <3> QED BY <2>1, <3>2
  <2>2. ASSUME NEW c \in Clients, NEW n, NEW t,
               \/ RequestPassword(c, n, t) \/ RequestDelete(c, n, t)
               \/ \E perms : RequestPermissions(c, n, t, perms) \/ \E role : RequestCreate(c, n, t, role, perms)
        PROVE  \E r : req' = [req EXCEPT ![c] = r] /\ r.op \notin UserOps
    <3>1. \E op, arg : Admit(c, n, op, t, arg) /\ op \in {"password", "delete", "permissions", "create"}
      BY <2>2 DEF RequestPassword, RequestDelete, RequestPermissions, RequestCreate
    <3>2. PICK op, arg : Admit(c, n, op, t, arg) /\ op \in {"password", "delete", "permissions", "create"}
      BY <3>1
    <3>3. op \notin UserOps
      BY <3>2 DEF UserOps
    <3> QED BY <2>1, <3>2, <3>3
  <2>3. ASSUME NEW c \in Clients, req' = Answered(c)
        PROVE  \E r : req' = [req EXCEPT ![c] = r] /\ r.op \notin UserOps
    <3>1. Idle.op \notin UserOps
      BY DEF Idle, UserOps
    <3> QED BY <2>3, <3>1 DEF Answered
  <2>4. ASSUME NEW c \in Clients, DeleteCheck(c)
        PROVE  \E r : req' = [req EXCEPT ![c] = r] /\ r.op \notin UserOps
    <3>1. CASE req' = Answered(c)
      BY <2>3, <3>1
    <3>2. CASE req' = [req EXCEPT ![c].op = "deleting"]
      <4>1. PICK r : r = [req[c] EXCEPT !.op = "deleting"]
        OBVIOUS
      <4>2. r.op = "deleting"
        BY <4>1 DEF IInv, RequestsOK, RequestOK
      <4> QED BY <3>2, <4>1, <4>2 DEF UserOps
    <3> QED BY <2>4, <3>1, <3>2 DEF DeleteCheck
  <2>5. ASSUME NEW c \in Clients, CreateUser(c) \/ UpdatePassword(c) \/ DeleteUser(c) \/ UpdatePermissions(c)
        PROVE  req' = Answered(c) \/ \E t : req' = Overtaking(c, t)
    BY <2>5 DEF CreateUser, UpdatePassword, DeleteUser, UpdatePermissions
  <2> QED BY <2>2, <2>3, <2>4, <2>5 DEF AccountsNext
<1>7. PICK changed : changed = {} /\ \A l \in Lists \ changed : db'.lists[l] = db.lists[l]
  BY <1>4
<1>8. CASE \E r : req' = [req EXCEPT ![c] = r] /\ r.op \notin UserOps
  <2>1. PICK r : req' = [req EXCEPT ![c] = r] /\ r.op \notin UserOps
    BY <1>8
  <2>2. req = [d \in Clients |-> req[d]]
    BY DEF IInv, RequestsOK
  <2>3. req'[c] = r /\ \A d \in Clients \ {c} : req'[d] = req[d]
    BY <2>1, <2>2
  <2>4. \A d \in Clients :
          \/ req'[d].op \notin UserOps
          \/ /\ req'[d].op = req[d].op /\ req'[d].actor = req[d].actor /\ req'[d].target = req[d].target
             /\ req'[d].arg = req[d].arg
             /\ req[d].target \in changed \/ req[d].stale = TRUE => req'[d].stale = TRUE
    BY <1>7, <2>1, <2>3
  <2>5. \A d \in Clients : KeepsData(req[d])'
    BY <1>7, <2>4, RequestsKeep
  <2> QED BY <1>5, <2>5 DEF DInv
<1>9. CASE \E t : req' = Overtaking(c, t)
  <2>1. PICK t : req' = Overtaking(c, t)
    BY <1>9
  <2>2. /\ req'[c] = Idle
        /\ \A d \in Clients \ {c} :
             /\ req'[d].op = req[d].op /\ req'[d].actor = req[d].actor /\ req'[d].target = req[d].target
             /\ req'[d].arg = req[d].arg
             /\ req[d].stale = TRUE => req'[d].stale = TRUE
    BY <1>1, <2>1, OvertakenRequests
  <2>3. req'[c].op \notin UserOps
    BY <2>2 DEF Idle, UserOps
  <2>4. \A d \in Clients :
          \/ req'[d].op \notin UserOps
          \/ /\ req'[d].op = req[d].op /\ req'[d].actor = req[d].actor /\ req'[d].target = req[d].target
             /\ req'[d].arg = req[d].arg
             /\ req[d].target \in changed \/ req[d].stale = TRUE => req'[d].stale = TRUE
    BY <1>7, <2>2, <2>3
  <2>5. \A d \in Clients : KeepsData(req[d])'
    BY <1>7, <2>4, RequestsKeep
  <2> QED BY <1>5, <2>5 DEF DInv
<1> QED BY <1>6, <1>8, <1>9

\* A request is taken in; the database stays as it is.
LEMMA AdmitData ==
  ASSUME IInv, DInv, NEW c \in Clients, NEW r, KeepsData(r), req' = [req EXCEPT ![c] = r],
         UNCHANGED <<phase, db, files>>
  PROVE  DInv'
<1>1. DataOK'
  BY DEF DInv, DataOK, files
<1>2. req'[c] = r /\ \A d \in Clients \ {c} : req'[d] = req[d]
  BY DEF IInv, RequestsOK
<1>3. ASSUME NEW d \in Clients PROVE KeepsData(req[d])'
  <2>1. PICK q : q = req'[d]
    OBVIOUS
  <2>2. KeepsData(q)
    BY <1>2, <2>1 DEF DInv
  <2>3. KeepsData(q)'
    BY <2>2 DEF KeepsData, Accounted, Entries
  <2> QED BY <2>1, <2>3 DEF KeepsData
<1> QED BY <1>1, <1>3 DEF DInv

\* A save that leaves out what it was asked to leave out.
LEMMA SaveData ==
  ASSUME IInv, DInv, phase = "serving", NEW c \in Clients, NEW n \in Names, NEW l \in Lists, NEW tracks \in Seq(Media),
         NEW asked, asked \subseteq DOMAIN Playlist(l), RequestSave(c, n, l, tracks, asked), UNCHANGED files,
         \A m \in Media : Count(Playlist(l), m) <= Count(tracks, m) + Cardinality({i \in asked : Playlist(l)[i] = m})
  PROVE  DInv'
<1>1. HoldsLists(db)
  BY DEF DInv, DataOK, Holds
<1>2. PICK lost : lost = [m \in Media |-> Cardinality({i \in asked : Playlist(l)[i] = m}) +
                                          IF m \in library THEN 0 ELSE Count(Entries(l), m)]
  OBVIOUS
<1>3. PICK arg : arg = [tracks |-> tracks, lost |-> lost]
  OBVIOUS
<1>4. PICK r : r = [op |-> "save", actor |-> User(n), target |-> l, arg |-> arg, stale |-> FALSE]
  OBVIOUS
<1>5. req' = [req EXCEPT ![c] = r] /\ UNCHANGED <<phase, db>>
  BY <1>2, <1>3, <1>4 DEF RequestSave, Admit
<1>6. ASSUME NEW m \in Media PROVE Count(Entries(l), m) <= Count(tracks, m) + lost[m]
  <2>1. Entries(l) \in Seq(Media) /\ Playlist(l) \in Seq(Media)
    BY <1>1, PlaylistSees
  <2>2. Count(Entries(l), m) \in Nat /\ Count(Playlist(l), m) \in Nat /\ Count(tracks, m) \in Nat
    BY <2>1, PositionsFinite
  <2>3. Cardinality({i \in asked : Playlist(l)[i] = m}) \in Nat
    BY <2>1, PositionsFinite
  <2>4. CASE m \in library
    <3>1. Count(Entries(l), m) <= Count(Playlist(l), m)
      BY <1>1, <2>4, PlaylistSees
    <3>2. lost[m] = Cardinality({i \in asked : Playlist(l)[i] = m})
      BY <1>2, <2>3, <2>4
    <3>3. Count(Playlist(l), m) <= Count(tracks, m) + Cardinality({i \in asked : Playlist(l)[i] = m})
      OBVIOUS
    <3> QED BY <2>2, <2>3, <3>1, <3>2, <3>3
  <2>5. CASE m \notin library
    <3>1. lost[m] = Cardinality({i \in asked : Playlist(l)[i] = m}) + Count(Entries(l), m)
      BY <1>2, <2>5
    <3> QED BY <2>2, <2>3, <3>1
  <2> QED BY <2>4, <2>5
<1>7. Accounted(l, arg)
  BY <1>3, <1>6 DEF Accounted
<1>8. r.op = "save" /\ r.actor.name = n /\ r.target = l /\ r.arg = arg /\ arg.tracks = tracks
  BY <1>3, <1>4 DEF User
<1>9. KeepsData(r)
  BY <1>7, <1>8 DEF KeepsData
<1> QED BY <1>5, <1>9, AdmitData

\* CreateOrReplace asks for all entries to go, Update for those at some positions.
LEMMA ListRequestData ==
  ASSUME IInv, DInv, NEW c \in Clients, NEW n \in Names, NEW l \in Lists, UNCHANGED files,
         (\E m \in Songs : RequestCreatePlaylist(c, n, l, m)) \/ RequestUpdatePlaylist(c, n, l)
  PROVE  DInv'
<1>1. phase = "serving"
  BY DEF RequestCreatePlaylist, RequestUpdatePlaylist, Lister, Serving
<1>2. Playlist(l) \in Seq(Media)
  BY <1>1, PlaylistSees DEF DInv, DataOK, Holds
<1>3. ASSUME NEW m \in Songs, RequestCreatePlaylist(c, n, l, m) PROVE DInv'
  <2>1. RequestSave(c, n, l, <<m>>, DOMAIN Playlist(l))
    BY <1>3 DEF RequestCreatePlaylist
  <2>2. <<m>> \in Seq(Media)
    BY UserDataAssumption
  <2>3. ASSUME NEW k \in Media
        PROVE  Count(Playlist(l), k) <= Count(<<m>>, k) + Cardinality({i \in DOMAIN Playlist(l) : Playlist(l)[i] = k})
    <3>1. Count(<<m>>, k) \in Nat /\ Count(Playlist(l), k) \in Nat
      BY <1>2, <2>2, PositionsFinite
    <3>2. Count(Playlist(l), k) = Cardinality({i \in DOMAIN Playlist(l) : Playlist(l)[i] = k})
      BY DEF Count
    <3> QED BY <3>1, <3>2
  <2> QED BY <1>1, <2>1, <2>2, <2>3, SaveData
<1>4. CASE RequestUpdatePlaylist(c, n, l)
  <2>1. PICK remove \in SUBSET DOMAIN Playlist(l), added \in {<<>>} \cup {<<m>> : m \in library \cap Songs} :
          RequestSave(c, n, l, WithoutPositions(Playlist(l), remove) \o added, remove)
    BY <1>4 DEF RequestUpdatePlaylist
  <2>2. added \in Seq(Media)
    <3>1. CASE added = <<>>
      BY <3>1
    <3>2. CASE \E m \in Songs : added = <<m>>
      BY <3>2, UserDataAssumption
    <3> QED BY <3>1, <3>2
  <2>3. PICK seen, short : seen = Playlist(l) /\ short = WithoutPositions(seen, remove)
    OBVIOUS
  <2>4. short \in Seq(Media) /\ short \o added \in Seq(Media)
    BY <1>2, <2>2, <2>3, WithoutPositionsKeeps, AppendKeeps
  <2>5. ASSUME NEW m \in Media
        PROVE  Count(seen, m) <= Count(short \o added, m) + Cardinality({i \in remove : seen[i] = m})
    <3>1. Count(seen, m) <= Count(short, m) + Cardinality({i \in DOMAIN seen \cap remove : seen[i] = m})
      BY <1>2, <2>3, WithoutPositionsKeeps
    <3>2. Cardinality({i \in DOMAIN seen \cap remove : seen[i] = m}) = Cardinality({i \in remove : seen[i] = m})
      <4>1. DOMAIN seen \cap remove = remove
        BY <2>3
      <4> QED BY <4>1
    <3>3. Count(short, m) <= Count(short \o added, m)
      BY <2>2, <2>4, AppendKeeps
    <3>4. /\ Count(seen, m) \in Nat /\ Count(short, m) \in Nat /\ Count(short \o added, m) \in Nat
          /\ Cardinality({i \in remove : seen[i] = m}) \in Nat
      BY <1>2, <2>3, <2>4, PositionsFinite
    <3> QED BY <3>1, <3>2, <3>3, <3>4
  <2>6. PICK tracks : tracks = short \o added
    OBVIOUS
  <2>7. RequestSave(c, n, l, tracks, remove) /\ tracks \in Seq(Media)
    BY <2>1, <2>3, <2>4, <2>6
  <2>8. \A m \in Media : Count(Playlist(l), m) <= Count(tracks, m) + Cardinality({i \in remove : Playlist(l)[i] = m})
    BY <2>3, <2>5, <2>6
  <2> QED BY <1>1, <2>1, <2>7, <2>8, SaveData
<1> QED BY <1>3, <1>4

\* A confirmed play is one play more, of one user; other updates change no count.
LEMMA AnnotationHolds ==
  ASSUME NEW d, Holds(d), NEW n \in Names, NEW m \in Media, NEW update \in Updates, NEW e, e.lists = d.lists,
         e.notes = [d.notes EXCEPT ![n] = [d.notes[n] EXCEPT ![m] = Apply(d.notes[n][m], update)]],
         e.played = IF update = "scrobble" THEN d.played + 1 ELSE d.played
  PROVE  Holds(e)
<1>1. PICK note : note = Apply(d.notes[n][m], update)
  OBVIOUS
<1>2. PICK mine : mine = [d.notes[n] EXCEPT ![m] = note]
  OBVIOUS
<1>3. PICK notes : notes = [d.notes EXCEPT ![n] = mine]
  OBVIOUS
<1>4. e.notes = notes
  BY <1>1, <1>2, <1>3
<1>5. d.notes \in [Names -> [Media -> Notes]] /\ d.notes[n] \in [Media -> Notes] /\ d.notes[n][m] \in Notes
  BY DEF Holds, HoldsPlays
<1>6. note \in Notes /\ note.plays = IF update = "scrobble" THEN d.notes[n][m].plays + 1 ELSE d.notes[n][m].plays
  BY <1>1, <1>5, ApplyPlays
<1>7. mine \in [Media -> Notes] /\ mine[m] = note /\ \A k \in Media \ {m} : mine[k] = d.notes[n][k]
  BY <1>2, <1>5, <1>6
<1>8. notes \in [Names -> [Media -> Notes]] /\ notes[n] = mine /\ \A k \in Names \ {n} : notes[k] = d.notes[k]
  BY <1>3, <1>5, <1>7
<1>9. PICK f, g : /\ f = [k \in Names |-> SumOf([j \in Media |-> d.notes[k][j].plays])]
                  /\ g = [k \in Names |-> SumOf([j \in Media |-> notes[k][j].plays])]
  OBVIOUS
<1>10. f \in [Names -> Nat] /\ g \in [Names -> Nat] /\ \A k \in Names \ {n} : g[k] = f[k]
  <2>1. \A k \in Names : f[k] = PlaysOf(d.notes[k]) /\ g[k] = PlaysOf(notes[k])
    BY <1>9 DEF PlaysOf
  <2>2. \A k \in Names : f[k] \in Nat /\ g[k] \in Nat
    BY <1>5, <1>8, <2>1, PlaysOfNat
  <2>3. \A k \in Names \ {n} : g[k] = f[k]
    BY <1>8, <2>1
  <2> QED BY <1>9, <2>2, <2>3
<1>11. Plays(d) = SumOf(f) /\ Plays(e) = SumOf(g)
  BY <1>4, <1>9 DEF Plays
<1>12. PICK p, q : p = [k \in Media |-> d.notes[n][k].plays] /\ q = [k \in Media |-> mine[k].plays]
  OBVIOUS
<1>13. /\ p \in [Media -> Nat] /\ q \in [Media -> Nat] /\ \A k \in Media \ {m} : q[k] = p[k]
       /\ f[n] = SumOf(p) /\ g[n] = SumOf(q)
       /\ p[m] = d.notes[n][m].plays /\ q[m] = note.plays
  <2>1. p \in [Media -> Nat] /\ q \in [Media -> Nat]
    BY <1>5, <1>7, <1>12, PlaysOfNat
  <2>2. f[n] = SumOf(p) /\ g[n] = SumOf(q)
    BY <1>8, <1>9, <1>12
  <2> QED BY <1>7, <1>12, <2>1, <2>2
<1>14. CASE update = "scrobble"
  <2>1. IsFiniteSet(Media) /\ IsFiniteSet(Names)
    BY UserDataAssumption, AccountsAssumption
  <2>2. q[m] = p[m] + 1
    BY <1>6, <1>13, <1>14
  <2>3. g[n] = f[n] + 1
    BY <1>13, <2>1, <2>2, SumIncrement
  <2>4. SumOf(g) = SumOf(f) + 1
    BY <1>10, <2>1, <2>3, SumIncrement
  <2> QED BY <1>4, <1>8, <1>11, <1>14, <2>4 DEF Holds, HoldsPlays, HoldsLists
<1>15. CASE update # "scrobble"
  <2>1. q[m] = p[m]
    BY <1>6, <1>13, <1>15
  <2>2. q = p
    BY <1>13, <2>1
  <2>3. g = f
    BY <1>10, <1>13, <2>2
  <2> QED BY <1>4, <1>8, <1>11, <1>15, <2>3 DEF Holds, HoldsPlays, HoldsLists
<1> QED BY <1>14, <1>15

\* The steps of the annotation and playlist services, and rescans.
LEMMA UserDataData ==
  ASSUME IInv, DInv, UserDataNext, UNCHANGED files
  PROVE  DInv'
<1>1. ASSUME NEW c \in Clients, NEW n \in Names, NEW m \in Media, NEW update \in Updates,
             RequestAnnotation(c, n, m, update)
      PROVE  DInv'
  <2>1. PICK r : r = [op |-> "annotate", actor |-> User(n), target |-> m, arg |-> update, stale |-> FALSE]
    OBVIOUS
  <2>2. req' = [req EXCEPT ![c] = r] /\ UNCHANGED <<phase, db>>
    BY <1>1, <2>1 DEF RequestAnnotation, Admit
  <2>3. r.op = "annotate" /\ r.actor.name = n /\ r.target = m /\ r.arg = update
    BY <2>1 DEF User
  <2>4. KeepsData(r)
    BY <2>3 DEF KeepsData
  <2> QED BY <2>2, <2>4, AdmitData
<1>2. ASSUME NEW c \in Clients, NEW n \in Names, NEW l \in Lists, RequestDeletePlaylist(c, n, l) PROVE DInv'
  <2>1. PICK r : r = [op |-> "unlist", actor |-> User(n), target |-> l, arg |-> None, stale |-> FALSE]
    OBVIOUS
  <2>2. req' = [req EXCEPT ![c] = r] /\ UNCHANGED <<phase, db>>
    BY <1>2, <2>1 DEF RequestDeletePlaylist, Admit
  <2>3. r.op = "unlist" /\ r.target = l
    BY <2>1
  <2>4. KeepsData(r)
    BY <2>3 DEF KeepsData
  <2> QED BY <2>2, <2>4, AdmitData
<1>3. ASSUME NEW c \in Clients, UpdateMediaAnnotations(c) PROVE DInv'
  <2>1. PICK r : r = req[c]
    OBVIOUS
  <2>2. phase = "serving" /\ phase' = phase /\ IsDatabase(db) /\ Holds(db)
    BY <1>3 DEF UpdateMediaAnnotations, Serving, IInv, FilesOK, Sound, DInv, DataOK
  <2>3. r.actor.name \in Names /\ r.target \in Media /\ r.arg \in Updates
    BY <1>3, <2>1 DEF UpdateMediaAnnotations, Serving, DInv, KeepsData
  <2>4. PICK e : e = db'
    OBVIOUS
  <2>5. /\ e.notes = [db.notes EXCEPT ![r.actor.name] = [db.notes[r.actor.name] EXCEPT
                                        ![r.target] = Apply(db.notes[r.actor.name][r.target], r.arg)]]
        /\ e.lists = db.lists
        /\ e.played = IF r.arg = "scrobble" THEN db.played + 1 ELSE db.played
    BY <1>3, <2>1, <2>2, <2>4 DEF UpdateMediaAnnotations, IsDatabase
  <2>6. Holds(db') /\ db'.lists = db.lists
    BY <2>2, <2>3, <2>4, <2>5, AnnotationHolds
  <2>7. DataOK'
    BY <2>6, DataKept DEF DInv, files
  <2>8. req'[c] = Idle /\ \A d \in Clients \ {c} : req'[d] = req[d]
    BY <1>3 DEF UpdateMediaAnnotations, Answered, IInv, RequestsOK
  <2>9. PICK changed : changed = {} /\ \A l \in Lists \ changed : db'.lists[l] = db.lists[l]
    BY <2>6
  <2>10. Idle.op \notin UserOps
    BY DEF Idle, UserOps
  <2>11. \A d \in Clients :
          \/ req'[d].op \notin UserOps
          \/ /\ req'[d].op = req[d].op /\ req'[d].actor = req[d].actor /\ req'[d].target = req[d].target
             /\ req'[d].arg = req[d].arg
             /\ req[d].target \in changed \/ req[d].stale = TRUE => req'[d].stale = TRUE
    BY <2>8, <2>9, <2>10
  <2>12. \A d \in Clients : KeepsData(req[d])'
    BY <2>9, <2>11, RequestsKeep
  <2> QED BY <2>7, <2>12 DEF DInv
<1>4. ASSUME NEW c \in Clients, SavePlaylist(c) \/ DeletePlaylist(c) PROVE DInv'
  <2>1. PICK l : l = req[c].target
    OBVIOUS
  <2>2. /\ phase = "serving" /\ phase' = phase /\ codec' = codec /\ IsDatabase(db) /\ Holds(db) /\ l \in Lists
        /\ req' = Overtaking(c, l)
    BY <1>4, <2>1 DEF SavePlaylist, DeletePlaylist, WriteList, Serving, IInv, FilesOK, Sound,
       DInv, DataOK, KeepsData
  <2>3. PICK value : db' = [db EXCEPT !.lists[l] = value] /\ value \in Playlists \cup {None, Unused}
    <3>1. CASE SavePlaylist(c)
      <4>1. PICK value : value = [owner |-> req[c].actor.name, tracks |-> req[c].arg.tracks]
        OBVIOUS
      <4>2. value \in Playlists
        BY <3>1, <4>1 DEF SavePlaylist, Serving, DInv, KeepsData, Playlists
      <4> QED BY <2>1, <3>1, <4>1, <4>2 DEF SavePlaylist, WriteList
    <3>2. CASE DeletePlaylist(c)
      BY <2>1, <3>2 DEF DeletePlaylist, WriteList
    <3> QED BY <1>4, <3>1, <3>2
  <2>4. db'.lists = [db.lists EXCEPT ![l] = value] /\ db'.notes = db.notes /\ db'.played = db.played
    BY <2>2, <2>3 DEF IsDatabase
  <2>5. db.lists \in [Lists -> Playlists \cup {None, Unused}]
    BY <2>2 DEF Holds, HoldsLists
  <2>6. Holds(db')
    BY <2>2, <2>3, <2>4, <2>5 DEF Holds, HoldsPlays, HoldsLists, Plays
  <2>7. DataOK'
    BY <2>6, DataKept DEF DInv, files
  <2>8. PICK changed : changed = {l} /\ \A k \in Lists \ changed : db'.lists[k] = db.lists[k]
    BY <2>4, <2>5
  <2>9. /\ req'[c] = Idle
        /\ \A d \in Clients \ {c} :
             /\ req'[d].op = req[d].op /\ req'[d].actor = req[d].actor /\ req'[d].target = req[d].target
             /\ req'[d].arg = req[d].arg
             /\ req[d].target = l \/ req[d].stale = TRUE => req'[d].stale = TRUE
    BY <2>2, OvertakenRequests
  <2>10. Idle.op \notin UserOps
    BY DEF Idle, UserOps
  <2>11. \A d \in Clients :
          \/ req'[d].op \notin UserOps
          \/ /\ req'[d].op = req[d].op /\ req'[d].actor = req[d].actor /\ req'[d].target = req[d].target
             /\ req'[d].arg = req[d].arg
             /\ req[d].target \in changed \/ req[d].stale = TRUE => req'[d].stale = TRUE
    BY <2>8, <2>9, <2>10
  <2>12. \A d \in Clients : KeepsData(req[d])'
    BY <2>8, <2>11, RequestsKeep
  <2> QED BY <2>7, <2>12 DEF DInv
<1>5. ASSUME NEW m, Rescan(m) PROVE DInv'
  BY <1>5 DEF Rescan, accountVars, files, DInv, DataOK, KeepsData, Accounted, Entries
<1> QED BY <1>1, <1>2, <1>3, <1>4, <1>5, ListRequestData DEF UserDataNext, Updates

\* Start-up: migrations move annotations and entries, the rest of it leaves them alone.
LEMMA StartData ==
  ASSUME IInv, DInv, StartStep, IInv'
  PROVE  DInv'
<1> USE DEF files
<1>1. CASE Open
  <2>1. Holds(db')
    BY <1>1, EmptyHolds DEF Open, DInv, DataOK
  <2>2. phase' # "serving" /\ UNCHANGED <<archive, job>>
    BY <1>1 DEF Open
  <2> QED BY <2>1, <2>2, DataKept, NoRequestsKeep DEF DInv
<1>2. CASE Migrate
  <2>1. phase = "opening" /\ phase' # "serving" /\ IsDatabase(db) /\ Holds(db) /\ UNCHANGED <<archive, job>>
    BY <1>2 DEF Migrate, IInv, FilesOK, Sound, DInv, DataOK
  <2>2. PICK e : e = db'
    OBVIOUS
  <2>3. CASE db.schema < Latest
    <3>1. e = [Migration(db) EXCEPT !.schema = @ + 1]
      BY <1>2, <2>2, <2>3 DEF Migrate
    <3>2. Holds(db')
      BY <2>1, <2>2, <2>3, <3>1, MigrationHolds
    <3> QED BY <2>1, <3>2, DataKept, NoRequestsKeep DEF DInv
  <2>4. CASE ~(db.schema < Latest)
    <3>1. db' = db
      BY <1>2, <2>4 DEF Migrate
    <3> QED BY <2>1, <3>1, DataKept, NoRequestsKeep DEF DInv
  <2> QED BY <2>3, <2>4
<1>3. CASE LoadKey \/ WriteKey
  <2>1. phase \in {"key", "newkey"} /\ phase' # "serving" /\ db' = db /\ UNCHANGED <<archive, job>>
    BY <1>3 DEF LoadKey, WriteKey
  <2>2. Holds(db')
    BY <2>1 DEF DInv, DataOK
  <2> QED BY <2>1, <2>2, DataKept, NoRequestsKeep DEF DInv
<1>4. CASE EnsureBootstrapAdmin
  <2>1. phase = "bootstrap" /\ IsDatabase(db) /\ Holds(db) /\ req' = req /\ UNCHANGED <<archive, job>>
    BY <1>4 DEF EnsureBootstrapAdmin, IInv, FilesOK, Sound, DInv, DataOK
  <2>2. db' = db \/ \E t, account : SetAccount(t, account)
    BY <1>4 DEF EnsureBootstrapAdmin
  <2>3. Holds(db')
    BY <2>1, <2>2, SetAccountHolds
  <2>4. \A d \in Clients : req'[d] = Idle
    BY <2>1 DEF IInv, RequestsOK
  <2>5. \A d \in Clients : KeepsData(req[d])'
    BY <2>4 DEF KeepsData, Idle
  <2> QED BY <2>1, <2>3, <2>5, DataKept DEF DInv
<1> QED BY <1>1, <1>2, <1>3, <1>4 DEF StartStep

\* The end of the process leaves the files.
LEMMA EndData ==
  ASSUME IInv, DInv, Stop \/ Kill, IInv'
  PROVE  DInv'
<1>1. phase # "down" /\ phase' = "down" /\ UNCHANGED <<db, archive, job>>
  BY DEF Stop, Kill, ProcessEnds
<1>2. Holds(db')
  BY <1>1 DEF DInv, DataOK
<1> QED BY <1>1, <1>2, DataKept, NoRequestsKeep DEF DInv

\* A backup copies a database that is good, the requests go on.
LEMMA BackupData ==
  ASSUME IInv, DInv, Snapshot \/ WriteArchive \/ BackupFails
  PROVE  DInv'
<1> USE DEF userVars, accountVars, NoJob
<1>1. UNCHANGED <<phase, db, req>>
  BY DEF Snapshot, WriteArchive, BackupFails
<1>2. DataOK'
  <2>1. CASE Snapshot
    BY <1>1, <2>1 DEF Snapshot, DInv, DataOK, Restoring
  <2>2. CASE WriteArchive
    BY <1>1, <2>2 DEF WriteArchive, DInv, DataOK, Restoring
  <2>3. CASE BackupFails
    BY <1>1, <2>3 DEF BackupFails, DInv, DataOK, Restoring
  <2> QED BY <2>1, <2>2, <2>3
<1>3. \A d \in Clients : KeepsData(req[d])'
  BY <1>1 DEF DInv, KeepsData, Accounted, Entries
<1> QED BY <1>2, <1>3 DEF DInv

\* A restore puts a database that is good in the place of one that is.
LEMMA RestoreData ==
  ASSUME IInv, DInv, RestoreStep \/ \E force \in BOOLEAN : Restore(force), IInv'
  PROVE  DInv'
<1> USE DEF userVars, accountVars, NoJob, Restoring
<1>1. phase = "down" /\ phase' = phase /\ archive' = archive /\ archive # None
  <2>1. CASE RestoreStep
    <3>1. job.pc \in Restoring /\ phase' = phase /\ archive' = archive
      BY <2>1 DEF RestoreStep, PreserveDatabase, PreserveKey, CommitDatabase, CommitKey,
         RestoreFails, RestoreStuck, RestoreCrashes
    <3> QED BY <3>1 DEF IInv, RestoreOK
  <2>2. CASE \E force \in BOOLEAN : Restore(force)
    BY <2>2 DEF Restore
  <2> QED BY <2>1, <2>2
<1>2. db' = None \/ db' = db \/ db' = archive.db \/ (job.pc \in Restoring /\ db' = job.before.db)
  BY DEF RestoreStep, PreserveDatabase, PreserveKey, CommitDatabase, CommitKey, RestoreFails,
     RestoreStuck, RestoreCrashes, Restore
<1>3. db' = None \/ Holds(db')
  BY <1>1, <1>2 DEF DInv, DataOK
<1>4. job'.pc # "backup" /\ (job'.pc \in Restoring => job'.before.db = None \/ Holds(job'.before.db))
  <2>1. ASSUME NEW force \in BOOLEAN, Restore(force)
        PROVE  job'.pc # "backup" /\ job'.before.db = db
    BY <2>1 DEF Restore
  <2>2. CASE PreserveDatabase \/ PreserveKey \/ CommitDatabase
    <3>1. job.pc \in Restoring /\ job'.pc \in Restoring /\ job'.before = job.before
      BY <2>2 DEF PreserveDatabase, PreserveKey, CommitDatabase, IInv, JobOK
    <3> QED BY <3>1 DEF DInv, DataOK
  <2>3. CASE CommitKey \/ RestoreCrashes \/ RestoreStuck
    BY <2>3 DEF CommitKey, RestoreCrashes, RestoreStuck
  <2>4. CASE RestoreFails
    BY <2>4 DEF RestoreFails, IInv, RestoreOK
  <2> QED BY <2>1, <2>2, <2>3, <2>4 DEF RestoreStep, DInv, DataOK
<1>5. DataOK'
  BY <1>1, <1>3, <1>4 DEF DInv, DataOK
<1>6. \A d \in Clients : KeepsData(req[d])'
  BY <1>1, NoRequestsKeep
<1> QED BY <1>5, <1>6 DEF DInv

\* What users keep survives every step of the server, of its clients and of the commands.
THEOREM UserDataInvariant == Spec => []DInv
<1>1. Init => DInv
  <2> SUFFICES ASSUME Init PROVE DInv
    OBVIOUS
  <2>1. DataOK
    BY StorageAssumption DEF Init, DataOK, Holds, NoJob, Restoring
  <2> QED BY <2>1 DEF Init, DInv, KeepsData, Idle
<1>2. IInv /\ DInv /\ IInv' /\ [Next]_vars => DInv'
  <2> SUFFICES ASSUME IInv, DInv, IInv', [Next]_vars PROVE DInv'
    OBVIOUS
  <2>1. CASE UNCHANGED vars
    BY <2>1 DEF vars, userVars, accountVars, files, DInv, DataOK, KeepsData, Accounted, Entries
  <2>2. CASE Next
    BY <2>2, AccountsData, UserDataData, StartData, EndData, BackupData, RestoreData DEF Next,
       RestoreStep
  <2> QED BY <2>1, <2>2
<1> QED BY <1>1, <1>2, StorageInvariant, PTL DEF Spec

\* PlaysCounted: UpdateMediaAnnotations counts every confirmed play once, and neither the
\* data migrations, which add up merged rows, nor backups and restores lose one.
THEOREM PlaysAreCounted == Spec => []PlaysCounted
<1>1. DInv => PlaysCounted
  BY DEF DInv, DataOK, Holds, HoldsPlays, PlaysCounted
<1> QED BY <1>1, UserDataInvariant, PTL

\* EntriesKept: a playlist loses what a request asked to remove or did not see, or what was
\* written after the request had read the list; nothing else ever goes.
THEOREM EntriesAreKept == Spec => EntriesKept
<1>1. ASSUME IInv, DInv, [Next]_vars, phase = "serving", phase' = "serving", NEW l \in Lists,
             db.lists[l] \notin {None, Unused}, db'.lists[l] # None
      PROVE  \/ \A m \in Media : Count(db.lists[l].tracks, m) <= Count(db'.lists[l].tracks, m)
             \/ \E c \in Clients :
                  /\ req[c].op = "save" /\ req[c].target = l /\ req'[c].op = "none"
                  /\ \/ req[c].stale
                     \/ \A m \in Media :
                          Count(db.lists[l].tracks, m) <= Count(db'.lists[l].tracks, m) + req[c].arg.lost[m]
  <2>1. IsDatabase(db) /\ Holds(db) /\ job.pc \notin Restoring
    BY <1>1 DEF IInv, FilesOK, Sound, RestoreOK, DInv, DataOK
  <2>2. CASE db'.lists[l] = db.lists[l]
    <3>1. db.lists[l].tracks \in Seq(Media)
      BY <1>1, <2>1 DEF Holds, HoldsLists, Playlists
    <3>2. \A m \in Media : Count(db.lists[l].tracks, m) \in Nat
      BY <3>1, PositionsFinite
    <3> QED BY <2>2, <3>2
  <2>3. ASSUME NEW c \in Clients, SavePlaylist(c), req[c].target = l
        PROVE  /\ req[c].op = "save" /\ req'[c].op = "none"
               /\ \/ req[c].stale
                  \/ \A m \in Media :
                       Count(db.lists[l].tracks, m) <= Count(db'.lists[l].tracks, m) + req[c].arg.lost[m]
    <3>1. req[c].op = "save" /\ db' = [db EXCEPT !.lists[l] = [owner |-> req[c].actor.name, tracks |-> req[c].arg.tracks]]
      BY <2>3 DEF SavePlaylist, WriteList, Serving
    <3>2. db'.lists[l].tracks = req[c].arg.tracks
      BY <2>1, <3>1 DEF IsDatabase, Holds, HoldsLists
    <3>3. req'[c] = Idle
      BY <2>3 DEF SavePlaylist, WriteList, Overtaking
    <3>4. req[c].stale = TRUE \/ Accounted(l, req[c].arg)
      BY <1>1, <2>3, <3>1 DEF DInv, KeepsData
    <3>5. Entries(l) = db.lists[l].tracks
      BY <1>1 DEF Entries
    <3> QED BY <3>1, <3>2, <3>3, <3>4, <3>5 DEF Accounted, Idle
  <2>4. ASSUME NEW c \in Clients, SavePlaylist(c) \/ DeletePlaylist(c) PROVE req[c].target = l \/ db'.lists[l] = db.lists[l]
    BY <2>1, <2>4 DEF SavePlaylist, DeletePlaylist, WriteList, IsDatabase, Holds, HoldsLists
  <2>5. ASSUME NEW c \in Clients, DeletePlaylist(c), req[c].target = l PROVE FALSE
    BY <1>1, <2>1, <2>5 DEF DeletePlaylist, WriteList, IsDatabase, Holds, HoldsLists
  <2>6. CASE AccountsNext
    <3>1. db' = db \/ \E t, account : SetAccount(t, account)
      BY <2>6 DEF AccountsNext, RequestPassword, RequestDelete, RequestPermissions,
         RequestCreate, CreateUser,
                  UpdatePassword, DeleteCheck, DeleteUser, UpdatePermissions
    <3> QED BY <2>1, <2>2, <3>1, SetAccountHolds
  <2>7. ASSUME NEW c \in Clients, UpdateMediaAnnotations(c) PROVE db'.lists[l] = db.lists[l]
    BY <2>1, <2>7 DEF UpdateMediaAnnotations, IsDatabase
  <2>8. CASE UserDataNext
    <3>1. ASSUME NEW c, NEW n, NEW m, NEW update, RequestAnnotation(c, n, m, update) PROVE db' = db
      BY <3>1 DEF RequestAnnotation
    <3>2. ASSUME NEW c, NEW n, NEW k,
                 \/ \E m \in Songs : RequestCreatePlaylist(c, n, k, m)
                 \/ RequestUpdatePlaylist(c, n, k) \/ RequestDeletePlaylist(c, n, k)
          PROVE  db' = db
      BY <3>2 DEF RequestCreatePlaylist, RequestUpdatePlaylist, RequestSave, RequestDeletePlaylist
    <3>3. ASSUME NEW m, Rescan(m) PROVE db' = db
      BY <3>3 DEF Rescan, accountVars
    <3>4. \/ db' = db
          \/ \E c \in Clients : UpdateMediaAnnotations(c) \/ SavePlaylist(c) \/ DeletePlaylist(c)
      BY <2>8, <3>1, <3>2, <3>3 DEF UserDataNext
    <3> QED BY <2>2, <2>3, <2>4, <2>5, <2>7, <3>4
  <2>9. CASE StartStep \/ Stop \/ Kill
    BY <1>1, <2>9 DEF StartStep, Open, Migrate, LoadKey, WriteKey, EnsureBootstrapAdmin, Stop,
       Kill, ProcessEnds
  <2>10. CASE Snapshot \/ WriteArchive \/ BackupFails \/ \E force \in BOOLEAN : Restore(force)
    <3>1. db' = db
      BY <2>10 DEF Snapshot, WriteArchive, BackupFails, Restore, userVars, accountVars
    <3> QED BY <2>2, <3>1
  <2>11. CASE RestoreStep
    BY <2>1, <2>11 DEF RestoreStep, PreserveDatabase, PreserveKey, CommitDatabase, CommitKey,
       RestoreFails, RestoreStuck, RestoreCrashes, Restoring
  <2>12. CASE UNCHANGED vars
    <3>1. db' = db
      BY <2>12 DEF vars, userVars, accountVars
    <3> QED BY <2>2, <3>1
  <2> QED BY <1>1, <2>6, <2>8, <2>9, <2>10, <2>11, <2>12 DEF Next, RestoreStep
<1>2. IInv /\ DInv /\ [Next]_vars =>
        [phase = "serving" /\ phase' = "serving" =>
           \A l \in Lists :
             db.lists[l] \notin {None, Unused} /\ db'.lists[l] # None =>
               \/ \A m \in Media : Count(db.lists[l].tracks, m) <= Count(db'.lists[l].tracks, m)
               \/ \E c \in Clients :
                    /\ req[c].op = "save" /\ req[c].target = l /\ req'[c].op = "none"
                    /\ \/ req[c].stale
                       \/ \A m \in Media :
                            Count(db.lists[l].tracks, m) <= Count(db'.lists[l].tracks, m) + req[c].arg.lost[m]
        ]_<<db, phase, req>>
  BY <1>1
<1> QED BY <1>2, StorageInvariant, UserDataInvariant, PTL DEF Spec, EntriesKept
==============================================================================
