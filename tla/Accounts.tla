------------------------------ MODULE Accounts ------------------------------
\* The user service: accounts in the database, requests that change them, the mutex
\* that orders the changes, and the key that seals the credentials of an account.
\*
\* UserData adds what users keep in the same database, Storage adds start-up, backup
\* and restore and states the specification of the three modules together.
EXTENDS Naturals, FiniteSets

CONSTANTS Names,           \* usernames
          Bootstrap,       \* the administrator of the configuration
          Clients,         \* requests that may be under way at a time
          Scenarios,       \* sets of events: what clients and operators do in a behaviour
          None             \* no account, no playlist, no file, nobody

VARIABLES
  events,   \* the scenario of this behaviour
  phase,    \* of the server process: down, opening, key, newkey, bootstrap, serving
  db,       \* the contents of the database, or None
  codec,    \* the key the running process has loaded
  mu,       \* UserService.mu: the client that holds it
  req       \* the request each client has under way

accountVars == <<events, phase, db, codec, mu, req>>

ASSUME AccountsAssumption ==
  /\ Bootstrap \in Names /\ IsFiniteSet(Names) /\ IsFiniteSet(Clients)
  /\ None \notin Names \cup Clients

-----------------------------------------------------------------------------

Manage == "users.manage"
Account(role, perms, sealed) == [role |-> role, perms |-> perms, sealed |-> sealed]
HasAccount(n) == db.users[n] # None
IsAdmin(user) == user.role = "admin"
HasPermission(user, p) == IsAdmin(user) \/ p \in user.perms
Administrators == {n \in Names : HasAccount(n) /\ IsAdmin(db.users[n])}

\* A request keeps the user it was authenticated as: later steps do not look again.
\* stale: what it looked at has been replaced since (history only).
Idle == [op |-> "none", actor |-> None, target |-> None, arg |-> None, stale |-> FALSE]
User(n) == [name |-> n, role |-> db.users[n].role, perms |-> db.users[n].perms]
Admit(c, n, op, target, arg) ==
  req' = [req EXCEPT ![c] = [op |-> op, actor |-> User(n), target |-> target, arg |-> arg, stale |-> FALSE]]
Answered(c) == [req EXCEPT ![c] = Idle]
\* The answer to a request that has replaced t, which others may have looked at.
Overtaking(c, t) ==
  [d \in Clients |-> IF d = c THEN Idle
                     ELSE IF req[d].target = t THEN [req[d] EXCEPT !.stale = TRUE] ELSE req[d]]
Serving(c, op) == phase = "serving" /\ req[c].op = op

SetAccount(n, account) == db' = [db EXCEPT !.users[n] = account]

\* Authentication and the permission the route requires.
Authenticated(c, n, permission) ==
  /\ "users" \in events
  /\ Serving(c, "none") /\ HasAccount(n)
  /\ HasPermission(User(n), permission)

-----------------------------------------------------------------------------
(* CreateUser.                                                                 *)

\* Who manages users without being an administrator creates plain users only.
RequestCreate(c, n, t, role, perms) ==
  /\ Authenticated(c, n, Manage)
  /\ IsAdmin(User(n)) \/ (role = "user" /\ perms = {})
  /\ Admit(c, n, "create", t, Account(role, IF role = "admin" THEN {} ELSE perms, codec))
  /\ UNCHANGED <<events, phase, db, codec, mu>>

\* INSERT ... ON CONFLICT DO NOTHING, in a transaction with the permissions.
CreateUser(c) ==
  LET t == req[c].target
  IN  /\ Serving(c, "create") /\ mu = None
      /\ IF HasAccount(t)
         THEN req' = Answered(c) /\ UNCHANGED db
         ELSE /\ SetAccount(t, req[c].arg)
              /\ req' = Overtaking(c, t)
      /\ UNCHANGED <<events, phase, codec, mu>>

-----------------------------------------------------------------------------
(* UpdatePassword: the target is looked up before the mutex is taken.          *)

\* Mutant: the role of the target is not looked at.
RequestAnyPassword(c, n, t) ==
  /\ Authenticated(c, n, Manage)
  /\ HasAccount(t)
  /\ Admit(c, n, "password", t, codec)
  /\ UNCHANGED <<events, phase, db, codec, mu>>

RequestPassword(c, n, t) ==
  /\ Authenticated(c, n, Manage)
  /\ \/ n = t
     \/ HasAccount(t) /\ (IsAdmin(db.users[t]) => IsAdmin(User(n)))
  /\ Admit(c, n, "password", t, codec)
  /\ UNCHANGED <<events, phase, db, codec, mu>>

UpdatePassword(c) ==
  LET t == req[c].target
  IN  /\ Serving(c, "password") /\ mu = None
      /\ IF HasAccount(t) THEN SetAccount(t, [db.users[t] EXCEPT !.sealed = req[c].arg]) ELSE UNCHANGED db
      /\ req' = Answered(c)
      /\ UNCHANGED <<events, phase, codec, mu>>

-----------------------------------------------------------------------------
(* DeleteUser.                                                                 *)

RequestDelete(c, n, t) ==
  /\ Authenticated(c, n, Manage)
  /\ n # t
  /\ Admit(c, n, "delete", t, None)
  /\ UNCHANGED <<events, phase, db, codec, mu>>

MayDelete(actor, t) ==
  /\ HasAccount(t)
  /\ IsAdmin(db.users[t]) => IsAdmin(actor) /\ Cardinality(Administrators) > 1

\* Mutant: the checks are made before the mutex is taken.
DeleteCheckUnlocked(c) ==
  /\ Serving(c, "delete")
  /\ req' = IF MayDelete(req[c].actor, req[c].target) THEN [req EXCEPT ![c].op = "deleting"] ELSE Answered(c)
  /\ UNCHANGED <<events, phase, db, codec, mu>>

\* The mutex is taken; the role of the target and the number of administrators are read.
DeleteCheck(c) ==
  /\ Serving(c, "delete") /\ mu = None
  /\ IF MayDelete(req[c].actor, req[c].target)
     THEN /\ mu' = c
          /\ req' = [req EXCEPT ![c].op = "deleting"]
     ELSE /\ UNCHANGED mu
          /\ req' = Answered(c)
  /\ UNCHANGED <<events, phase, db, codec>>

DeleteUser(c) ==
  /\ Serving(c, "deleting")
  /\ SetAccount(req[c].target, None)
  /\ mu' = None
  /\ req' = Answered(c)
  /\ UNCHANGED <<events, phase, codec>>

-----------------------------------------------------------------------------
(* UpdatePermissions: for administrators, of plain users.                      *)

RequestPermissions(c, n, t, perms) ==
  /\ Authenticated(c, n, Manage) /\ IsAdmin(User(n))
  /\ Admit(c, n, "permissions", t, perms)
  /\ UNCHANGED <<events, phase, db, codec, mu>>

UpdatePermissions(c) ==
  LET t == req[c].target
  IN  /\ Serving(c, "permissions") /\ mu = None
      /\ IF HasAccount(t) /\ ~IsAdmin(db.users[t])
         THEN SetAccount(t, [db.users[t] EXCEPT !.perms = req[c].arg])
         ELSE UNCHANGED db
      /\ req' = Answered(c)
      /\ UNCHANGED <<events, phase, codec, mu>>

-----------------------------------------------------------------------------

AccountsNext ==
  \E c \in Clients :
    \/ \E n, t \in Names :
         \/ RequestPassword(c, n, t) \/ RequestDelete(c, n, t)
         \/ \E perms \in {{}, {Manage}} :
              \/ RequestPermissions(c, n, t, perms)
              \/ \E role \in {"admin", "user"} : RequestCreate(c, n, t, role, perms)
    \/ CreateUser(c) \/ UpdatePassword(c) \/ DeleteCheck(c) \/ DeleteUser(c) \/ UpdatePermissions(c)

-----------------------------------------------------------------------------
(* Properties.                                                                 *)

\* While the server serves there is an administrator, whatever administrators and managers
\* delete at the same time, and also after restarts and restores.
AdministratorRemains == phase = "serving" => Administrators # {}

\* An administrator's account is changed or deleted only for an administrator, or for
\* itself; the one exception is an account that took the name of the account the request
\* had looked at, after it had looked (UpdatePassword checks the role without the mutex).
AdministratorsGuarded ==
  [][\A c \in Clients :
       LET r == req[c]
       IN  /\ phase' = "serving" /\ r.target \in Administrators
           /\ r.op \in {"password", "deleting"} /\ req'[c].op = "none"
           => IsAdmin(r.actor) \/ r.actor.name = r.target \/ r.stale]_<<db, phase, req>>
=============================================================================
