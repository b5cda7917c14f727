---------------------------- MODULE PeerOperations ----------------------------
\* The operations of the Soulseek client that concern one remote user (doPeerJSON): a gate
\* per user, made when somebody needs it and forgotten when nobody does, lets one of them
\* through at a time; an operation slskd answers with "too many requests" is repeated.
EXTENDS Naturals, FiniteSets

CONSTANTS
  Requests,
  Names, Peers,      \* user names as they are spelled, and users
  Fold,              \* the user a spelling stands for: case and blanks do not count
  NameOf,            \* the spelling each request has
  Gates,             \* places for gates in memory, as many as requests
  NoGate,
  PeerAttempts       \* peerBusyRetryAttempts

ASSUME PeerAssumption ==
  /\ Fold \in [Names -> Peers] /\ NameOf \in [Requests -> Names]
  /\ NoGate \notin Gates /\ PeerAttempts \in Nat \ {0}
  /\ IsFiniteSet(Requests) /\ IsFiniteSet(Gates) /\ Cardinality(Gates) >= Cardinality(Requests)

VARIABLES
  gateOf,     \* peerOperations: the gate of each peer
  gates,      \* the users count of every gate, and whether its semaphore is taken
  op          \* the operation of every request

peerVars == <<gateOf, gates, op>>

PeerOf(r) == Fold[NameOf[r]]
Unstarted == [at |-> "none", gate |-> NoGate, tries |-> 0, answer |-> "none"]

PeerInit ==
  /\ gateOf = [p \in Peers |-> NoGate]
  /\ gates = [g \in Gates |-> [users |-> 0, taken |-> FALSE]]
  /\ op = [r \in Requests |-> Unstarted]

\* Memory nobody refers to.
Garbage == {g \in Gates : /\ \A p \in Peers : gateOf[p] # g
                          /\ \A r \in Requests : op[r].gate # g}

\* acquirePeerOperation up to the select: the gate of the peer, a new one if there is none.
AcquirePeer(r) ==
  LET p == PeerOf(r)
      fresh == CHOOSE g \in Garbage : TRUE
      g == IF gateOf[p] = NoGate THEN fresh ELSE gateOf[p]
  IN  /\ op[r].at = "none"
      /\ gateOf' = [gateOf EXCEPT ![p] = g]
      /\ gates' = IF gateOf[p] = NoGate
                  THEN [gates EXCEPT ![g] = [users |-> 1, taken |-> FALSE]]
                  ELSE [gates EXCEPT ![g].users = @ + 1]
      /\ op' = [op EXCEPT ![r].at = "waiting", ![r].gate = g]

EnterGate(r) ==
  /\ op[r].at = "waiting"
  /\ ~gates[op[r].gate].taken
  /\ gates' = [gates EXCEPT ![op[r].gate].taken = TRUE]
  /\ op' = [op EXCEPT ![r].at = "inside", ![r].tries = 1]
  /\ UNCHANGED gateOf

\* Mutant: the gate is forgotten as soon as one of its users is done with it.
ForgetAtOnce(r) ==
  LET g == op[r].gate  p == PeerOf(r)
  IN  /\ gates' = [gates EXCEPT ![g].users = @ - 1]
      /\ gateOf' = IF gateOf[p] = g THEN [gateOf EXCEPT ![p] = NoGate] ELSE gateOf

\* releasePeerOperation: the last user forgets the gate.
ReleaseUser(r) ==
  LET g == op[r].gate  p == PeerOf(r)
  IN  /\ gates' = [gates EXCEPT ![g].users = @ - 1]
      /\ gateOf' = IF gates[g].users = 1 /\ gateOf[p] = g
                   THEN [gateOf EXCEPT ![p] = NoGate] ELSE gateOf

\* The client goes away while its request waits for the gate.
LeaveQueue(r) ==
  /\ op[r].at = "waiting"
  /\ ReleaseUser(r)
  /\ op' = [op EXCEPT ![r].at = "done", ![r].gate = NoGate, ![r].answer = "error"]

\* slskd answers; anything but "too many requests" ends the operation.
PeerAnswer(r) ==
  /\ op[r].at = "inside"
  /\ \E answer \in {"ok", "error"} : op' = [op EXCEPT ![r].at = "leaving", ![r].answer = answer]
  /\ UNCHANGED <<gateOf, gates>>

PeerBusy(r) ==
  /\ op[r].at = "inside"
  /\ op' = [op EXCEPT ![r].at = IF op[r].tries = PeerAttempts THEN "leaving" ELSE "pausing",
                      ![r].answer = "error"]
  /\ UNCHANGED <<gateOf, gates>>

PeerRetry(r) ==
  /\ op[r].at = "pausing"
  /\ op' = [op EXCEPT ![r].at = "inside", ![r].tries = @ + 1]
  /\ UNCHANGED <<gateOf, gates>>

\* The client goes away during the pause.
LeavePause(r) ==
  /\ op[r].at = "pausing"
  /\ op' = [op EXCEPT ![r].at = "leaving"]
  /\ UNCHANGED <<gateOf, gates>>

\* The deferred release: first the semaphore, then the count of users.
LeaveGate(r) ==
  /\ op[r].at = "leaving"
  /\ gates' = [gates EXCEPT ![op[r].gate].taken = FALSE]
  /\ op' = [op EXCEPT ![r].at = "released"]
  /\ UNCHANGED gateOf

ReleasePeer(r) ==
  /\ op[r].at = "released"
  /\ ReleaseUser(r)
  /\ op' = [op EXCEPT ![r].at = "done", ![r].gate = NoGate]

PeerProgress(r) ==
  \/ EnterGate(r) \/ PeerAnswer(r) \/ PeerBusy(r) \/ PeerRetry(r) \/ LeaveGate(r) \/ ReleasePeer(r)
PeerStep(r) == PeerProgress(r) \/ LeaveQueue(r) \/ LeavePause(r)

Operating(p) == {r \in Requests : PeerOf(r) = p /\ op[r].at \in {"inside", "pausing", "leaving"}}

Turns == INSTANCE PeerTurns WITH turn <- [p \in Peers |-> Operating(p)]

\* The gates implement PeerTurns: Soulseek.NET permits one operation per peer, so there is
\* never a second one for a peer, however its name is spelled, whoever gives up waiting and
\* whenever a gate is forgotten and made anew.
PeersTakeTurns == Turns!Spec
=============================================================================
