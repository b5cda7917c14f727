---------------------------- MODULE SearchProofs ----------------------------
(* The peer operations of Search implement PeerTurns, for any number of requests, users *)
(* and spellings.                                                                       *)
EXTENDS Search, FiniteSetTheorems, TLAPS

-----------------------------------------------------------------------------
\* The inductive invariant.

HoldingAt == {"inside", "pausing", "leaving"}
GateAt == HoldingAt \cup {"waiting", "released"}

Operation == [at : GateAt \cup {"none", "done"}, gate : Gates \cup {NoGate}, tries : Nat,
              answer : {"none", "ok", "error"}]

PeerTypeOK ==
  /\ gateOf \in [Peers -> Gates \cup {NoGate}]
  /\ gates \in [Gates -> [users : Nat, taken : BOOLEAN]]
  /\ op \in [Requests -> Operation]

\* A request that is between its acquisition and its release has the gate of its peer, and
\* no other request has any gate.
GatesFound ==
  \A r \in Requests :
    IF op[r].at \in GateAt THEN op[r].gate \in Gates /\ gateOf[PeerOf(r)] = op[r].gate
    ELSE op[r].gate = NoGate

\* A gate belongs to one peer, ...
GatesOwned == \A p, q \in Peers : gateOf[p] = gateOf[q] /\ gateOf[p] # NoGate => p = q

\* ... it is known as long as somebody uses it, and counts its users.
Users(g) == {r \in Requests : op[r].gate = g}
UsersCounted ==
  /\ \A g \in Gates : gates[g].users = Cardinality(Users(g))
  /\ \A p \in Peers : gateOf[p] # NoGate => \E r \in Requests : op[r].gate = gateOf[p]

\* The semaphore of a gate is taken while a request is past it, and one request at most is.
SemaphoresHeld ==
  /\ \A r \in Requests : op[r].at \in HoldingAt => gates[op[r].gate].taken
  /\ \A r, s \in Requests :
       op[r].at \in HoldingAt /\ op[s].at \in HoldingAt /\ op[r].gate = op[s].gate => r = s

IInv == PeerTypeOK /\ GatesFound /\ GatesOwned /\ UsersCounted /\ SemaphoresHeld

\* peerOperations is empty at first.
LEMMA InitIInv == PeerInit => IInv
<1> SUFFICES ASSUME PeerInit PROVE IInv
  OBVIOUS
<1> USE PeerAssumption DEF PeerInit, Unstarted, PeerOf
<1>1. PeerTypeOK /\ GatesFound /\ GatesOwned /\ SemaphoresHeld
  BY DEF PeerTypeOK, Operation, GatesFound, GatesOwned, SemaphoresHeld, GateAt, HoldingAt
<1>2. \A g \in Gates : Users(g) = {}
  BY DEF Users
<1>3. UsersCounted
  BY <1>2, FS_EmptySet DEF UsersCounted
<1> QED BY <1>1, <1>3 DEF IInv

\* The users of a gate are finitely many.
LEMMA UsersFinite ==
  ASSUME NEW g
  PROVE  IsFiniteSet(Users(g)) /\ Cardinality(Users(g)) \in Nat
BY PeerAssumption, FS_Subset, FS_CardinalityType DEF Users

\* There is memory for a new gate: every gate that is known or held has a user, and the
\* request that asks for one is not among them.
LEMMA GateAvailable ==
  ASSUME IInv, NEW r \in Requests, op[r].at = "none"
  PROVE  Garbage # {}
<1> SUFFICES ASSUME Garbage = {} PROVE FALSE
  OBVIOUS
<1> DEFINE T == Requests \ {r}
           h == [g \in Gates |-> CHOOSE s \in T : op[s].gate = g]
<1>1. op[r].gate = NoGate
  BY DEF IInv, GatesFound, GateAt, HoldingAt
<1>2. \A g \in Gates : \E s \in T : op[s].gate = g
  <2> SUFFICES ASSUME NEW g \in Gates PROVE \E s \in T : op[s].gate = g
    OBVIOUS
  <2>1. g # NoGate
    BY PeerAssumption
  <2>2. (\E p \in Peers : gateOf[p] = g) \/ \E s \in Requests : op[s].gate = g
    BY DEF Garbage
  <2>3. \E s \in Requests : op[s].gate = g
    BY <2>1, <2>2 DEF IInv, UsersCounted, Users
  <2> QED BY <1>1, <2>1, <2>3
<1>3. \A g \in Gates : h[g] \in T /\ op[h[g]].gate = g
  BY <1>2
<1>4. h \in Injection(Gates, T)
  BY <1>3 DEF Injection, IsInjective
<1>5. IsFiniteSet(T) /\ Cardinality(T) = Cardinality(Requests) - 1
  BY FS_RemoveElement, PeerAssumption
<1>6. Cardinality(Gates) <= Cardinality(T)
  BY <1>4, <1>5, FS_Injection
<1>7. Cardinality(Gates) \in Nat /\ Cardinality(Requests) \in Nat
  BY FS_CardinalityType, PeerAssumption
<1> QED BY <1>5, <1>6, <1>7, PeerAssumption
-----------------------------------------------------------------------------
\* Acquisition and release.

\* acquirePeerOperation finds the gate of the peer or makes one that nobody else has, and
\* counts its new user.
LEMMA AcquireIInv ==
  ASSUME IInv, NEW r \in Requests, AcquirePeer(r)
  PROVE  IInv'
<1> USE PeerAssumption DEF PeerOf
<1> DEFINE p == PeerOf(r)
<1> PICK g : g = gateOf'[p]
  OBVIOUS
<1>1. p \in Peers /\ op[r].at = "none" /\ op[r].gate = NoGate /\ op[r] \in Operation
  BY DEF IInv, PeerTypeOK, GatesFound, AcquirePeer, GateAt, HoldingAt
<1>2. \/ g = gateOf[p] /\ gateOf' = gateOf /\ g \in Gates /\ gates' = [gates EXCEPT ![g].users = @ + 1]
      \/ /\ gateOf[p] = NoGate /\ g \in Garbage /\ gateOf' = [gateOf EXCEPT ![p] = g]
         /\ gates' = [gates EXCEPT ![g] = [users |-> 1, taken |-> FALSE]]
  <2>1. CASE gateOf[p] = NoGate
    <3>1. (CHOOSE x \in Garbage : TRUE) \in Garbage
      BY <1>1, GateAvailable
    <3> QED BY <1>1, <2>1, <3>1 DEF AcquirePeer, IInv, PeerTypeOK, Garbage
  <2>2. CASE gateOf[p] # NoGate
    BY <1>1, <2>2 DEF AcquirePeer, IInv, PeerTypeOK
  <2> QED BY <2>1, <2>2
<1>3. g \in Gates /\ op' = [op EXCEPT ![r].at = "waiting", ![r].gate = g]
  BY <1>1, <1>2 DEF AcquirePeer, Garbage, IInv, PeerTypeOK
<1>4. PeerTypeOK'
  <2>1. [op[r] EXCEPT !.at = "waiting", !.gate = g] \in Operation
    BY <1>1, <1>3 DEF Operation, GateAt
  <2>2. op' \in [Requests -> Operation]
    BY <1>3, <2>1 DEF IInv, PeerTypeOK
  <2>3. gateOf' \in [Peers -> Gates \cup {NoGate}]
    BY <1>1, <1>2, <1>3 DEF IInv, PeerTypeOK
  <2>4. gates' \in [Gates -> [users : Nat, taken : BOOLEAN]]
    <3>1. gates[g] \in [users : Nat, taken : BOOLEAN]
      BY <1>3 DEF IInv, PeerTypeOK
    <3>2. [gates[g] EXCEPT !.users = @ + 1] \in [users : Nat, taken : BOOLEAN]
      BY <3>1
    <3>3. [users |-> 1, taken |-> FALSE] \in [users : Nat, taken : BOOLEAN]
      OBVIOUS
    <3> QED BY <1>2, <1>3, <3>2, <3>3 DEF IInv, PeerTypeOK
  <2> QED BY <2>2, <2>3, <2>4 DEF PeerTypeOK
<1>5. GatesFound'
  BY <1>1, <1>2, <1>3 DEF IInv, PeerTypeOK, GatesFound, GateAt, HoldingAt, Garbage
<1>6. GatesOwned'
  BY <1>1, <1>2, <1>3 DEF IInv, PeerTypeOK, GatesOwned, Garbage
<1>7. SemaphoresHeld'
  BY <1>1, <1>2, <1>3 DEF IInv, PeerTypeOK, SemaphoresHeld, GatesFound, GateAt, HoldingAt, Garbage
<1>8. UsersCounted'
  <2>1. Users(g)' = Users(g) \cup {r} /\ r \notin Users(g)
    BY <1>1, <1>3 DEF Users, IInv, PeerTypeOK
  <2>2. \A x \in Gates \ {g} : Users(x)' = Users(x) /\ gates'[x] = gates[x]
    BY <1>1, <1>2, <1>3 DEF Users, IInv, PeerTypeOK, Garbage
  <2>3. Cardinality(Users(g)') = Cardinality(Users(g)) + 1
    BY <2>1, UsersFinite, FS_AddElement
  <2>4. gates'[g].users = Cardinality(Users(g)')
    <3>1. CASE g = gateOf[p]
      BY <1>1, <1>2, <1>3, <2>3, <3>1 DEF IInv, UsersCounted, PeerTypeOK, Garbage
    <3>2. CASE g \in Garbage
      <4>1. Users(g) = {}
        BY <3>2 DEF Garbage, Users
      <4>2. gates'[g].users = 1
        BY <1>1, <1>2, <1>3, <3>2 DEF Garbage, IInv, PeerTypeOK
      <4> QED BY <2>3, <4>1, <4>2, FS_EmptySet
    <3> QED BY <1>2, <3>1, <3>2
  <2>5. \A q \in Peers : gateOf'[q] # NoGate => \E s \in Requests : op'[s].gate = gateOf'[q]
    BY <1>1, <1>2, <1>3 DEF IInv, UsersCounted, PeerTypeOK
  <2> QED BY <2>2, <2>4, <2>5 DEF IInv, UsersCounted
<1> QED BY <1>4, <1>5, <1>6, <1>7, <1>8 DEF IInv

\* releasePeerOperation: the gate is forgotten by its last user, and by nobody else.
LEMMA ReleaseIInv ==
  ASSUME IInv, NEW r \in Requests, op[r].at \in {"waiting", "released"}, ReleaseUser(r),
         NEW answer \in {"none", "ok", "error"},
         op' = [op EXCEPT ![r].at = "done", ![r].gate = NoGate, ![r].answer = answer]
  PROVE  IInv'
<1> USE PeerAssumption DEF PeerOf
<1> DEFINE p == PeerOf(r)
<1> PICK g : g = op[r].gate
  OBVIOUS
<1>1. p \in Peers /\ g \in Gates /\ gateOf[p] = g /\ g # NoGate
  BY DEF IInv, PeerTypeOK, GatesFound, GateAt, HoldingAt
<1>2. /\ gates' = [gates EXCEPT ![g].users = @ - 1]
      /\ gateOf' = IF gates[g].users = 1 THEN [gateOf EXCEPT ![p] = NoGate] ELSE gateOf
  BY <1>1 DEF ReleaseUser
<1>3. r \in Users(g) /\ Users(g)' = Users(g) \ {r}
  BY <1>1 DEF Users, IInv, PeerTypeOK
<1>4. \A x \in Gates \ {g} : Users(x)' = Users(x) /\ gates'[x] = gates[x]
  BY <1>1, <1>2 DEF Users, IInv, PeerTypeOK
<1>5. /\ Cardinality(Users(g)') = gates[g].users - 1
      /\ gates[g].users \in Nat \ {0}
      /\ gates[g].users = 1 <=> Users(g)' = {}
  <2>1. Cardinality(Users(g)') = Cardinality(Users(g)) - 1 /\ IsFiniteSet(Users(g)')
    BY <1>3, UsersFinite, FS_RemoveElement
  <2>2. Cardinality(Users(g)) # 0
    BY <1>3, UsersFinite, FS_EmptySet
  <2>3. gates[g].users = Cardinality(Users(g)) /\ Cardinality(Users(g)) \in Nat
    BY <1>1, UsersFinite DEF IInv, UsersCounted
  <2>4. Cardinality(Users(g)') = 0 <=> Users(g)' = {}
    BY <2>1, FS_EmptySet
  <2> QED BY <2>1, <2>2, <2>3, <2>4
<1>6. PeerTypeOK'
  <2>1. op[r] \in Operation
    BY DEF IInv, PeerTypeOK
  <2>2. [op[r] EXCEPT !.at = "done", !.gate = NoGate, !.answer = answer] \in Operation
    BY <2>1 DEF Operation
  <2>3. op' \in [Requests -> Operation]
    BY <2>2 DEF IInv, PeerTypeOK
  <2>4. gateOf' \in [Peers -> Gates \cup {NoGate}] /\ gates' \in [Gates -> [users : Nat, taken : BOOLEAN]]
    BY <1>1, <1>2, <1>5 DEF IInv, PeerTypeOK
  <2> QED BY <2>3, <2>4 DEF PeerTypeOK
<1>7. gates[g].users = 1 => \A s \in Requests \ {r} : op[s].gate # g
  BY <1>3, <1>5 DEF Users
<1>8. GatesFound'
  BY <1>1, <1>2, <1>7 DEF IInv, PeerTypeOK, GatesFound, GateAt, HoldingAt
<1>9. GatesOwned'
  BY <1>1, <1>2 DEF IInv, PeerTypeOK, GatesOwned
<1>10. SemaphoresHeld'
  BY <1>1, <1>2 DEF IInv, PeerTypeOK, SemaphoresHeld, GatesFound, GateAt, HoldingAt
<1>11. UsersCounted'
  <2>1. gates'[g].users = Cardinality(Users(g)')
    BY <1>1, <1>2, <1>5 DEF IInv, PeerTypeOK
  <2>2. \A q \in Peers : gateOf'[q] # NoGate => \E s \in Requests : op'[s].gate = gateOf'[q]
    <3> SUFFICES ASSUME NEW q \in Peers, gateOf'[q] # NoGate
                 PROVE  \E s \in Requests : op'[s].gate = gateOf'[q]
      OBVIOUS
    <3>1. gateOf'[q] = gateOf[q] /\ gateOf[q] \in Gates /\ (q = p => gates[g].users # 1)
      BY <1>1, <1>2 DEF IInv, PeerTypeOK
    <3>2. CASE q = p
      BY <1>1, <1>5, <3>1, <3>2 DEF Users
    <3>3. CASE q # p
      <4>1. PICK s \in Requests : op[s].gate = gateOf[q]
        BY <3>1, PeerAssumption DEF IInv, UsersCounted
      <4>2. s # r
        BY <1>1, <3>1, <3>3, <4>1 DEF IInv, GatesOwned
      <4> QED BY <3>1, <4>1, <4>2 DEF IInv, PeerTypeOK
    <3> QED BY <3>2, <3>3
  <2> QED BY <1>4, <2>1, <2>2 DEF IInv, UsersCounted
<1> QED BY <1>6, <1>8, <1>9, <1>10, <1>11 DEF IInv

\* The steps at the gate: a request passes it only while nobody else is past it.
LEMMA GateIInv ==
  ASSUME IInv, NEW r \in Requests,
         EnterGate(r) \/ PeerAnswer(r) \/ PeerBusy(r) \/ PeerRetry(r) \/ LeavePause(r) \/ LeaveGate(r)
  PROVE  IInv'
<1> USE PeerAssumption DEF PeerOf, GateAt, HoldingAt
<1>1. op[r].gate \in Gates
  BY DEF IInv, PeerTypeOK, GatesFound, EnterGate, PeerAnswer, PeerBusy, PeerRetry, LeavePause, LeaveGate
<1>9. \E new \in Operation : op' = [op EXCEPT ![r] = new] /\ new.gate = op[r].gate
  <2>1. op \in [Requests -> Operation] /\ op[r] \in Operation
    BY DEF IInv, PeerTypeOK
  <2>2. CASE EnterGate(r)
    <3> DEFINE new == [op[r] EXCEPT !.at = "inside", !.tries = 1]
    <3>1. new \in Operation /\ new.gate = op[r].gate
      BY <2>1 DEF Operation
    <3>2. op' = [op EXCEPT ![r] = new]
      BY <2>1, <2>2 DEF EnterGate
    <3> QED BY <3>1, <3>2
  <2>3. CASE PeerAnswer(r)
    <3>3. PICK x \in {"ok", "error"} : op' = [op EXCEPT ![r].at = "leaving", ![r].answer = x]
      BY <2>3 DEF PeerAnswer
    <3> DEFINE new == [op[r] EXCEPT !.at = "leaving", !.answer = x]
    <3>1. new \in Operation /\ new.gate = op[r].gate
      BY <2>1 DEF Operation
    <3>2. op' = [op EXCEPT ![r] = new]
      BY <2>1, <3>3
    <3> QED BY <3>1, <3>2
  <2>4. CASE PeerBusy(r)
    <3>3. PICK x \in {"leaving", "pausing"} : op' = [op EXCEPT ![r].at = x, ![r].answer = "error"]
      BY <2>4 DEF PeerBusy
    <3> DEFINE new == [op[r] EXCEPT !.at = x, !.answer = "error"]
    <3>1. new \in Operation /\ new.gate = op[r].gate
      BY <2>1 DEF Operation
    <3>2. op' = [op EXCEPT ![r] = new]
      BY <2>1, <3>3
    <3> QED BY <3>1, <3>2
  <2>5. CASE PeerRetry(r)
    <3> DEFINE new == [op[r] EXCEPT !.at = "inside", !.tries = op[r].tries + 1]
    <3>1. new \in Operation /\ new.gate = op[r].gate
      <4>1. op[r].tries \in Nat
        BY <2>1 DEF Operation
      <4>2. PICK n \in Nat : n = op[r].tries + 1
        BY <4>1
      <4> QED BY <2>1, <4>2 DEF Operation
    <3>2. op' = [op EXCEPT ![r] = new]
      BY <2>1, <2>5 DEF PeerRetry
    <3> QED BY <3>1, <3>2
  <2>6. CASE LeavePause(r)
    <3> DEFINE new == [op[r] EXCEPT !.at = "leaving"]
    <3>1. new \in Operation /\ new.gate = op[r].gate
      BY <2>1 DEF Operation
    <3>2. op' = [op EXCEPT ![r] = new]
      BY <2>1, <2>6 DEF LeavePause
    <3> QED BY <3>1, <3>2
  <2>7. CASE LeaveGate(r)
    <3> DEFINE new == [op[r] EXCEPT !.at = "released"]
    <3>1. new \in Operation /\ new.gate = op[r].gate
      BY <2>1 DEF Operation
    <3>2. op' = [op EXCEPT ![r] = new]
      BY <2>1, <2>7 DEF LeaveGate
    <3> QED BY <3>1, <3>2
  <2> QED BY <2>2, <2>3, <2>4, <2>5, <2>6, <2>7
<1>10. /\ gates' \in [Gates -> [users : Nat, taken : BOOLEAN]]
       /\ \A g \in Gates : gates'[g].users = gates[g].users
  <2>1. CASE gates' = gates
    BY <2>1 DEF IInv, PeerTypeOK
  <2>2. ASSUME NEW b \in BOOLEAN, gates' = [gates EXCEPT ![op[r].gate].taken = b]
        PROVE  /\ gates' \in [Gates -> [users : Nat, taken : BOOLEAN]]
               /\ \A g \in Gates : gates'[g].users = gates[g].users
    <3>1. \A g \in Gates : gates'[g] \in [users : Nat, taken : BOOLEAN] /\ gates'[g].users = gates[g].users
      BY <1>1, <2>2 DEF IInv, PeerTypeOK
    <3> QED BY <1>1, <2>2, <3>1 DEF IInv, PeerTypeOK
  <2> QED BY <2>1, <2>2 DEF EnterGate, PeerAnswer, PeerBusy, PeerRetry, LeavePause, LeaveGate
<1>2. /\ gateOf' = gateOf
      /\ PeerTypeOK'
      /\ \A s \in Requests \ {r} : op'[s] = op[s]
      /\ op'[r].gate = op[r].gate
      /\ \A g \in Gates : gates'[g].users = gates[g].users
  <2>1. gateOf' = gateOf
    BY DEF EnterGate, PeerAnswer, PeerBusy, PeerRetry, LeavePause, LeaveGate
  <2>2. op' \in [Requests -> Operation]
        /\ op'[r].gate = op[r].gate /\ \A s \in Requests \ {r} : op'[s] = op[s]
    BY <1>1, <1>9 DEF IInv, PeerTypeOK
  <2> QED BY <1>10, <2>1, <2>2 DEF IInv, PeerTypeOK
<1>6. /\ op[r].at \in GateAt /\ op'[r].at \in GateAt
      /\ \/ op'[r].at \in HoldingAt /\ op[r].at \in HoldingAt /\ gates' = gates
         \/ op[r].at \notin HoldingAt /\ ~gates[op[r].gate].taken /\ gates'[op[r].gate].taken
            /\ \A g \in Gates \ {op[r].gate} : gates'[g] = gates[g]
         \/ op[r].at \in HoldingAt /\ op'[r].at \notin HoldingAt
            /\ \A g \in Gates \ {op[r].gate} : gates'[g] = gates[g]
  <2> USE <1>1 DEF IInv, PeerTypeOK
  <2>1. CASE EnterGate(r)
    BY <2>1 DEF EnterGate
  <2>2. CASE PeerAnswer(r) \/ PeerBusy(r) \/ PeerRetry(r) \/ LeavePause(r)
    BY <2>2 DEF PeerAnswer, PeerBusy, PeerRetry, LeavePause, Operation
  <2>3. CASE LeaveGate(r)
    BY <2>3 DEF LeaveGate
  <2> QED BY <2>1, <2>2, <2>3
<1>7. GatesFound'
  BY <1>2, <1>6 DEF IInv, GatesFound
<1>8. SemaphoresHeld'
  BY <1>2, <1>6 DEF IInv, GatesFound, SemaphoresHeld
<1>3. GatesOwned'
  BY <1>2 DEF IInv, GatesOwned
<1>4. \A g : Users(g)' = Users(g)
  BY <1>2 DEF Users
<1>5. UsersCounted'
  BY <1>2, <1>4 DEF IInv, UsersCounted
<1> QED BY <1>2, <1>3, <1>5, <1>7, <1>8 DEF IInv

\* Every step of a request with a peer keeps the invariant.
LEMMA PeerIInv ==
  ASSUME IInv, NEW r \in Requests, AcquirePeer(r) \/ PeerStep(r)
  PROVE  IInv'
<1>1. CASE LeaveQueue(r)
  BY <1>1, ReleaseIInv DEF LeaveQueue
<1>2. CASE ReleasePeer(r)
  <2>1. op' = [op EXCEPT ![r].at = "done", ![r].gate = NoGate, ![r].answer = op[r].answer]
    BY <1>2 DEF ReleasePeer, IInv, PeerTypeOK
  <2>2. op[r].answer \in {"none", "ok", "error"}
    BY DEF IInv, PeerTypeOK, Operation
  <2> QED BY <1>2, <2>1, <2>2, ReleaseIInv DEF ReleasePeer
<1> QED BY <1>1, <1>2, AcquireIInv, GateIInv DEF PeerStep, PeerProgress
-----------------------------------------------------------------------------
\* What the steps of the searches, the discovery service, the covers and Close have to do
\* with the gates: an acquisition, a step of an operation with a peer, or nothing.
LEMMA StepOfPeer ==
  ASSUME [Next]_vars
  PROVE  UNCHANGED peerVars \/ \E r \in Requests : AcquirePeer(r) \/ PeerStep(r)
<1>1. CASE UNCHANGED vars
  BY <1>1 DEF vars
<1>2. CASE \E r \in Requests : RequestStep(r)
  <2>1. PICK r \in Requests : RequestStep(r)
    BY <1>2
  <2>2. CASE PreviewBrowse(r) \/ ArtworkLead(r)
    BY <2>2 DEF PreviewBrowse, ArtworkLead
  <2>3. CASE PeerOperation(r)
    BY <2>3 DEF PeerOperation, PeerStep
  <2>4. CASE SearchStep(r) \/ KeepResults(r) \/ Lookup(r) \/ PreviewKnown(r) \/ PreviewRefused(r)
             \/ PreviewKeep(r)
    BY <2>4 DEF SearchStep, KeepResults, Lookup, PreviewKnown, PreviewRefused, PreviewKeep
  <2>5. CASE ArtworkCached(r) \/ ArtworkMissing(r) \/ ArtworkJoin(r) \/ ArtworkEnqueued(r)
             \/ ArtworkRefused(r) \/ ArtworkAnswered(r)
    BY <2>5 DEF ArtworkCached, ArtworkMissing, ArtworkJoin, ArtworkEnqueued, ArtworkRefused,
                ArtworkAnswered
  <2> QED BY <2>1, <2>2, <2>3, <2>4, <2>5 DEF RequestStep
<1>3. CASE \E r \in Requests : ClientGone(r)
  BY <1>3 DEF ClientGone, SearchCancelled, ArtworkCancelled, PeerCancelled, PeerStep
<1>4. CASE \E r \in Requests : MonitorStep(r) \/ TransferEnds(r)
  BY <1>4 DEF MonitorStep, TransferEnds
<1>5. CASE \E s \in DOMAIN searches : DeleteSearch(s) \/ CleanupCancelled(s)
  BY <1>5 DEF DeleteSearch, CleanupCancelled
<1>6. CASE (\E d \in Results : Age(d)) \/ CloseSearches \/ CloseStep \/ Quiet
  BY <1>6 DEF Age, CloseSearches, CloseStep, CloseDownloads, CloseDone, Quiet, vars
<1> QED BY <1>1, <1>2, <1>3, <1>4, <1>5, <1>6 DEF Next

\* Nothing else concerns the gates.
LEMMA StepIInv ==
  ASSUME IInv, [Next]_vars
  PROVE  IInv'
<1>1. CASE UNCHANGED peerVars
  BY <1>1 DEF IInv, PeerTypeOK, GatesFound, GatesOwned, UsersCounted, Users, SemaphoresHeld, peerVars
<1>2. CASE \E r \in Requests : AcquirePeer(r) \/ PeerStep(r)
  BY <1>2, PeerIInv
<1> QED BY <1>1, <1>2, StepOfPeer

\* peerOperations, as acquirePeerOperation and releasePeerOperation keep it: a gate is
\* shared by the requests of one peer, counts them exactly, is forgotten by the last one,
\* and its semaphore is held by one of them at most.
THEOREM GatesKept == Spec => []IInv
<1>1. Init => IInv
  BY InitIInv DEF Init
<1>2. IInv /\ [Next]_vars => IInv'
  BY StepIInv
<1> QED BY <1>1, <1>2, PTL DEF Spec

-----------------------------------------------------------------------------
\* The refinement.

\* A request that leaves the set of operating ones, or enters it, or neither.
LEMMA OperatingStep ==
  ASSUME IInv, NEW r \in Requests, AcquirePeer(r) \/ PeerStep(r)
  PROVE  \/ \A p \in Peers : Operating(p)' = Operating(p)
         \/ /\ Operating(PeerOf(r)) = {} /\ Operating(PeerOf(r))' = {r}
            /\ \A p \in Peers \ {PeerOf(r)} : Operating(p)' = Operating(p)
         \/ /\ Operating(PeerOf(r)) = {r} /\ Operating(PeerOf(r))' = {}
            /\ \A p \in Peers \ {PeerOf(r)} : Operating(p)' = Operating(p)
<1> DEFINE H == {"inside", "pausing", "leaving"}
<1>1. op \in [Requests -> Operation]
  BY DEF IInv, PeerTypeOK
<1>2. \A s \in Requests \ {r} : op'[s].at = op[s].at
  BY <1>1 DEF AcquirePeer, PeerStep, PeerProgress, EnterGate, PeerAnswer, PeerBusy, PeerRetry,
              LeaveGate, ReleasePeer, LeaveQueue, LeavePause
<1>3. CASE EnterGate(r)
  <2>1. op[r].at = "waiting" /\ op'[r].at = "inside" /\ ~gates[op[r].gate].taken
    BY <1>1, <1>3 DEF EnterGate
  <2>2. op[r].gate = gateOf[PeerOf(r)]
    BY <2>1 DEF IInv, GatesFound, GateAt
  <2>3. \A s \in Requests : PeerOf(s) = PeerOf(r) => op[s].at \notin H
    BY <2>1, <2>2 DEF IInv, GatesFound, GateAt, HoldingAt, SemaphoresHeld
  <2> QED BY <1>2, <2>1, <2>3 DEF Operating
<1>4. CASE LeaveGate(r)
  <2>1. op[r].at = "leaving" /\ op'[r].at = "released"
    BY <1>1, <1>4 DEF LeaveGate
  <2>2. \A s \in Requests \ {r} : PeerOf(s) = PeerOf(r) => op[s].at \notin H
    BY <2>1 DEF IInv, GatesFound, GateAt, HoldingAt, SemaphoresHeld
  <2> QED BY <1>2, <2>1, <2>2 DEF Operating
<1>5. CASE ~EnterGate(r) /\ ~LeaveGate(r)
  <2>1. op'[r].at \in H <=> op[r].at \in H
    BY <1>1, <1>5 DEF AcquirePeer, PeerStep, PeerProgress, PeerAnswer, PeerBusy, PeerRetry,
                ReleasePeer, LeaveQueue, LeavePause, Operation
  <2> QED BY <1>2, <2>1 DEF Operating
<1> QED BY <1>3, <1>4, <1>5

\* The gates implement PeerTurns: an operation with a peer begins when there is none and it
\* ends before the next one begins, for every set of requests, spellings and peers.
THEOREM TurnsTaken == Spec => PeersTakeTurns
<1> DEFINE turn == [p \in Peers |-> Operating(p)]
<1>1. Init => Turns!Init
  BY DEF Init, PeerInit, Unstarted, Operating, Turns!Init
<1>2. IInv /\ [Next]_vars => [Turns!Next]_turn
  <2> SUFFICES ASSUME IInv, [Next]_vars PROVE Turns!Next \/ turn' = turn
    OBVIOUS
  <2>1. CASE UNCHANGED peerVars
    BY <2>1 DEF peerVars, Operating
  <2>2. CASE \E r \in Requests : AcquirePeer(r) \/ PeerStep(r)
    <3>1. PICK r \in Requests : AcquirePeer(r) \/ PeerStep(r)
      BY <2>2
    <3>2. PeerOf(r) \in Peers
      BY PeerAssumption DEF PeerOf
    <3>3. CASE \A p \in Peers : Operating(p)' = Operating(p)
      BY <3>3
    <3>4. CASE /\ Operating(PeerOf(r)) = {} /\ Operating(PeerOf(r))' = {r}
               /\ \A p \in Peers \ {PeerOf(r)} : Operating(p)' = Operating(p)
      <4>1. Turns!Take(r, PeerOf(r))
        BY <3>2, <3>4 DEF Turns!Take
      <4> QED BY <3>2, <4>1 DEF Turns!Next
    <3>5. CASE /\ Operating(PeerOf(r)) = {r} /\ Operating(PeerOf(r))' = {}
               /\ \A p \in Peers \ {PeerOf(r)} : Operating(p)' = Operating(p)
      <4>1. Turns!End(PeerOf(r))
        BY <3>2, <3>5 DEF Turns!End
      <4> QED BY <3>2, <4>1 DEF Turns!Next
    <3> QED BY <3>1, <3>3, <3>4, <3>5, OperatingStep
  <2> QED BY <2>1, <2>2, StepOfPeer
<1> QED BY <1>1, <1>2, GatesKept, PTL DEF Spec, PeersTakeTurns, Turns!Spec

-----------------------------------------------------------------------------
\* Searches and covers.

\* A search at slskd that is not scheduled for deletion belongs to a request that still polls it.
SearchesHeld ==
  \A r \in Requests, n \in {1, 2} :
    searches[<<r, n>>] = "open" => round[r] = n /\ pc[r] \in {"polling", "selecting"}

SearchTypeOK ==
  /\ DOMAIN searches = Requests \X {1, 2} /\ DOMAIN round = Requests
  /\ \A r \in Requests : round[r] \in {1, 2}

\* Whoever waits for a cover waits for a job that goes on or is over, of the same cover, and
\* a cover that is being fetched is in the map.
Given(j) == Fetching(j) \/ job[j].outcome # "open"
FetchersOK == \A r \in Requests :
  /\ job[r].monitor \in MonitoredAt => job[r].outcome = "open" /\ job[r].transfer # "none"
  /\ pc[r] \in {"artwork", "ensure", "enqueue"} => job[r].outcome = "open" /\ job[r].monitor = "none"
  /\ pc[r] = "enqueue" => leader[r] = r
  /\ Fetching(r) => artworkJobs[CoverOf[r]] = r
  /\ pc[r] = "wait" => /\ leader[r] \in Requests /\ CoverOf[leader[r]] = CoverOf[r]
                       /\ Given(leader[r])
JobsGiven ==
  \A c \in Covers : artworkJobs[c] # Nobody =>
    CoverOf[artworkJobs[c]] = c /\ Given(artworkJobs[c])
ArtworkTypeOK ==
  /\ DOMAIN pc = Requests /\ DOMAIN job = Requests
  /\ \A r \in Requests : /\ DOMAIN job[r] = {"outcome", "monitor", "errors", "transfer"}
                         /\ job[r].transfer \in {"none", "queued", "succeeded", "failed"}
  /\ artworkJobs \in [Covers -> Requests \cup {Nobody}]
  /\ leader \in [Requests -> Requests \cup {Nobody}]
AInv == ArtworkTypeOK /\ FetchersOK /\ JobsGiven

\* The steps that have to do with covers, and the others.
CoverStep(r) ==
  \/ ArtworkMissing(r) \/ ArtworkJoin(r) \/ ArtworkLead(r)
  \/ ArtworkEnqueued(r) \/ ArtworkRefused(r) \/ ArtworkAnswered(r) \/ ArtworkCancelled(r)
  \/ MonitorStep(r) \/ TransferEnds(r)
Elsewhere ==
  /\ UNCHANGED artworkVars
  /\ DOMAIN pc' = Requests
  /\ \A r \in Requests :
       \/ pc'[r] = pc[r]
       \/ /\ pc[r] \notin {"enqueue", "wait"}
          /\ pc'[r] \notin {"artwork", "ensure", "enqueue", "wait"}

\* Every step is one or the other.
LEMMA StepOfCovers ==
  ASSUME [Next]_vars, ArtworkTypeOK
  PROVE  Elsewhere \/ \E r \in Requests : CoverStep(r)
<1> USE DEF Elsewhere, artworkVars, Goto, ArtworkTypeOK
<1>1. CASE UNCHANGED vars
  BY <1>1 DEF vars
<1>2. ASSUME NEW r \in Requests, RequestStep(r), ~CoverStep(r) PROVE Elsewhere
  <2>1. CASE SearchStep(r)
    BY <2>1 DEF SearchStep, SearchStarts, SearchRefused, SearchDelayed, PollComplete, PollIncomplete,
       PollFails, SearchTick, SearchDeadline, SearchOver
  <2>2. CASE KeepResults(r) \/ Lookup(r) \/ PreviewKnown(r) \/ PreviewRefused(r) \/ PreviewKeep(r)
             \/ PreviewBrowse(r)
    BY <2>2 DEF KeepResults, Lookup, PreviewKnown, PreviewRefused, PreviewKeep, PreviewBrowse
  <2>3. CASE ArtworkCached(r) \/ PeerOperation(r)
    BY <2>3 DEF ArtworkCached, PeerOperation
  <2> QED BY <1>2, <2>1, <2>2, <2>3 DEF RequestStep, CoverStep
<1>3. ASSUME NEW r \in Requests, ClientGone(r), ~CoverStep(r) PROVE Elsewhere
  BY <1>3 DEF ClientGone, SearchCancelled, PeerCancelled, CoverStep
<1>4. CASE \E s \in DOMAIN searches : DeleteSearch(s) \/ CleanupCancelled(s)
  BY <1>4 DEF DeleteSearch, CleanupCancelled
<1>5. CASE (\E d \in Results : Age(d)) \/ CloseSearches \/ CloseStep \/ Quiet
  BY <1>5 DEF Age, CloseSearches, CloseStep, CloseDownloads, CloseDone, Quiet, vars
<1> QED BY <1>1, <1>2, <1>3, <1>4, <1>5 DEF Next, CoverStep

\* A request that leads a job hands it to the monitor or ends it, and the monitor ends it.
LEMMA CoverStepAInv ==
  ASSUME AInv, NEW r \in Requests, CoverStep(r)
  PROVE  AInv'
<1> USE SearchAssumption DEF AInv, ArtworkTypeOK, FetchersOK, JobsGiven, Given, Fetching, MonitoredAt,
  Goto, Failed, Finished, artworkVars
<1>1. CASE ArtworkMissing(r)
  BY <1>1 DEF ArtworkMissing
<1>2. CASE ArtworkJoin(r)
  BY <1>2 DEF ArtworkJoin
<1>3. CASE ArtworkLead(r)
  BY <1>3 DEF ArtworkLead
<1>4. CASE ArtworkEnqueued(r)
  BY <1>4 DEF ArtworkEnqueued
<1>5. CASE ArtworkRefused(r)
  BY <1>5 DEF ArtworkRefused
<1>6. CASE ArtworkAnswered(r) \/ ArtworkCancelled(r)
  BY <1>6 DEF ArtworkAnswered, ArtworkCancelled
<1>7. CASE MonitorStep(r)
  <2>1. CASE ForgetJob(r)
    BY <1>7, <2>1 DEF MonitorStep, ForgetJob
  <2>2. CASE PollArtwork(r)
    BY <1>7, <2>2 DEF MonitorStep, PollArtwork
  <2>3. CASE PollArtworkFails(r)
    BY <1>7, <2>3 DEF MonitorStep, PollArtworkFails
  <2>4. CASE MonitorTick(r) \/ MonitorEnds(r)
    BY <1>7, <2>4 DEF MonitorStep, MonitorTick, MonitorEnds
  <2>5. CASE ArtworkSaved(r) \/ ArtworkNotSaved(r)
    BY <1>7, <2>5 DEF MonitorStep, ArtworkSaved, ArtworkNotSaved
  <2> QED BY <1>7, <2>1, <2>2, <2>3, <2>4, <2>5 DEF MonitorStep
<1>8. CASE TransferEnds(r)
  BY <1>8 DEF TransferEnds
<1> QED BY <1>1, <1>2, <1>3, <1>4, <1>5, <1>6, <1>7, <1>8 DEF CoverStep

\* searchOnce leaves a search only by scheduling its deletion.
LEMMA SearchesHeldStep ==
  ASSUME AInv, SearchTypeOK, SearchesHeld, [Next]_vars
  PROVE  SearchTypeOK' /\ SearchesHeld'
<1> USE DEF SearchTypeOK, SearchesHeld, Goto, searchVars
<1>1. CASE UNCHANGED vars
  BY <1>1 DEF vars
<1>2. ASSUME NEW r \in Requests, RequestStep(r) PROVE SearchTypeOK' /\ SearchesHeld'
  <2> USE DEF AInv, ArtworkTypeOK
  <2>1. CASE SearchStep(r)
    <3>1. CASE SearchStarts(r) \/ SearchRefused(r) \/ SearchDelayed(r)
      BY <3>1 DEF SearchStarts, SearchRefused, SearchDelayed
    <3>2. CASE PollComplete(r) \/ SearchDeadline(r)
      BY <3>2 DEF PollComplete, SearchDeadline, SearchOver, ScheduleDelete
    <3>3. CASE PollIncomplete(r) \/ PollFails(r) \/ SearchTick(r)
      BY <3>3 DEF PollIncomplete, PollFails, SearchTick, ScheduleDelete
    <3> QED BY <2>1, <3>1, <3>2, <3>3 DEF SearchStep
  <2>2. CASE KeepResults(r) \/ Lookup(r) \/ PreviewKnown(r) \/ PreviewRefused(r) \/ PreviewKeep(r)
             \/ PreviewBrowse(r)
    BY <2>2 DEF KeepResults, Lookup, PreviewKnown, PreviewRefused, PreviewKeep, PreviewBrowse
  <2>3. CASE ArtworkCached(r) \/ ArtworkMissing(r) \/ ArtworkJoin(r) \/ ArtworkLead(r)
             \/ ArtworkEnqueued(r) \/ ArtworkRefused(r) \/ ArtworkAnswered(r) \/ PeerOperation(r)
    BY <2>3 DEF ArtworkCached, ArtworkMissing, ArtworkJoin, ArtworkLead, ArtworkEnqueued,
       ArtworkRefused, ArtworkAnswered, PeerOperation
  <2> QED BY <1>2, <2>1, <2>2, <2>3 DEF RequestStep
<1>3. ASSUME NEW r \in Requests, ClientGone(r) PROVE SearchTypeOK' /\ SearchesHeld'
  BY <1>3 DEF ClientGone, SearchCancelled, ScheduleDelete, ArtworkCancelled, PeerCancelled, AInv,
     ArtworkTypeOK
<1>4. CASE \E r \in Requests : MonitorStep(r) \/ TransferEnds(r)
  BY <1>4 DEF MonitorStep, TransferEnds
<1>5. CASE \E s \in DOMAIN searches : DeleteSearch(s) \/ CleanupCancelled(s)
  BY <1>5 DEF DeleteSearch, CleanupCancelled
<1>6. CASE (\E d \in Results : Age(d)) \/ CloseSearches \/ CloseStep \/ Quiet
  BY <1>6 DEF Age, CloseSearches, CloseStep, CloseDownloads, CloseDone, Quiet, vars
<1> QED BY <1>1, <1>2, <1>3, <1>4, <1>5, <1>6 DEF Next

\* At first no request has come as far as the job of a cover.
LEMMA InitialRequests ==
  ASSUME Init
  PROVE  DOMAIN pc = Requests /\ \A r \in Requests : pc[r] \notin {"enqueue", "wait"}
<1>1. PICK s \in Scenarios : s = scenario
  BY DEF Init
<1>2. PICK kinds : kinds = s.kinds
  OBVIOUS
<1>3. kinds \in [Requests -> {"search", "preview", "artwork", "lookup", "ended"}]
  BY <1>1, <1>2, SearchAssumption
<1>4. pc = [r \in Requests |-> kinds[r]]
  BY <1>1, <1>2 DEF Init
<1> QED BY <1>3, <1>4

\* The searches that are polled, the jobs and those who wait agree in every reachable state:
\* no search is left without a request that schedules its deletion, and no request waits for
\* a cover that nobody fetches.  RequestsEnd and SearchesDeleted need fairness besides.
THEOREM CoversAndSearchesHeld == Spec => [](AInv /\ SearchesHeld)
<1>1. ASSUME Init PROVE AInv /\ SearchTypeOK /\ SearchesHeld
  <2>1. DOMAIN pc = Requests /\ \A r \in Requests : pc[r] \notin {"enqueue", "wait"}
    BY <1>1, InitialRequests
  <2>2. job = [r \in Requests |-> NewJob]
    BY <1>1 DEF Init
  <2>3. artworkJobs = [c \in Covers |-> Nobody] /\ leader = [r \in Requests |-> Nobody]
    BY <1>1 DEF Init
  <2>4. AInv
    BY <2>1, <2>2, <2>3, SearchAssumption
    DEF AInv, ArtworkTypeOK, FetchersOK, JobsGiven, Fetching, MonitoredAt, NewJob
  <2>5. SearchTypeOK /\ SearchesHeld
    BY <1>1 DEF Init, SearchTypeOK, SearchesHeld
  <2> QED BY <2>4, <2>5
<1>2. ASSUME AInv, [Next]_vars PROVE AInv'
  <2>1. CASE Elsewhere
    BY <1>2, <2>1 DEF Elsewhere, AInv, ArtworkTypeOK, FetchersOK, JobsGiven, Given, Fetching,
       artworkVars
  <2> QED BY <1>2, <2>1, StepOfCovers, CoverStepAInv DEF AInv
<1>3. AInv /\ SearchTypeOK /\ SearchesHeld /\ [Next]_vars => SearchTypeOK' /\ SearchesHeld'
  BY SearchesHeldStep
<1> QED BY <1>1, <1>2, <1>3, PTL DEF Spec

\* What a step does to the part of one request in the fetching of covers.
Stays(q) == (Fetching(q)' <=> Fetching(q)) /\ (Awaiting(q)' <=> Awaiting(q))
Leads(r) ==
  /\ artworkJobs[CoverOf[r]] = Nobody
  /\ Fetching(r)' /\ ~Awaiting(r) /\ ~Awaiting(r)'
  /\ \A q \in Requests \ {r} : Stays(q)
Joins(r) ==
  /\ \E j \in Requests : Fetching(j) /\ CoverOf[j] = CoverOf[r]
  /\ Awaiting(r)' /\ (Fetching(r)' <=> Fetching(r))
  /\ \A q \in Requests \ {r} : Stays(q)
GivesUp(r) ==
  /\ Awaiting(r) /\ ~Awaiting(r)' /\ (Fetching(r)' <=> Fetching(r))
  /\ \A q \in Requests \ {r} : Stays(q)
Lands(j) ==
  /\ Fetching(j) /\ ~Fetching(j)'
  /\ \A q \in Requests \ {j} : Fetching(q)' <=> Fetching(q)
  /\ \A q \in Requests : Awaiting(q)' <=> Awaiting(q) /\ leader[q] # j

\* A step leads a job, joins one, gives it up, ends it, or does nothing to the covers.
LEMMA CoverMoves ==
  ASSUME AInv, NEW r \in Requests, CoverStep(r)
  PROVE  (\A q \in Requests : Stays(q)) \/ Leads(r) \/ Joins(r) \/ GivesUp(r) \/ Lands(r)
<1> USE SearchAssumption DEF AInv, ArtworkTypeOK, FetchersOK, JobsGiven, Given, Fetching, Awaiting,
  MonitoredAt, Goto, Failed, Finished, artworkVars
<1>1. CASE ArtworkMissing(r)
  BY <1>1 DEF ArtworkMissing, Stays
<1>2. CASE ArtworkJoin(r)
  <2>1. PICK j \in Requests : j = artworkJobs[CoverOf[r]]
    BY <1>2 DEF ArtworkJoin
  <2>2. \A q \in Requests \ {r} : Stays(q)
    BY <1>2 DEF ArtworkJoin, Stays
  <2>3. ~Awaiting(r) /\ ~Fetching(r) /\ ~Fetching(r)' /\ j # r /\ leader'[r] = j
    BY <1>2, <2>1 DEF ArtworkJoin
  <2>4. CASE job[j].outcome = "open"
    BY <1>2, <2>1, <2>2, <2>3, <2>4 DEF ArtworkJoin, Joins
  <2>5. CASE job[j].outcome # "open"
    BY <1>2, <2>1, <2>2, <2>3, <2>5 DEF ArtworkJoin, Stays
  <2> QED BY <2>4, <2>5
<1>3. CASE ArtworkLead(r)
  BY <1>3 DEF ArtworkLead, Leads, Stays
<1>4. CASE ArtworkEnqueued(r)
  BY <1>4 DEF ArtworkEnqueued, Stays
<1>5. CASE ArtworkRefused(r)
  BY <1>5 DEF ArtworkRefused, Lands
<1>6. CASE ArtworkAnswered(r) \/ ArtworkCancelled(r)
  BY <1>6 DEF ArtworkAnswered, ArtworkCancelled, GivesUp, Stays
<1>7. CASE MonitorStep(r)
  <2>1. CASE ForgetJob(r)
    BY <1>7, <2>1 DEF MonitorStep, ForgetJob, Stays
  <2>2. CASE PollArtwork(r)
    BY <1>7, <2>2 DEF MonitorStep, PollArtwork, Stays, Lands
  <2>3. CASE PollArtworkFails(r)
    BY <1>7, <2>3 DEF MonitorStep, PollArtworkFails, Stays, Lands
  <2>4. CASE MonitorTick(r) \/ MonitorEnds(r)
    BY <1>7, <2>4 DEF MonitorStep, MonitorTick, MonitorEnds, Stays, Lands
  <2>5. CASE ArtworkSaved(r) \/ ArtworkNotSaved(r)
    BY <1>7, <2>5 DEF MonitorStep, ArtworkSaved, ArtworkNotSaved, Lands
  <2> QED BY <1>7, <2>1, <2>2, <2>3, <2>4, <2>5 DEF MonitorStep
<1>8. CASE TransferEnds(r)
  BY <1>8 DEF TransferEnds, Stays
<1> QED BY <1>1, <1>2, <1>3, <1>4, <1>5, <1>6, <1>7, <1>8 DEF CoverStep

\* CoversShared: the jobs of the covers implement SingleFlight, for any numbers of requests
\* and covers.
THEOREM CoversAreShared == Spec => CoversShared
<1> DEFINE fetchers == [c \in Covers |-> Fetchers(c)]
           awaiters == [c \in Covers |-> Awaiters(c)]
<1>1. ASSUME Init PROVE CoverFlights!Init
  <2>1. \A r \in Requests : ~Fetching(r) /\ ~Awaiting(r)
    <3>1. \A r \in Requests : job[r].monitor = "none"
      BY <1>1 DEF Init, NewJob
    <3> QED BY <1>1, <3>1, InitialRequests DEF Fetching, Awaiting, MonitoredAt
  <2> QED BY <2>1 DEF CoverFlights!Init, CoverFlights!Grounded, Fetchers, Awaiters
<1>2. AInv /\ [Next]_vars => [CoverFlights!Next]_<<fetchers, awaiters>>
  <2> SUFFICES ASSUME AInv, [Next]_vars
               PROVE  CoverFlights!Next \/ (fetchers' = fetchers /\ awaiters' = awaiters)
    OBVIOUS
  <2> USE SearchAssumption
  <2>1. CASE \A q \in Requests : Stays(q)
    <3>1. \A c \in Covers : Fetchers(c)' = Fetchers(c) /\ Awaiters(c)' = Awaiters(c)
      BY <2>1 DEF Stays, Fetchers, Awaiters
    <3> QED BY <3>1
  <2>2. CASE Elsewhere
    <3>1. \A q \in Requests : Stays(q)
      BY <2>2 DEF Elsewhere, Stays, Fetching, Awaiting, artworkVars
    <3> QED BY <2>1, <3>1
  <2>3. ASSUME NEW r \in Requests, Leads(r) PROVE CoverFlights!Next
    <3>1. PICK c \in Covers : c = CoverOf[r]
      OBVIOUS
    <3>2. Fetchers(c) = {}
      BY <2>3, <3>1 DEF Leads, Fetchers, AInv, FetchersOK
    <3>3. Fetchers(c)' = {r} /\ Awaiters(c)' = Awaiters(c)
      BY <2>3, <3>1, <3>2 DEF Leads, Stays, Fetchers, Awaiters
    <3>4. \A d \in Covers \ {c} : Fetchers(d)' = Fetchers(d) /\ Awaiters(d)' = Awaiters(d)
      BY <2>3, <3>1 DEF Leads, Stays, Fetchers, Awaiters
    <3>5. CoverFlights!Lead(r, c)
      BY <3>2, <3>3, <3>4 DEF CoverFlights!Lead
    <3> QED BY <3>5 DEF CoverFlights!Next
  <2>4. ASSUME NEW r \in Requests, Joins(r) PROVE CoverFlights!Next
    <3>1. PICK c \in Covers : c = CoverOf[r]
      OBVIOUS
    <3>2. Fetchers(c) # {}
      BY <2>4, <3>1 DEF Joins, Fetchers
    <3>3. Fetchers(c)' = Fetchers(c) /\ Awaiters(c)' = Awaiters(c) \cup {r}
      BY <2>4, <3>1 DEF Joins, Stays, Fetchers, Awaiters
    <3>4. \A d \in Covers \ {c} : Fetchers(d)' = Fetchers(d) /\ Awaiters(d)' = Awaiters(d)
      BY <2>4, <3>1 DEF Joins, Stays, Fetchers, Awaiters
    <3>5. CoverFlights!Join(r, c)
      BY <3>2, <3>3, <3>4 DEF CoverFlights!Join
    <3> QED BY <3>5 DEF CoverFlights!Next
  <2>5. ASSUME NEW r \in Requests, GivesUp(r) PROVE CoverFlights!Next
    <3>1. PICK c \in Covers : c = CoverOf[r]
      OBVIOUS
    <3>2. r \in Awaiters(c)
      BY <2>5, <3>1 DEF GivesUp, Awaiters
    <3>3. Fetchers(c)' = Fetchers(c) /\ Awaiters(c)' = Awaiters(c) \ {r}
      BY <2>5, <3>1 DEF GivesUp, Stays, Fetchers, Awaiters
    <3>4. \A d \in Covers \ {c} : Fetchers(d)' = Fetchers(d) /\ Awaiters(d)' = Awaiters(d)
      BY <2>5, <3>1 DEF GivesUp, Stays, Fetchers, Awaiters
    <3>5. CoverFlights!GiveUp(r, c)
      BY <3>2, <3>3, <3>4 DEF CoverFlights!GiveUp
    <3> QED BY <3>5 DEF CoverFlights!Next
  <2>6. ASSUME NEW r \in Requests, Lands(r) PROVE CoverFlights!Next
    <3>1. PICK c \in Covers : c = CoverOf[r]
      OBVIOUS
    <3>2. Fetchers(c) = {r}
      BY <2>6, <3>1 DEF Lands, Fetchers, AInv, FetchersOK
    <3>3. ASSUME NEW q \in Requests, Awaiting(q) PROVE leader[q] = r <=> CoverOf[q] = c
      <4>1. PICK j \in Requests : j = leader[q] /\ CoverOf[j] = CoverOf[q] /\ Fetching(j)
        BY <3>3 DEF AInv, FetchersOK, Awaiting, Given
      <4> QED BY <2>6, <3>1, <4>1 DEF AInv, FetchersOK, Lands
    <3>4. Fetchers(c)' = {} /\ Awaiters(c)' = {}
      BY <2>6, <3>1, <3>2, <3>3 DEF Lands, Fetchers, Awaiters
    <3>5. \A d \in Covers \ {c} : Fetchers(d)' = Fetchers(d) /\ Awaiters(d)' = Awaiters(d)
      BY <2>6, <3>1, <3>3 DEF Lands, Fetchers, Awaiters
    <3>6. CoverFlights!Land(c)
      BY <3>2, <3>4, <3>5 DEF CoverFlights!Land
    <3> QED BY <3>6 DEF CoverFlights!Next
  <2> QED BY <2>1, <2>2, <2>3, <2>4, <2>5, <2>6, StepOfCovers, CoverMoves DEF AInv
<1> QED BY <1>1, <1>2, CoversAndSearchesHeld, PTL DEF Spec, CoversShared, CoverFlights!Spec
=============================================================================
