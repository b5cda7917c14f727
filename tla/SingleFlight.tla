---------------------------- MODULE SingleFlight ----------------------------
\* What the flights of TranscodeCache and the cover downloads of Search promise: a variant
\* (a cover) is produced by one request at a time, others wait for it only while somebody
\* produces it, and the end of a flight releases all of them at once.
CONSTANTS Requests, Keys

VARIABLES
  leader,   \* the requests that produce a variant, one at most
  waiters   \* the requests that wait for it

TypeOK == leader \in [Keys -> SUBSET Requests] /\ waiters \in [Keys -> SUBSET Requests]

Grounded == leader = [k \in Keys |-> {}] /\ waiters = [k \in Keys |-> {}]
Init == Grounded

Lead(r, k) ==
  /\ leader[k] = {}
  /\ leader' = [leader EXCEPT ![k] = {r}] /\ UNCHANGED waiters

Join(r, k) ==
  /\ leader[k] # {}
  /\ waiters' = [waiters EXCEPT ![k] = @ \cup {r}] /\ UNCHANGED leader

GiveUp(r, k) ==
  /\ r \in waiters[k]
  /\ waiters' = [waiters EXCEPT ![k] = @ \ {r}] /\ UNCHANGED leader

\* The flight lands, well or not.
Land(k) ==
  /\ leader[k] # {}
  /\ leader' = [leader EXCEPT ![k] = {}] /\ waiters' = [waiters EXCEPT ![k] = {}]

\* The process is replaced.
Crash == Grounded'

Next ==
  \/ \E k \in Keys : Land(k) \/ \E r \in Requests : Lead(r, k) \/ Join(r, k) \/ GiveUp(r, k)
  \/ Crash

Spec == Init /\ [][Next]_<<leader, waiters>>
=============================================================================
