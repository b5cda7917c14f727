------------------------------ MODULE PeerTurns ------------------------------
\* What the gates of PeerOperations promise slskd: requests that concern a peer take turns,
\* one at a time, and a turn that was taken ends before the next one begins.
CONSTANTS Requests, Peers

VARIABLE turn   \* the requests that have an operation with each peer

TypeOK == turn \in [Peers -> SUBSET Requests]

Init == turn = [p \in Peers |-> {}]

Take(r, p) ==
  /\ turn[p] = {}
  /\ turn' = [turn EXCEPT ![p] = {r}]

End(p) ==
  /\ turn[p] # {}
  /\ turn' = [turn EXCEPT ![p] = {}]

Next == \E p \in Peers : End(p) \/ \E r \in Requests : Take(r, p)

Spec == Init /\ [][Next]_turn
=============================================================================
