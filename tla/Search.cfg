SPECIFICATION FairSpec
CONSTANTS
  r1 = r1  r2 = r2  r3 = r3  ann = ann  Ann = Ann  bob = bob  peerA = peerA  peerB = peerB
  d1 = d1  c1 = c1
  Requests = {r1, r2, r3}
  Names = {ann, Ann, bob}
  Peers = {peerA, peerB}
  Fold <- MCFold
  NameOf <- MCNameOf
  Gates = {g1, g2, g3}
  NoGate = NoGate  Nobody = Nobody
  PeerAttempts = 2
  Results = {d1}
  ResultOf <- MCResultOf
  Covers = {c1}
  CoverOf <- MCCoverOf
  StartAttempts = 2
  MonitorErrors = 2
  Scenarios <- MCScenarios
PROPERTIES PeersTakeTurns SearchesDeleted RequestsEnd
