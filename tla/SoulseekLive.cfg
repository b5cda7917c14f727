SPECIFICATION FairSpec
CONSTANTS
  k1 = k1  k2 = k2
  Keys = {k1, k2}
  p1 = p1  p2 = p2
  Paths = {p1, p2}
  PathOf <- MCPathOf
  Pinned = {}
  Jobs = {j1, j2}
  Transfers = {x1}
  Requests = {r1}
  MaxActive = 1
  RetryAttempts = 1
  NoKey = NoKey  NoJob = NoJob  NoTransfer = NoTransfer
  Scenarios <- MCLive
VIEW Reachable
PROPERTIES RequestsAnswered JobsEnd CloseFinishes
