SPECIFICATION Spec
CONSTANTS
  k1 = k1  k2 = k2
  Keys = {k1, k2}
  p1 = p1  p2 = p2
  Paths = {p1, p2}
  PathOf <- MCShared
  Pinned = {}
  Jobs = {j1, j2}
  Transfers = {x1, x2}
  Requests = {r1, r2}
  MaxActive = 1
  RetryAttempts = 2
  NoKey = NoKey  NoJob = NoJob  NoTransfer = NoTransfer
  Scenarios <- MCStreams
PROPERTIES StreamsProtected
