SPECIFICATION FairSpec
CONSTANTS
  k1 = k1  k2 = k2
  Keys = {k1, k2}
  SizeOf <- MCSizeOf
  MaxBytes = 1
  Requests = {r1, r2}
  Startup = Startup  Nobody = Nobody  NoKey = NoKey
  Events = {"full", "crash"}
VIEW WithoutDashboard
INVARIANTS BlobsComplete
PROPERTIES PutAnswers NoOrphans WaitersAnswered
