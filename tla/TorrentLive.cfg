SPECIFICATION FairSpec
CONSTANTS
  s1 = s1  s2 = s2  f1 = f1  f2 = f2  f3 = f3
  Sources = {s1}
  Files = {f1}
  SourceOf <- MCSourceOf
  Requests = {r1, r2}
  Workers = {w1, w2}
  MaxActive = 1
  Size = 1
  NoFile = NoFile
  Events = {"evict", "cancel", "close"}
PROPERTIES JobsFinish CloseFinishes
