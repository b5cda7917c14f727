SPECIFICATION Spec
CONSTANTS
  s1 = s1  s2 = s2  f1 = f1  f2 = f2  f3 = f3
  Sources = {s1}
  Files = {f1, f2}
  SourceOf <- MCSourceOf
  Requests = {r1, r2}
  Workers = {w1, w2, w3}
  MaxActive = 1
  Size = 2
  NoFile = NoFile
  Events = {"pin", "remove", "evict", "crash", "legacy"}
SYMMETRY ProcSymmetry
INVARIANTS RefCount SlotCount OneJob HandlersSafe JobsResumable HandlesAttached
PROPERTIES DataKept
