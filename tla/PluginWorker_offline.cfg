CONSTANTS
  c1 = c1
  c2 = c2
  h1 = h1
  h2 = h2
  p1 = p1
  p2 = p2
  p3 = p3
  Calls = {c1}
  Handles = {h1, h2}
  Procs = {p1, p2, p3}
  MaxCrashes = 1
  NoHandle = NoHandle
  NoProc = NoProc
SPECIFICATION Spec
INVARIANTS
  OfflineStaysDown
