CONSTANTS
  Runs = {r1, r2}
  Starts = {s1, s2}
  Max = 1
  SlowSteps = FALSE
  MaxCrashes = 2
  NoRun = NoRun
  NoStart = NoStart
SPECIFICATION FairSpec
PROPERTIES
  StartsReturn
  QueuedServed
CHECK_DEADLOCK FALSE
