CONSTANTS
  Runs = {r1, r2, r3}
  Starts = {s1, s2, s3}
  Max = 1
  SlowSteps = FALSE
  MaxCrashes = 0
  NoRun = NoRun
  NoStart = NoStart
SPECIFICATION Spec
INVARIANTS
  ConcurrencyLimit
SYMMETRY StartSymmetry
CHECK_DEADLOCK FALSE
