CONSTANTS
  Runs = {r1, r2, r3}
  Starts = {s1, s2}
  Max = 2
  SlowSteps = TRUE
  MaxCrashes = 1
  NoRun = NoRun
  NoStart = NoStart
SPECIFICATION Spec
INVARIANTS
  TypeOK
  OneStartInside
  GatesSpareRunning
  LimitUnlessOvertaken
  ClaimedOnce
SYMMETRY StartSymmetry
CHECK_DEADLOCK FALSE
