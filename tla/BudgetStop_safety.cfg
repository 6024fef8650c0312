CONSTANTS
  c1 = c1
  r1 = r1
  r2 = r2
  i1 = i1
  i2 = i2
  Calls = {c1}
  Runs = {r1, r2}
  Incidents = {i1, i2}
  MaxSpend = 2
  WarnPercent = 50
  MaxCrashes = 1
  NoIncident = NoIncident
SPECIFICATION Spec
INVARIANTS
  TypeOK
  HardStopHolds
  FreedOnceWithin
  PausedIsAsked
PROPERTIES
  ManualPauseHeld
CHECK_DEADLOCK FALSE
