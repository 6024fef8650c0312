CONSTANTS
  a1 = a1  a2 = a2
  w1 = w1  w2 = w2  w3 = w3
  Agents = {a1, a2}
  Assignee = a1
  Wakes = {w1, w2, w3}
  AgentOf <- Agent
  Comments = {w2, w3}
  MaxAuto = 1
  MaxConcurrent = 2
  MaxWakes = 2
  MaxEvents = 0
  NoRun = NoRun
  NoWake = NoWake
SPECIFICATION Spec
INVARIANTS
  OneRunPerAgent
CHECK_DEADLOCK FALSE
