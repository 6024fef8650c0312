CONSTANTS
  r1 = r1
  r2 = r2
  r3 = r3
  a1 = a1
  a2 = a2
  Runs = {r1, r2, r3}
  Agents = {a1}
  AgentOf <- OneAgent
  IssueRuns = {r1}
  Users = {}
  c1 = c1
  c2 = c2
  OpsOf <- AnyOperation
  Calls = {c1}
  ExpectedChoices <- AnyStatus
  Patches <- BoardPatches
  NoRun = NoRun
  NoAgent = NoAgent
  NoUser = NoUser
  Undefined = Undefined
SPECIFICATION Spec
PROPERTIES
  ExecutionLockNotStolen
