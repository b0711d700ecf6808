SPECIFICATION FairSpec
CONSTANTS
  Routine = {r1}
  r1 = r1
  Dangerous = {}
  Misplaced = {m1}
  Hybrid = {}
  Ports = {p1}
  Entrypoints = {e1}
  Roots = {s1}
  e1 = e1
  s1 = s1
  MaxRounds = 2
  EnforceAttempts = 3
  RemovalAttempts = 2
  MaxRuns = 2
  MaxFaults = 1
  MaxDrifts = 1
  MaxKills = 1
  StrictStore = FALSE
  p1 = p1
  m1 = m1
INVARIANTS
  OnlyDeclaredPorts
PROPERTIES
  ForeignStateKept
  RunEnds
  ImplementsChamber
CHECK_DEADLOCK FALSE
