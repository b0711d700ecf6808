SPECIFICATION Spec
CONSTANTS
  Routine = {r1}
  r1 = r1
  Dangerous = {}
  Misplaced = {}
  Hybrid = {}
  Ports = {p1}
  Entrypoints = {e1}
  Roots = {s1}
  e1 = e1
  s1 = s1
  MaxRounds = 2
  EnforceAttempts = 3
  RemovalAttempts = 2
  MaxRuns = 1
  MaxFaults = 0
  MaxDrifts = 0
  MaxKills = 0
  StrictStore = TRUE
  p1 = p1
PROPERTIES
  PortsGoFirst
CHECK_DEADLOCK FALSE
