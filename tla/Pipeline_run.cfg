SPECIFICATION Spec
CONSTANTS
  Routine = {r1, r2}
  r1 = r1
  r2 = r2
  Hybrid = {r1, r2}
  Dangerous = {d1}
  Misplaced = {m1}
  Ports = {p1}
  Entrypoints = {e1}
  Roots = {s1}
  e1 = e1
  s1 = s1
  MaxRounds = 3
  EnforceAttempts = 3
  RemovalAttempts = 2
  MaxRuns = 1
  MaxFaults = 2
  MaxDrifts = 2
  MaxKills = 0
  StrictStore = TRUE
  d1 = d1
  p1 = p1
  m1 = m1
INVARIANTS
  TypeOK
  ReviewedGrants
  NothingForgotten
  PassMeansEnforced
  BytesBound
  PackageUnderTest
  PassLeavesClean
  CleanOrReported
  PreservedEnforced
PROPERTIES
  NeverUnconfineLive
CHECK_DEADLOCK FALSE
