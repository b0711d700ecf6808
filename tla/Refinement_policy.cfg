SPECIFICATION Spec
CONSTANTS
  Dotted = {".ssh"}
  Hidden = {".ssh"}
  BroadRoots <- MCBroad
  SharedTrees <- MCShared
  Ties = {"widget", "widgetd"}
  Manifests <- MCManifests
  Bases <- MCBases
  Locals <- MCLocals
  Paths <- MCPaths
  ClassOf <- MCClass
  Installs <- MCInstalls
  StrayTypes <- MCStray
  SelfDenials <- MCSelf
  Accept = FALSE
  MaxRounds = 2
  MaxDenials = 2
  MaxStrays = 1
INVARIANTS
  ClaimsHold
  NoDenialLost
  GrantsFollowLabels
  NoSilentWriteExec
