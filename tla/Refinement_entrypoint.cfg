SPECIFICATION Spec
CONSTANTS
  Dotted = {".ssh"}
  Hidden = {".ssh"}
  BroadRoots <- MCBroad
  SharedTrees <- MCShared
  Ties = {"widget", "widgetd"}
  Manifests <- MCInside
  Bases <- MCBases
  Locals <- MCLocals
  Paths <- MCInsidePaths
  ClassOf <- MCClass
  Installs <- MCInsideInstalls
  StrayTypes <- MCStray
  SelfDenials <- MCSelf
  Accept = FALSE
  MaxRounds = 1
  MaxDenials = 1
  MaxStrays = 0
INVARIANTS
  LabelRefusalsAreReal
