SPECIFICATION Spec
CONSTANTS
  StartProbes = 2
  DrainProbes = 2
  EndProbes = 2
  MaxRounds = 1
  MaxDenials = 1
  MaxLost = 1
  MaxDisruptions = 2
  InPlaceTruncation = TRUE
INVARIANTS
  TypeOK
  CompleteWindow
  SteadyPolicy
  NoSelfInflictedReload
CHECK_DEADLOCK FALSE
