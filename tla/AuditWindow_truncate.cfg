SPECIFICATION Spec
CONSTANTS
  StartProbes = 1
  DrainProbes = 1
  EndProbes = 1
  MaxRounds = 1
  MaxDenials = 1
  MaxLost = 0
  MaxDisruptions = 1
  InPlaceTruncation = TRUE
INVARIANTS
  TruncationFailsClosed
CHECK_DEADLOCK FALSE
