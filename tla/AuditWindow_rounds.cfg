SPECIFICATION FairSpec
CONSTANTS
  StartProbes = 2
  DrainProbes = 2
  EndProbes = 2
  MaxRounds = 2
  MaxDenials = 1
  MaxLost = 1
  MaxDisruptions = 0
  InPlaceTruncation = FALSE
INVARIANTS
  FreshWindow
  StartBarrierOrders
PROPERTIES
  ImplementsObservation
  ExerciseReturns
CHECK_DEADLOCK FALSE
