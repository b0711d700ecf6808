SPECIFICATION FairSpec
CONSTANTS
  Limit = 6
  PipeCap = 2
  Root = Root
  Up = Up
  NoIno = NoIno
  e1 = e1
  e2 = e2
  i1 = i1
  i2 = i2
  d = d
  f = f
  g = g
  Events = {e1, e2}
  Shapes <- MCShapes
INVARIANTS
  DenialsComplete
  NeverGuessed
  PermsStayWithFile
PROPERTIES
  RunReturns
CHECK_DEADLOCK FALSE
