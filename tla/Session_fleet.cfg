SPECIFICATION FairSpec
CONSTANTS
  web = web
  svc = svc
  lib = lib
  a = a
  b = b
  Targets = {web, svc}
  Items = {a, b}
  Files = {"baseline"}
  Names = {"web", "svc"}
  Party <- MCParty
  Declaring = {svc}
  Declared <- MCDeclared
  BaselineOf <- MCBaseline
  OutputOf <- MCOutput
  Updates = {TRUE, FALSE}
  Evidence <- MCUnsigned
  MaxInvocations = 1
INVARIANTS
  PassesInContract
  SuccessMeansPass
  HeadlineBindsVerdict
PROPERTIES
  InvocationEnds
CHECK_DEADLOCK FALSE
