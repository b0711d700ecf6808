SPECIFICATION Spec
CONSTANTS
  web = web
  svc = svc
  lib = lib
  a = a
  b = b
  Targets = {web}
  Items = {a}
  Files = {"baseline"}
  Names = {"web"}
  Party <- MCParty
  Declaring = {}
  Declared <- MCDeclared
  BaselineOf <- MCBaseline
  OutputOf <- MCOutput
  Updates = {TRUE, FALSE}
  Evidence <- MCUnsigned
  MaxInvocations = 1
INVARIANTS
  OneVerdict
CHECK_DEADLOCK FALSE
