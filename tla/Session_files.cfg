SPECIFICATION Spec
CONSTANTS
  web = web
  svc = svc
  lib = lib
  a = a
  b = b
  Targets = {web, lib}
  Items = {a, b}
  Files = {"baseline"}
  Names = {"name"}
  Party <- MCParty
  Declaring = {}
  Declared <- MCDeclared
  BaselineOf <- MCBaseline
  OutputOf <- MCOneName
  Updates = {TRUE, FALSE}
  Evidence <- MCSigned
  MaxInvocations = 2
INVARIANTS
  TypeOK
  SuccessHasOwnOutputs
  EvidenceDelivered
  PassesInContract
  UpdateSettles
PROPERTIES
  BaselineFromVerifiedRun
CHECK_DEADLOCK FALSE
