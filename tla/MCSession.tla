----------------------------- MODULE MCSession -----------------------------
(* Small fleets of manifests for TLC: web is ours, svc a supplier's, lib is nobody's. *)
EXTENDS Session

CONSTANTS web, svc, lib, a, b

MCParty    == [t \in Targets |-> IF t = web THEN "first" ELSE IF t = svc THEN "second" ELSE "third"]
MCDeclared == [t \in Targets |-> IF t = svc THEN {a} ELSE {}]
MCBaseline == [t \in Targets |-> "baseline"]
MCOutput   == [t \in Targets |-> IF t = web THEN "web" ELSE "svc"]
MCOneName  == [t \in Targets |-> "name"]
MCUnsigned == {{}}
MCSigned   == {{}, {"sign", "upload"}}
=============================================================================
