--------------------------- MODULE MCAuditWindow ---------------------------
(* Instances of AuditWindow for TLC; the cfg files choose the bounds. *)
EXTENDS AuditWindow
=============================================================================
