------------------------------ MODULE MCAuditLog ------------------------------
(* Instances of AuditLog for TLC. *)
EXTENDS AuditLog

OneLegacyRow == <<"legacy">>
TwoLegacyRows == <<"legacy", "older">>
NoLegacyRows == <<>>
================================================================================
