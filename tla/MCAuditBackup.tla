---------------------------- MODULE MCAuditBackup ----------------------------
(* Small instances of AuditBackup for TLC.                                 *)
EXTENDS AuditBackup

CONSTANTS i1, i2, i3, g1, idp, gateway

MCHome == [e \in Events |-> IF e = g1 THEN gateway ELSE idp]
=============================================================================
