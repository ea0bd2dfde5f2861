------------------------------ MODULE MCAuditLog ------------------------------
(***************************************************************************)
(* Constants of the TLC runs of AuditLog.                                  *)
(***************************************************************************)
EXTENDS AuditLog

CONSTANTS a1, a2
=============================================================================
