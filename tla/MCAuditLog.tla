---------------------------- MODULE MCAuditLog ----------------------------
(* TLC instances of AuditLog.                                              *)
EXTENDS AuditLog, TLC

MCSymmetry == Permutations(Sessions)
=============================================================================
