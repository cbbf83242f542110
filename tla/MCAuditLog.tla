----------------------------- MODULE MCAuditLog -----------------------------
(* A small instance of AuditLog: one backup of an earlier release, three   *)
(* rotations.                                                              *)
EXTENDS AuditLog, TLC

MCLegacy == {[time |-> 0, gen |-> 0, ord |-> 0, ino |-> 1]}
=============================================================================
