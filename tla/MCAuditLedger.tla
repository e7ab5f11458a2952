---------------------------- MODULE MCAuditLedger ----------------------------
(* Small instances of AuditLedger for TLC. *)
EXTENDS AuditLedger

CONSTANTS t1, res1, res2, w1, w2

OfOne == [r \in Resources |-> t1]
=============================================================================
