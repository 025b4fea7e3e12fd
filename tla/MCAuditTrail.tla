----------------------------- MODULE MCAuditTrail -----------------------------
(* An instance of AuditTrail for TLC.                                      *)
EXTENDS AuditTrail, TLC

(* Transactions are interchangeable, and so are addresses. *)
Symmetry == Permutations(Tx) \cup Permutations(Address)
=============================================================================
