----------------------------- MODULE MCJobLease -----------------------------
(* JobLease by itself for TLC.                                             *)
EXTENDS JobLease, TLC

CONSTANTS r1, r2, r3, before, after

Calls == {r1, r2, r3}

(* What cmd/marketplace does: the holder is the version, one for all the     *)
(* calls of a revision. Here two are of the revision being replaced, and one *)
(* of the one that replaces it.                                              *)
Versions == [r \in Calls |-> IF r = r3 THEN after ELSE before]
=============================================================================
