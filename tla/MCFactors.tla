----------------------------- MODULE MCFactors -----------------------------
(* Instances of Factors for TLC.                                           *)
EXTENDS Factors, TLC

(* Requests are interchangeable, and so are sessions. *)
Symmetry == Permutations(Request) \cup Permutations(Session)
=============================================================================
