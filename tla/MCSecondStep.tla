---------------------------- MODULE MCSecondStep ----------------------------
(* Instances of SecondStep for TLC.                                        *)
EXTENDS SecondStep, TLC

(* Challenges are interchangeable. *)
Symmetry == Permutations(Request)
=============================================================================
