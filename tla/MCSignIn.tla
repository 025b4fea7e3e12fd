------------------------------ MODULE MCSignIn ------------------------------
(* An instance of SignIn for TLC.                                          *)
EXTENDS SignIn, TLC

(* Requests are interchangeable, and so are the rows they open. *)
Symmetry == Permutations(Request)
=============================================================================
