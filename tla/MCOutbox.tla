------------------------------ MODULE MCOutbox ------------------------------
(* Instances of Outbox for TLC.                                            *)
EXTENDS Outbox, TLC

(* Runs of Dispatch are interchangeable, and so are callbacks. Sound for   *)
(* invariants only: the liveness run does without.                         *)
Symmetry == Permutations(Dispatcher) \cup Permutations(Callback)
=============================================================================
