------------------------------- MODULE Clock -------------------------------
(***************************************************************************)
(* The time of the parts of the system that count by the clock, in whole   *)
(* ticks up to a bound.                                                    *)
(***************************************************************************)
EXTENDS Integers

CONSTANT Horizon   \* the last moment explored

ASSUME ClockAssumption == Horizon \in Nat

VARIABLE now       \* the moment it is

Passes == now < Horizon /\ now' = now + 1
=============================================================================
