------------------------------- MODULE Clock -------------------------------
(* The clock by which entries of caches expire (Date.now). *)
EXTENDS Naturals

CONSTANT MaxNow     \* how long the clock runs

ASSUME ClockAssumption == MaxNow \in Nat

VARIABLE now

Time == 0..MaxNow
=============================================================================
