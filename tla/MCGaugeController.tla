-------------------------- MODULE MCGaugeController --------------------------
(* The locks of an instance, and its symmetry. *)
EXTENDS GaugeController, TLC

TwoLocks == {[slope |-> 1, end |-> 8], [slope |-> 2, end |-> 10]}

Symmetry == Permutations(Users) \cup Permutations(Gauges)
==============================================================================
