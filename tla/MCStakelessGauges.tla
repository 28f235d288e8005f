-------------------------- MODULE MCStakelessGauges --------------------------
(* The gauges of an instance are interchangeable. *)
EXTENDS StakelessGauges, TLC

Symmetry == Permutations(Gauges)
==============================================================================
