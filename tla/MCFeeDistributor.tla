--------------------------- MODULE MCFeeDistributor ---------------------------
(* The users of an instance are interchangeable. *)
EXTENDS FeeDistributor, TLC

Symmetry == Permutations(Users)
===============================================================================
