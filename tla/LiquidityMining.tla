---------------------------- MODULE LiquidityMining ----------------------------
(***************************************************************************)
(* What the contracts of veBAL, of fees and of gauges have in common: their *)
(* users, the clock of their chain, and weeks, to which all of them round.  *)
(***************************************************************************)
EXTENDS Integers, FiniteSets, FiniteSetsExt, Functions

CONSTANTS
    Users,
    Week,           \* WEEK: future times are rounded down to weeks
    Horizon         \* bound: the last time

ASSUME MiningAssumption == IsFiniteSet(Users) /\ Week \in Nat \ {0} /\ Horizon \in Nat

VARIABLE now        \* block.timestamp

AtLeastZero(n) == IF n < 0 THEN 0 ELSE n
===============================================================================
