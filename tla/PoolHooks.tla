------------------------------ MODULE PoolHooks ------------------------------
(***************************************************************************)
(* What the three storage layouts have in common: swaps, joins and exits   *)
(* read a Pool's balances, call its hook, and write what they computed     *)
(* from what they had read.                                                *)
(***************************************************************************)
EXTENDS BalanceAllocation, FiniteSets

CONSTANTS
    Tokens,         \* addresses, which are ordered
    Amounts,        \* the amounts inputs and hooks are drawn from
    MaxBlock        \* bound: the last block

NoToken == 0        \* address(0)

ASSUME PoolAssumption ==
    /\ Tokens \subseteq Nat \ {NoToken} /\ IsFiniteSet(Tokens)
    /\ Amounts \subseteq Nat /\ MaxBlock \in Nat \ {0}

VARIABLES
    block,          \* block.number
    call            \* the join, exit or swap whose hook is running

NoCall == [fn |-> "none"]

\* nonReentrant: nothing else while a hook runs.
Idle == call = NoCall

\* What a join or exit does to the cash of a token.
Differences == Amounts \cup {-n : n \in Amounts}
==============================================================================
