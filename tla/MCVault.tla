------------------------------ MODULE MCVault ------------------------------
(* Small instances of Vault for TLC. *)
EXTENDS Vault

CONSTANTS alice, bob, carol, usdc, weth

\* alice has one unit of each token.
AliceHasOne ==
    [t \in Tokens |-> [x \in Accounts |-> IF x = alice THEN 1 ELSE 0]]

\* alice has two units of each token.
AliceHasTwo ==
    [t \in Tokens |-> [x \in Accounts |-> IF x = alice THEN 2 ELSE 0]]

ToOne == 0..1
ToTwo == 0..2
=============================================================================
