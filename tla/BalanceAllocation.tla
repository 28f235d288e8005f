-------------------------- MODULE BalanceAllocation --------------------------
(***************************************************************************)
(* How a Pool's balance of a token is packed in one storage word: `cash`,  *)
(* what the Vault holds, in the low 112 bits, `managed`, what the asset    *)
(* manager took out, in the next 112, and above them the block of the last *)
(* change of the total.  Two Token Pools use the same three fields in two  *)
(* ways of their own: a word with both cash amounts, and one with both     *)
(* managed amounts.                                                        *)
(***************************************************************************)
EXTENDS Integers

CONSTANT Limit      \* 2^112, at a smaller width

ASSUME LimitAssumption == Limit \in Nat \ {0}

\* _pack: the caller sees to it that the fields fit.
Pack(least, mid, most) == (most * Limit + mid) * Limit + least

Least(word) == word % Limit
Mid(word) == (word \div Limit) % Limit
Most(word) == (word \div Limit) \div Limit

\* A balance outside of the storage: what cash, managed and lastChangeBlock
\* extract from a word.
Unpacked(word) == [cash |-> Least(word), managed |-> Mid(word), changed |-> Most(word)]

Total(b) == b.cash + b.managed

\* What the checked arithmetic and toBalance require of a new balance.
Fits(b) == b.cash >= 0 /\ b.managed >= 0 /\ Total(b) < Limit

\* toBalance, where Fits(b).
ToBalance(b) == Pack(b.cash, b.managed, b.changed)

\* isZero: the block does not count.
IsZero(word) == word % (Limit * Limit) = 0

\* increaseCash, and decreaseCash where n < 0.  Even n = 0 counts as a change.
ChangeCash(b, n, now) == [cash |-> b.cash + n, managed |-> b.managed, changed |-> now]

\* cashToManaged, and managedToCash where n < 0: the total stays.
CashToManaged(b, n) == [cash |-> b.cash - n, managed |-> b.managed + n, changed |-> b.changed]

\* Mutant: the report of the manager is not recorded as a change.
SetManagedUnrecorded(b, n, now) == [b EXCEPT !.managed = n]

\* setManaged
SetManaged(b, n, now) == [cash |-> b.cash, managed |-> n, changed |-> now]

\* toSharedCash and toSharedManaged, of the balances of token A and token B.
ToSharedCash(a, b) ==
    Pack(a.cash, b.cash, IF a.changed > b.changed THEN a.changed ELSE b.changed)
ToSharedManaged(a, b) == Pack(a.managed, b.managed, 0)

\* fromSharedToBalanceA and fromSharedToBalanceB
FromSharedToBalanceA(sharedCash, sharedManaged) ==
    [cash |-> Least(sharedCash), managed |-> Least(sharedManaged), changed |-> Most(sharedCash)]
FromSharedToBalanceB(sharedCash, sharedManaged) ==
    [cash |-> Mid(sharedCash), managed |-> Mid(sharedManaged), changed |-> Most(sharedCash)]
==============================================================================
