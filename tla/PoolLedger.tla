------------------------------ MODULE PoolLedger ------------------------------
(***************************************************************************)
(* What the Vault promises one Pool about its balances, whichever of the   *)
(* three storage layouts (specialization settings) the Pool chose:         *)
(*   - a token's balance appears when the token is registered, at zero, and *)
(*     disappears when it is deregistered, at zero;                        *)
(*   - a swap, a join, an exit or an operation of an asset manager changes *)
(*     the balances it names, at once, and no other;                       *)
(*   - `changed` is the block of the last operation that could change the  *)
(*     total of the token, or of either token of a Two Token Pool, whose   *)
(*     two tokens share it.                                                *)
(***************************************************************************)
EXTENDS Integers

CONSTANTS
    Tokens,
    Amounts,        \* the amounts that operations are given
    Limit,          \* 2^112: cash plus managed stay below it
    SharedBlock,    \* TRUE for a Two Token Pool
    MaxBlock        \* bound: the last block

VARIABLES
    block,          \* the number of the current block
    ledger          \* each registered token's cash, managed and changed

vars == <<block, ledger>>

Empty == [cash |-> 0, managed |-> 0, changed |-> 0]

Registered == DOMAIN ledger
TotalOf(e) == e.cash + e.managed

\* No balance is negative, and no total is too large for a word.
Sound(e) == e.cash >= 0 /\ e.managed >= 0 /\ TotalOf(e) < Limit

\* What joins and exits may do to a token's cash.
Differences == Amounts \cup {-n : n \in Amounts}

Moved(e, cash, managed) ==
    [cash |-> e.cash + cash, managed |-> e.managed + managed, changed |-> e.changed]

\* new replaces the entries of the tokens it names; recorded where they count
\* as a change of the total.
Write(new, recorded) ==
    /\ \A t \in DOMAIN new : Sound(new[t])
    /\ ledger' = [t \in Registered |->
          LET e == IF t \in DOMAIN new THEN new[t] ELSE ledger[t]
          IN IF recorded /\ (t \in DOMAIN new \/ SharedBlock)
             THEN [e EXCEPT !.changed = block] ELSE e]
    /\ UNCHANGED block

Register(toks) ==
    /\ toks \cap Registered = {}
    /\ ledger' = [t \in Registered \cup toks |-> IF t \in toks THEN Empty ELSE ledger[t]]
    /\ UNCHANGED block

Deregister(toks) ==
    /\ toks \subseteq Registered
    /\ \A t \in toks : TotalOf(ledger[t]) = 0
    /\ ledger' = [t \in Registered \ toks |-> ledger[t]]
    /\ UNCHANGED block

Swap(tokenIn, tokenOut, amountIn, amountOut) ==
    /\ tokenIn # tokenOut /\ {tokenIn, tokenOut} \subseteq Registered
    /\ Write([t \in {tokenIn, tokenOut} |->
                IF t = tokenIn THEN Moved(ledger[t], amountIn, 0)
                               ELSE Moved(ledger[t], -amountOut, 0)], TRUE)

\* What came in, or less than nothing, for each token, after protocol fees.
JoinOrExit(difference) ==
    /\ Registered # {} /\ DOMAIN difference = Registered
    /\ Write([t \in Registered |-> Moved(ledger[t], difference[t], 0)], TRUE)

Withdraw(t, n) ==
    /\ t \in Registered
    /\ Write([u \in {t} |-> Moved(ledger[t], -n, n)], FALSE)

Deposit(t, n) ==
    /\ t \in Registered
    /\ Write([u \in {t} |-> Moved(ledger[t], n, -n)], FALSE)

\* The asset manager reports profits or losses.
Report(t, n) ==
    /\ t \in Registered
    /\ Write([u \in {t} |-> [ledger[t] EXCEPT !.managed = n]], TRUE)

NewBlock == block < MaxBlock /\ block' = block + 1 /\ UNCHANGED ledger

Init == block = 1 /\ ledger = [t \in {} |-> Empty]

Next ==
    \/ NewBlock
    \/ \E toks \in SUBSET Tokens : Register(toks) \/ Deregister(toks)
    \/ \E tokenIn, tokenOut \in Tokens, amountIn, amountOut \in Amounts :
          Swap(tokenIn, tokenOut, amountIn, amountOut)
    \/ \E difference \in [Registered -> Differences] : JoinOrExit(difference)
    \/ \E t \in Tokens, n \in Amounts : Withdraw(t, n) \/ Deposit(t, n) \/ Report(t, n)

Spec == Init /\ [][Next]_vars
===============================================================================
