--------------------- MODULE MinimalSwapInfoPoolsBalance ---------------------
(***************************************************************************)
(* The balances of one Minimal Swap Info Pool: a mapping from every token  *)
(* to its balance word, and the set of the registered tokens.  To save a   *)
(* read, the getter takes a word that is not zero as proof that the token  *)
(* is registered, so a deregistered token must leave nothing behind.       *)
(***************************************************************************)
EXTENDS PoolHooks

VARIABLES
    balances,       \* _minimalSwapInfoPoolsBalances[poolId]
    tokens          \* _minimalSwapInfoPoolsTokens[poolId]

minimalVars == <<block, balances, tokens, call>>

\* The registration check of _getMinimalSwapInfoPoolBalance.
MinimalFound(t) == ~IsZero(balances[t]) \/ t \in tokens

-----------------------------------------------------------------------------
(* Registering and deregistering *)

MinimalRegisterTokens(toks) ==
    /\ Idle
    /\ toks \cap tokens = {}
    /\ tokens' = tokens \cup toks
    /\ UNCHANGED <<block, balances, call>>

\* Mutant: the block of the last change is left behind.
DeregisterTokensWithoutReset(toks) ==
    /\ Idle
    /\ toks \subseteq tokens /\ \A t \in toks : IsZero(balances[t])
    /\ tokens' = tokens \ toks
    /\ UNCHANGED <<block, balances, call>>

MinimalDeregisterTokens(toks) ==
    /\ Idle
    /\ toks \subseteq tokens /\ \A t \in toks : IsZero(balances[t])
    /\ balances' = [t \in Tokens |-> IF t \in toks THEN 0 ELSE balances[t]]
    /\ tokens' = tokens \ toks
    /\ UNCHANGED <<block, call>>

-----------------------------------------------------------------------------
(* Swaps: _processMinimalSwapInfoPoolSwapRequest, before and after onSwap *)

MinimalCallOnSwap(tokenIn, tokenOut) ==
    /\ Idle /\ tokenIn # tokenOut /\ MinimalFound(tokenIn) /\ MinimalFound(tokenOut)
    /\ call' = [fn |-> "swap", tokenIn |-> tokenIn, tokenOut |-> tokenOut,
                balanceIn |-> balances[tokenIn], balanceOut |-> balances[tokenOut]]
    /\ UNCHANGED <<block, balances, tokens>>

MinimalOnSwapReturned(amountIn, amountOut) ==
    /\ call.fn = "swap"
    /\ LET in == ChangeCash(Unpacked(call.balanceIn), amountIn, block)
           out == ChangeCash(Unpacked(call.balanceOut), -amountOut, block)
       IN /\ Fits(in) /\ Fits(out)
          /\ balances' = [balances EXCEPT ![call.tokenIn] = ToBalance(in),
                                          ![call.tokenOut] = ToBalance(out)]
    /\ call' = NoCall
    /\ UNCHANGED <<block, tokens>>

-----------------------------------------------------------------------------
(* _joinOrExit, before and after onJoinPool or onExitPool *)

MinimalCallOnJoinOrExit ==
    /\ Idle /\ tokens # {}
    /\ call' = [fn |-> "joinOrExit", balances |-> [t \in tokens |-> balances[t]]]
    /\ UNCHANGED <<block, balances, tokens>>

\* _setMinimalSwapInfoPoolBalances
MinimalOnJoinOrExitReturned(difference) ==
    /\ call.fn = "joinOrExit"
    /\ LET final == [t \in DOMAIN call.balances |->
                        ChangeCash(Unpacked(call.balances[t]), difference[t], block)]
       IN /\ \A t \in DOMAIN final : Fits(final[t])
          /\ balances' = [t \in Tokens |->
                IF t \in DOMAIN final THEN ToBalance(final[t]) ELSE balances[t]]
    /\ call' = NoCall
    /\ UNCHANGED <<block, tokens>>

\* The hook reverts, or something that follows it does.
MinimalRevert == call # NoCall /\ call' = NoCall /\ UNCHANGED <<block, balances, tokens>>

-----------------------------------------------------------------------------
(* managePoolBalance, which looks the token up in the set first *)

\* _updateMinimalSwapInfoPoolBalance, with what the mutation computes.
MinimalUpdate(t, new) ==
    /\ Idle /\ t \in tokens
    /\ Fits(new)
    /\ balances' = [balances EXCEPT ![t] = ToBalance(new)]
    /\ UNCHANGED <<block, tokens, call>>

MinimalWithdrawPoolBalance(t, n) == MinimalUpdate(t, CashToManaged(Unpacked(balances[t]), n))
MinimalDepositPoolBalance(t, n) == MinimalUpdate(t, CashToManaged(Unpacked(balances[t]), -n))
MinimalUpdateManagedBalance(t, n) == MinimalUpdate(t, SetManaged(Unpacked(balances[t]), n, block))

-----------------------------------------------------------------------------

\* Blocks end between transactions.
MinimalNewBlock == Idle /\ block < MaxBlock /\ block' = block + 1 /\ UNCHANGED <<balances, tokens, call>>

MinimalInit ==
    /\ block = 1
    /\ balances = [t \in Tokens |-> 0]
    /\ tokens = {}
    /\ call = NoCall

MinimalNext ==
    \/ MinimalNewBlock
    \/ \E toks \in SUBSET Tokens : MinimalRegisterTokens(toks) \/ MinimalDeregisterTokens(toks)
    \/ \E tokenIn, tokenOut \in Tokens : MinimalCallOnSwap(tokenIn, tokenOut)
    \/ \E amountIn, amountOut \in Amounts : MinimalOnSwapReturned(amountIn, amountOut)
    \/ MinimalCallOnJoinOrExit
    \/ call.fn = "joinOrExit" /\
          \E difference \in [DOMAIN call.balances -> Differences] :
              MinimalOnJoinOrExitReturned(difference)
    \/ MinimalRevert
    \/ \E t \in Tokens, n \in Amounts :
          \/ MinimalWithdrawPoolBalance(t, n) \/ MinimalDepositPoolBalance(t, n)
          \/ MinimalUpdateManagedBalance(t, n)

MinimalSpec == MinimalInit /\ [][MinimalNext]_minimalVars

-----------------------------------------------------------------------------
(* Properties *)

\* Types; and no action makes a total reach 2^112.
MinimalTypeOK ==
    /\ block \in 1..MaxBlock
    /\ tokens \subseteq Tokens
    /\ balances \in [Tokens -> Nat]
    /\ \A t \in Tokens : Total(Unpacked(balances[t])) < Limit

\* "A non-zero balance guarantees that the token is registered", which the
\* getter relies on, and the hooks that run between a read and a write with it.
MinimalNonZeroIsRegistered == \A t \in Tokens : ~IsZero(balances[t]) => t \in tokens

\* What was read before the hook is what is stored when the hook returns, and
\* the tokens are still registered.
MinimalReadIsCurrent ==
    /\ call.fn = "swap" =>
          /\ call.tokenIn # call.tokenOut /\ {call.tokenIn, call.tokenOut} \subseteq tokens
          /\ call.balanceIn = balances[call.tokenIn] /\ call.balanceOut = balances[call.tokenOut]
    /\ call.fn = "joinOrExit" =>
          tokens # {} /\ call.balances = [t \in tokens |-> balances[t]]

\* The layout keeps the promises of the PoolLedger.
MinimalLedger == INSTANCE PoolLedger WITH
    SharedBlock <- FALSE,
    ledger <- [t \in tokens |-> Unpacked(balances[t])]
MinimalKeepsLedger == MinimalLedger!Spec
===============================================================================
