------------------------- MODULE TwoTokenPoolsBalance -------------------------
(***************************************************************************)
(* The balances of one Two Token Pool.  The cash of both tokens shares one *)
(* word, and so do their managed balances, in a mapping from the pair of   *)
(* tokens, the lower address first.  Swaps, joins and exits write the word *)
(* with the cash only.  A pair whose balance is not zero is taken to be    *)
(* the registered pair without looking.                                    *)
(***************************************************************************)
EXTENDS PoolHooks

CONSTANT DistinctTokens \* TRUE where the Pool deregisters two different tokens

VARIABLES
    tokenA, tokenB, \* _twoTokenPoolTokens[poolId]
    pairBalances    \* and its mapping from pairs to sharedCash, sharedManaged

twoTokenVars == <<block, tokenA, tokenB, pairBalances, call>>

-----------------------------------------------------------------------------
(* Getters *)

Pairs == (Tokens \cup {NoToken}) \X (Tokens \cup {NoToken})

Sorted(x, y) == IF x < y THEN <<x, y>> ELSE <<y, x>>

\* _isTwoTokenPoolTokenRegistered
IsRegistered(t) == (t = tokenA \/ t = tokenB) /\ t # NoToken

BalanceA(pair) == FromSharedToBalanceA(pairBalances[pair].sharedCash, pairBalances[pair].sharedManaged)
BalanceB(pair) == FromSharedToBalanceB(pairBalances[pair].sharedCash, pairBalances[pair].sharedManaged)

\* The registration check of _getTwoTokenPoolSharedBalances.
TwoTokenFound(pair) ==
    \/ ~IsZero(pairBalances[pair].sharedCash)
    \/ ~IsZero(pairBalances[pair].sharedManaged)
    \/ IsRegistered(pair[1]) /\ IsRegistered(pair[2])

-----------------------------------------------------------------------------
(* Registering and deregistering *)

TwoTokenRegisterTokens(x, y) ==
    /\ Idle
    /\ x < y
    /\ tokenA = NoToken /\ tokenB = NoToken
    /\ tokenA' = x /\ tokenB' = y
    /\ UNCHANGED <<block, pairBalances, call>>

\* deregisterTokens, which asks for two tokens.
TwoTokenDeregisterTokens(x, y) ==
    LET pair == Sorted(x, y)
    IN /\ Idle
       /\ DistinctTokens => x # y
       /\ TwoTokenFound(pair)
       /\ IsZero(pairBalances[pair].sharedCash) /\ IsZero(pairBalances[pair].sharedManaged)
       /\ tokenA' = NoToken /\ tokenB' = NoToken
       /\ pairBalances' = [pairBalances EXCEPT ![pair].sharedCash = 0]
       /\ UNCHANGED <<block, call>>

-----------------------------------------------------------------------------
(* Swaps: _processTwoTokenPoolSwapRequest, before and after onSwap *)

TwoTokenCallOnSwap(tokenIn, tokenOut) ==
    LET pair == Sorted(tokenIn, tokenOut)
    IN /\ Idle /\ tokenIn # tokenOut /\ TwoTokenFound(pair)
       /\ call' = [fn |-> "swap", pair |-> pair, inIsA |-> tokenIn < tokenOut,
                   balanceA |-> BalanceA(pair), balanceB |-> BalanceB(pair)]
       /\ UNCHANGED <<block, tokenA, tokenB, pairBalances>>

TwoTokenOnSwapReturned(amountIn, amountOut) ==
    /\ call.fn = "swap"
    /\ LET a == ChangeCash(call.balanceA, IF call.inIsA THEN amountIn ELSE -amountOut, block)
           b == ChangeCash(call.balanceB, IF call.inIsA THEN -amountOut ELSE amountIn, block)
       IN /\ Fits(a) /\ Fits(b)
          /\ pairBalances' = [pairBalances EXCEPT ![call.pair].sharedCash = ToSharedCash(a, b)]
    /\ call' = NoCall
    /\ UNCHANGED <<block, tokenA, tokenB>>

-----------------------------------------------------------------------------
(* _joinOrExit, before and after onJoinPool or onExitPool *)

TwoTokenCallOnJoinOrExit ==
    /\ Idle /\ tokenA # NoToken /\ tokenB # NoToken
    /\ LET pair == <<tokenA, tokenB>>
       IN call' = [fn |-> "joinOrExit", pair |-> pair,
                   balanceA |-> BalanceA(pair), balanceB |-> BalanceB(pair)]
    /\ UNCHANGED <<block, tokenA, tokenB, pairBalances>>

\* _setTwoTokenPoolCashBalances
TwoTokenOnJoinOrExitReturned(differenceA, differenceB) ==
    /\ call.fn = "joinOrExit"
    /\ LET a == ChangeCash(call.balanceA, differenceA, block)
           b == ChangeCash(call.balanceB, differenceB, block)
       IN /\ Fits(a) /\ Fits(b)
          /\ pairBalances' = [pairBalances EXCEPT ![call.pair].sharedCash = ToSharedCash(a, b)]
    /\ call' = NoCall
    /\ UNCHANGED <<block, tokenA, tokenB>>

\* The hook reverts, or something that follows it does.
TwoTokenRevert == call # NoCall /\ call' = NoCall /\ UNCHANGED <<block, tokenA, tokenB, pairBalances>>

-----------------------------------------------------------------------------
(* managePoolBalance, which looks for the token in the pair first *)

\* _updateTwoTokenPoolSharedBalance: new is what the mutation computes for t,
\* and other the balance of the other token.
TwoTokenUpdate(t, new, other) ==
    /\ Idle /\ IsRegistered(t)
    /\ Fits(new)
    /\ LET a == IF t = tokenA THEN new ELSE other
           b == IF t = tokenA THEN other ELSE new
       IN pairBalances' = [pairBalances EXCEPT ![<<tokenA, tokenB>>] =
             [sharedCash |-> ToSharedCash(a, b), sharedManaged |-> ToSharedManaged(a, b)]]
    /\ UNCHANGED <<block, tokenA, tokenB, call>>

BalanceOf(t) == IF t = tokenA THEN BalanceA(<<tokenA, tokenB>>) ELSE BalanceB(<<tokenA, tokenB>>)
OtherBalance(t) == IF t = tokenA THEN BalanceB(<<tokenA, tokenB>>) ELSE BalanceA(<<tokenA, tokenB>>)

TwoTokenWithdrawPoolBalance(t, n) == TwoTokenUpdate(t, CashToManaged(BalanceOf(t), n), OtherBalance(t))
TwoTokenDepositPoolBalance(t, n) == TwoTokenUpdate(t, CashToManaged(BalanceOf(t), -n), OtherBalance(t))
TwoTokenUpdateManagedBalance(t, n) ==
    TwoTokenUpdate(t, SetManaged(BalanceOf(t), n, block), OtherBalance(t))

-----------------------------------------------------------------------------

\* Blocks end between transactions.
TwoTokenNewBlock ==
    /\ Idle /\ block < MaxBlock
    /\ block' = block + 1
    /\ UNCHANGED <<tokenA, tokenB, pairBalances, call>>

TwoTokenInit ==
    /\ block = 1
    /\ tokenA = NoToken /\ tokenB = NoToken
    /\ pairBalances = [pair \in Pairs |-> [sharedCash |-> 0, sharedManaged |-> 0]]
    /\ call = NoCall

TwoTokenNext ==
    \/ TwoTokenNewBlock
    \/ \E x, y \in Tokens :
          TwoTokenRegisterTokens(x, y) \/ TwoTokenDeregisterTokens(x, y) \/ TwoTokenCallOnSwap(x, y)
    \/ \E amountIn, amountOut \in Amounts : TwoTokenOnSwapReturned(amountIn, amountOut)
    \/ TwoTokenCallOnJoinOrExit
    \/ \E differenceA, differenceB \in Differences :
          TwoTokenOnJoinOrExitReturned(differenceA, differenceB)
    \/ TwoTokenRevert
    \/ \E t \in Tokens, n \in Amounts :
          \/ TwoTokenWithdrawPoolBalance(t, n) \/ TwoTokenDepositPoolBalance(t, n)
          \/ TwoTokenUpdateManagedBalance(t, n)

TwoTokenSpec == TwoTokenInit /\ [][TwoTokenNext]_twoTokenVars

-----------------------------------------------------------------------------
(* Properties *)

\* Types; and no action makes a total reach 2^112.
TwoTokenTypeOK ==
    /\ block \in 1..MaxBlock
    /\ {tokenA, tokenB} \subseteq Tokens \cup {NoToken}
    /\ pairBalances \in [Pairs -> [sharedCash : Nat, sharedManaged : Nat]]
    /\ \A pair \in Pairs : Total(BalanceA(pair)) < Limit /\ Total(BalanceB(pair)) < Limit

\* "Non-zero balances are only possible if both tokens in the pair are
\* registered with the Pool, which means we don't have to check".
TwoTokenNonZeroIsRegistered ==
    \A pair \in Pairs :
        ~IsZero(pairBalances[pair].sharedCash) \/ ~IsZero(pairBalances[pair].sharedManaged)
            => tokenA # NoToken /\ pair = <<tokenA, tokenB>>

\* What was read before the hook is what is stored when the hook returns, and
\* the pair is still the registered one.
TwoTokenReadIsCurrent ==
    call # NoCall =>
        /\ tokenA # NoToken /\ call.pair = <<tokenA, tokenB>>
        /\ call.balanceA = BalanceA(call.pair) /\ call.balanceB = BalanceB(call.pair)

\* The layout keeps the promises of the PoolLedger.
TwoTokenLedger == INSTANCE PoolLedger WITH
    SharedBlock <- TRUE,
    ledger <- [t \in {u \in Tokens : IsRegistered(u)} |-> BalanceOf(t)]
TwoTokenKeepsLedger == TwoTokenLedger!Spec
===============================================================================
