--------------------------- MODULE StablePoolClient ---------------------------
(***************************************************************************)
(* StablePool.ts, the tests' handle on a Stable Pool, with its encoder. The  *)
(* client c was deployed with [tokens, bptIndex, amp], its tokens without    *)
(* the Pool's own; v is what the Vault and the contract answer: the          *)
(* registered [tokens, balances], BPT among them, and the fee. Lists of       *)
(* amounts are over the registered tokens; one amount alone is a scalar.     *)
(***************************************************************************)
EXTENDS StableMath

CONSTANTS PREMINTED_BPT, MAX_UINT256

IndexIn(tokens, token) == CHOOSE i \in DOMAIN tokens : tokens[i] = token
IsArray(amounts) == Len(amounts) # 1

-----------------------------------------------------------------------------
(* StablePoolEncoder *)

JoinKindNumber(kind) ==
    CASE kind = "INIT" -> 0
      [] kind = "EXACT_TOKENS_IN_FOR_BPT_OUT" -> 1
      [] kind = "TOKEN_IN_FOR_EXACT_BPT_OUT" -> 2
      [] kind = "ALL_TOKENS_IN_FOR_EXACT_BPT_OUT" -> 3
ExitKindNumber(kind) ==
    CASE kind = "EXACT_BPT_IN_FOR_ONE_TOKEN_OUT" -> 0
      [] kind = "BPT_IN_FOR_EXACT_TOKENS_OUT" -> 1
      [] kind = "EXACT_BPT_IN_FOR_ALL_TOKENS_OUT" -> 2

JoinInit(amountsIn) == <<JoinKindNumber("INIT"), amountsIn>>
JoinExactTokensInForBPTOut(amountsIn, minimumBPT) ==
    <<JoinKindNumber("EXACT_TOKENS_IN_FOR_BPT_OUT"), amountsIn, minimumBPT>>
JoinTokenInForExactBPTOut(bptAmountOut, enterTokenIndex) ==
    <<JoinKindNumber("TOKEN_IN_FOR_EXACT_BPT_OUT"), bptAmountOut, enterTokenIndex>>
JoinAllTokensInForExactBptOut(bptAmountOut) ==
    <<JoinKindNumber("ALL_TOKENS_IN_FOR_EXACT_BPT_OUT"), bptAmountOut>>
ExitExactBPTInForOneTokenOut(bptAmountIn, exitTokenIndex) ==
    <<ExitKindNumber("EXACT_BPT_IN_FOR_ONE_TOKEN_OUT"), bptAmountIn, exitTokenIndex>>
ExitBPTInForExactTokensOut(amountsOut, maxBPTAmountIn) ==
    <<ExitKindNumber("BPT_IN_FOR_EXACT_TOKENS_OUT"), amountsOut, maxBPTAmountIn>>
ExitExactBptInForTokensOut(bptAmountIn) ==
    <<ExitKindNumber("EXACT_BPT_IN_FOR_ALL_TOKENS_OUT"), bptAmountIn>>

-----------------------------------------------------------------------------
(* BPT and the other tokens *)

SkipBptIndex(c, index) == IF index < c.bptIndex THEN index ELSE index - 1

\* Mutant: the item after BPT goes, not BPT.
DropAfterBptItem(c, items) == [i \in DOMAIN Front(items) |-> items[IF i <= c.bptIndex THEN i ELSE i + 1]]

\* It drops an item whether or not BPT is among them.
DropBptItem(c, items) == [i \in DOMAIN Front(items) |-> items[IF i < c.bptIndex THEN i ELSE i + 1]]

GetTokenIndex(v, token) == IndexIn(v.tokens, token)

\* Mutant: what the Vault keeps of BPT counts too.
TotalSupplyWithPreminted(c, v) == PREMINTED_BPT

\* As if all BPT there is had been minted at once, which a join undoes.
VirtualTotalSupply(c, v) == PREMINTED_BPT - v.balances[c.bptIndex]

-----------------------------------------------------------------------------
(* Estimates. Those of one token against BPT take no fee.                     *)

CurrentBalances(c, v) == DropBptItem(c, v.balances)
OneAmount(c, v, token, amount) ==
    [i \in DOMAIN CurrentBalances(c, v) |->
        IF i = SkipBptIndex(c, GetTokenIndex(v, token)) THEN amount ELSE 0]

EstimateInvariant(c, v) == CalculateInvariant(CurrentBalances(c, v), c.amp)

EstimateTokenOutGivenTokenIn(c, v, tokenIn, tokenOut, amountIn) ==
    Fp(CalcOutGivenIn(CurrentBalances(c, v), c.amp, SkipBptIndex(c, GetTokenIndex(v, tokenIn)),
                      SkipBptIndex(c, GetTokenIndex(v, tokenOut)), amountIn))

EstimateTokenInGivenTokenOut(c, v, tokenIn, tokenOut, amountOut) ==
    Fp(CalcInGivenOut(CurrentBalances(c, v), c.amp, SkipBptIndex(c, GetTokenIndex(v, tokenIn)),
                      SkipBptIndex(c, GetTokenIndex(v, tokenOut)), amountOut))

EstimateTokenOutGivenBptIn(c, v, token, bptIn) ==
    CalcTokenOutGivenExactBptIn(SkipBptIndex(c, GetTokenIndex(v, token)), CurrentBalances(c, v), c.amp,
                                bptIn, VirtualTotalSupply(c, v), EstimateInvariant(c, v), 0)

EstimateTokenInGivenBptOut(c, v, token, bptOut) ==
    CalcTokenInGivenExactBptOut(SkipBptIndex(c, GetTokenIndex(v, token)), CurrentBalances(c, v), c.amp,
                                bptOut, VirtualTotalSupply(c, v), EstimateInvariant(c, v), 0)

EstimateBptOutGivenTokenIn(c, v, token, amountIn) ==
    CalcBptOutGivenExactTokensIn(CurrentBalances(c, v), c.amp, OneAmount(c, v, token, amountIn),
                                 VirtualTotalSupply(c, v), EstimateInvariant(c, v), 0)

EstimateBptInGivenTokenOut(c, v, token, amountOut) ==
    CalcBptInGivenExactTokensOut(CurrentBalances(c, v), c.amp, OneAmount(c, v, token, amountOut),
                                 VirtualTotalSupply(c, v), EstimateInvariant(c, v), 0)

\* Lists that have as many items as there are registered tokens lose BPT's.
EstimateBptOut(c, v, amountsIn) ==
    CalcBptOutGivenExactTokensIn(CurrentBalances(c, v), c.amp,
        IF Len(amountsIn) = Len(v.balances) THEN DropBptItem(c, amountsIn) ELSE amountsIn,
        VirtualTotalSupply(c, v), EstimateInvariant(c, v), v.fee)

-----------------------------------------------------------------------------
(* What is sent *)

Fill(c, amounts) == IF IsArray(amounts) THEN amounts ELSE [i \in DOMAIN c.tokens |-> amounts[1]]

BuildInitParams(c, initialBalances) == JoinInit(Fill(c, initialBalances))

\* BPT's item is dropped from the caller's params, each time that they are used. What is
\* left is a list, so a scalar is not filled in.
Dropped(c, amounts, uses) == FoldLeft(LAMBDA items, k : DropBptItem(c, items), amounts, [k \in 1..uses |-> k])

BuildJoinGivenInParams(c, amountsIn, uses) == JoinExactTokensInForBPTOut(Dropped(c, amountsIn, uses), 0)
BuildSingleJoinGivenOutParams(c, token, bptOut) == JoinTokenInForExactBPTOut(bptOut, IndexIn(c.tokens, token))
BuildJoinGivenOutParams(bptOut) == JoinAllTokensInForExactBptOut(bptOut)
BuildExitGivenOutParams(c, amountsOut, uses) == ExitBPTInForExactTokensOut(Dropped(c, amountsOut, uses), MAX_UINT256)
BuildSingleExitGivenInParams(c, token, bptIn) == ExitExactBPTInForOneTokenOut(bptIn, IndexIn(c.tokens, token))
BuildExitGivenInParams(bptIn) == ExitExactBptInForTokensOut(bptIn)

BuildSwapParams(v, isGivenIn, tokenIn, tokenOut, amount) ==
    [isGivenIn |-> isGivenIn, tokenIn |-> tokenIn, tokenOut |-> tokenOut, amount |-> amount,
     balances |-> v.balances, indexIn |-> GetTokenIndex(v, tokenIn), indexOut |-> GetTokenIndex(v, tokenOut)]

BuildQuerySwapParams(v, isGivenIn, tokenIn, tokenOut, amount) ==
    [isGivenIn |-> isGivenIn, assetInIndex |-> IndexIn(v.tokens, tokenIn),
     assetOutIndex |-> IndexIn(v.tokens, tokenOut), assets |-> v.tokens, amount |-> amount]

\* The Vault answers a delta per asset, which is less than zero for what it gives.
\* Mutant: the sign is the Vault's.
QuerySwapSigned(v, isGivenIn, tokenIn, tokenOut, deltas) ==
    deltas[IndexIn(v.tokens, IF isGivenIn THEN tokenOut ELSE tokenIn)]
QuerySwap(v, isGivenIn, tokenIn, tokenOut, deltas) ==
    IF isGivenIn THEN -deltas[IndexIn(v.tokens, tokenOut)] ELSE deltas[IndexIn(v.tokens, tokenIn)]
===============================================================================
