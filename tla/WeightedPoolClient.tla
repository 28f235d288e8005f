-------------------------- MODULE WeightedPoolClient --------------------------
(***************************************************************************)
(* BaseWeightedPool.ts, the tests' handle on a Weighted Pool, with its        *)
(* encoder. The client c was deployed with [tokens, weights, fee], and       *)
(* estimates with these; v is what the Vault and the contract answer: the     *)
(* registered [tokens, balances] and the supply.                             *)
(***************************************************************************)
EXTENDS WeightedMath

CONSTANT MAX_UINT256

IndexIn(tokens, token) == CHOOSE i \in DOMAIN tokens : tokens[i] = token
IsArray(amounts) == Len(amounts) # 1

-----------------------------------------------------------------------------
(* WeightedPoolEncoder. ADD_TOKEN and REMOVE_TOKEN, which follow, have no       *)
(* number in the contract.                                                    *)

JoinKindNumber(kind) ==
    CASE kind = "INIT" -> 0
      [] kind = "EXACT_TOKENS_IN_FOR_BPT_OUT" -> 1
      [] kind = "TOKEN_IN_FOR_EXACT_BPT_OUT" -> 2
      [] kind = "ALL_TOKENS_IN_FOR_EXACT_BPT_OUT" -> 3
ExitKindNumber(kind) ==
    CASE kind = "EXACT_BPT_IN_FOR_ONE_TOKEN_OUT" -> 0
      [] kind = "EXACT_BPT_IN_FOR_TOKENS_OUT" -> 1
      [] kind = "BPT_IN_FOR_EXACT_TOKENS_OUT" -> 2

JoinInit(amountsIn) == <<JoinKindNumber("INIT"), amountsIn>>
JoinExactTokensInForBPTOut(amountsIn, minimumBPT) ==
    <<JoinKindNumber("EXACT_TOKENS_IN_FOR_BPT_OUT"), amountsIn, minimumBPT>>
JoinTokenInForExactBPTOut(bptAmountOut, enterTokenIndex) ==
    <<JoinKindNumber("TOKEN_IN_FOR_EXACT_BPT_OUT"), bptAmountOut, enterTokenIndex>>
JoinAllTokensInForExactBPTOut(bptAmountOut) ==
    <<JoinKindNumber("ALL_TOKENS_IN_FOR_EXACT_BPT_OUT"), bptAmountOut>>
ExitExactBPTInForOneTokenOut(bptAmountIn, exitTokenIndex) ==
    <<ExitKindNumber("EXACT_BPT_IN_FOR_ONE_TOKEN_OUT"), bptAmountIn, exitTokenIndex>>
ExitExactBPTInForTokensOut(bptAmountIn) ==
    <<ExitKindNumber("EXACT_BPT_IN_FOR_TOKENS_OUT"), bptAmountIn>>
ExitBPTInForExactTokensOut(amountsOut, maxBPTAmountIn) ==
    <<ExitKindNumber("BPT_IN_FOR_EXACT_TOKENS_OUT"), amountsOut, maxBPTAmountIn>>

-----------------------------------------------------------------------------
(* The limits, which the client knows for itself *)

Ratio(percent) == (percent * WAD) \div 100
MAX_IN_RATIO == Ratio(30)
MAX_OUT_RATIO == Ratio(30)
MAX_INVARIANT_RATIO == Ratio(300)
MIN_INVARIANT_RATIO == Ratio(70)

GetMaxInvariantDecrease(v) == v.supply - FpMul(MIN_INVARIANT_RATIO, v.supply)
GetMaxInvariantIncrease(v) == FpMul(MAX_INVARIANT_RATIO, v.supply) - v.supply
GetMaxIn(v, tokenIndex) == FpMul(v.balances[tokenIndex], MAX_IN_RATIO)
GetMaxOut(v, tokenIndex) == FpMul(v.balances[tokenIndex], MAX_OUT_RATIO)

-----------------------------------------------------------------------------
(* Estimates. Those of swaps take no fee, the others the fee of deployment.     *)

EstimateInvariant(c, v) == CalculateInvariant(v.balances, c.weights)

EstimateGivenIn(c, v, tokenIn, tokenOut, amount) ==
    LET i == IndexIn(c.tokens, tokenIn)
        o == IndexIn(c.tokens, tokenOut)
    IN Fp(CalcOutGivenIn(v.balances[i], c.weights[i], v.balances[o], c.weights[o], amount))

EstimateGivenOut(c, v, tokenIn, tokenOut, amount) ==
    LET i == IndexIn(c.tokens, tokenIn)
        o == IndexIn(c.tokens, tokenOut)
    IN Fp(CalcInGivenOut(v.balances[i], c.weights[i], v.balances[o], c.weights[o], amount))

EstimateBptOut(c, v, amountsIn) ==
    CalcBptOutGivenExactTokensIn(v.balances, c.weights, amountsIn, v.supply, c.fee)
EstimateTokenIn(c, v, token, bptOut) ==
    CalcTokenInGivenExactBptOut(IndexIn(c.tokens, token), v.balances, c.weights, bptOut, v.supply, c.fee)
EstimateTokenOut(c, v, token, bptIn) ==
    CalcTokenOutGivenExactBptIn(IndexIn(c.tokens, token), v.balances, c.weights, bptIn, v.supply, c.fee)

-----------------------------------------------------------------------------
(* What is sent *)

Fill(c, amounts) == IF IsArray(amounts) THEN amounts ELSE [i \in DOMAIN c.tokens |-> amounts[1]]

BuildInitParams(c, initialBalances) == JoinInit(Fill(c, initialBalances))
BuildJoinGivenInParams(c, amountsIn) == JoinExactTokensInForBPTOut(Fill(c, amountsIn), 0)
BuildJoinGivenOutParams(c, token, bptOut) == JoinTokenInForExactBPTOut(bptOut, IndexIn(c.tokens, token))
BuildJoinAllGivenOutParams(bptOut) == JoinAllTokensInForExactBPTOut(bptOut)
BuildExitGivenOutParams(c, amountsOut) == ExitBPTInForExactTokensOut(Fill(c, amountsOut), MAX_UINT256)
BuildSingleExitGivenInParams(c, token, bptIn) == ExitExactBPTInForOneTokenOut(bptIn, IndexIn(c.tokens, token))
BuildMultiExitGivenInParams(bptIn) == ExitExactBPTInForTokensOut(bptIn)

BuildSwapParams(v, isGivenIn, tokenIn, tokenOut, amount) ==
    [isGivenIn |-> isGivenIn, tokenIn |-> tokenIn, tokenOut |-> tokenOut, amount |-> amount,
     balanceTokenIn |-> v.balances[IndexIn(v.tokens, tokenIn)],
     balanceTokenOut |-> v.balances[IndexIn(v.tokens, tokenOut)]]
===============================================================================
