----------------------------- MODULE WeightedPool -----------------------------
(***************************************************************************)
(* The contract of a Weighted Pool as joins, exits and swaps reach it. The   *)
(* arithmetic is the reference's, within the limits that the contract sets;  *)
(* its rounding and protocol fees are left out.                              *)
(* A Pool p: [tokens, balances, supply, weights, fee, recovery].             *)
(***************************************************************************)
EXTENDS WeightedMath

Ratio(percent) == (percent * WAD) \div 100
MAX_IN_RATIO == Ratio(30)
MAX_OUT_RATIO == Ratio(30)
MAX_INVARIANT_RATIO == Ratio(300)
MIN_INVARIANT_RATIO == Ratio(70)

-----------------------------------------------------------------------------
(* WeightedPoolUserData: not in the order of the Stable Pools *)

JoinKind(data) ==
    <<"INIT", "EXACT_TOKENS_IN_FOR_BPT_OUT", "TOKEN_IN_FOR_EXACT_BPT_OUT",
      "ALL_TOKENS_IN_FOR_EXACT_BPT_OUT">>[data[1] + 1]
ExitKind(data) ==
    <<"EXACT_BPT_IN_FOR_ONE_TOKEN_OUT", "EXACT_BPT_IN_FOR_TOKENS_OUT",
      "BPT_IN_FOR_EXACT_TOKENS_OUT">>[data[1] + 1]

-----------------------------------------------------------------------------
Reverts == [ok |-> FALSE, bpt |-> 0, amounts |-> <<>>]
Does(bpt, amounts) ==
    IF bpt >= 0 /\ \A i \in DOMAIN amounts : amounts[i] >= 0
    THEN [ok |-> TRUE, bpt |-> bpt, amounts |-> amounts] ELSE Reverts
DoesAtLeast(bpt, limit, amounts) == IF bpt >= limit THEN Does(bpt, amounts) ELSE Reverts
DoesAtMost(bpt, limit, amounts) == IF bpt <= limit THEN Does(bpt, amounts) ELSE Reverts

OnlyAt(p, index, amount) == [i \in DOMAIN p.balances |-> IF i = index THEN amount ELSE 0]

ComputeProportionalAmountsIn(balances, supply, bptOut) ==
    LET ratio == DivCeil(bptOut * WAD, supply)
    IN [i \in DOMAIN balances |-> DivCeil(balances[i] * ratio, WAD)]
ComputeProportionalAmountsOut(balances, supply, bptIn) ==
    LET ratio == FpDiv(bptIn, supply)
    IN [i \in DOMAIN balances |-> FpMul(balances[i], ratio)]

OnInitializePool(p, data) ==
    IF JoinKind(data) # "INIT" \/ Len(data[2]) # Len(p.tokens) THEN Reverts
    ELSE Does(CalculateInvariant(data[2], p.weights) * Len(p.tokens), data[2])

JoinAmounts(p, balances, data) ==
    CASE JoinKind(data) = "EXACT_TOKENS_IN_FOR_BPT_OUT" /\ Len(data[2]) = Len(balances) ->
           DoesAtLeast(CalcBptOutGivenExactTokensIn(balances, p.weights, data[2], p.supply, p.fee),
                       data[3], data[2])
      [] JoinKind(data) = "TOKEN_IN_FOR_EXACT_BPT_OUT" /\ data[3] \in DOMAIN balances ->
           IF DivCeil((p.supply + data[2]) * WAD, p.supply) <= MAX_INVARIANT_RATIO
           THEN Does(data[2], OnlyAt(p, data[3],
                    CalcTokenInGivenExactBptOut(data[3], balances, p.weights, data[2], p.supply, p.fee)))
           ELSE Reverts
      [] JoinKind(data) = "ALL_TOKENS_IN_FOR_EXACT_BPT_OUT" ->
           Does(data[2], ComputeProportionalAmountsIn(balances, p.supply, data[2]))
      [] OTHER -> Reverts

ExitAmounts(p, balances, data) ==
    CASE ExitKind(data) = "EXACT_BPT_IN_FOR_ONE_TOKEN_OUT" /\ data[3] \in DOMAIN balances ->
           IF DivCeil((p.supply - data[2]) * WAD, p.supply) >= MIN_INVARIANT_RATIO
           THEN Does(data[2], OnlyAt(p, data[3],
                    CalcTokenOutGivenExactBptIn(data[3], balances, p.weights, data[2], p.supply, p.fee)))
           ELSE Reverts
      [] ExitKind(data) = "EXACT_BPT_IN_FOR_TOKENS_OUT" ->
           Does(data[2], ComputeProportionalAmountsOut(balances, p.supply, data[2]))
      [] ExitKind(data) = "BPT_IN_FOR_EXACT_TOKENS_OUT" /\ Len(data[2]) = Len(balances) ->
           DoesAtMost(CalcBptInGivenExactTokensOut(balances, p.weights, data[2], p.supply, p.fee),
                      data[3], data[2])
      [] OTHER -> Reverts

OnJoinPool(p, balances, data) ==
    IF p.supply = 0 THEN OnInitializePool(p, data) ELSE JoinAmounts(p, balances, data)

OnExitPool(p, balances, data) ==
    IF data[1] # 255 THEN ExitAmounts(p, balances, data)
    ELSE IF p.recovery THEN Does(data[2], ComputeProportionalAmountsOut(balances, p.supply, data[2]))
         ELSE Reverts

-----------------------------------------------------------------------------
(* Swaps: the amount that was not given, or less than zero when it reverts *)

AddSwapFeeAmount(p, amount) == DivCeil(amount * WAD, WAD - p.fee)
SubtractSwapFeeAmount(p, amount) == amount - DivCeil(amount * p.fee, WAD)

OnSwap(p, isGivenIn, amount, tokenIn, tokenOut, balanceIn, balanceOut) ==
    LET weight(token) == p.weights[CHOOSE i \in DOMAIN p.tokens : p.tokens[i] = token]
        given == SubtractSwapFeeAmount(p, amount)
    IN IF isGivenIn
       THEN IF given > FpMul(balanceIn, MAX_IN_RATIO) THEN -1
            ELSE Fp(CalcOutGivenIn(balanceIn, weight(tokenIn), balanceOut, weight(tokenOut), given))
       ELSE IF amount > FpMul(balanceOut, MAX_OUT_RATIO) THEN -1
            ELSE AddSwapFeeAmount(p,
                     Fp(CalcInGivenOut(balanceIn, weight(tokenIn), balanceOut, weight(tokenOut), amount)))
===============================================================================
