----------------------------- MODULE WeightedMath -----------------------------
(***************************************************************************)
(* pools/weighted/math.ts: the reference that the tests hold the Weighted    *)
(* Pools against. Weights are BigNumbers too, fourths of one or halves.      *)
(***************************************************************************)
EXTENDS Numbers

\* The balances count units here, not wei: weights that sum up to one make it the same.
CalculateInvariant(fpRawBalances, fpRawWeights) ==
    Fp(FoldLeft(LAMBDA inv, factor : Mul(inv, factor), ONE,
                [i \in DOMAIN fpRawBalances |-> Pow(FromFp(fpRawBalances[i]), FromFp(fpRawWeights[i]))]))

CalcOutGivenIn(fpBalanceIn, fpWeightIn, fpBalanceOut, fpWeightOut, fpAmountIn) ==
    LET base == Div(FromFp(fpBalanceIn), FromFp(fpBalanceIn + fpAmountIn))
        exponent == Div(FromFp(fpWeightIn), FromFp(fpWeightOut))
    IN Mul(FromFp(fpBalanceOut), ONE - Pow(base, exponent))

CalcInGivenOut(fpBalanceIn, fpWeightIn, fpBalanceOut, fpWeightOut, fpAmountOut) ==
    LET base == Div(FromFp(fpBalanceOut), FromFp(fpBalanceOut - fpAmountOut))
        exponent == Div(FromFp(fpWeightOut), FromFp(fpWeightIn))
    IN Mul(FromFp(fpBalanceIn), Pow(base, exponent) - ONE)

-----------------------------------------------------------------------------
(* Joins and exits *)

MeanRatio(ratios, weights) == Sum([i \in DOMAIN ratios |-> Mul(ratios[i], weights[i])])
InvariantRatio(ratios, weights) ==
    FoldLeft(LAMBDA p, factor : Mul(p, factor), ONE, [i \in DOMAIN ratios |-> Pow(ratios[i], weights[i])])

\* What is left of an amount in, with the fee on what exceeds the mean.
WithoutFee(balance, amount, ratio, mean, swapFee) ==
    LET taxed(nonTaxable) == nonTaxable + Mul(amount - nonTaxable, ONE - swapFee)
    IN IF ratio > mean THEN taxed(Mul(balance, mean - ONE)) ELSE amount

CalcBptOutGivenExactTokensIn(fpBalances, fpWeights, fpAmountsIn, fpBptTotalSupply, fpSwapFee) ==
    LET balances == [i \in DOMAIN fpBalances |-> FromFp(fpBalances[i])]
        amountsIn == [i \in DOMAIN fpBalances |-> FromFp(fpAmountsIn[i])]
        weights == [i \in DOMAIN fpBalances |-> FromFp(fpWeights[i])]
        newRatios(ratios, mean) ==
            [i \in DOMAIN ratios |->
                Div(balances[i] + WithoutFee(balances[i], amountsIn[i], ratios[i], mean, FromFp(fpSwapFee)), balances[i])]
        withoutFees(ratios) == newRatios(ratios, MeanRatio(ratios, weights))
        ratiosIn == [i \in DOMAIN fpBalances |-> Div(balances[i] + amountsIn[i], balances[i])]
    IN Fp(Mul(FromFp(fpBptTotalSupply), InvariantRatio(withoutFees(ratiosIn), weights) - ONE))

CalcTokenInGivenExactBptOut(tokenIndex, fpBalances, fpWeights, fpBptAmountOut, fpBptTotalSupply, fpSwapFee) ==
    LET weight == FromFp(fpWeights[tokenIndex])
        invariantRatio == Div(FromFp(fpBptTotalSupply + fpBptAmountOut), FromFp(fpBptTotalSupply))
        ratio == Pow(invariantRatio, Div(ONE, weight))
        afterFee == Mul(FromFp(fpBalances[tokenIndex]), ratio - ONE)
    IN Fp(Div(afterFee, ONE - Mul(ONE - weight, FromFp(fpSwapFee))))

\* The part of an amount out that exceeds the mean.
Excess(ratio, mean) == IF mean <= ratio THEN 0 ELSE Div(mean - ratio, ONE - ratio)

CalcBptInGivenExactTokensOut(fpBalances, fpWeights, fpAmountsOut, fpBptTotalSupply, fpSwapFee) ==
    LET balances == [i \in DOMAIN fpBalances |-> FromFp(fpBalances[i])]
        amountsOut == [i \in DOMAIN fpBalances |-> FromFp(fpAmountsOut[i])]
        weights == [i \in DOMAIN fpBalances |-> FromFp(fpWeights[i])]
        newRatios(ratios, mean) ==
            [i \in DOMAIN ratios |->
                ONE - Div(Div(amountsOut[i], ONE - Mul(FromFp(fpSwapFee), Excess(ratios[i], mean))), balances[i])]
        withFees(ratios) == newRatios(ratios, MeanRatio(ratios, weights))
        ratiosOut == [i \in DOMAIN fpBalances |-> Div(balances[i] - amountsOut[i], balances[i])]
    IN Fp(Mul(FromFp(fpBptTotalSupply), ONE - InvariantRatio(withFees(ratiosOut), weights)))

CalcTokenOutGivenExactBptIn(tokenIndex, fpBalances, fpWeights, fpBptAmountIn, fpBptTotalSupply, fpSwapFee) ==
    LET weight == FromFp(fpWeights[tokenIndex])
        invariantRatio == Div(FromFp(fpBptTotalSupply - fpBptAmountIn), FromFp(fpBptTotalSupply))
        ratio == Pow(invariantRatio, Div(ONE, weight))
        beforeFee == Mul(FromFp(fpBalances[tokenIndex]), ONE - ratio)
    IN Fp(Mul(beforeFee, ONE - Mul(ONE - weight, FromFp(fpSwapFee))))

-----------------------------------------------------------------------------
(* Fees *)

\* Mutant: the weight is left out.
OneTokenSwapFeeUnweighted(fpBalances, fpWeights, lastInvariant, tokenIndex) ==
    LET current == CalculateInvariant(fpBalances, fpWeights)
    IN Mul(FromFp(fpBalances[tokenIndex]), ONE - Div(FromFp(lastInvariant), FromFp(current)))

CalculateOneTokenSwapFeeAmount(fpBalances, fpWeights, lastInvariant, tokenIndex) ==
    LET current == CalculateInvariant(fpBalances, fpWeights)
    IN Mul(FromFp(fpBalances[tokenIndex]),
           ONE - Pow(Div(FromFp(lastInvariant), FromFp(current)), Div(ONE, FromFp(fpWeights[tokenIndex]))))

\* BPT to mint for a share of what the invariant grew by beyond the supply.
CalculateBPTSwapFeeAmount(fpInvariantGrowthRatio, preSupply, postSupply, fpProtocolSwapFee) ==
    LET supplyGrowthRatio == FpDiv(postSupply, preSupply)
        k == FpMul(WAD - FpDiv(supplyGrowthRatio, fpInvariantGrowthRatio), fpProtocolSwapFee)
    IN IF fpInvariantGrowthRatio <= supplyGrowthRatio THEN 0 ELSE (postSupply * k) \div (WAD - k)

CalculateMaxOneTokenSwapFeeAmount(fpBalances, fpWeights, fpMinInvariantRatio, tokenIndex) ==
    Mul(FromFp(fpBalances[tokenIndex]),
        ONE - Pow(FromFp(fpMinInvariantRatio), Div(ONE, FromFp(fpWeights[tokenIndex]))))

\* toFixed(0) rounds to the nearest.
Nearest(d) == (2 * d + FINER) \div (2 * FINER)

CalculateSpotPrice(fpBalances, fpWeights) ==
    Nearest(Div(Div(FromFp(fpBalances[1]), FromFp(fpWeights[1])), Div(FromFp(fpBalances[2]), FromFp(fpWeights[2]))))

CalculateBPTPrice(fpBalance, fpWeight, totalSupply) ==
    Nearest(Div(Div(FromFp(fpBalance), FromFp(fpWeight)), FromFp(totalSupply)))
===============================================================================
