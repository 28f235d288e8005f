------------------------------ MODULE StableMath ------------------------------
(***************************************************************************)
(* pools/stable/math.ts: the reference that the tests hold the Stable Pools  *)
(* against, a function each. Tokens are numbered from one.                   *)
(***************************************************************************)
EXTENDS Numbers

CONSTANT Iterations     \* of Newton's method, at most

-----------------------------------------------------------------------------
(* The invariant *)

\* Mutant: the loop ends when two values agree in their units.
CloseInUnits(inv, prevInv) == inv - prevInv \in -ONE..ONE
Close(inv, prevInv) == Fp(inv) - Fp(prevInv) \in -1..1

\* P_D: the product of the balances over that of equal ones.
Skewness(balances, inv) ==
    LET n == Len(balances)
    IN FoldLeft(LAMBDA p, balance : Div(Mul(p, balance) * n, inv), balances[1] * n, Tail(balances))

Newton(n, ann, sum, inv, pd) == Div(n * Mul(inv, inv) + Mul(ann * sum, pd), (n + 1) * inv + ann * pd - pd)
Next(inv, prevInv) == [inv |-> inv, converged |-> Close(inv, prevInv)]

\* From the sum of the balances. It gives up without a word after the last iteration.
ApproxInvariant(balances, amp, sum) ==
    LET n == Len(balances)
        step(s, k) ==
            IF s.converged THEN s ELSE Next(Newton(n, amp * n, sum, s.inv, Skewness(balances, s.inv)), s.inv)
    IN IF sum = 0 THEN 0
       ELSE Fp(FoldLeft(step, [inv |-> sum, converged |-> FALSE], [k \in 1..Iterations |-> k]).inv)

CalculateApproxInvariant(fpRawBalances, amp) ==
    LET balances == [i \in DOMAIN fpRawBalances |-> FromFp(fpRawBalances[i])]
    IN ApproxInvariant(balances, amp, Sum(balances))

CalculateInvariant(fpRawBalances, amp) == CalculateApproxInvariant(fpRawBalances, amp)

\* The root of y^2 + b y + c. The quotient c is taken factor by factor.
PositiveRoot(b, minusC) == (SquareRoot(Mul(b, b) + 4 * minusC) - b) \div 2
TokenBalanceAmong(n, others, amp, invariant) ==
    PositiveRoot(invariant \div (amp * n) + Sum(others) - invariant,
                 FoldLeft(LAMBDA p, other : Div(Mul(p, invariant), n * other),
                          Mul(invariant, invariant) \div (amp * n * n), others))
TokenBalance(balances, amp, invariant, tokenIndex) ==
    TokenBalanceAmong(Len(balances), RemoveAt(balances, tokenIndex), amp, invariant)

GetTokenBalanceGivenInvariantAndAllOtherBalances(amp, fpBalances, fpInvariant, tokenIndex) ==
    Fp(TokenBalance([i \in DOMAIN fpBalances |-> FromFp(fpBalances[i])], amp, FromFp(fpInvariant), tokenIndex))

-----------------------------------------------------------------------------
(* Swaps *)

CalcOutGivenIn(fpBalances, amp, tokenIndexIn, tokenIndexOut, fpTokenAmountIn) ==
    LET invariant == FromFp(CalculateInvariant(fpBalances, amp))
        balances == [i \in DOMAIN fpBalances |->
                       FromFp(fpBalances[i] + IF i = tokenIndexIn THEN fpTokenAmountIn ELSE 0)]
    IN balances[tokenIndexOut] - TokenBalance(balances, amp, invariant, tokenIndexOut)

CalcInGivenOut(fpBalances, amp, tokenIndexIn, tokenIndexOut, fpTokenAmountOut) ==
    LET invariant == FromFp(CalculateInvariant(fpBalances, amp))
        balances == [i \in DOMAIN fpBalances |->
                       FromFp(fpBalances[i] - IF i = tokenIndexOut THEN fpTokenAmountOut ELSE 0)]
    IN TokenBalance(balances, amp, invariant, tokenIndexIn) - balances[tokenIndexIn]

-----------------------------------------------------------------------------
(* Joins and exits. What goes beyond the proportion of all tokens is swapped,  *)
(* and pays the fee.                                                          *)

\* The weighted sum of the ratios of new to old balances, each weighed by the token's
\* share, and the ratios themselves.
Ratios(balances, deltas) ==
    [i \in DOMAIN balances |-> Div(balances[i] + deltas[i], balances[i])]
MeanRatio(balances, ratios) ==
    Sum([i \in DOMAIN balances |-> Mul(ratios[i], Div(balances[i], Sum(balances)))])

\* What is left of amounts in, and what amounts out take, with the fee on what exceeds the mean.
WithoutFee(balance, amount, ratio, mean, swapFee) ==
    LET taxed(nonTaxable) == nonTaxable + Mul(amount - nonTaxable, ONE - swapFee)
    IN IF ratio > mean THEN taxed(Mul(balance, mean - ONE)) ELSE amount
WithFee(balance, amount, ratio, mean, swapFee) ==
    LET taxed(nonTaxable) == nonTaxable + Div(amount - nonTaxable, ONE - swapFee)
    IN IF mean > ratio THEN taxed(Mul(balance, AtLeastZero(ONE - mean))) ELSE amount

CalcBptOutGivenExactTokensIn(fpBalances, amp, fpAmountsIn, fpBptTotalSupply, fpCurrentInvariant, fpSwapFee) ==
    LET balances == [i \in DOMAIN fpBalances |-> FromFp(fpBalances[i])]
        amountsIn == [i \in DOMAIN fpBalances |-> FromFp(fpAmountsIn[i])]
        newBalances(ratios, mean) ==
            [i \in DOMAIN ratios |->
                Fp(balances[i] + WithoutFee(balances[i], amountsIn[i], ratios[i], mean, FromFp(fpSwapFee)))]
        newInvariant(ratios) == CalculateInvariant(newBalances(ratios, MeanRatio(balances, ratios)), amp)
    IN Fp(Mul(FromFp(fpBptTotalSupply),
              AtLeastZero(Div(FromFp(newInvariant(Ratios(balances, amountsIn))), FromFp(fpCurrentInvariant)) - ONE)))

CalcBptInGivenExactTokensOut(fpBalances, amp, fpAmountsOut, fpBptTotalSupply, fpCurrentInvariant, fpSwapFee) ==
    LET balances == [i \in DOMAIN fpBalances |-> FromFp(fpBalances[i])]
        amountsOut == [i \in DOMAIN fpBalances |-> FromFp(fpAmountsOut[i])]
        newBalances(ratios, mean) ==
            [i \in DOMAIN ratios |->
                Fp(balances[i] - WithFee(balances[i], amountsOut[i], ratios[i], mean, FromFp(fpSwapFee)))]
        newInvariant(ratios) == CalculateInvariant(newBalances(ratios, MeanRatio(balances, ratios)), amp)
        ratiosOut == Ratios(balances, [i \in DOMAIN amountsOut |-> -amountsOut[i]])
    IN Fp(Mul(FromFp(fpBptTotalSupply),
              AtLeastZero(ONE - Div(FromFp(newInvariant(ratiosOut)), FromFp(fpCurrentInvariant)))))

\* What the supply grows or shrinks by, the invariant does.
Scaled(fpInvariant, newSupply, supply) ==
    Mul(Div(FromFp(newSupply), FromFp(supply)), FromFp(fpInvariant))

\* The part of an amount of one token that amounts to a swap.
Taxable(balances, tokenIndex, amount) ==
    Mul(amount, AtLeastZero(ONE - Div(balances[tokenIndex], Sum(balances))))

Discounted(amount, taxable, swapFee) == amount - taxable + Mul(taxable, ONE - swapFee)
Surcharged(amount, taxable, swapFee) == amount - taxable + Div(taxable, ONE - swapFee)

\* What one token has to change by for the invariant to be this.
TokenIn(balances, amp, newInvariant, tokenIndex) ==
    TokenBalance(balances, amp, newInvariant, tokenIndex) - balances[tokenIndex]

CalcTokenInGivenExactBptOut(tokenIndex, fpBalances, amp, fpBptAmountOut, fpBptTotalSupply, fpCurrentInvariant, fpSwapFee) ==
    LET balances == [i \in DOMAIN fpBalances |-> FromFp(fpBalances[i])]
        newInvariant == Scaled(fpCurrentInvariant, fpBptTotalSupply + fpBptAmountOut, fpBptTotalSupply)
        withFee(amount) == Surcharged(amount, Taxable(balances, tokenIndex, amount), FromFp(fpSwapFee))
    IN Fp(withFee(TokenIn(balances, amp, newInvariant, tokenIndex)))

CalcTokenOutGivenExactBptIn(tokenIndex, fpBalances, amp, fpBptAmountIn, fpBptTotalSupply, fpCurrentInvariant, fpSwapFee) ==
    LET balances == [i \in DOMAIN fpBalances |-> FromFp(fpBalances[i])]
        newInvariant == Scaled(fpCurrentInvariant, fpBptTotalSupply - fpBptAmountIn, fpBptTotalSupply)
        withoutFee(amount) == Discounted(amount, Taxable(balances, tokenIndex, amount), FromFp(fpSwapFee))
    IN Fp(withoutFee(-TokenIn(balances, amp, newInvariant, tokenIndex)))

\* What can be taken of one token until the invariant is back at what it was.
CalculateOneTokenSwapFeeAmount(fpBalances, amp, lastInvariant, tokenIndex) ==
    LET balances == [i \in DOMAIN fpBalances |-> FromFp(fpBalances[i])]
    IN AtLeastZero(-TokenIn(balances, amp, FromFp(lastInvariant), tokenIndex))
===============================================================================
