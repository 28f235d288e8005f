------------------------- MODULE ComposableStablePool -------------------------
(***************************************************************************)
(* The contract of a Stable Pool as joins, exits and swaps reach it. The     *)
(* arithmetic is the reference's: what the contract's rounds is left out, as  *)
(* are rates, amplification updates and protocol fees. One of the registered *)
(* tokens is the Pool's own, BPT, which its mathematics leaves out.          *)
(* A Pool p: [tokens, balances, bptIndex, supply, amp, fee, recovery].       *)
(***************************************************************************)
EXTENDS StableMath

CONSTANT PREMINTED_BPT

-----------------------------------------------------------------------------
(* StablePoolUserData: kinds are numbered from zero *)

JoinKind(data) ==
    <<"INIT", "EXACT_TOKENS_IN_FOR_BPT_OUT", "TOKEN_IN_FOR_EXACT_BPT_OUT",
      "ALL_TOKENS_IN_FOR_EXACT_BPT_OUT">>[data[1] + 1]
ExitKind(data) ==
    <<"EXACT_BPT_IN_FOR_ONE_TOKEN_OUT", "BPT_IN_FOR_EXACT_TOKENS_OUT",
      "EXACT_BPT_IN_FOR_ALL_TOKENS_OUT">>[data[1] + 1]

-----------------------------------------------------------------------------
\* What a call does: how much BPT is minted or burned, and the amount of each registered
\* token.
Reverts == [ok |-> FALSE, bpt |-> 0, amounts |-> <<>>]
Does(bpt, amounts) ==
    IF bpt >= 0 /\ \A i \in DOMAIN amounts : amounts[i] >= 0
    THEN [ok |-> TRUE, bpt |-> bpt, amounts |-> amounts] ELSE Reverts
DoesAtLeast(bpt, limit, amounts) == IF bpt >= limit THEN Does(bpt, amounts) ELSE Reverts
DoesAtMost(bpt, limit, amounts) == IF bpt <= limit THEN Does(bpt, amounts) ELSE Reverts

BptIndexDrop(p, items) == [i \in 1..Len(items) - 1 |-> items[IF i < p.bptIndex THEN i ELSE i + 1]]
BptIndexSkip(p, index) == IF index < p.bptIndex THEN index ELSE index - 1
AddBptItem(p, items, bpt) ==
    [i \in 1..Len(items) + 1 |-> IF i < p.bptIndex THEN items[i]
                                 ELSE IF i = p.bptIndex THEN bpt ELSE items[i - 1]]

VirtualSupply(p) == p.supply - p.balances[p.bptIndex]
OnlyAt(p, index, amount) == [i \in 1..Len(p.balances) - 1 |-> IF i = index THEN amount ELSE 0]

\* BasePoolMath: rounded against who joins or exits.
ComputeProportionalAmountsIn(balances, supply, bptOut) ==
    LET ratio == DivCeil(bptOut * WAD, supply)
    IN [i \in DOMAIN balances |-> DivCeil(balances[i] * ratio, WAD)]
ComputeProportionalAmountsOut(balances, supply, bptIn) ==
    LET ratio == FpDiv(bptIn, supply)
    IN [i \in DOMAIN balances |-> FpMul(balances[i], ratio)]

\* The Pool mints all BPT to who joins first and pulls what is not due to it back.
OnInitializePool(p, data) ==
    LET amounts == data[2]
        bptOut == CalculateInvariant(BptIndexDrop(p, amounts), p.amp)
    IN IF JoinKind(data) # "INIT" \/ Len(amounts) # Len(p.tokens) THEN Reverts
       ELSE Does(PREMINTED_BPT, [amounts EXCEPT ![p.bptIndex] = PREMINTED_BPT - bptOut])

\* What the two directions share: the BPT, and the amounts of the tokens but it.
JoinAmounts(p, balances, data) ==
    LET supply == VirtualSupply(p)
        invariant == CalculateInvariant(balances, p.amp)
    IN CASE JoinKind(data) = "EXACT_TOKENS_IN_FOR_BPT_OUT" /\ Len(data[2]) = Len(balances) ->
              DoesAtLeast(CalcBptOutGivenExactTokensIn(balances, p.amp, data[2], supply, invariant, p.fee),
                          data[3], data[2])
         [] JoinKind(data) = "ALL_TOKENS_IN_FOR_EXACT_BPT_OUT" ->
              Does(data[2], ComputeProportionalAmountsIn(balances, supply, data[2]))
         [] JoinKind(data) = "TOKEN_IN_FOR_EXACT_BPT_OUT" /\ data[3] \in DOMAIN balances ->
              Does(data[2], OnlyAt(p, data[3],
                  CalcTokenInGivenExactBptOut(data[3], balances, p.amp, data[2], supply, invariant, p.fee)))
         [] OTHER -> Reverts

ExitAmounts(p, balances, data) ==
    LET supply == VirtualSupply(p)
        invariant == CalculateInvariant(balances, p.amp)
    IN CASE ExitKind(data) = "BPT_IN_FOR_EXACT_TOKENS_OUT" /\ Len(data[2]) = Len(balances) ->
              DoesAtMost(CalcBptInGivenExactTokensOut(balances, p.amp, data[2], supply, invariant, p.fee),
                         data[3], data[2])
         [] ExitKind(data) = "EXACT_BPT_IN_FOR_ALL_TOKENS_OUT" ->
              Does(data[2], ComputeProportionalAmountsOut(balances, supply, data[2]))
         [] ExitKind(data) = "EXACT_BPT_IN_FOR_ONE_TOKEN_OUT" /\ data[3] \in DOMAIN balances ->
              Does(data[2], OnlyAt(p, data[3],
                  CalcTokenOutGivenExactBptIn(data[3], balances, p.amp, data[2], supply, invariant, p.fee)))
         [] OTHER -> Reverts

WithBptItem(p, result) ==
    IF result.ok THEN [result EXCEPT !.amounts = AddBptItem(p, @, 0)] ELSE result

OnJoinPool(p, registeredBalances, data) ==
    IF p.supply = 0 THEN OnInitializePool(p, data)
    ELSE WithBptItem(p, JoinAmounts(p, BptIndexDrop(p, registeredBalances), data))

OnExitPool(p, registeredBalances, data) ==
    LET balances == BptIndexDrop(p, registeredBalances)
    IN IF data[1] # 255 THEN WithBptItem(p, ExitAmounts(p, balances, data))
       ELSE IF p.recovery
            THEN WithBptItem(p, Does(data[2],
                     ComputeProportionalAmountsOut(balances, VirtualSupply(p), data[2])))
            ELSE Reverts

-----------------------------------------------------------------------------
(* Swaps: the amount that was not given. BPT in or out makes one an exit or a   *)
(* join of one token, which takes its fee as those do.                          *)

AddSwapFeeAmount(p, amount) == DivCeil(amount * WAD, WAD - p.fee)
SubtractSwapFeeAmount(p, amount) == amount - DivCeil(amount * p.fee, WAD)

SwapWithBpt(p, isGivenIn, amount, balances, indexIn, indexOut) ==
    LET supply == VirtualSupply(p)
        invariant == CalculateInvariant(balances, p.amp)
        token == BptIndexSkip(p, IF indexOut = p.bptIndex THEN indexIn ELSE indexOut)
    IN IF indexOut = p.bptIndex
       THEN IF isGivenIn
            THEN CalcBptOutGivenExactTokensIn(balances, p.amp, OnlyAt(p, token, amount), supply, invariant, p.fee)
            ELSE CalcTokenInGivenExactBptOut(token, balances, p.amp, amount, supply, invariant, p.fee)
       ELSE IF isGivenIn
            THEN CalcTokenOutGivenExactBptIn(token, balances, p.amp, amount, supply, invariant, p.fee)
            ELSE CalcBptInGivenExactTokensOut(balances, p.amp, OnlyAt(p, token, amount), supply, invariant, p.fee)

OnRegularSwap(p, isGivenIn, amount, balances, indexIn, indexOut) ==
    IF isGivenIn
    THEN Fp(CalcOutGivenIn(balances, p.amp, BptIndexSkip(p, indexIn), BptIndexSkip(p, indexOut),
                           SubtractSwapFeeAmount(p, amount)))
    ELSE AddSwapFeeAmount(p, Fp(CalcInGivenOut(balances, p.amp, BptIndexSkip(p, indexIn),
                                               BptIndexSkip(p, indexOut), amount)))

OnSwap(p, isGivenIn, amount, registeredBalances, indexIn, indexOut) ==
    LET balances == BptIndexDrop(p, registeredBalances)
    IN IF p.bptIndex \in {indexIn, indexOut}
       THEN SwapWithBpt(p, isGivenIn, amount, balances, indexIn, indexOut)
       ELSE OnRegularSwap(p, isGivenIn, amount, balances, indexIn, indexOut)
===============================================================================
