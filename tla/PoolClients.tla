------------------------------ MODULE PoolClients ------------------------------
(***************************************************************************)
(* A Pool as tests use it: a client (StablePool.ts, BaseWeightedPool.ts with  *)
(* BasePool.ts) turns what is asked into a request, the Vault's client        *)
(* (Vault.ts) hands it to a Vault, mocked or not, and that to the Pool's       *)
(* contract. The client also estimates what the contract will answer, with a  *)
(* reference implementation, and asks it beforehand (queries).                *)
(***************************************************************************)
EXTENDS Numbers, FiniteSets

CONSTANTS
    Iterations, PREMINTED_BPT, MAX_UINT256,
    MaxCalls,       \* bound
    Amps, Fees,     \* of the Pools that are deployed
    Inits,          \* bound: for a number of tokens, the balances that Pools start with
    Amounts,        \* bound: what is given of a token or of BPT
    MaxBalance,     \* bound: with more of a token the digits do not suffice, and no call follows
    Dust            \* what rounding may make of an amount or of a ratio, in wei

VARIABLES
    pool,       \* the contract, with the balances that the Vault keeps for it
    client,     \* what its handle remembers of the deployment
    mocked,     \* whether the Vault is MockVault
    call,       \* the last call of the client, and what came of it
    calls
poolVars == <<pool, client, mocked, call, calls>>

Math == INSTANCE StableMath
Stable == INSTANCE StablePoolClient
StableContract == INSTANCE ComposableStablePool
WMath == INSTANCE WeightedMath
Weighted == INSTANCE WeightedPoolClient
WeightedContract == INSTANCE WeightedPool

IsStable == pool.type = "stable"
Registered == {pool.tokens[i] : i \in DOMAIN pool.tokens}
Others == Registered \ {"BPT"}
At(tokens, token) == CHOOSE i \in DOMAIN tokens : tokens[i] = token
Balance(token) == pool.balances[At(pool.tokens, token)]
Circulating(p) == IF p.type = "stable" THEN StableContract!VirtualSupply(p) ELSE p.supply

\* The handle remembers the deployment as the contract is: no fee was set since, and no BPT
\* minted but the first.
UpToDate == IF IsStable THEN pool.supply \in {0, PREMINTED_BPT} ELSE pool.fee = client.fee

None == -1
NoCall == [op |-> "none", ok |-> TRUE, proper |-> FALSE, upToDate |-> TRUE, asked |-> <<>>, free |-> {}, moved |-> <<>>,
           result |-> None, estimate |-> None, assumedFee |-> 0, answer |-> None]

-----------------------------------------------------------------------------
(* Deployment *)

Names(n) == SubSeq(<<"dai", "usdc", "mkr">>, 1, n)

DeployStable ==
    \E n \in DOMAIN Inits, amp \in Amps, fee \in Fees : \E bptIndex \in 1..n + 1 :
        /\ pool = [type |-> "stable", bptIndex |-> bptIndex, amp |-> amp, weights |-> <<>>, fee |-> fee,
                   tokens |-> InsertAt(Names(n), bptIndex, "BPT"), balances |-> [i \in 1..n + 1 |-> 0],
                   supply |-> 0, recovery |-> FALSE, lastInvariant |-> 0]
        /\ client = [tokens |-> Names(n), bptIndex |-> bptIndex, amp |-> amp, weights |-> <<>>, fee |-> fee]

DeployWeighted ==
    \E n \in DOMAIN Inits, fee \in Fees :
        LET weights == [i \in 1..n |-> IF n = 2 \/ i = 1 THEN WAD \div 2 ELSE WAD \div 4]
        IN /\ pool = [type |-> "weighted", bptIndex |-> 0, amp |-> 0, weights |-> weights, fee |-> fee,
                      tokens |-> Names(n), balances |-> [i \in 1..n |-> 0],
                      supply |-> 0, recovery |-> FALSE, lastInvariant |-> 0]
           /\ client = [tokens |-> Names(n), bptIndex |-> 0, amp |-> 0, weights |-> weights, fee |-> fee]

PoolsInit ==
    /\ DeployStable \/ DeployWeighted
    /\ mocked \in BOOLEAN /\ call = NoCall /\ calls = 0

-----------------------------------------------------------------------------
(* The Vault hands on. With the mock, joins and exits carry the balances that   *)
(* the client read and change those that are kept; swaps change nothing.        *)

OnJoin(data) ==
    IF IsStable THEN StableContract!OnJoinPool(pool, pool.balances, data)
    ELSE WeightedContract!OnJoinPool(pool, pool.balances, data)
OnExit(data) ==
    IF IsStable THEN StableContract!OnExitPool(pool, pool.balances, data)
    ELSE WeightedContract!OnExitPool(pool, pool.balances, data)

Invariant(p) ==
    IF p.type = "stable" THEN Math!CalculateInvariant(StableContract!BptIndexDrop(p, p.balances), p.amp)
    ELSE WMath!CalculateInvariant(p.balances, p.weights)

\* What the user gives of each token, less than zero for what it gets. The BPT that is
\* minted to it comes on top of what the Pool takes of BPT as a token.
Moved(sign, result) ==
    [token \in Registered \cup {"BPT"} |->
        sign * ((IF token \in Registered THEN result.amounts[At(pool.tokens, token)] ELSE 0)
                - IF token = "BPT" THEN result.bpt ELSE 0)]

Perform(op, sign, result, asked, free, proper, estimate, assumedFee) ==
    /\ calls < MaxCalls /\ calls' = calls + 1 /\ UNCHANGED <<client, mocked>>
    /\ LET after == [pool EXCEPT !.balances = IF sign = 1 THEN ArrayAdd(@, result.amounts)
                                              ELSE ArraySub(@, result.amounts),
                                 !.supply = @ + sign * result.bpt]
           ok == result.ok /\ \A i \in DOMAIN after.balances : after.balances[i] >= 0
           moved == Moved(sign, result)
           computed == CHOOSE token \in free : TRUE
       IN /\ pool' = IF ok THEN [after EXCEPT !.lastInvariant = Invariant(after)] ELSE pool
          /\ call' = [op |-> op, ok |-> ok, proper |-> proper, upToDate |-> UpToDate, asked |-> asked, free |-> free,
                      moved |-> IF ok THEN moved ELSE <<>>, estimate |-> estimate, assumedFee |-> assumedFee,
                      result |-> IF ok /\ Cardinality(free) = 1
                                 THEN IF moved[computed] < 0 THEN -moved[computed] ELSE moved[computed]
                                 ELSE None,
                      answer |-> None]

\* What a list of amounts asks of each token, whatever stands in BPT's place. A scalar
\* asks the same of all.
Asked(sign, amounts) ==
    [token \in Others |-> sign * IF Len(amounts) = 1 THEN amounts[1] ELSE amounts[At(pool.tokens, token)]]
Only(token, amount) == [t \in {token} |-> amount]
IsList(amounts) == Len(amounts) # 1

Initialize(balances) ==
    /\ pool.supply = 0
    /\ Perform("init", 1,
               OnJoin(IF IsStable THEN Stable!BuildInitParams(client, balances)
                      ELSE Weighted!BuildInitParams(client, balances)),
               Asked(1, balances), {"BPT"}, ~IsStable \/ IsList(balances), None, 0)

JoinGivenIn(amounts, uses) ==
    /\ pool.supply > 0
    /\ Perform("joinGivenIn", 1,
               OnJoin(IF IsStable THEN Stable!BuildJoinGivenInParams(client, amounts, uses)
                      ELSE Weighted!BuildJoinGivenInParams(client, amounts)),
               Asked(1, amounts), {"BPT"}, ~IsStable \/ (IsList(amounts) /\ uses = 1),
               IF ~IsList(amounts) THEN None
               ELSE IF IsStable THEN Stable!EstimateBptOut(client, pool, amounts)
               ELSE Weighted!EstimateBptOut(client, pool, amounts),
               IF IsStable THEN pool.fee ELSE client.fee)

JoinOneGivenOut(token, bptOut) ==
    /\ pool.supply > 0
    /\ Perform("joinOneGivenOut", 1,
               OnJoin(IF IsStable THEN Stable!BuildSingleJoinGivenOutParams(client, token, bptOut)
                      ELSE Weighted!BuildJoinGivenOutParams(client, token, bptOut)),
               Only("BPT", -bptOut), {token}, IsStable \/ bptOut <= Weighted!GetMaxInvariantIncrease(pool),
               IF IsStable THEN Stable!EstimateTokenInGivenBptOut(client, pool, token, bptOut)
               ELSE Weighted!EstimateTokenIn(client, pool, token, bptOut),
               IF IsStable THEN 0 ELSE client.fee)

JoinAllGivenOut(bptOut) ==
    /\ pool.supply > 0
    /\ Perform("joinAllGivenOut", 1,
               OnJoin(IF IsStable THEN Stable!BuildJoinGivenOutParams(bptOut)
                      ELSE Weighted!BuildJoinAllGivenOutParams(bptOut)),
               Only("BPT", -bptOut), Others, TRUE, None, 0)

ExitGivenOut(amounts, uses) ==
    /\ pool.supply > 0
    /\ Perform("exitGivenOut", -1,
               OnExit(IF IsStable THEN Stable!BuildExitGivenOutParams(client, amounts, uses)
                      ELSE Weighted!BuildExitGivenOutParams(client, amounts)),
               Asked(-1, amounts), {"BPT"}, ~IsStable \/ (IsList(amounts) /\ uses = 1), None, 0)

ExitOneGivenIn(token, bptIn) ==
    /\ pool.supply > 0
    /\ Perform("singleExitGivenIn", -1,
               OnExit(IF IsStable THEN Stable!BuildSingleExitGivenInParams(client, token, bptIn)
                      ELSE Weighted!BuildSingleExitGivenInParams(client, token, bptIn)),
               Only("BPT", bptIn), {token}, IsStable \/ bptIn <= Weighted!GetMaxInvariantDecrease(pool),
               IF IsStable THEN Stable!EstimateTokenOutGivenBptIn(client, pool, token, bptIn)
               ELSE Weighted!EstimateTokenOut(client, pool, token, bptIn),
               IF IsStable THEN 0 ELSE client.fee)

ExitAllGivenIn(bptIn) ==
    /\ pool.supply > 0
    /\ Perform("exitAllGivenIn", -1,
               OnExit(IF IsStable THEN Stable!BuildExitGivenInParams(bptIn)
                      ELSE Weighted!BuildMultiExitGivenInParams(bptIn)),
               Only("BPT", bptIn), Others, TRUE, None, 0)

RecoveryModeExit(bptIn) ==
    /\ pool.supply > 0
    /\ Perform("recoveryModeExit", -1, OnExit(<<255, bptIn>>), Only("BPT", bptIn), Others,
               pool.recovery, None, 0)

EnableRecoveryMode ==
    /\ calls < MaxCalls /\ calls' = calls + 1
    /\ ~pool.recovery /\ pool' = [pool EXCEPT !.recovery = TRUE]
    /\ call' = NoCall /\ UNCHANGED <<client, mocked>>

\* The handle of a Weighted Pool goes on estimating with the fee of deployment.
SetSwapFeePercentage(fee) ==
    /\ calls < MaxCalls /\ calls' = calls + 1
    /\ fee # pool.fee /\ pool' = [pool EXCEPT !.fee = fee]
    /\ call' = NoCall /\ UNCHANGED <<client, mocked>>

-----------------------------------------------------------------------------
(* Swaps *)

SubtractFee(amount) == StableContract!SubtractSwapFeeAmount(pool, amount)
AddFee(amount) == StableContract!AddSwapFeeAmount(pool, amount)

\* The Vault reads the balances and finds the indices by itself; the mock is told.
OnSwap(request) ==
    IF IsStable
    THEN StableContract!OnSwap(pool, request.isGivenIn, request.amount, request.balances,
                               request.indexIn, request.indexOut)
    ELSE WeightedContract!OnSwap(pool, request.isGivenIn, request.amount, request.tokenIn, request.tokenOut,
                                 request.balanceTokenIn, request.balanceTokenOut)

SwapRequest(isGivenIn, tokenIn, tokenOut, amount) ==
    IF IsStable THEN Stable!BuildSwapParams(pool, isGivenIn, tokenIn, tokenOut, amount)
    ELSE Weighted!BuildSwapParams(pool, isGivenIn, tokenIn, tokenOut, amount)

\* A batch of one swap, and the deltas of the Pool's tokens.
DeltaOf(query, i, other) ==
    IF i = query.assetInIndex THEN (IF query.isGivenIn THEN query.amount ELSE other)
    ELSE IF i = query.assetOutIndex THEN -(IF query.isGivenIn THEN other ELSE query.amount) ELSE 0
QueryBatchSwap(query) ==
    LET deltas(other) == [i \in DOMAIN query.assets |-> DeltaOf(query, i, other)]
    IN deltas(OnSwap(SwapRequest(query.isGivenIn, query.assets[query.assetInIndex],
                                 query.assets[query.assetOutIndex], query.amount)))

CanQuery == IsStable /\ ~mocked
QueryAnswer(isGivenIn, tokenIn, tokenOut, deltas) ==
    IF CanQuery THEN Stable!QuerySwap(pool, isGivenIn, tokenIn, tokenOut, deltas) ELSE None

\* Estimates take no fee, so tests take or add it where the Pool does.
EstimateSwap(isGivenIn, tokenIn, tokenOut, amount) ==
    CASE ~IsStable /\ isGivenIn ->
           Weighted!EstimateGivenIn(client, pool, tokenIn, tokenOut, SubtractFee(amount))
      [] ~IsStable /\ ~isGivenIn ->
           AddFee(Weighted!EstimateGivenOut(client, pool, tokenIn, tokenOut, amount))
      [] IsStable /\ tokenIn = "BPT" /\ isGivenIn ->
           Stable!EstimateTokenOutGivenBptIn(client, pool, tokenOut, amount)
      [] IsStable /\ tokenIn = "BPT" /\ ~isGivenIn ->
           Stable!EstimateBptInGivenTokenOut(client, pool, tokenOut, amount)
      [] IsStable /\ tokenOut = "BPT" /\ isGivenIn ->
           Stable!EstimateBptOutGivenTokenIn(client, pool, tokenIn, amount)
      [] IsStable /\ tokenOut = "BPT" /\ ~isGivenIn ->
           Stable!EstimateTokenInGivenBptOut(client, pool, tokenIn, amount)
      [] IsStable /\ "BPT" \notin {tokenIn, tokenOut} /\ isGivenIn ->
           Stable!EstimateTokenOutGivenTokenIn(client, pool, tokenIn, tokenOut, SubtractFee(amount))
      [] IsStable /\ "BPT" \notin {tokenIn, tokenOut} /\ ~isGivenIn ->
           AddFee(Stable!EstimateTokenInGivenTokenOut(client, pool, tokenIn, tokenOut, amount))

\* Whether the Pool takes a swap of this amount, by what its client knows.
WithinLimits(isGivenIn, tokenIn, tokenOut, amount) ==
    IsStable \/ IF isGivenIn THEN SubtractFee(amount) <= Weighted!GetMaxIn(pool, At(client.tokens, tokenIn))
                ELSE amount <= Weighted!GetMaxOut(pool, At(client.tokens, tokenOut))

Swap(isGivenIn, tokenIn, tokenOut, amount) ==
    /\ pool.supply > 0 /\ calls < MaxCalls /\ calls' = calls + 1 /\ UNCHANGED <<client, mocked>>
    /\ \E other \in {OnSwap(SwapRequest(isGivenIn, tokenIn, tokenOut, amount))},
          query \in {Stable!BuildQuerySwapParams(pool, isGivenIn, tokenIn, tokenOut, amount)} :
       \E deltas \in {IF CanQuery THEN QueryBatchSwap(query) ELSE <<>>} :
        LET ok == other >= 0
            amountIn == IF isGivenIn THEN amount ELSE other
            amountOut == IF isGivenIn THEN other ELSE amount
            after == [pool.balances EXCEPT ![At(pool.tokens, tokenIn)] = @ + amountIn,
                                           ![At(pool.tokens, tokenOut)] = @ - amountOut]
        IN /\ pool' = IF ok /\ ~mocked
                      THEN [pool EXCEPT !.balances = after,
                                        !.lastInvariant = IF "BPT" \in {tokenIn, tokenOut}
                                                          THEN Invariant([pool EXCEPT !.balances = after]) ELSE @]
                      ELSE pool
           /\ call' = [op |-> "swap", ok |-> ok, proper |-> WithinLimits(isGivenIn, tokenIn, tokenOut, amount),
                       upToDate |-> UpToDate,
                       asked |-> IF isGivenIn THEN Only(tokenIn, amount) ELSE Only(tokenOut, -amount),
                       free |-> {IF isGivenIn THEN tokenOut ELSE tokenIn},
                       moved |-> IF ok THEN [t \in Registered |-> IF t = tokenIn THEN amountIn
                                                                  ELSE IF t = tokenOut THEN -amountOut ELSE 0]
                                 ELSE <<>>,
                       estimate |-> EstimateSwap(isGivenIn, tokenIn, tokenOut, amount),
                       assumedFee |-> IF "BPT" \in {tokenIn, tokenOut} THEN 0 ELSE pool.fee,
                       result |-> IF ok THEN other ELSE None,
                       answer |-> QueryAnswer(isGivenIn, tokenIn, tokenOut, deltas)]

-----------------------------------------------------------------------------
\* An amount of one token, of each of them, or a scalar; BPT's place holds a number too.
Lists ==
    {[i \in DOMAIN pool.tokens |-> IF i \in some THEN amount ELSE 0] :
        amount \in Amounts, some \in {{1}, {Len(pool.tokens)}, DOMAIN pool.tokens}}
    \cup {<<amount>> : amount \in Amounts}
InitialLists ==
    {[i \in DOMAIN pool.tokens |-> IF pool.tokens[i] = "BPT" THEN 0 ELSE start[At(client.tokens, pool.tokens[i])]] :
        start \in Inits[Len(client.tokens)]}
    \cup {<<start[1]>> : start \in Inits[Len(client.tokens)]}

\* For Weighted Pools also at their limits, and beyond by more than rounding hides.
Near(limit) == IF IsStable THEN Amounts ELSE Amounts \cup {limit, limit + 1 + pool.supply \div WAD}

\* bound: never more than half of what there is, so that no token is used up
AtMostHalf(token, amount) == 2 * amount <= IF token = "BPT" THEN Circulating(pool) ELSE Balance(token)

FewDigits == \A token \in Others : Balance(token) <= MaxBalance

PoolsNext ==
    /\ FewDigits
    /\ \/ \E balances \in InitialLists : Initialize(balances)
       \/ \E amounts \in Lists, uses \in IF IsStable THEN 1..2 ELSE {1} :
            \/ JoinGivenIn(amounts, uses)
            \/ (\A token \in Others : AtMostHalf(token, -Asked(-1, amounts)[token])) /\ ExitGivenOut(amounts, uses)
       \/ \E token \in Others :
            \/ \E bptOut \in Near(Weighted!GetMaxInvariantIncrease(pool)) : JoinOneGivenOut(token, bptOut)
            \/ \E bptIn \in Near(Weighted!GetMaxInvariantDecrease(pool)) :
                 AtMostHalf("BPT", bptIn) /\ ExitOneGivenIn(token, bptIn)
       \/ \E bpt \in Amounts :
            \/ JoinAllGivenOut(bpt)
            \/ AtMostHalf("BPT", bpt) /\ (ExitAllGivenIn(bpt) \/ RecoveryModeExit(bpt))
       \/ \E tokenIn \in Registered : \E tokenOut \in Registered \ {tokenIn}, isGivenIn \in BOOLEAN :
            \E amount \in Near(IF isGivenIn THEN Weighted!GetMaxIn(pool, At(pool.tokens, tokenIn))
                               ELSE Weighted!GetMaxOut(pool, At(pool.tokens, tokenOut))) :
                /\ isGivenIn /\ tokenIn = "BPT" => AtMostHalf("BPT", amount)
                /\ ~isGivenIn /\ tokenOut # "BPT" => AtMostHalf(tokenOut, amount)
                /\ Swap(isGivenIn, tokenIn, tokenOut, amount)
       \/ EnableRecoveryMode
       \/ \E fee \in Fees : SetSwapFeePercentage(fee)

-----------------------------------------------------------------------------
(* Properties *)

Within(a, b, tolerance) == a - b \in -tolerance..tolerance

\* A call that is meant as the client documents it goes through, one beyond the limits that
\* the client computes does not, and what was given of a token moves of that token and no
\* other, wherever BPT stands among them and however often the call's params were used.
AmountsReachTheirTokens ==
    /\ call.op # "none" => (call.proper <=> call.ok)
    /\ \A token \in DOMAIN call.moved :
        IF token \in DOMAIN call.asked THEN call.moved[token] = call.asked[token]
        ELSE token \notin call.free => call.moved[token] = 0

\* Computed by the client with its own indices, its own supply and the reference's
\* arithmetic, an estimate is what the Pool then moves; one that takes no fee is never
\* worse for the user than that.
EstimatesAgree ==
    call.upToDate /\ call.ok /\ {call.estimate, call.result} \cap {None} = {} =>
        IF call.assumedFee = pool.fee THEN Within(call.estimate, call.result, Dust)
        ELSE \E token \in call.free :
                IF call.moved[token] < 0 THEN call.estimate >= call.result - Dust
                ELSE call.estimate <= call.result + Dust

\* The answer of a query is what the call then does.
QueriesForetell == call.ok /\ call.answer # None => call.answer = call.result

\* Whatever is joined, exited and swapped, in whatever order, the invariant that stands
\* behind a unit of BPT does not shrink.
SharesKeepTheirValue ==
    [][pool.supply > 0 /\ pool'.balances # pool.balances =>
         Invariant(pool') + Dust >= (Invariant(pool) * Circulating(pool')) \div Circulating(pool)]_pool

\* The iteration ends at a solution: from the invariant and the balances of the others, the
\* balance of each token is found again.
InvariantIsSolved ==
    IsStable /\ pool.supply > 0 =>
        LET balances == StableContract!BptIndexDrop(pool, pool.balances)
        IN \E invariant \in {Invariant(pool)} : \A i \in DOMAIN balances :
             Within(Math!GetTokenBalanceGivenInvariantAndAllOtherBalances(pool.amp, balances, invariant, i),
                    balances[i], Dust)

\* Protocol fees are taken from what swaps made the invariant grow by since the last join
\* or exit. Paid in any one token they take it back to what it was and no lower, and paid
\* in BPT they leave the others at least the share they had.
FeesComeFromGrowth ==
    pool.supply > 0 /\ Invariant(pool) > pool.lastInvariant + Dust =>
        IF IsStable
        THEN LET balances == StableContract!BptIndexDrop(pool, pool.balances)
             IN \A i \in DOMAIN balances :
                  \E fee \in {Fp(Math!CalculateOneTokenSwapFeeAmount(balances, pool.amp, pool.lastInvariant, i))} :
                     /\ fee >= 0
                     /\ Within(Math!CalculateInvariant([balances EXCEPT ![i] = @ - fee], pool.amp),
                               pool.lastInvariant, Dust)
        ELSE /\ \A i \in DOMAIN pool.balances :
                  \E fee \in {Fp(WMath!CalculateOneTokenSwapFeeAmount(pool.balances, pool.weights, pool.lastInvariant, i))} :
                     /\ fee >= 0
                     /\ fee <= WMath!CalculateMaxOneTokenSwapFeeAmount(pool.balances, pool.weights, Weighted!MIN_INVARIANT_RATIO, i)
                     /\ Within(WMath!CalculateInvariant([pool.balances EXCEPT ![i] = @ - fee], pool.weights),
                               pool.lastInvariant, Dust)
             /\ \A share \in {WAD \div 4, WAD} :
                  LET growth == FpDiv(Invariant(pool), pool.lastInvariant)
                      minted == WMath!CalculateBPTSwapFeeAmount(growth, pool.supply, pool.supply, share)
                  IN Invariant(pool) + Dust >= (pool.lastInvariant * (pool.supply + minted)) \div pool.supply

\* No swap and no exit of one token gets more than the spot price and the price of BPT say.
PricesAreTheBest ==
    ~IsStable /\ pool.supply > 0 /\ FewDigits =>
        \A amount \in Amounts :
            /\ LET price == WMath!CalculateSpotPrice(pool.balances, pool.weights)
               IN FpMul(Weighted!EstimateGivenIn(client, pool, pool.tokens[1], pool.tokens[2], amount), price)
                    <= amount + Dust + FpMul(Dust, price)
            /\ \A i \in DOMAIN pool.tokens :
                 amount <= Weighted!GetMaxInvariantDecrease(pool) =>
                    Weighted!EstimateTokenOut(client, pool, pool.tokens[i], amount)
                        <= FpMul(amount, WMath!CalculateBPTPrice(pool.balances[i], pool.weights[i], pool.supply)) + Dust

\* What the references of the tests compute is what the Pool does, and consistent in itself.
EstimatesAreRight == EstimatesAgree /\ PricesAreTheBest
===============================================================================
