---------------------------- MODULE FeeDistributor ----------------------------
(***************************************************************************)
(* Fees and BAL sent to the FeeDistributor belong to the week they arrive  *)
(* in. Each veBAL holder claims, for each week, a share of that week's     *)
(* tokens by the voting power at the beginning of the week, which this     *)
(* contract caches from the VotingEscrow, week by week, with three kinds   *)
(* of cursors: of the total, of a user, and of a token.                    *)
(* Every function is nonReentrant and the tokens are ERC20s: one step each. *)
(* claimTokens, depositTokens and checkpointTokens are the functions for   *)
(* one token, one after the other in a block.                              *)
(***************************************************************************)
EXTENDS VotingEscrow

CONSTANTS
    Tokens,
    StartTime,      \* _startTime: the beginning of a week
    Day,            \* the last day of a week, in which tokens are always checkpointed
    MaxWeeks,       \* 20: weeks that one call processes
    MaxUserSteps,   \* 50: steps of a user's checkpoint, over weeks and points
    EpochGap,       \* 20: points that are stepped through before a search
    Amounts,        \* the amounts of tokens sent at once
    MaxReceived     \* bound: all that is sent of a token

ASSUME DistributorAssumption ==
    /\ IsFiniteSet(Tokens) /\ Amounts \subseteq Nat \ {0}
    /\ StartTime \in Nat \ {0} /\ StartTime % Week = 0 /\ Day \in 1..Week
    /\ {MaxWeeks, MaxUserSteps} \subseteq Nat \ {0} /\ {EpochGap, MaxReceived} \subseteq Nat

VARIABLES
    timeCursor,             \* the first week whose total is not cached
    veSupplyCache,          \* the total of a week
    tokenState,             \* of a token, with _tokensPerWeek
    userState,              \* of a user, with _userBalanceAtTimestamp
    userTokenTimeCursor,    \* the first week that a user did not claim, or 0
    held,                   \* the contract's balance of each token
    paid                    \* history: all that a user received of a token

cacheVars == <<timeCursor, veSupplyCache, userState>>
tokenVars == <<tokenState, userTokenTimeCursor, held, paid>>
distributorVars == <<escrowVars, cacheVars, tokenVars>>

FeeWeeks == {t \in 0..(Horizon + Week) : t % Week = 0}
RoundUp(t) == RoundDown(t + Week - 1)

\* At most n weeks from one week on, up to but not including another.
WeeksFrom(from, to, n) == {w \in FeeWeeks : from <= w /\ w < to /\ w < from + n * Week}

-----------------------------------------------------------------------------
(* Checkpoints *)

\* The mutant does not wait for the first block of the week to be over.
CheckpointTotalSupplyAtOnce ==
    LET weekStart == RoundDown(now)
        weeks == WeeksFrom(timeCursor, weekStart + Week, MaxWeeks)
    IN IF timeCursor > weekStart
       THEN UNCHANGED <<escrowVars, timeCursor, veSupplyCache>>
       ELSE /\ AddPoints(ZeroPoint, ZeroPoint)
            /\ UNCHANGED <<now, locked, supply, user_point_history, slope_changes>>
            /\ veSupplyCache' = [w \in FeeWeeks |-> IF w \in weeks THEN TotalSupplyIn(point_history', w)
                                                 ELSE veSupplyCache[w]]
            /\ timeCursor' = timeCursor + Week * Cardinality(weeks)

\* A week's total is final when the first block of the week is over.
CheckpointTotalSupply ==
    LET weekStart == RoundDown(now)
        weeks == WeeksFrom(timeCursor, weekStart + Week, MaxWeeks)
    IN IF timeCursor > weekStart \/ now = weekStart
       THEN UNCHANGED <<escrowVars, timeCursor, veSupplyCache>>
       ELSE /\ AddPoints(ZeroPoint, ZeroPoint)
            /\ UNCHANGED <<now, locked, supply, user_point_history, slope_changes>>
            /\ veSupplyCache' = [w \in FeeWeeks |-> IF w \in weeks THEN TotalSupplyIn(point_history', w)
                                                 ELSE veSupplyCache[w]]
            /\ timeCursor' = timeCursor + Week * Cardinality(weeks)

\* _findTimestampUserEpoch
FindUserEpoch(points, t, min) == Max({min} \cup {e \in (min + 1)..Len(points) : points[e].ts <= t})

\* One step of the walk over the user's points and the weeks: the next point, or
\* the next week, which lies between the points `current` and `next`.
Walk(points, s) ==
    LET power == AtLeastZero(s.current.bias - s.current.slope * (s.week - s.current.ts))
        expired == power = 0 /\ s.epoch > Len(points)
    IN IF s.done THEN s
       ELSE IF s.week >= s.next.ts /\ s.epoch <= Len(points)
       THEN [s EXCEPT !.epoch = @ + 1, !.current = s.next,
                      !.next = IF s.epoch = Len(points) THEN ZeroPoint ELSE points[s.epoch + 1]]
       ELSE IF s.week >= now THEN [s EXCEPT !.done = TRUE]
       ELSE IF expired THEN [s EXCEPT !.done = TRUE, !.week = RoundUp(now)]
       ELSE [s EXCEPT !.balances[s.week] = power, !.week = @ + Week]

Walked(points, s) ==
    LET after[n \in 0..MaxUserSteps] == IF n = 0 THEN s ELSE Walk(points, after[n - 1])
    IN after[MaxUserSteps]

CheckpointUserBalance(u) ==
    LET s == userState[u]
        points == user_point_history[u]
        first == s.timeCursor = 0
        found == IF first THEN FindUserEpoch(points, StartTime, 0)
                 ELSE IF Len(points) - s.lastEpoch > EpochGap
                      THEN FindUserEpoch(points, s.timeCursor, s.lastEpoch)
                      ELSE s.lastEpoch
        epoch == Max({1, found})
        week == IF first THEN Max({StartTime, RoundUp(points[epoch].ts)}) ELSE s.timeCursor
        end == Walked(points, [week |-> week, epoch |-> epoch, current |-> ZeroPoint,
                               next |-> points[epoch], balances |-> s.balances, done |-> FALSE])
    IN IF points = <<>> \/ (~first /\ s.timeCursor >= now)
       THEN UNCHANGED userState
       ELSE /\ first => now > StartTime
            /\ userState' = [userState EXCEPT ![u] =
                  [startTime |-> IF first THEN week ELSE s.startTime, timeCursor |-> end.week,
                   lastEpoch |-> end.epoch - 1, balances |-> end.balances]]

\* The mutant spreads the balance again that was already assigned to weeks.
CheckpointedTokenAgain(s, balance, force) ==
    LET last == IF s.timeCursor = 0 THEN now ELSE s.timeCursor
        weeks == WeeksFrom(RoundDown(last), now + 1, MaxWeeks)
        within(w) == Min({now, w + Week}) - Max({last, w})
        share(w) == IF last = now THEN balance ELSE (balance * within(w)) \div (now - last)
    IN [startTime |-> IF s.timeCursor = 0 THEN RoundDown(now) ELSE s.startTime,
        timeCursor |-> now,
        cachedBalance |-> balance,
        perWeek |-> [w \in FeeWeeks |-> s.perWeek[w] + IF w \in weeks THEN share(w) ELSE 0]]

\* A token's state after _checkpointToken, when the contract holds `balance`:
\* what is new is spread over the time since the last checkpoint.
CheckpointedToken(s, balance, force) ==
    LET first == s.timeCursor = 0
        last == IF first THEN now ELSE s.timeCursor
        sameWeek == RoundDown(now) = RoundDown(last)
        nearingEndOfWeek == RoundUp(now) - now < Day
        new == balance - s.cachedBalance
        weeks == WeeksFrom(RoundDown(last), now + 1, MaxWeeks)
        within(w) == Min({now, w + Week}) - Max({last, w})
        share(w) == IF last = now THEN new ELSE (new * within(w)) \div (now - last)
    IN IF ~first /\ ~force /\ sameWeek /\ ~nearingEndOfWeek THEN s
       ELSE [startTime |-> IF first THEN RoundDown(now) ELSE s.startTime,
             timeCursor |-> now,
             cachedBalance |-> balance,
             perWeek |-> [w \in FeeWeeks |-> s.perWeek[w] + IF w \in weeks THEN share(w) ELSE 0]]

MayCheckpointToken(k) == tokenState[k].timeCursor # 0 \/ now > StartTime

-----------------------------------------------------------------------------
(* External functions *)

CheckpointSupply == CheckpointTotalSupply /\ UNCHANGED <<userState, tokenVars>>

CheckpointUser(u) ==
    /\ CheckpointUserBalance(u)
    /\ UNCHANGED <<escrowVars, timeCursor, veSupplyCache, tokenVars>>

CheckpointToken(k) ==
    /\ MayCheckpointToken(k)
    /\ tokenState' = [tokenState EXCEPT ![k] = CheckpointedToken(@, held[k], TRUE)]
    /\ UNCHANGED <<escrowVars, cacheVars, userTokenTimeCursor, held, paid>>

TotalPaid(k) == SumFunction([u \in Users |-> paid[u][k]])
Received(k) == held[k] + TotalPaid(k)

\* The balance is that of the past until the transfer, which then belongs to now.
DepositToken(k, amount) ==
    /\ MayCheckpointToken(k) /\ Received(k) + amount <= MaxReceived
    /\ held' = [held EXCEPT ![k] = @ + amount]
    /\ tokenState' = [tokenState EXCEPT ![k] =
          CheckpointedToken(CheckpointedToken(@, held[k], FALSE), held[k] + amount, TRUE)]
    /\ UNCHANGED <<escrowVars, cacheVars, userTokenTimeCursor, paid>>

\* A transfer of tokens to the contract, by anybody.
SendToken(k, amount) ==
    /\ Received(k) + amount <= MaxReceived
    /\ held' = [held EXCEPT ![k] = @ + amount]
    /\ UNCHANGED <<escrowVars, cacheVars, tokenState, userTokenTimeCursor, paid>>

\* The mutant does not round down: more tokens may come to the last week.
FirstUnclaimableWeekTooLate(u, token) ==
    Min({RoundUp(Min({timeCursor', userState'[u].timeCursor})), token.timeCursor})

\* A week can be claimed when its total and the user's balance are cached, and
\* no more tokens can be added to it.
FirstUnclaimableWeek(u, token) ==
    Min({RoundUp(Min({timeCursor', userState'[u].timeCursor})), RoundDown(token.timeCursor)})

\* Reverts for a week in which nobody had any voting power.
ClaimToken(u, k) ==
    /\ CheckpointTotalSupply
    /\ CheckpointUserBalance(u)
    /\ MayCheckpointToken(k)
    /\ \E token \in {CheckpointedToken(tokenState[k], held[k], FALSE)} :
       LET user == userState'[u]
           next == IF userTokenTimeCursor[u][k] > 0 THEN userTokenTimeCursor[u][k]
                   ELSE Max({user.startTime, token.startTime})
           share(w) == (token.perWeek[w] * user.balances[w]) \div veSupplyCache'[w]
       IN \E weeks \in {WeeksFrom(next, FirstUnclaimableWeek(u, token), MaxWeeks)} :
          LET amount == SumFunction([w \in weeks |-> share(w)])
          IN /\ \A w \in weeks : veSupplyCache'[w] # 0
             /\ userTokenTimeCursor' = [userTokenTimeCursor EXCEPT ![u][k] = next + Week * Cardinality(weeks)]
             /\ tokenState' = [tokenState EXCEPT ![k] = [token EXCEPT !.cachedBalance = token.cachedBalance - amount]]
             /\ held' = [held EXCEPT ![k] = @ - amount]
             /\ paid' = [paid EXCEPT ![u][k] = @ + amount]

-----------------------------------------------------------------------------
DistributorInit ==
    /\ EscrowInit
    /\ timeCursor = StartTime
    /\ veSupplyCache = [w \in FeeWeeks |-> 0]
    /\ tokenState = [k \in Tokens |-> [startTime |-> 0, timeCursor |-> 0, cachedBalance |-> 0,
                                       perWeek |-> [w \in FeeWeeks |-> 0]]]
    /\ userState = [u \in Users |-> [startTime |-> 0, timeCursor |-> 0, lastEpoch |-> 0,
                                     balances |-> [w \in FeeWeeks |-> 0]]]
    /\ userTokenTimeCursor = [u \in Users |-> [k \in Tokens |-> 0]]
    /\ held = [k \in Tokens |-> 0]
    /\ paid = [u \in Users |-> [k \in Tokens |-> 0]]

DistributorNext ==
    \/ EscrowNext /\ UNCHANGED <<cacheVars, tokenVars>>
    \/ CheckpointSupply
    \/ \E u \in Users : CheckpointUser(u)
    \/ \E k \in Tokens : CheckpointToken(k)
    \/ \E k \in Tokens, amount \in Amounts : DepositToken(k, amount) \/ SendToken(k, amount)
    \/ \E u \in Users, k \in Tokens : ClaimToken(u, k)

DistributorSpec == DistributorInit /\ [][DistributorNext]_distributorVars

-----------------------------------------------------------------------------
(* Properties *)

\* What is cached for a week is what the VotingEscrow says of it, now and ever
\* after: no lock of the block that begins a week is missed, and neither the
\* points that a user's checkpoint steps over nor the bounds of its loop lose
\* a balance.
CachesAreRight ==
    /\ \A w \in FeeWeeks : StartTime <= w /\ w < timeCursor => veSupplyCache[w] = TotalSupply(w)
    /\ \A u \in Users, w \in FeeWeeks : StartTime <= w /\ w < userState[u].timeCursor =>
          userState[u].balances[w] = BalanceOf(u, w)

\* A user's share of the tokens of a week, by the balances of that time.
Share(u, k, w) ==
    IF TotalSupply(w) = 0 THEN 0
    ELSE (tokenState[k].perWeek[w] * BalanceOf(u, w)) \div TotalSupply(w)

\* Each user has received the share of every week before the cursor, once, and of no
\* later one: no tokens come to a week that somebody has already claimed.
ShareOfEachWeekOnce ==
    \A u \in Users, k \in Tokens :
        paid[u][k] = SumFunction([w \in {v \in FeeWeeks : v < userTokenTimeCursor[u][k]} |-> Share(u, k, w)])

\* The contract holds what everybody's unclaimed weeks come to, whatever they
\* do about their locks later.
Covered ==
    \A k \in Tokens :
        /\ held[k] >= tokenState[k].cachedBalance
        /\ tokenState[k].cachedBalance >= SumFunction([u \in Users |->
              SumFunction([w \in {v \in FeeWeeks : v <= now /\ v >= userTokenTimeCursor[u][k]} |->
                              Share(u, k, w)])])
===============================================================================
