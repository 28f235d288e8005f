---------------------------- MODULE GaugeController ----------------------------
(***************************************************************************)
(* veBAL holders divide their voting power among gauges. What a vote adds  *)
(* to a gauge decays until the lock ends, like the voting power. The       *)
(* contract keeps, week by week, the weight of each gauge, their sum per    *)
(* type, and the total over the types; whoever calls next fills in the      *)
(* weeks that were missed. Votes count from the next week on.               *)
(* Left out: change_gauge_weight (for tests, says its comment), which        *)
(* makes a weight differ from its votes, and the limit of 500 missed weeks.  *)
(***************************************************************************)
EXTENDS LiquidityMining

CONSTANTS
    Gauges,
    Types,              \* 0..n: the ids of the types, in the order they are added
    WeightVoteDelay,    \* WEIGHT_VOTE_DELAY, longer than a week
    MaxPower,           \* 10000: all of a user's power
    Multiplier,         \* MULTIPLIER: a relative weight of one
    Locks,              \* bound: the locks that users may have
    Powers,             \* bound: the powers that users vote with
    TypeWeights,        \* bound: the weights of types
    GaugeWeights,       \* bound: the weights that gauges are added with
    Start               \* bound: the first time

ASSUME ControllerAssumption ==
    /\ IsFiniteSet(Gauges) /\ IsFiniteSet(Locks)
    /\ IsFiniteSet(Types) /\ Types \subseteq Nat
    /\ {MaxPower, Multiplier} \subseteq Nat \ {0} /\ {WeightVoteDelay, Start} \subseteq Nat
    /\ 2 * Week <= Start /\ Start <= Horizon
    /\ \A lock \in Locks : lock.slope \in Nat /\ lock.end \in Nat /\ lock.end % Week = 0
    /\ TypeWeights \cup GaugeWeights \subseteq Nat /\ Powers \subseteq 0..MaxPower

VARIABLES
    lock,               \* in the VotingEscrow: the slope and the end of each user's lock
    n_gauge_types,
    gauge_type,         \* the type of each gauge, or NoType
    weight,             \* points_weight, changes_weight, time_weight of each gauge
    sum,                \* points_sum, changes_sum, time_sum of each type
    total,              \* points_total, time_total
    type_weight,        \* points_type_weight, time_type_weight of each type
    vote,               \* vote_user_slopes and last_user_vote
    vote_user_power,
    initial_weight      \* history: the weight that a gauge was added with

lockVars == <<now, lock>>
historyVars == <<weight, sum, total, type_weight>>
voteVars == <<vote, vote_user_power>>
controllerVars == <<lockVars, historyVars, voteVars, n_gauge_types, gauge_type, initial_weight>>

NoType == -1
LastWeek == Max({Horizon + Week} \cup {l.end : l \in Locks})
Weeks == {t \in 0..LastWeek : t % Week = 0}

\* The mutant records for the week that has begun.
NextWeekTooEarly == (now \div Week) * Week
NextWeek == ((now + Week) \div Week) * Week

NoPoint == [bias |-> 0, slope |-> 0]
NoHistory == [points |-> [w \in Weeks |-> NoPoint], changes |-> [w \in Weeks |-> 0], time |-> 0]

-----------------------------------------------------------------------------
(* Filling in weeks up to the next one *)

\* A point, a week later, when the votes that end then have the slope `ending`.
Decayed(point, ending) ==
    IF point.bias > point.slope * Week
    THEN [bias |-> point.bias - point.slope * Week, slope |-> point.slope - ending]
    ELSE NoPoint

\* The points of a history that are recorded, and those that will be.
Continued(h) ==
    LET point[w \in Weeks] == IF w <= h.time \/ h.time = 0 THEN h.points[w] ELSE Decayed(point[w - Week], h.changes[w])
    IN point

\* _get_weight and _get_sum
Filled(h) ==
    IF h.time = 0 THEN h
    ELSE [h EXCEPT !.points = [w \in Weeks |-> IF w <= NextWeek THEN Continued(h)[w] ELSE @[w]],
                   !.time = NextWeek]

\* _get_type_weight
FilledTypeWeight(h) ==
    IF h.time = 0 THEN h
    ELSE [points |-> [w \in Weeks |-> IF h.time <= w /\ w <= NextWeek THEN h.points[h.time] ELSE h.points[w]],
          time |-> NextWeek]

Added == {k \in Types : k < n_gauge_types}
FilledSums(sums) == [k \in Types |-> IF k \in Added THEN Filled(sums[k]) ELSE sums[k]]
FilledTypeWeights == [k \in Types |-> IF k \in Added THEN FilledTypeWeight(type_weight[k]) ELSE type_weight[k]]

\* The mutant keeps a total that was computed earlier in this week.
FilledTotalOnce(sums) ==
    [points |-> [w \in Weeks |->
        IF total.time < w /\ w <= NextWeek
        THEN SumFunction([k \in Added |-> FilledSums(sums)[k].points[w].bias * FilledTypeWeights[k].points[w]])
        ELSE total.points[w]],
     time |-> NextWeek]

\* _get_total: the total of the next week is computed anew each time.
FilledTotal(sums) ==
    [points |-> [w \in Weeks |->
        IF Min({total.time, NextWeek - Week}) < w /\ w <= NextWeek
        THEN SumFunction([k \in Added |-> FilledSums(sums)[k].points[w].bias * FilledTypeWeights[k].points[w]])
        ELSE total.points[w]],
     time |-> NextWeek]

\* The step of _get_total on the three histories it fills.
GetTotal(sums) ==
    /\ sum' = FilledSums(sums)
    /\ type_weight' = FilledTypeWeights
    /\ total' = FilledTotal(sums)

-----------------------------------------------------------------------------
(* Governance *)

ChangeTypeWeight(k, new) ==
    LET old == FilledTypeWeights[k].points[NextWeek]
        ofType == FilledSums(sum)[k].points[NextWeek].bias
    IN /\ sum' = FilledSums(sum)
       /\ total' = [FilledTotal(sum) EXCEPT !.points[NextWeek] = @ + ofType * new - ofType * old]
       /\ type_weight' = [FilledTypeWeights EXCEPT
             ![k] = [points |-> [@.points EXCEPT ![NextWeek] = new], time |-> NextWeek]]

\* _change_type_weight only fills the types that are already added; a new one has no history.
AddType(initial) ==
    /\ n_gauge_types \in Types
    /\ n_gauge_types' = n_gauge_types + 1
    /\ IF initial = 0 THEN UNCHANGED historyVars
       ELSE ChangeTypeWeight(n_gauge_types, initial) /\ UNCHANGED weight
    /\ UNCHANGED <<lockVars, voteVars, gauge_type, initial_weight>>

ChangeWeightOfType(k, new) ==
    /\ k \in Added
    /\ ChangeTypeWeight(k, new)
    /\ UNCHANGED <<lockVars, voteVars, n_gauge_types, gauge_type, initial_weight, weight>>

AddGauge(g, k, initial) ==
    /\ k \in Added /\ gauge_type[g] = NoType
    /\ gauge_type' = [gauge_type EXCEPT ![g] = k]
    /\ initial_weight' = [initial_weight EXCEPT ![g] = initial]
    /\ weight' = [weight EXCEPT ![g].points[NextWeek].bias = initial, ![g].time = NextWeek]
    /\ \/ /\ initial > 0
          /\ sum' = [FilledSums(sum) EXCEPT ![k].points[NextWeek].bias = @ + initial, ![k].time = NextWeek]
          /\ type_weight' = FilledTypeWeights
          /\ total' = [FilledTotal(sum) EXCEPT
                !.points[NextWeek] = @ + FilledTypeWeights[k].points[NextWeek] * initial]
       \/ /\ initial = 0
          /\ sum' = [sum EXCEPT ![k].time = IF @ = 0 THEN NextWeek ELSE @]
          /\ UNCHANGED <<type_weight, total>>
    /\ UNCHANGED <<lockVars, voteVars, n_gauge_types>>

-----------------------------------------------------------------------------
(* Anybody *)

\* checkpoint, or checkpoint_gauge and gauge_relative_weight_write of the gauges.
FillGauges(gauges) ==
    /\ weight' = [g \in Gauges |-> IF g \in gauges THEN Filled(weight[g]) ELSE weight[g]]
    /\ GetTotal(sum)

CheckpointController(gauges) ==
    /\ FillGauges(gauges)
    /\ UNCHANGED <<lockVars, voteVars, n_gauge_types, gauge_type, initial_weight>>

\* What the vote `new` in place of `old` makes of the next week's point.
Voted(point, old, new) ==
    LET bias(v) == v.slope * AtLeastZero(v.end - NextWeek)
        oldSlope == IF old.end > NextWeek THEN old.slope ELSE 0
    IN [bias  |-> AtLeastZero(point.bias + bias(new) - bias(old)),
        slope |-> AtLeastZero(point.slope + new.slope - oldSlope)]

\* The mutant leaves the end of the old vote scheduled.
RecordVoteKeepingOld(h, old, new) ==
    LET filled == Filled(h)
    IN [filled EXCEPT
        !.points[NextWeek] = Voted(@, old, new),
        !.changes = [w \in Weeks |-> @[w] + IF w = new.end THEN new.slope ELSE 0]]

RecordVote(h, old, new) ==
    LET filled == Filled(h)
    IN [filled EXCEPT
        !.points[NextWeek] = Voted(@, old, new),
        !.changes = [w \in Weeks |-> @[w] - (IF w = old.end /\ w > now THEN old.slope ELSE 0)
                                          + (IF w = new.end THEN new.slope ELSE 0)]]

\* vote_for_gauge_weights; vote_for_many_gauge_weights is several in a row.
Vote(u, g, power) ==
    LET old == vote[u][g]
        new == [slope |-> (lock[u].slope * power) \div MaxPower, power |-> power, end |-> lock[u].end, at |-> now]
        used == vote_user_power[u] + power - old.power
        k == gauge_type[g]
    IN /\ lock[u].end > NextWeek
       /\ now >= old.at + WeightVoteDelay
       /\ k # NoType
       /\ used <= MaxPower
       /\ vote_user_power' = [vote_user_power EXCEPT ![u] = used]
       /\ weight' = [weight EXCEPT ![g] = RecordVote(@, old, new)]
       /\ GetTotal([sum EXCEPT ![k] = RecordVote(@, old, new)])
       /\ vote' = [vote EXCEPT ![u][g] = new]
       /\ UNCHANGED <<lockVars, n_gauge_types, gauge_type, initial_weight>>

-----------------------------------------------------------------------------
(* The VotingEscrow: a lock that has not ended only grows. *)

ChangeLock(u, new) ==
    /\ new.end > now
    /\ new # lock[u]
    /\ lock[u].end > now => new.slope >= lock[u].slope /\ new.end >= lock[u].end
    /\ lock' = [lock EXCEPT ![u] = new]
    /\ UNCHANGED <<now, historyVars, voteVars, n_gauge_types, gauge_type, initial_weight>>

Tick ==
    /\ now < Horizon
    /\ now' = now + 1
    /\ UNCHANGED <<lock, historyVars, voteVars, n_gauge_types, gauge_type, initial_weight>>

-----------------------------------------------------------------------------
\* Time zero is weeks ago. A gauge that a user never voted for can be voted for at once.
ControllerInit ==
    /\ now = Start
    /\ lock = [u \in Users |-> [slope |-> 0, end |-> 0]]
    /\ n_gauge_types = 0
    /\ gauge_type = [g \in Gauges |-> NoType]
    /\ weight = [g \in Gauges |-> NoHistory]
    /\ sum = [k \in Types |-> NoHistory]
    /\ total = [points |-> [w \in Weeks |-> 0], time |-> (Start \div Week) * Week]
    /\ type_weight = [k \in Types |-> [points |-> [w \in Weeks |-> 0], time |-> 0]]
    /\ vote = [u \in Users |-> [g \in Gauges |-> [slope |-> 0, power |-> 0, end |-> 0, at |-> -WeightVoteDelay]]]
    /\ vote_user_power = [u \in Users |-> 0]
    /\ initial_weight = [g \in Gauges |-> 0]

ControllerNext ==
    \/ \E initial \in TypeWeights : AddType(initial)
    \/ \E k \in Types, new \in TypeWeights : ChangeWeightOfType(k, new)
    \/ \E g \in Gauges, k \in Types, initial \in GaugeWeights : AddGauge(g, k, initial)
    \/ \E gauges \in {{}} \cup {{g} : g \in Gauges} : CheckpointController(gauges)
    \/ \E u \in Users, g \in Gauges, power \in Powers : Vote(u, g, power)
    \/ \E u \in Users, new \in Locks : ChangeLock(u, new)
    \/ Tick

ControllerSpec == ControllerInit /\ [][ControllerNext]_controllerVars

-----------------------------------------------------------------------------
(* _gauge_relative_weight *)

\* The share of a gauge in a week, by these weights.
Relative(g, t, weights, totals, typeWeights) ==
    LET w == (t \div Week) * Week
        k == gauge_type[g]
    IN IF totals.points[w] = 0 \/ k = NoType THEN 0
       ELSE (Multiplier * typeWeights[k].points[w] * weights[g].points[w].bias) \div totals.points[w]

RelativeWeight(g, t) == Relative(g, t, weight, total, type_weight)

\* What is read after filling in the gauge.
FilledRelativeWeight(g, t) ==
    Relative(g, t, [weight EXCEPT ![g] = Filled(@)], FilledTotal(sum), FilledTypeWeights)

-----------------------------------------------------------------------------
(* Properties *)

\* The votes for a gauge at the beginning of a week.
Votes(g, w) ==
    [bias  |-> initial_weight[g] + SumFunction([u \in Users |-> vote[u][g].slope * AtLeastZero(vote[u][g].end - w)]),
     slope |-> SumFunction([u \in Users |-> IF vote[u][g].end > w THEN vote[u][g].slope ELSE 0])]

\* A gauge's weight, from its last point on, is that of the votes cast for it: changed
\* votes, lapsed locks and missed weeks leave no trace, and nobody's power counts
\* more than once.
WeightsAreVotes ==
    /\ \A g \in Gauges, w \in Weeks : gauge_type[g] # NoType /\ w >= weight[g].time =>
           Continued(weight[g])[w] = Votes(g, w)
    /\ \A u \in Users : SumFunction([g \in Gauges |-> vote[u][g].power]) = vote_user_power[u]

\* The sum of each type is that of its gauges, and the total that of the types, at
\* every week, although they are filled in at different times: shares of the
\* emissions add up to at most one.
SumsAddUp ==
    /\ \A k \in Added, w \in Weeks :
           Continued(sum[k])[w].bias = SumFunction(
               [g \in {h \in Gauges : gauge_type[h] = k} |-> Continued(weight[g])[w].bias])
    /\ \A w \in Weeks : w <= total.time =>
           total.points[w] = SumFunction([k \in Added |-> Continued(sum[k])[w].bias * type_weight[k].points[w]])

\* The relative weights of the gauges in these weeks, when all is filled in.
FinalWeights(weeks) ==
    LET sums == [k \in Added |-> Continued(sum[k])]
        ofType == [k \in Added |-> [w \in weeks |-> type_weight[k].points[Min({w, type_weight[k].time})]]]
        all == [w \in weeks |-> SumFunction([k \in Added |-> sums[k][w].bias * ofType[k][w]])]
        shares(g, points) == [w \in weeks |->
            IF all[w] = 0 \/ gauge_type[g] = NoType THEN 0
            ELSE (Multiplier * ofType[gauge_type[g]][w] * points[w].bias) \div all[w]]
    IN [g \in Gauges |-> shares(g, Continued(weight[g]))]

FinalWeight(g, w) == FinalWeights({w})[g][w]

Begun == {w \in Weeks : w <= now}

\* Emissions are computed from weights of past weeks, by whoever comes first: no vote,
\* new gauge or new type weight can change the weights of a week that has begun.
PastIsFinal ==
    [][\A begun \in {Begun} : FinalWeights(begun)' = FinalWeights(begun)]_controllerVars
=============================================================================
