---------------------------- MODULE StakelessGauges ----------------------------
(***************************************************************************)
(* BAL is minted by a schedule whose rate goes down once a year            *)
(* (BalancerTokenAdmin). A stakeless gauge computes, for each week that is  *)
(* over, its share by the weight of the GaugeController, mints it through    *)
(* the BalancerMinter and passes it on. The StakelessGaugeCheckpointer does  *)
(* so for the gauges it lists.                                             *)
(* Only gauges mint: those with stakers are not here, and a checkpoint is   *)
(* one step, since all are nonReentrant and BAL is an ERC20. Left out: ETH   *)
(* for bridges, and the limit of 255 weeks for one checkpoint.              *)
(***************************************************************************)
EXTENDS GaugeController, Sequences, SequencesExt

CONSTANTS
    RateReductionTime,      \* RATE_REDUCTION_TIME, longer than a week
    InitialRate,            \* INITIAL_RATE
    RateDenominator,        \* RATE_DENOMINATOR
    RateCoefficient,        \* RATE_REDUCTION_COEFFICIENT
    Caps,                   \* bound: the relative weight caps of gauges
    MaxRestrained,          \* bound: the gauges that are killed or capped below one at a time
    Thresholds              \* bound: the least weights that are checkpointed

ASSUME GaugesAssumption ==
    /\ RateReductionTime \in Nat /\ RateReductionTime > Week
    /\ InitialRate \in Nat /\ {RateDenominator, RateCoefficient} \subseteq Nat \ {0}
    /\ RateDenominator <= RateCoefficient
    /\ Caps \subseteq 0..Multiplier /\ MaxRestrained \in Nat /\ Thresholds \subseteq Nat

VARIABLES
    mining,         \* of the BalancerTokenAdmin: the epoch's start, supply and rate
    gauge,          \* each gauge, and what it has minted and holds
    listed          \* the gauges of the checkpointer

emissionVars == <<mining, gauge, listed>>
vars == <<controllerVars, emissionVars>>

-----------------------------------------------------------------------------
(* BalancerTokenAdmin *)

Reduced(rate) == (rate * RateDenominator) \div RateCoefficient
EpochIsOver(m) == now >= m.start + RateReductionTime

\* _updateMiningParameters, if the epoch is over.
Updated(m) ==
    IF ~EpochIsOver(m) THEN m
    ELSE [start  |-> m.start + RateReductionTime,
          supply |-> m.supply + m.rate * RateReductionTime,
          rate   |-> Reduced(m.rate)]

\* What may have been minted since the activation.
AvailableSupply(m) == m.supply + (now - m.start) * m.rate

UpdateMiningParameters ==
    /\ EpochIsOver(mining)
    /\ mining' = Updated(mining)
    /\ UNCHANGED <<controllerVars, gauge, listed>>

-----------------------------------------------------------------------------
(* A gauge *)

NotCreated == 0
CurrentPeriod == now \div Week - 1
Created == {g \in Gauges : gauge[g].period # NotCreated}
MayRestrain(g) == Cardinality({h \in Created \ {g} : gauge[h].killed \/ gauge[h].cap < Multiplier}) < MaxRestrained
MintedBAL == SumFunction([g \in Gauges |-> gauge[g].minted])

\* initialize: the rate is read before the epoch's start, which may begin a new one.
\* Then the gauge is late (history): it has the old rate in the new epoch.
CreateGauge(g, cap) ==
    /\ gauge[g].period = NotCreated /\ (cap < Multiplier => MayRestrain(g))
    /\ mining.rate # 0
    /\ mining' = Updated(mining)
    /\ gauge' = [gauge EXCEPT ![g] =
          [@ EXCEPT !.rate = mining.rate, !.start = Updated(mining).start, !.period = CurrentPeriod, !.cap = cap,
                    !.late = EpochIsOver(mining)]]
    /\ UNCHANGED <<controllerVars, listed>>

\* The mutant takes the new rate only from the week after the one in which the
\* epoch ends.
WeekEmittedAtOnce(e, w, share) ==
    LET next == e.start + RateReductionTime
        emitted == e.sum + (share * e.rate * Week) \div Multiplier
    IN IF w <= next /\ next < w + Week
       THEN [rate |-> Reduced(e.rate), start |-> next, sum |-> emitted]
       ELSE [e EXCEPT !.sum = emitted]

\* One week of a checkpoint, with a share of the emissions.
WeekEmitted(e, w, share) ==
    LET next == e.start + RateReductionTime
        before == next - w
    IN IF w <= next /\ next < w + Week
       THEN [rate |-> Reduced(e.rate), start |-> next,
             sum |-> e.sum + (share * e.rate * before) \div Multiplier
                           + (share * Reduced(e.rate) * (Week - before)) \div Multiplier]
       ELSE [e EXCEPT !.sum = @ + (share * e.rate * Week) \div Multiplier]

\* The emissions since the last checkpoint, when the gauge has these relative weights.
Emitted(g, relative) ==
    LET first == gauge[g].period
        until[n \in first..CurrentPeriod] ==
            IF n = first THEN [rate |-> gauge[g].rate, start |-> gauge[g].start, sum |-> 0]
            ELSE WeekEmitted(until[n - 1], n * Week, Min({relative[n * Week], gauge[g].cap}))
    IN until[CurrentPeriod]

\* A gauge after its checkpoint: it mints all that it has not minted, which after it was
\* revived includes the weeks in which it was killed, and passes on what is new.
Checkpointed(g, relative) ==
    LET e == Emitted(g, relative)
        mints == e.sum > 0 /\ ~gauge[g].killed
        emissions == gauge[g].emissions + e.sum
    IN [gauge[g] EXCEPT
           !.rate = e.rate, !.start = e.start, !.period = CurrentPeriod, !.emissions = emissions,
           !.minted = IF mints THEN emissions ELSE @,
           !.kept = IF mints THEN @ + emissions - gauge[g].minted - e.sum ELSE @]

Due(gauges) == {g \in gauges : gauge[g].period < CurrentPeriod}

\* What checkpoints of these gauges do to them and to the schedule, once their
\* weights are filled in.
EmitAndMint(gauges) ==
    \E relative \in {[g \in Due(gauges) |-> [w \in Weeks |-> RelativeWeight(g, w)']]} :
        /\ gauge' = [g \in Gauges |-> IF g \in Due(gauges) THEN Checkpointed(g, relative[g]) ELSE gauge[g]]
        /\ IF MintedBAL' > MintedBAL
           THEN mining' = Updated(mining) /\ MintedBAL' <= AvailableSupply(Updated(mining))
           ELSE UNCHANGED mining

Checkpoint(g) ==
    /\ g \in Created
    /\ IF g \in Due({g}) THEN FillGauges({g}) ELSE UNCHANGED historyVars
    /\ UNCHANGED <<lockVars, voteVars, n_gauge_types, gauge_type, initial_weight, listed>>
    /\ EmitAndMint({g})

-----------------------------------------------------------------------------
(* Governance of gauges *)

SetKilled(g, killed) ==
    /\ g \in Created
    /\ gauge' = [gauge EXCEPT ![g].killed = killed]
    /\ UNCHANGED <<controllerVars, mining, listed>>

KillGauge(g) == ~gauge[g].killed /\ MayRestrain(g) /\ SetKilled(g, TRUE)
UnkillGauge(g) == gauge[g].killed /\ SetKilled(g, FALSE)

SetRelativeWeightCap(g, cap) ==
    /\ g \in Created /\ cap # gauge[g].cap /\ (cap < Multiplier => MayRestrain(g))
    /\ gauge' = [gauge EXCEPT ![g].cap = cap]
    /\ UNCHANGED <<controllerVars, mining, listed>>

-----------------------------------------------------------------------------
(* StakelessGaugeCheckpointer, for the gauges of one kind *)

AddToCheckpointer(g) ==
    /\ g \in Created \ listed /\ gauge_type[g] # NoType /\ ~gauge[g].killed
    /\ listed' = listed \cup {g}
    /\ UNCHANGED <<controllerVars, mining, gauge>>

RemoveFromCheckpointer(g) ==
    /\ g \in listed /\ gauge[g].killed
    /\ listed' = listed \ {g}
    /\ UNCHANGED <<controllerVars, mining, gauge>>

\* The beginning of the last week that is over.
LastWeekOver == CurrentPeriod * Week

\* The mutant trusts the controller's weights.
NeedsFillingNever(g) == FALSE
NeedsFilling(g) == weight[g].time < LastWeekOver

\* The gauges of the list with at least this weight, one after the other: the total
\* is filled in with the first that is filled in or checkpointed.
Chosen(order, least) ==
    LET read(g, filled) == IF filled \/ NeedsFilling(g) THEN FilledRelativeWeight(g, LastWeekOver)
                           ELSE RelativeWeight(g, LastWeekOver)
        next(s, g) ==
            IF read(g, s.filled) >= least
            THEN [gauges |-> s.gauges \cup {g}, filled |-> s.filled \/ NeedsFilling(g) \/ g \in Due({g})]
            ELSE [s EXCEPT !.filled = @ \/ NeedsFilling(g)]
    IN FoldLeft(next, [gauges |-> {}, filled |-> FALSE], order).gauges

CheckpointGauges(least) ==
    /\ UNCHANGED <<lockVars, voteVars, n_gauge_types, gauge_type, initial_weight, listed>>
    /\ \E chosen \in {Chosen(order, least) :
                       order \in {s \in [1..Cardinality(listed) -> listed] : IsInjective(s)}} :
          LET filled == Due(chosen) \cup {g \in listed : NeedsFilling(g)}
          IN /\ IF filled # {} THEN FillGauges(filled) ELSE UNCHANGED historyVars
             /\ EmitAndMint(chosen)

-----------------------------------------------------------------------------
\* The schedule has just been activated, in the week before the first in which gauges have weights.
Init ==
    /\ ControllerInit
    /\ mining = [start |-> now, supply |-> 0, rate |-> InitialRate]
    /\ gauge = [g \in Gauges |-> [period |-> NotCreated, rate |-> 0, start |-> 0, emissions |-> 0,
                                   killed |-> FALSE, cap |-> 0, minted |-> 0, kept |-> 0, late |-> FALSE]]
    /\ listed = {}

Next ==
    \/ ControllerNext /\ UNCHANGED emissionVars
    \/ UpdateMiningParameters
    \/ \E g \in Gauges, cap \in Caps : CreateGauge(g, cap) \/ SetRelativeWeightCap(g, cap)
    \/ \E g \in Gauges :
          \/ Checkpoint(g)
          \/ KillGauge(g) \/ UnkillGauge(g)
          \/ AddToCheckpointer(g) \/ RemoveFromCheckpointer(g)
    \/ \E least \in Thresholds : CheckpointGauges(least)

Spec == Init /\ [][Next]_vars

-----------------------------------------------------------------------------
(* Properties *)

\* What gauge g has emitted when the weeks that are over are added.
EmittedInAll(g) == gauge[g].emissions + Emitted(g, [w \in Weeks |-> FinalWeight(g, w)]).sum

\* Whatever gauges are created, voted for, killed, revived and capped, and whenever
\* they are checkpointed, what the gauges emit that were initialised in an epoch that
\* had begun is covered by the schedule of the token, which may lag behind theirs.
\* Only late gauges (StakelessGauge.sol:78) can emit what nobody may mint.
ScheduleCoversEmissions ==
    SumFunction([g \in {h \in Created : ~gauge[h].late} |-> EmittedInAll(g)])
      <= AvailableSupply(Updated(mining))

\* The gauges emit by the inflation schedule of BalancerTokenAdmin, which exists for
\* them to know how much each is allowed to mint (BalancerTokenAdmin.sol:33-34).
AllEmissionsAreCovered ==
    SumFunction([g \in Created |-> EmittedInAll(g)]) <= AvailableSupply(Updated(mining))

\* A checkpoint of all gauges above a weight misses none of them, although it reads
\* weights that may not be filled in: a step after which a listed gauge of at least
\* that weight still has a week to emit for was not such a checkpoint.
NothingSkipped ==
    [][\A least \in Thresholds, g \in listed :
          gauge'[g].period # CurrentPeriod /\ FinalWeight(g, LastWeekOver) >= least
          => ~CheckpointGauges(least)]_vars

===============================================================================
