----------------------------- MODULE VotingEscrow -----------------------------
(***************************************************************************)
(* veBAL: BPT locked until the beginning of some week gives a voting power *)
(* that goes down linearly to zero at that time. The contract keeps a      *)
(* history of points (bias and slope) per user, and one of their sum, in   *)
(* which the locks that end are `slope_changes`.                           *)
(* Left out: block numbers, which only balanceOfAt and totalSupplyAt read, *)
(* and the list of smart wallets.                                          *)
(***************************************************************************)
EXTENDS LiquidityMining, Sequences, SequencesExt

CONSTANTS
    MaxTime,        \* MAXTIME: the longest lock, not a whole number of weeks
    Values,         \* the amounts that are locked at once
    CheckpointGap,  \* bound: the time that checkpoint() waits after the last point
    LastLock,       \* bound: the last time at which a lock changes
    MaxUserPoints   \* bound: the points of all users together

ASSUME EscrowAssumption ==
    /\ MaxTime \in Nat \ {0} /\ {CheckpointGap, LastLock} \subseteq Nat
    /\ Values \subseteq Nat \ {0}

VARIABLES
    locked,               \* each user's amount and end
    supply,               \* the BPT in the contract
    point_history,        \* the points of the total; its length is `epoch`
    user_point_history,   \* the points of each user; their number is user_point_epoch
    slope_changes         \* what is added to the slope of the total at a time

escrowVars == <<now, locked, supply, point_history, user_point_history, slope_changes>>

Times == 0..(Horizon + MaxTime)
RoundDown(t) == (t \div Week) * Week
Last0(points, zero) == IF points = <<>> THEN zero ELSE Last(points)

ZeroPoint == [bias |-> 0, slope |-> 0, ts |-> 0]

-----------------------------------------------------------------------------
(* Reading *)

WeeksIn(from, to) == {t \in (from + 1)..to : t % Week = 0}

\* find_timestamp_epoch and find_timestamp_user_epoch; 0 is none.
EpochAt(points, t) == Max({0} \cup {e \in DOMAIN points : points[e].ts <= t})

BalanceOf(u, t) ==
    LET e == EpochAt(user_point_history[u], t)
        p == user_point_history[u][e]
    IN IF e = 0 THEN 0 ELSE AtLeastZero(p.bias - p.slope * (t - p.ts))

\* supply_at: each lock that ends since the point p no longer decays.
SupplyAt(p, t) ==
    LET ended == [w \in WeeksIn(p.ts, t) |-> slope_changes[w] * (t - w)]
    IN AtLeastZero(p.bias - p.slope * (t - p.ts) - SumFunction(ended))

TotalSupplyIn(history, t) ==
    LET e == EpochAt(history, t) IN IF e = 0 THEN 0 ELSE SupplyAt(history[e], t)

TotalSupply(t) == TotalSupplyIn(point_history, t)

-----------------------------------------------------------------------------
(* _checkpoint *)

\* The point after p, at the end of its week or earlier.
DecayedTo(p, t) ==
    [bias  |-> AtLeastZero(p.bias - p.slope * (t - p.ts)),
     slope |-> AtLeastZero(p.slope + IF t \in WeeksIn(p.ts, t) THEN slope_changes[t] ELSE 0),
     ts    |-> t]

\* The points at each week since the last one, and now: `time` is the loop's t_i.
MissedPoints ==
    LET last == Last0(point_history, [ZeroPoint EXCEPT !.ts = now])
        time(n) == Min({RoundDown(last.ts) + n * Week, now})
        count == Max({1, (now - RoundDown(last.ts) + Week - 1) \div Week})
        point[n \in 0..count] == IF n = 0 THEN last ELSE DecayedTo(point[n - 1], time(n))
    IN [n \in 1..count |-> point[n]]

\* The voting power of a lock from now on.
PointOfLock(lock) ==
    LET slope == IF lock.end > now THEN lock.amount \div MaxTime ELSE 0
    IN [bias |-> slope * (lock.end - now), slope |-> slope, ts |-> now]

\* The total's new points, the last of which gets the change from old to new.
AddPoints(old, new) ==
    LET total == [Last(MissedPoints) EXCEPT !.bias = AtLeastZero(@ + new.bias - old.bias),
                                            !.slope = AtLeastZero(@ + new.slope - old.slope)]
    IN point_history' = point_history \o [MissedPoints EXCEPT ![Len(MissedPoints)] = total]

\* The mutant forgets the slope change that the old lock had scheduled.
SlopeChangesAdded(old, new) ==
    [t \in Times |-> slope_changes[t]
        - IF t > now /\ t = new.end THEN PointOfLock(new).slope ELSE 0]

\* new.end is 0 or not before old.end.
SlopeChanges(old, new) ==
    [t \in Times |-> slope_changes[t]
        + (IF t > now /\ t = old.end THEN PointOfLock(old).slope ELSE 0)
        - (IF t > now /\ t = new.end THEN PointOfLock(new).slope ELSE 0)]

Relock(u, new) ==
    LET old == locked[u]
    IN /\ AddPoints(PointOfLock(old), PointOfLock(new))
       /\ slope_changes' = SlopeChanges(old, new)
       /\ user_point_history' = [user_point_history EXCEPT ![u] = Append(@, PointOfLock(new))]
       /\ locked' = [locked EXCEPT ![u] = new]
       /\ supply' = supply + new.amount - old.amount
       /\ UNCHANGED now

\* Bound: only when the last point is old enough.
CheckpointGlobal ==
    /\ Last0(point_history, ZeroPoint).ts + CheckpointGap <= now
    /\ AddPoints(ZeroPoint, ZeroPoint)
    /\ UNCHANGED <<now, locked, supply, user_point_history, slope_changes>>

-----------------------------------------------------------------------------
(* Locking *)

MayUnlockAt(t) == t % Week = 0 /\ t > now /\ t <= now + MaxTime

CreateLock(u, value, unlock_time) ==
    /\ locked[u].amount = 0 /\ MayUnlockAt(unlock_time)
    /\ Relock(u, [amount |-> value, end |-> unlock_time])

\* increase_amount of the user, or deposit_for of anybody.
DepositFor(u, value) ==
    /\ locked[u].amount > 0 /\ locked[u].end > now
    /\ Relock(u, [locked[u] EXCEPT !.amount = @ + value])

IncreaseUnlockTime(u, unlock_time) ==
    /\ locked[u].amount > 0 /\ locked[u].end > now
    /\ unlock_time > locked[u].end /\ MayUnlockAt(unlock_time)
    /\ Relock(u, [locked[u] EXCEPT !.end = unlock_time])

\* Withdrawing nothing is allowed, and adds a point.
Withdraw(u) ==
    /\ now >= locked[u].end
    /\ Relock(u, [amount |-> 0, end |-> 0])

\* The next block.
EscrowTick ==
    /\ now < Horizon
    /\ now' = now + 1
    /\ UNCHANGED <<locked, supply, point_history, user_point_history, slope_changes>>

-----------------------------------------------------------------------------
EscrowInit ==
    /\ now = 0
    /\ locked = [u \in Users |-> [amount |-> 0, end |-> 0]]
    /\ supply = 0
    /\ point_history = <<>>
    /\ user_point_history = [u \in Users |-> <<>>]
    /\ slope_changes = [t \in Times |-> 0]

UserNext(u) ==
    /\ now <= LastLock
    /\ SumFunction([v \in Users |-> Len(user_point_history[v])]) < MaxUserPoints
    /\ \/ \E value \in Values, t \in Times : CreateLock(u, value, t)
       \/ \E value \in Values : DepositFor(u, value)
       \/ \E t \in Times : IncreaseUnlockTime(u, t)
       \/ Withdraw(u)

EscrowNext ==
    \/ \E u \in Users : UserNext(u)
    \/ CheckpointGlobal
    \/ EscrowTick

-----------------------------------------------------------------------------
(* Properties *)

\* The power of all users together is the total, at every time, past and
\* future: no sequence of locks, extensions and withdrawals, in whichever blocks,
\* and no week without a checkpoint, makes the history of the sum drift from the
\* users' histories. Votes, fees and BAL are divided by this total.
SupplyIsSum ==
    \A t \in {now} \cup WeeksIn(-1, Horizon + MaxTime) :
        TotalSupply(t) = SumFunction([u \in Users |-> BalanceOf(u, t)])
===============================================================================
