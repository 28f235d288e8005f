------------------------ MODULE FeeDistributor_proofs -------------------------
(***************************************************************************)
(* Theorems about VotingEscrow and FeeDistributor, for any users, tokens,  *)
(* locks and times: voting power adds up, what the distributor remembers   *)
(* of it is right, a share is paid once, and what is not paid yet is held. *)
(***************************************************************************)
EXTENDS FeeDistributor, LiquidityMining_proofs

-----------------------------------------------------------------------------
(* Beginnings of weeks *)

LEMMA WeekIsPositive == Week \in Nat \ {0} /\ Horizon \in Nat /\ MaxTime \in Nat \ {0} /\ IsFiniteSet(Users)
BY MiningAssumption, EscrowAssumption

\* The first time of a week is the last beginning of a week until then.
LEMMA RoundDownIs ==
    ASSUME NEW t \in Nat
    PROVE  /\ RoundDown(t) \in Nat /\ RoundDown(t) % Week = 0
           /\ RoundDown(t) <= t /\ t < RoundDown(t) + Week
           /\ \A w \in Nat : w % Week = 0 /\ w <= t => w <= RoundDown(t)
           /\ t % Week = 0 => RoundDown(t) = t
<1> DEFINE d == t \div Week
           m == t % Week
<1>0. Week \in Nat \ {0}
  BY WeekIsPositive
<1>1. d \in Int /\ m \in 0..(Week - 1) /\ t = d * Week + m /\ RoundDown(t) = d * Week
  BY <1>0 DEF RoundDown
<1>2. d \in Nat
  BY <1>0, Quotients
<1> HIDE DEF d, m
<1>3. d * Week \in Nat /\ (d * Week) % Week = 0
  <2>1. d * Week \in Nat
    BY <1>0, <1>2
  <2> QED  BY <2>1, <1>2, Multiples
<1>4. ASSUME NEW w \in Nat, w % Week = 0, w <= t PROVE w <= d * Week
  <2>1. SUFFICES ASSUME d * Week < w PROVE FALSE
    BY <1>3
  <2>2. d * Week + Week <= w
    BY <1>3, <1>4, <2>1, WeeksApart
  <2> QED  BY <1>0, <1>1, <1>3, <1>4, <2>2
<1>5. t % Week = 0 => t <= d * Week
  BY <1>4
<1> QED  BY <1>0, <1>1, <1>3, <1>4, <1>5

LEMMA RoundUpIs ==
    ASSUME NEW t \in Nat
    PROVE  /\ RoundUp(t) \in Nat /\ RoundUp(t) % Week = 0
           /\ t <= RoundUp(t) /\ RoundUp(t) < t + Week
           /\ \A w \in Nat : w % Week = 0 /\ t <= w => RoundUp(t) <= w
           /\ t % Week = 0 => RoundUp(t) = t
<1> DEFINE x == t + Week - 1
           r == RoundDown(x)
<1>0. Week \in Nat \ {0} /\ x \in Nat
  BY WeekIsPositive
<1>1. r \in Nat /\ r % Week = 0 /\ r <= x /\ x < r + Week
  BY <1>0, RoundDownIs
<1>2. RoundUp(t) = r
  BY DEF RoundUp
<1> HIDE DEF r
<1>3. t <= r /\ r < t + Week
  BY <1>0, <1>1
<1>4. ASSUME NEW w \in Nat, w % Week = 0, t <= w PROVE r <= w
  <2>1. SUFFICES ASSUME w < r PROVE FALSE
    BY <1>1
  <2>2. w + Week <= r
    BY <1>1, <1>4, <2>1, WeeksApart
  <2> QED  BY <1>0, <1>1, <1>4, <2>2
<1>5. t % Week = 0 => r <= t
  BY <1>4
<1> QED  BY <1>0, <1>1, <1>2, <1>3, <1>4, <1>5

-----------------------------------------------------------------------------
(* Histories of points *)

EscrowPoint == [bias : Nat, slope : Nat, ts : Nat]

\* The last point at a time or before.
LEMMA EpochAtIs ==
    ASSUME NEW points \in Seq(EscrowPoint), NEW t \in Int
    PROVE  /\ EpochAt(points, t) \in 0..Len(points)
           /\ EpochAt(points, t) # 0 => points[EpochAt(points, t)].ts <= t
           /\ \A e \in 1..Len(points) : points[e].ts <= t => e <= EpochAt(points, t)
<1> DEFINE S == {0} \cup {e \in DOMAIN points : points[e].ts <= t}
<1>1. DOMAIN points = 1..Len(points) /\ Len(points) \in Nat
  OBVIOUS
<1>2. S \subseteq 0..Len(points) /\ 0 \in S
  BY <1>1
<1>3. IsFiniteSet(S)
  <2>1. IsFiniteSet(0..Len(points))
    BY <1>1, FS_Interval
  <2> HIDE DEF S
  <2> QED  BY <1>2, <2>1, FS_Subset
<1>4. Max(S) \in S /\ \A y \in S : Max(S) >= y
  <2>1. S # {} /\ S \subseteq Int
    BY <1>2
  <2> HIDE DEF S
  <2> QED  BY <1>3, <2>1, MaxIsLargest
<1>5. EpochAt(points, t) = Max(S)
  BY DEF EpochAt
<1> QED  BY <1>1, <1>2, <1>4, <1>5

\* These properties determine it.
LEMMA EpochAtIsUnique ==
    ASSUME NEW points \in Seq(EscrowPoint), NEW t \in Int, NEW e \in 0..Len(points),
           e # 0 => points[e].ts <= t, \A d \in 1..Len(points) : points[d].ts <= t => d <= e
    PROVE  EpochAt(points, t) = e
<1>1. Len(points) \in Nat
  OBVIOUS
<1> QED  BY <1>1, EpochAtIs

\* The voting power that a user's points give.
PowerIn(points, t) ==
    LET e == EpochAt(points, t)
    IN IF e = 0 THEN 0 ELSE AtLeastZero(points[e].bias - points[e].slope * (t - points[e].ts))

LEMMA BalanceIsPower == \A u, t : BalanceOf(u, t) = PowerIn(user_point_history[u], t)
BY DEF BalanceOf, PowerIn

LEMMA PowerIsNat ==
    ASSUME NEW points \in Seq(EscrowPoint), NEW t \in Nat
    PROVE  PowerIn(points, t) \in Nat
<1> DEFINE e == EpochAt(points, t)
<1>1. e \in 0..Len(points) /\ Len(points) \in Nat
  BY EpochAtIs
<1> HIDE DEF e
<1>2. ASSUME e # 0 PROVE AtLeastZero(points[e].bias - points[e].slope * (t - points[e].ts)) \in Nat
  <2>1. points[e] \in EscrowPoint
    BY <1>1, <1>2
  <2>2. points[e].bias - points[e].slope * (t - points[e].ts) \in Int
    BY <2>1 DEF EscrowPoint
  <2> QED  BY <2>2 DEF AtLeastZero
<1> QED  BY <1>2 DEF PowerIn, e

\* The points of the total, by which slope changes.
SupplyWith(changes, p, t) ==
    AtLeastZero(p.bias - p.slope * (t - p.ts) - SumFunction([w \in WeeksIn(p.ts, t) |-> changes[w] * (t - w)]))

TotalWith(changes, history, t) ==
    LET e == EpochAt(history, t) IN IF e = 0 THEN 0 ELSE SupplyWith(changes, history[e], t)

LEMMA TotalIsWith ==
    /\ \A history, t : TotalSupplyIn(history, t) = TotalWith(slope_changes, history, t)
    /\ \A t : TotalSupply(t) = TotalWith(slope_changes, point_history, t)
BY DEF TotalSupply, TotalSupplyIn, TotalWith, SupplyAt, SupplyWith
-----------------------------------------------------------------------------
(* What locks are worth *)

Rate(l) == l.amount \div MaxTime
PowerOf(l, t) == IF l.end > t THEN Rate(l) * (l.end - t) ELSE 0
SlopeOf(l, t) == IF l.end > t THEN Rate(l) ELSE 0
EndingAt(l, t) == IF l.end = t THEN Rate(l) ELSE 0

EscrowLock == [amount : Nat, end : {t \in Times : t % Week = 0}]
EscrowLocks == [Users -> EscrowLock]

LockPowers(locks, t) == [u \in Users |-> PowerOf(locks[u], t)]
LockSlopes(locks, t) == [u \in Users |-> SlopeOf(locks[u], t)]
LockEndings(locks, t) == [u \in Users |-> EndingAt(locks[u], t)]

LEMMA LockTypes ==
    ASSUME NEW l \in EscrowLock, NEW t \in Int
    PROVE  /\ Rate(l) \in Nat /\ PowerOf(l, t) \in Nat /\ SlopeOf(l, t) \in Nat /\ EndingAt(l, t) \in Nat
           /\ l.end \in Nat /\ l.end \in Times /\ l.end % Week = 0
<1>1. l.end \in Nat /\ l.end \in Times /\ l.end % Week = 0 /\ l.amount \in Nat
  BY WeekIsPositive DEF EscrowLock, Times
<1>2. Rate(l) \in Nat
  BY <1>1, WeekIsPositive, Quotients DEF Rate
<1>3. ASSUME l.end > t PROVE Rate(l) * (l.end - t) \in Nat
  <2>1. l.end - t \in Nat
    BY <1>1, <1>3
  <2>2. \A a, b \in Nat : a * b \in Nat
    OBVIOUS
  <2> QED  BY <1>2, <2>1, <2>2
<1> QED  BY <1>1, <1>2, <1>3 DEF PowerOf, SlopeOf, EndingAt

LEMMA LockSumTypes ==
    ASSUME NEW locks \in EscrowLocks, NEW t \in Int
    PROVE  /\ LockPowers(locks, t) \in [Users -> Nat] /\ LockSlopes(locks, t) \in [Users -> Nat]
           /\ LockEndings(locks, t) \in [Users -> Nat]
           /\ SumFunction(LockPowers(locks, t)) \in Nat
           /\ SumFunction(LockSlopes(locks, t)) \in Nat
           /\ SumFunction(LockEndings(locks, t)) \in Nat
<1>1. \A u \in Users : locks[u] \in EscrowLock
  BY DEF EscrowLocks
<1>2. LockPowers(locks, t) \in [Users -> Nat] /\ LockSlopes(locks, t) \in [Users -> Nat] /\ LockEndings(locks, t) \in [Users -> Nat]
  BY <1>1, LockTypes DEF LockPowers, LockSlopes, LockEndings
<1> QED  BY <1>2, WeekIsPositive, SumOfNats

\* As long as no lock ends, power decays by the slope.
LEMMA PowersDecay ==
    ASSUME NEW locks \in EscrowLocks, NEW s \in Nat, NEW t \in Nat, s <= t,
           \A w \in Nat : w % Week = 0 /\ s < w => t <= w
    PROVE  SumFunction(LockPowers(locks, t)) = SumFunction(LockPowers(locks, s)) - SumFunction(LockSlopes(locks, s)) * (t - s)
<1> DEFINE a == LockPowers(locks, t)
           b == LockPowers(locks, s)
           c == LockSlopes(locks, s)
           n == s - t
<1>1. ASSUME NEW u \in Users PROVE a[u] = b[u] + n * c[u]
  <2> DEFINE l == locks[u]
  <2>1. l \in EscrowLock
    BY DEF EscrowLocks
  <2>2. l.end \in Nat /\ l.end % Week = 0 /\ Rate(l) \in Nat
    BY <2>1, LockTypes
  <2>3. a[u] = PowerOf(l, t) /\ b[u] = PowerOf(l, s) /\ c[u] = SlopeOf(l, s)
    BY DEF LockPowers, LockSlopes
  <2> HIDE DEF l, a, b, c
  <2>4. CASE l.end > s
    <3>1. t <= l.end
      BY <2>2, <2>4
    <3>2. PowerOf(l, t) = Rate(l) * (l.end - t)
      BY <2>2, <3>1 DEF PowerOf
    <3>3. PowerOf(l, s) = Rate(l) * (l.end - s) /\ SlopeOf(l, s) = Rate(l)
      BY <2>4 DEF PowerOf, SlopeOf
    <3>4. \A r, e \in Nat : r * (e - t) = r * (e - s) + (s - t) * r
      OBVIOUS
    <3> QED  BY <2>2, <2>3, <3>2, <3>3, <3>4
  <2>5. CASE ~(l.end > s)
    <3>1. ~(l.end > t)
      BY <2>2, <2>5
    <3> QED  BY <2>3, <2>5, <3>1 DEF PowerOf, SlopeOf
  <2> QED  BY <2>4, <2>5
<1>2. /\ a \in [Users -> Int] /\ b \in [Users -> Int] /\ c \in [Users -> Int] /\ n \in Int
      /\ SumFunction(a) \in Int /\ SumFunction(b) \in Int /\ SumFunction(c) \in Int
  BY LockSumTypes
<1> HIDE DEF a, b, c
<1>3. SumFunction(a) = SumFunction(b) + n * SumFunction(c)
  <2> HIDE DEF n
  <2>1. \A u \in Users : a[u] = b[u] + n * c[u]
    BY <1>1
  <2> QED  BY <1>2, <2>1, WeekIsPositive, SumLinear
<1> DEFINE A == SumFunction(a)
           B == SumFunction(b)
           C == SumFunction(c)
<1>4. \A x, y \in Int : x + (s - t) * y = x - y * (t - s)
  OBVIOUS
<1>5. A = B - C * (t - s)
  <2>1. A = B + (s - t) * C /\ B \in Int /\ C \in Int
    BY <1>2, <1>3
  <2> HIDE DEF A, B, C
  <2> QED  BY <1>4, <2>1
<1> QED  BY <1>5 DEF a, b, c

\* The slope of the sum falls by that of the locks that end.
LEMMA SlopesFall ==
    ASSUME NEW locks \in EscrowLocks, NEW s \in Nat, NEW t \in Nat, s < t,
           \A w \in Nat : w % Week = 0 /\ s < w => t <= w
    PROVE  /\ t % Week = 0 => SumFunction(LockSlopes(locks, t)) = SumFunction(LockSlopes(locks, s)) - SumFunction(LockEndings(locks, t))
           /\ t % Week # 0 => SumFunction(LockSlopes(locks, t)) = SumFunction(LockSlopes(locks, s))
<1> DEFINE a == LockSlopes(locks, t)
           b == LockSlopes(locks, s)
           c == LockEndings(locks, t)
<1>1. ASSUME NEW u \in Users
      PROVE  a[u] = b[u] + (-1) * c[u] /\ (t % Week # 0 => a[u] = b[u])
  <2> DEFINE l == locks[u]
  <2>1. l \in EscrowLock
    BY DEF EscrowLocks
  <2>2. l.end \in Nat /\ l.end % Week = 0 /\ Rate(l) \in Nat
    BY <2>1, LockTypes
  <2>3. a[u] = SlopeOf(l, t) /\ b[u] = SlopeOf(l, s) /\ c[u] = EndingAt(l, t)
    BY DEF LockSlopes, LockEndings
  <2>4. l.end > s => l.end >= t
    BY <2>2
  <2> HIDE DEF l, a, b, c
  <2> QED  BY <2>2, <2>3, <2>4 DEF SlopeOf, EndingAt
<1>2. /\ a \in [Users -> Int] /\ b \in [Users -> Int] /\ c \in [Users -> Int]
      /\ SumFunction(a) \in Int /\ SumFunction(b) \in Int /\ SumFunction(c) \in Int
  BY LockSumTypes
<1> HIDE DEF a, b, c
<1>3. SumFunction(a) = SumFunction(b) + (-1) * SumFunction(c)
  BY <1>1, <1>2, WeekIsPositive, SumLinear
<1>4. ASSUME t % Week # 0 PROVE SumFunction(a) = SumFunction(b)
  <2>1. a = b
    BY <1>1, <1>2, <1>4
  <2> QED  BY <2>1
<1>5. SumFunction(a) = SumFunction(b) - SumFunction(c)
  BY <1>2, <1>3
<1> QED  BY <1>4, <1>5 DEF a, b, c

\* The total's point at its time, when these are the locks.
IsSumOf(p, locks) ==
    /\ p \in EscrowPoint
    /\ p.bias = SumFunction(LockPowers(locks, p.ts))
    /\ p.slope = SumFunction(LockSlopes(locks, p.ts))

\* What ends after a time is scheduled.
Schedules(changes, locks, from) ==
    \A w \in Times : w > from => changes[w] = 0 - SumFunction(LockEndings(locks, w))

LEMMA TimesAreNats == Times \subseteq Nat /\ \A t \in Times, s \in Nat : s <= t => s \in Times
BY WeekIsPositive DEF Times

\* A point decays to the end of its week as the locks do.
LEMMA PointDecays ==
    ASSUME NEW locks \in EscrowLocks, NEW p, IsSumOf(p, locks), Schedules(slope_changes, locks, p.ts),
           NEW t \in Times, p.ts <= t, \A w \in Nat : w % Week = 0 /\ p.ts < w => t <= w
    PROVE  IsSumOf(DecayedTo(p, t), locks) /\ DecayedTo(p, t).ts = t
<1> DEFINE d == DecayedTo(p, t)
           W == WeeksIn(p.ts, t)
<1>0. t \in Nat /\ p.ts \in Nat /\ p.bias \in Nat /\ p.slope \in Nat
  BY TimesAreNats DEF IsSumOf, EscrowPoint
<1>1. d = [bias |-> AtLeastZero(p.bias - p.slope * (t - p.ts)),
           slope |-> AtLeastZero(p.slope + IF t \in W THEN slope_changes[t] ELSE 0), ts |-> t]
  BY DEF DecayedTo
<1>2. t \in W <=> p.ts < t /\ t % Week = 0
  BY <1>0 DEF WeeksIn
<1>3. /\ SumFunction(LockPowers(locks, t)) \in Nat /\ SumFunction(LockSlopes(locks, t)) \in Nat
      /\ SumFunction(LockEndings(locks, t)) \in Nat
  BY <1>0, LockSumTypes
<1>4. p.bias - p.slope * (t - p.ts) = SumFunction(LockPowers(locks, t))
  BY <1>0, PowersDecay DEF IsSumOf
<1>5. (p.slope + IF t \in W THEN slope_changes[t] ELSE 0) = SumFunction(LockSlopes(locks, t))
  <2>1. CASE p.ts = t
    BY <1>0, <1>2, <2>1 DEF IsSumOf
  <2>2. CASE p.ts < t /\ t % Week = 0
    <3>1. slope_changes[t] = 0 - SumFunction(LockEndings(locks, t))
      BY <2>2 DEF Schedules
    <3>2. SumFunction(LockSlopes(locks, t)) = p.slope - SumFunction(LockEndings(locks, t))
      BY <1>0, <2>2, SlopesFall DEF IsSumOf
    <3> QED  BY <1>0, <1>2, <1>3, <2>2, <3>1, <3>2
  <2>3. CASE p.ts < t /\ t % Week # 0
    <3>1. SumFunction(LockSlopes(locks, t)) = p.slope
      BY <1>0, <2>3, SlopesFall DEF IsSumOf
    <3> QED  BY <1>0, <1>2, <1>3, <2>3, <3>1
  <2> QED  BY <1>0, <2>1, <2>2, <2>3
<1> HIDE DEF d, W
<1>6. d.bias = SumFunction(LockPowers(locks, t)) /\ d.slope = SumFunction(LockSlopes(locks, t)) /\ d.ts = t
  BY <1>1, <1>3, <1>4, <1>5 DEF AtLeastZero
<1>7. d \in EscrowPoint
  <2>1. d = [bias |-> SumFunction(LockPowers(locks, t)), slope |-> SumFunction(LockSlopes(locks, t)), ts |-> t]
    BY <1>1, <1>6
  <2> QED  BY <1>0, <1>3, <2>1 DEF EscrowPoint
<1> QED  BY <1>6, <1>7 DEF IsSumOf, d
\* The sum of sums.
LEMMA SumAdds ==
    ASSUME NEW S, IsFiniteSet(S), NEW a \in [S -> Int], NEW b \in [S -> Int], NEW c \in [S -> Int],
           \A x \in S : a[x] = b[x] + c[x]
    PROVE  SumFunction(a) = SumFunction(b) + SumFunction(c)
<1> DEFINE one == 1
<1>1. one \in Int /\ \A x \in S : a[x] = b[x] + one * c[x]
  OBVIOUS
<1>2. SumFunction(c) \in Int
  BY SumType
<1> HIDE DEF one
<1>3. SumFunction(a) = SumFunction(b) + one * SumFunction(c)
  BY <1>1, SumLinear
<1> QED  BY <1>2, <1>3 DEF one

\* The same values by rows and by columns, and their sums.
IsTable(R, S, row, col) ==
    /\ row \in [R -> [S -> Int]] /\ col \in [S -> [R -> Int]]
    /\ \A r \in R, s \in S : row[r][s] = col[s][r]
AreSums(a, R, row) == a = [r \in R |-> SumFunction(row[r])]

LEMMA SumExchange ==
    ASSUME NEW R, IsFiniteSet(R), NEW S, IsFiniteSet(S), NEW row, NEW col, IsTable(R, S, row, col),
           NEW a, AreSums(a, R, row), NEW b, AreSums(b, S, col)
    PROVE  SumFunction(a) = SumFunction(b) /\ a \in [R -> Int] /\ b \in [S -> Int]
<1> DEFINE A(T) == SumFunctionOnSet(a, T)
           C(T) == [s \in S |-> SumFunctionOnSet(col[s], T)]
           Right(T) == A(T) = SumFunction(C(T))
           P == {T \in SUBSET R : Right(T)}
<1>1. \A r \in R : row[r] \in [S -> Int] /\ a[r] = SumFunction(row[r])
  BY DEF IsTable, AreSums
<1>2. \A s \in S : col[s] \in [R -> Int] /\ b[s] = SumFunction(col[s]) /\ \A r \in R : col[s][r] = row[r][s]
  BY DEF IsTable, AreSums
<1>3. a \in [R -> Int] /\ b \in [S -> Int]
  <2>1. \A r \in R : SumFunction(row[r]) \in Int
    BY <1>1, SumType
  <2>2. \A s \in S : SumFunction(col[s]) \in Int
    BY <1>2, SumType
  <2> QED  BY <2>1, <2>2 DEF AreSums
<1>4. ASSUME NEW T \in SUBSET R PROVE IsFiniteSet(T) /\ C(T) \in [S -> Int]
  <2>1. IsFiniteSet(T)
    BY FS_Subset
  <2>2. ASSUME NEW s \in S PROVE SumFunctionOnSet(col[s], T) \in Int
    <3>1. \A r \in T : col[s][r] \in Int
      BY <1>2
    <3> QED  BY <2>1, <3>1, SumOn
  <2> QED  BY <2>1, <2>2
<1>5. ASSUME NEW T \in SUBSET R, \A x \in T : T \ {x} \in P PROVE T \in P
  <2>1. CASE T = {}
    <3>0. IsFiniteSet({})
      BY FS_EmptySet
    <3>1. A(T) = 0
      <4>1. \A x \in {} : a[x] \in Int
        OBVIOUS
      <4> QED  BY <2>1, <3>0, <4>1, SumOn
    <3>2. \A s \in S : C(T)[s] = 0
      <4> SUFFICES ASSUME NEW s \in S PROVE SumFunctionOnSet(col[s], {}) = 0
        BY <2>1
      <4>1. \A x \in {} : col[s][x] \in Int
        OBVIOUS
      <4> QED  BY <3>0, <4>1, SumOn
    <3>3. SumFunction(C(T)) = 0
      <4> HIDE DEF C
      <4> QED  BY <1>4, <3>2, SumOfNone
    <3> QED  BY <3>1, <3>3
  <2>2. CASE T # {}
    <3>1. PICK x \in T : TRUE
      BY <2>2
    <3> DEFINE V == T \ {x}
               f == C(T)
               g == C(V)
               h == row[x]
    <3>2. V \in SUBSET R /\ Right(V) /\ x \in R
      BY <1>5
    <3>3. A(T) = a[x] + A(V)
      <4>1. \A r \in T : a[r] \in Int
        BY <1>3
      <4> QED  BY <1>4, <4>1, SumOn
    <3>4. f \in [S -> Int] /\ g \in [S -> Int] /\ h \in [S -> Int]
      BY <1>1, <1>4, <3>2
    <3>5. \A s \in S : f[s] = g[s] + h[s]
      <4> SUFFICES ASSUME NEW s \in S PROVE f[s] = g[s] + h[s]
        OBVIOUS
      <4>1. \A r \in T : col[s][r] \in Int
        BY <1>2
      <4>2. SumFunctionOnSet(col[s], T) = col[s][x] + SumFunctionOnSet(col[s], V)
        BY <1>4, <4>1, SumOn
      <4>3. f[s] = SumFunctionOnSet(col[s], T) /\ g[s] = SumFunctionOnSet(col[s], V) /\ col[s][x] = h[s]
        BY <1>2, <3>2
      <4> HIDE DEF f, g, h
      <4>4. g[s] \in Int /\ h[s] \in Int
        BY <3>4
      <4> QED  BY <4>2, <4>3, <4>4
    <3>6. SumFunction(f) = SumFunction(g) + SumFunction(h)
      <4> HIDE DEF f, g, h
      <4> QED  BY <3>4, <3>5, SumAdds
    <3>7. SumFunction(g) \in Int /\ SumFunction(h) = a[x] /\ a[x] \in Int
      <4>1. SumFunction(h) = a[x] /\ a[x] \in Int
        BY <1>1, <1>3, <3>2
      <4> HIDE DEF g, h
      <4> QED  BY <3>4, <4>1, SumType
    <3>8. A(V) = SumFunction(g)
      BY <3>2
    <3> HIDE DEF A, V, f, g, h
    <3>9. A(T) = SumFunction(f)
      BY <3>3, <3>6, <3>7, <3>8
    <3> QED  BY <3>9 DEF f
  <2> QED  BY <2>1, <2>2
<1>6. SUBSET R \subseteq P
  <2> HIDE DEF P
  <2>1. \A T \in SUBSET R : (\A x \in T : T \ {x} \in P) => T \in P
    BY <1>5
  <2> QED  BY <2>1, SubsetInduction
<1>7. A(R) = SumFunction(C(R))
  BY <1>6
<1>8. A(R) = SumFunction(a)
  <2>1. DOMAIN a = R
    BY DEF AreSums
  <2> QED  BY <2>1 DEF SumFunction
<1>9. C(R) = b
  <2>1. \A s \in S : SumFunctionOnSet(col[s], R) = b[s]
    BY <1>2 DEF SumFunction
  <2> QED  BY <2>1, <1>3
<1> QED  BY <1>3, <1>7, <1>8, <1>9

\* A sum of which only one value counts.
LEMMA SumOfOne ==
    ASSUME NEW S, IsFiniteSet(S), NEW f \in [S -> Int], NEW x \in S, \A y \in S \ {x} : f[y] = 0
    PROVE  SumFunction(f) = f[x]
<1> DEFINE z == [y \in S |-> 0]
<1>1. z \in [S -> Int] /\ \A y \in S : z[y] = 0
  OBVIOUS
<1> HIDE DEF z
<1>2. SumFunction(z) = 0
  BY <1>1, SumOfNone
<1>3. SumFunction(f) = SumFunction(z) + f[x] - z[x]
  BY <1>1, SumOneChanged
<1> QED  BY <1>1, <1>2, <1>3

LEMMA WeeksInAre ==
    ASSUME NEW s \in Nat, NEW t \in Nat
    PROVE  /\ IsFiniteSet(WeeksIn(s, t)) /\ WeeksIn(s, t) \subseteq Nat
           /\ \A w \in Nat : w \in WeeksIn(s, t) <=> s < w /\ w <= t /\ w % Week = 0
<1>1. IsFiniteSet((s + 1)..t)
  BY FS_Interval
<1>2. WeeksIn(s, t) \subseteq (s + 1)..t
  BY DEF WeeksIn
<1>3. IsFiniteSet(WeeksIn(s, t))
  BY <1>1, <1>2, FS_Subset
<1> QED  BY <1>3 DEF WeeksIn

\* From a point, the total is at each time what the locks are worth, with those that end until then.
LEMMA SupplyIsPower ==
    ASSUME NEW locks \in EscrowLocks, NEW p, IsSumOf(p, locks), NEW changes, Schedules(changes, locks, p.ts),
           NEW t \in Times, p.ts <= t
    PROVE  SupplyWith(changes, p, t) = SumFunction(LockPowers(locks, t))
<1> DEFINE s == p.ts
           W == WeeksIn(s, t)
           f == [w \in W |-> [u \in Users |-> EndingAt(locks[u], w) * (t - w)]]
           back == [u \in Users |-> SumFunction([w \in W |-> f[w][u]])]
           ended == [w \in W |-> SumFunction([u \in Users |-> f[w][u]])]
           x == [w \in W |-> changes[w] * (t - w)]
           a == LockPowers(locks, t)
           b == LockPowers(locks, s)
           c == LockSlopes(locks, s)
<1>0. t \in Nat /\ s \in Nat /\ p.bias \in Nat /\ p.slope \in Nat
  BY TimesAreNats DEF IsSumOf, EscrowPoint
<1>1. /\ IsFiniteSet(W) /\ \A w \in W : w \in Nat /\ w \in Times /\ w > s /\ w <= t /\ w % Week = 0
      /\ \A w \in Nat : w > s /\ w <= t /\ w % Week = 0 => w \in W
  BY <1>0, WeeksInAre, TimesAreNats
<1>2. \A u \in Users : locks[u] \in EscrowLock /\ locks[u].end \in Nat /\ locks[u].end % Week = 0 /\ Rate(locks[u]) \in Nat
  BY LockTypes, <1>0 DEF EscrowLocks
<1> HIDE DEF W
<1>3. \A w \in W, u \in Users : f[w][u] = EndingAt(locks[u], w) * (t - w) /\ f[w][u] \in Int
  <2> SUFFICES ASSUME NEW w \in W, NEW u \in Users PROVE EndingAt(locks[u], w) * (t - w) \in Int
    OBVIOUS
  <2>1. EndingAt(locks[u], w) \in Nat /\ t - w \in Int
    BY <1>0, <1>1, <1>2, LockTypes
  <2>2. \A m, n \in Int : m * n \in Int
    OBVIOUS
  <2> QED  BY <2>1, <2>2
<1>4. ASSUME NEW u \in Users
      PROVE  /\ back[u] = IF s < locks[u].end /\ locks[u].end <= t THEN Rate(locks[u]) * (t - locks[u].end) ELSE 0
             /\ back[u] \in Int
  <2> DEFINE g == [w \in W |-> f[w][u]]
             l == locks[u]
  <2>1. g \in [W -> Int] /\ \A w \in W : g[w] = EndingAt(l, w) * (t - w)
    BY <1>3
  <2>2. back[u] = SumFunction(g) /\ l \in EscrowLock /\ l.end \in Nat /\ l.end % Week = 0 /\ Rate(l) \in Nat
    BY <1>2
  <2> HIDE DEF g, l, f, back
  <2>3. \A w \in W : w # l.end => g[w] = 0
    <3> SUFFICES ASSUME NEW w \in W, w # l.end PROVE g[w] = 0
      OBVIOUS
    <3>1. EndingAt(l, w) = 0
      BY DEF EndingAt
    <3> QED  BY <2>1, <3>1, <1>0, <1>1
  <2>4. CASE l.end \in W
    <3>1. SumFunction(g) = g[l.end]
      BY <1>1, <2>1, <2>3, <2>4, SumOfOne
    <3>2. EndingAt(l, l.end) = Rate(l)
      BY DEF EndingAt
    <3>3. g[l.end] = Rate(l) * (t - l.end) /\ g[l.end] \in Int
      BY <2>1, <2>4, <3>2
    <3>4. s < l.end /\ l.end <= t
      BY <1>1, <2>4
    <3> QED  BY <2>2, <3>1, <3>3, <3>4 DEF l
  <2>5. CASE l.end \notin W
    <3>1. SumFunction(g) = 0
      BY <1>1, <2>1, <2>3, <2>5, SumOfNone
    <3>2. ~(s < l.end /\ l.end <= t)
      BY <1>0, <1>1, <2>2, <2>5
    <3> QED  BY <2>2, <3>1, <3>2 DEF l
  <2> QED  BY <2>4, <2>5
<1>5. ASSUME NEW w \in W PROVE ended[w] = (t - w) * SumFunction(LockEndings(locks, w)) /\ ended[w] \in Int
  <2> DEFINE g == [u \in Users |-> f[w][u]]
             e == LockEndings(locks, w)
             z == [u \in Users |-> 0]
             n == t - w
  <2>1. n \in Int /\ g \in [Users -> Int] /\ e \in [Users -> Int] /\ z \in [Users -> Int] /\ SumFunction(e) \in Int
    <3>1. n \in Int /\ w \in Int /\ z \in [Users -> Int]
      BY <1>0, <1>1
    <3>2. e \in [Users -> Nat] /\ SumFunction(e) \in Nat
      BY <3>1, LockSumTypes
    <3>3. g \in [Users -> Int]
      BY <1>3
    <3> HIDE DEF e, g, z, n
    <3> QED  BY <3>1, <3>2, <3>3
  <2>2. \A u \in Users : z[u] = 0 /\ e[u] = EndingAt(locks[u], w) /\ e[u] \in Int /\ g[u] = EndingAt(locks[u], w) * n
    BY <1>3, <2>1 DEF LockEndings
  <2>3. ended[w] = SumFunction(g)
    OBVIOUS
  <2> HIDE DEF g, e, z, n, f, ended
  <2>4. \A u \in Users : g[u] = z[u] + n * e[u]
    BY <2>1, <2>2
  <2>5. SumFunction(g) = SumFunction(z) + n * SumFunction(e)
    BY <2>1, <2>4, WeekIsPositive, SumLinear
  <2>6. SumFunction(z) = 0
    BY <2>1, <2>2, WeekIsPositive, SumOfNone
  <2>7. SumFunction(g) = n * SumFunction(e) /\ n * SumFunction(e) \in Int
    BY <2>1, <2>5, <2>6
  <2> QED  BY <2>3, <2>7 DEF n, e
<1>6. SumFunction(ended) = SumFunction(back)
  <2> HIDE DEF f
  <2>1. IsFiniteSet(W) /\ IsFiniteSet(Users) /\ \A r \in W, v \in Users : f[r][v] \in Int
    BY <1>1, <1>3, WeekIsPositive
  <2> DEFINE row == [w \in W |-> [u \in Users |-> f[w][u]]]
             col == [u \in Users |-> [w \in W |-> f[w][u]]]
  <2>2. IsTable(W, Users, row, col)
    BY <2>1 DEF IsTable
  <2>3. AreSums(ended, W, row) /\ AreSums(back, Users, col)
    BY DEF AreSums
  <2> HIDE DEF row, col, ended, back
  <2> QED  BY <2>1, <2>2, <2>3, SumExchange
<1>7. SumFunction(x) = 0 - SumFunction(ended)
  <2>1. \A w \in W : x[w] = (0 - SumFunction(LockEndings(locks, w))) * (t - w) /\ SumFunction(LockEndings(locks, w)) \in Int
    BY <1>1, LockSumTypes DEF Schedules
  <2> DEFINE z == [w \in W |-> 0]
  <2>2. \A w \in W : x[w] = z[w] + (-1) * ended[w] /\ x[w] \in Int /\ z[w] = 0
    <3> SUFFICES ASSUME NEW w \in W PROVE x[w] = z[w] + (-1) * ended[w] /\ x[w] \in Int /\ z[w] = 0
      OBVIOUS
    <3> DEFINE E == SumFunction(LockEndings(locks, w))
               n == t - w
    <3>1. E \in Int /\ n \in Int /\ x[w] = (0 - E) * n /\ ended[w] = n * E /\ z[w] = 0
      BY <1>0, <1>1, <1>5, <2>1
    <3> HIDE DEF E, n, x, ended, z
    <3>2. \A i, j \in Int : (0 - i) * j = (-1) * (j * i) /\ (-1) * (j * i) \in Int
      OBVIOUS
    <3>3. (0 - E) * n = (-1) * (n * E) /\ (-1) * (n * E) \in Int
      BY <3>1, <3>2
    <3> QED  BY <3>1, <3>3
  <2>3. x \in [W -> Int] /\ z \in [W -> Int] /\ ended \in [W -> Int]
    <3>1. \A w \in W : changes[w] * (t - w) \in Int
      BY <2>2
    <3>2. \A w \in W : SumFunction([u \in Users |-> f[w][u]]) \in Int
      BY <1>5
    <3> HIDE DEF f
    <3> QED  BY <3>1, <3>2
  <2> HIDE DEF x, z, ended
  <2>4. SumFunction(x) = SumFunction(z) + (-1) * SumFunction(ended)
    BY <1>1, <2>2, <2>3, SumLinear
  <2>5. SumFunction(z) = 0 /\ SumFunction(ended) \in Int
    BY <1>1, <2>2, <2>3, SumOfNone, SumType
  <2> QED  BY <2>4, <2>5
<1>8. SumFunction(a) = (SumFunction(b) - SumFunction(c) * (t - s)) + SumFunction(back)
  <2> DEFINE d == [u \in Users |-> b[u] + (s - t) * c[u]]
  <2>1. /\ a \in [Users -> Int] /\ b \in [Users -> Int] /\ c \in [Users -> Int]
        /\ SumFunction(b) \in Int /\ SumFunction(c) \in Int
    <3>1. /\ a \in [Users -> Nat] /\ b \in [Users -> Nat] /\ c \in [Users -> Nat]
          /\ SumFunction(b) \in Nat /\ SumFunction(c) \in Nat
      <4>1. \A i \in Int : /\ LockPowers(locks, i) \in [Users -> Nat] /\ LockSlopes(locks, i) \in [Users -> Nat]
                            /\ SumFunction(LockPowers(locks, i)) \in Nat /\ SumFunction(LockSlopes(locks, i)) \in Nat
        BY LockSumTypes
      <4>2. s \in Int /\ t \in Int
        BY <1>0
      <4> HIDE DEF s
      <4> QED  BY <4>1, <4>2
    <3> HIDE DEF a, b, c
    <3> QED  BY <3>1
  <2>2. back \in [Users -> Int]
    <3>1. \A u \in Users : SumFunction([w \in W |-> f[w][u]]) \in Int
      BY <1>4
    <3> HIDE DEF f
    <3> QED  BY <3>1
  <2>3. \A u \in Users : d[u] \in Int /\ d[u] = b[u] + (s - t) * c[u]
    <3>1. s - t \in Int
      BY <1>0
    <3>2. \A u \in Users : b[u] \in Int /\ c[u] \in Int
      BY <2>1
    <3> HIDE DEF b, c, s
    <3>3. \A m, n, q \in Int : m + n * q \in Int
      OBVIOUS
    <3> QED  BY <3>1, <3>2, <3>3
  <2>4. d \in [Users -> Int]
    BY <2>3
  <2>5. ASSUME NEW u \in Users PROVE a[u] = d[u] + 1 * back[u]
    <3> DEFINE l == locks[u]
    <3>1. l \in EscrowLock /\ l.end \in Nat /\ Rate(l) \in Nat
      BY <1>2
    <3>2. a[u] = PowerOf(l, t) /\ d[u] = PowerOf(l, s) + (s - t) * SlopeOf(l, s)
      BY <2>3 DEF LockPowers, LockSlopes
    <3>3. back[u] = IF s < l.end /\ l.end <= t THEN Rate(l) * (t - l.end) ELSE 0
      BY <1>4
    <3>4. PowerOf(l, t) = (PowerOf(l, s) + (s - t) * SlopeOf(l, s)) + back[u]
      <4> DEFINE e == l.end
                 r == Rate(l)
      <4> HIDE DEF l, a, d, back
      <4>1. e \in Nat /\ r \in Nat
        BY <3>1
      <4>2. PowerOf(l, t) = (IF e > t THEN r * (e - t) ELSE 0) /\ PowerOf(l, s) = (IF e > s THEN r * (e - s) ELSE 0)
            /\ SlopeOf(l, s) = (IF e > s THEN r ELSE 0)
        BY DEF PowerOf, SlopeOf
      <4>3. back[u] = IF s < e /\ e <= t THEN r * (t - e) ELSE 0
        BY <3>3
      <4> HIDE DEF e, r, s
      <4>4. r * (e - t) = r * (e - s) + (s - t) * r /\ 0 = (r * (e - s) + (s - t) * r) + r * (t - e)
        BY <1>0, <4>1
      <4>5. CASE e > t
        <5>1. e > s /\ ~(e <= t)
          BY <1>0, <4>1, <4>5 DEF s
        <5>2. PowerOf(l, t) = r * (e - t) /\ PowerOf(l, s) = r * (e - s) /\ SlopeOf(l, s) = r /\ back[u] = 0
          BY <4>2, <4>3, <4>5, <5>1
        <5>3. r * (e - t) \in Int
          BY <1>0, <4>1
        <5> QED  BY <4>4, <5>2, <5>3
      <4>6. CASE ~(e > t) /\ e > s
        <5>1. e <= t
          BY <1>0, <4>1, <4>6
        <5>2. PowerOf(l, t) = 0 /\ PowerOf(l, s) = r * (e - s) /\ SlopeOf(l, s) = r /\ back[u] = r * (t - e)
          BY <4>2, <4>3, <4>6, <5>1
        <5> QED  BY <4>4, <5>2
      <4>7. CASE ~(e > t) /\ ~(e > s)
        <5>1. PowerOf(l, t) = 0 /\ PowerOf(l, s) = 0 /\ SlopeOf(l, s) = 0 /\ back[u] = 0
          BY <1>0, <4>1, <4>2, <4>3, <4>7
        <5> QED  BY <1>0, <5>1
      <4>8. e > t => e > s
        BY <1>0, <4>1 DEF s
      <4> QED  BY <4>5, <4>6, <4>7, <4>8
    <3> HIDE DEF a, d, back, l
    <3> QED  BY <3>2, <3>4, <2>1, <2>2
  <2> HIDE DEF a, b, c, d, back
  <2>6. SumFunction(a) = SumFunction(d) + 1 * SumFunction(back)
    BY <2>1, <2>2, <2>4, <2>5, WeekIsPositive, SumLinear
  <2>7. SumFunction(d) = SumFunction(b) + (s - t) * SumFunction(c)
    <3> DEFINE n == s - t
    <3>1. n \in Int /\ \A u \in Users : d[u] = b[u] + n * c[u]
      BY <1>0, <2>3
    <3> HIDE DEF n
    <3>2. SumFunction(d) = SumFunction(b) + n * SumFunction(c)
      BY <2>1, <2>4, <3>1, WeekIsPositive, SumLinear
    <3> QED  BY <3>2 DEF n
  <2>8. SumFunction(back) \in Int
    BY <2>2, WeekIsPositive, SumType
  <2> DEFINE B == SumFunction(b)
             C == SumFunction(c)
             D == SumFunction(back)
  <2>9. SumFunction(a) = (B + (s - t) * C) + 1 * D /\ B \in Int /\ C \in Int /\ D \in Int
    BY <2>1, <2>6, <2>7, <2>8
  <2> HIDE DEF B, C, D, s
  <2>10. \A i, j, k \in Int : (i + (s - t) * j) + 1 * k = (i - j * (t - s)) + k
    BY <1>0
  <2>11. SumFunction(a) = (B - C * (t - s)) + D
    BY <2>9, <2>10
  <2> QED  BY <2>11 DEF B, C, D
<1>9. p.bias = SumFunction(b) /\ p.slope = SumFunction(c)
  BY DEF IsSumOf
<1>10. SumFunction(a) \in Nat /\ SumFunction(back) \in Int
  <2>1. \A u \in Users : SumFunction([w \in W |-> f[w][u]]) \in Int
    BY <1>4
  <2>2. back \in [Users -> Int]
    <3> HIDE DEF f
    <3> QED  BY <2>1
  <2> HIDE DEF back
  <2>3. SumFunction(back) \in Int
    BY <2>2, WeekIsPositive, SumType
  <2> QED  BY <1>0, <2>3, LockSumTypes
<1>11. SupplyWith(changes, p, t) = AtLeastZero(p.bias - p.slope * (t - s) - SumFunction(x))
  BY DEF SupplyWith, W
<1> HIDE DEF a, b, c, x, back, ended, s
<1>12. p.bias - p.slope * (t - s) - SumFunction(x) = SumFunction(a)
  <2>1. \A i, j, k \in Int : i - j * (t - s) - (0 - k) = (i - j * (t - s)) + k
    BY <1>0
  <2>2. SumFunction(x) = 0 - SumFunction(back)
    BY <1>6, <1>7
  <2> QED  BY <1>0, <1>8, <1>9, <1>10, <2>1, <2>2
<1>13. AtLeastZero(SumFunction(a)) = SumFunction(a)
  BY <1>10 DEF AtLeastZero
<1> QED  BY <1>11, <1>12, <1>13 DEF a
-----------------------------------------------------------------------------
(* What is known of the VotingEscrow *)

NoLock == [amount |-> 0, end |-> 0]

\* The total's last point; before the first checkpoint, nothing.
LastTotal == Last0(point_history, [ZeroPoint EXCEPT !.ts = now])

\* A user's last point is that of the lock.
IsLastOf(points, lock) ==
    IF points = <<>> THEN lock = NoLock
    ELSE /\ points[Len(points)].bias = PowerOf(lock, points[Len(points)].ts)
         /\ points[Len(points)].slope = SlopeOf(lock, points[Len(points)].ts)

\* Points do not go back in time.
InOrder(points, until) ==
    /\ points \in Seq(EscrowPoint)
    /\ \A i \in 1..Len(points) : points[i].ts <= until
    /\ \A i, j \in 1..Len(points) : i <= j => points[i].ts <= points[j].ts

EscrowTypes ==
    /\ now \in 0..Horizon
    /\ locked \in EscrowLocks
    /\ slope_changes \in [Times -> Int]
    /\ point_history \in Seq(EscrowPoint)
    /\ \A u \in Users : InOrder(user_point_history[u], now)
    /\ user_point_history \in [Users -> Seq(EscrowPoint)]

UsersAreCurrent == \A u \in Users : IsLastOf(user_point_history[u], locked[u])

TotalIsCurrent ==
    /\ point_history = <<>> => \A u \in Users : user_point_history[u] = <<>>
    /\ IsSumOf(LastTotal, locked) /\ LastTotal.ts <= now
    /\ Schedules(slope_changes, locked, LastTotal.ts)

TotalsAgree == \A t \in Times : TotalSupply(t) = SumFunction([u \in Users |-> BalanceOf(u, t)])

EscrowIInv == EscrowTypes /\ UsersAreCurrent /\ TotalIsCurrent /\ TotalsAgree

-----------------------------------------------------------------------------
(* The points that checkpoints missed *)

LEMMA MaxOfTwo ==
    ASSUME NEW a \in Int, NEW b \in Int
    PROVE  Max({a, b}) = IF a >= b THEN a ELSE b
<1> DEFINE m == IF a >= b THEN a ELSE b
<1>1. m \in {a, b} /\ \A y \in {a, b} : m >= y
  OBVIOUS
<1>2. \A x \in {a, b} : (\A y \in {a, b} : x >= y) => x = m
  OBVIOUS
<1> QED  BY <1>1, <1>2 DEF Max

MissedTime(n) == Min({RoundDown(LastTotal.ts) + n * Week, now})
MissedCount == Max({1, (now - RoundDown(LastTotal.ts) + Week - 1) \div Week})

\* Weeks follow each other, and the last time is now.
LEMMA MissedTimes ==
    ASSUME now \in Nat, LastTotal.ts \in Nat, LastTotal.ts <= now
    PROVE  /\ MissedCount \in Nat /\ MissedCount >= 1 /\ MissedTime(MissedCount) = now
           /\ \A n \in Nat : MissedTime(n) \in Nat /\ MissedTime(n) <= now
           /\ LastTotal.ts <= MissedTime(1)
           /\ \A w \in Nat : w % Week = 0 /\ LastTotal.ts < w => MissedTime(1) <= w
           /\ \A n \in Nat : /\ MissedTime(n) <= MissedTime(n + 1)
                             /\ \A w \in Nat : w % Week = 0 /\ MissedTime(n) < w => MissedTime(n + 1) <= w
<1> DEFINE r == RoundDown(LastTotal.ts)
           x == now - r + Week - 1
           q == x \div Week
<1>0. /\ Week \in Nat \ {0} /\ r \in Nat /\ r % Week = 0 /\ r <= LastTotal.ts /\ LastTotal.ts < r + Week
      /\ \A w \in Nat : w % Week = 0 /\ w <= LastTotal.ts => w <= r
  BY WeekIsPositive, RoundDownIs
<1> HIDE DEF r
<1>1. \A n \in Nat : r + n * Week \in Nat /\ (r + n * Week) % Week = 0
  <2> SUFFICES ASSUME NEW n \in Nat PROVE r + n * Week \in Nat /\ (r + n * Week) % Week = 0
    OBVIOUS
  <2>1. PICK p \in Nat : r = p * Week
    BY <1>0, Multiples
  <2>2. r + n * Week = (p + n) * Week /\ p + n \in Nat /\ r + n * Week \in Nat
    BY <1>0, <2>1
  <2> QED  BY <2>2, Multiples
<1>2. ASSUME NEW n \in Nat PROVE MissedTime(n) = IF r + n * Week <= now THEN r + n * Week ELSE now
  <2> DEFINE y == r + n * Week
  <2>1. y \in Int /\ MissedTime(n) = Min({y, now})
    BY <1>1 DEF MissedTime, r
  <2> HIDE DEF y
  <2> QED  BY <2>1, MinOfTwo DEF y
<1>3. x \in Nat /\ q \in Nat /\ MissedCount = IF 1 >= q THEN 1 ELSE q
  <2>1. x \in Nat
    BY <1>0
  <2>2. q \in Nat
    <3> HIDE DEF x
    <3> QED  BY <1>0, <2>1, Quotients
  <2>3. MissedCount = Max({1, q})
    BY DEF MissedCount, r
  <2> HIDE DEF q
  <2> QED  BY <2>1, <2>2, <2>3, MaxOfTwo
<1>4. x < q * Week + Week
  <2>1. q \in Int /\ x % Week \in 0..(Week - 1) /\ x = q * Week + (x % Week)
    BY <1>0, <1>3
  <2> HIDE DEF q, x
  <2> QED  BY <1>0, <1>3, <2>1
<1>5. r + MissedCount * Week >= now
  <2>1. MissedCount * Week >= q * Week
    <3> HIDE DEF q
    <3> QED  BY <1>0, <1>3
  <2>2. q * Week \in Nat /\ MissedCount * Week \in Nat
    <3> HIDE DEF q
    <3> QED  BY <1>0, <1>3
  <2> HIDE DEF q
  <2> QED  BY <1>0, <1>4, <2>1, <2>2
<1>6. MissedCount \in Nat /\ MissedCount >= 1
  <2> HIDE DEF q
  <2> QED  BY <1>3
<1>7. MissedTime(MissedCount) = now
  <2>1. r + MissedCount * Week \in Nat
    BY <1>1, <1>6
  <2> QED  BY <1>2, <1>5, <1>6, <2>1
<1>8. \A n \in Nat : MissedTime(n) \in Nat /\ MissedTime(n) <= now
  BY <1>1, <1>2
<1>9. r + 1 * Week = r + Week /\ MissedTime(1) = IF r + Week <= now THEN r + Week ELSE now
  BY <1>0, <1>2
<1>10. LastTotal.ts <= MissedTime(1)
  BY <1>0, <1>9
<1>11. ASSUME NEW w \in Nat, w % Week = 0, LastTotal.ts < w PROVE MissedTime(1) <= w
  <2>1. r + Week <= w
    BY <1>0, <1>11, WeeksApart
  <2> QED  BY <1>0, <1>9, <2>1
<1>12. ASSUME NEW n \in Nat
       PROVE  /\ MissedTime(n) <= MissedTime(n + 1)
              /\ \A w \in Nat : w % Week = 0 /\ MissedTime(n) < w => MissedTime(n + 1) <= w
  <2> DEFINE y == r + n * Week
  <2>1. r + (n + 1) * Week = y + Week /\ y \in Nat /\ y % Week = 0 /\ n + 1 \in Nat
    BY <1>0, <1>1
  <2>2. /\ MissedTime(n) = IF y <= now THEN y ELSE now
        /\ MissedTime(n + 1) = IF y + Week <= now THEN y + Week ELSE now
    BY <1>2, <2>1
  <2> HIDE DEF y
  <2>3. ASSUME NEW w \in Nat, w % Week = 0, MissedTime(n) < w PROVE MissedTime(n + 1) <= w
    <3>1. CASE y < w
      <4>1. y + Week <= w
        BY <2>1, <2>3, <3>1, WeeksApart
      <4> QED  BY <1>0, <2>1, <2>2, <4>1
    <3>2. CASE ~(y < w)
      BY <1>0, <2>1, <2>2, <2>3, <3>2
    <3> QED  BY <3>1, <3>2
  <2> QED  BY <1>0, <2>1, <2>2, <2>3
<1> QED  BY <1>6, <1>7, <1>8, <1>10, <1>11, <1>12

LEMMA DecayedType ==
    ASSUME NEW p \in EscrowPoint, NEW t \in Times, slope_changes \in [Times -> Int]
    PROVE  DecayedTo(p, t) \in EscrowPoint
<1>1. t \in Nat /\ p.bias \in Nat /\ p.slope \in Nat /\ p.ts \in Nat /\ slope_changes[t] \in Int
  BY TimesAreNats DEF EscrowPoint
<1>2. p.bias - p.slope * (t - p.ts) \in Int
  BY <1>1
<1>3. (p.slope + IF t \in WeeksIn(p.ts, t) THEN slope_changes[t] ELSE 0) \in Int
  BY <1>1
<1>4. \A i \in Int : AtLeastZero(i) \in Nat
  BY DEF AtLeastZero
<1> QED  BY <1>1, <1>2, <1>3, <1>4 DEF DecayedTo, EscrowPoint

\* A function that is computed from nought on.
LEMMA RecursionFromZero ==
    ASSUME NEW E, NEW a \in E, NEW n \in Nat,
           NEW next, \A j \in 1..n, e \in E : next[j][e] \in E
    PROVE  \E f \in [0..n -> E] : Recurs(f, 0, n, a, next)
<1> DEFINE first == 0
<1>1. first \in Int /\ first + n = n /\ first + 1 = 1
  OBVIOUS
<1> HIDE DEF first
<1>2. \A j \in (first + 1)..(first + n), e \in E : next[j][e] \in E
  BY <1>1
<1>3. PICK f \in [first..(first + n) -> E] : Recurs(f, first, first + n, a, next)
  BY <1>1, <1>2, RecursionExists
<1>4. Recurs(f, first, n, a, next) /\ f \in [first..n -> E]
  BY <1>1, <1>3
<1> QED  BY <1>4 DEF first

\* Each of them is the sum of the locks at its time, the last one now.
LEMMA MissedPointsAre ==
    ASSUME EscrowTypes, TotalIsCurrent
    PROVE  /\ MissedPoints \in Seq(EscrowPoint) /\ Len(MissedPoints) >= 1
           /\ \A i \in 1..Len(MissedPoints) : /\ IsSumOf(MissedPoints[i], locked)
                                              /\ LastTotal.ts <= MissedPoints[i].ts
                                              /\ MissedPoints[i].ts <= now
           /\ MissedPoints[Len(MissedPoints)].ts = now
<1> DEFINE count == MissedCount
           next == [j \in 1..count |-> [e \in EscrowPoint |-> DecayedTo(e, MissedTime(j))]]
           point[n \in 0..count] == IF n = 0 THEN LastTotal ELSE DecayedTo(point[n - 1], MissedTime(n))
<1>0. /\ now \in Nat /\ now \in Times /\ LastTotal.ts \in Nat /\ LastTotal.ts <= now
      /\ LastTotal \in EscrowPoint /\ IsSumOf(LastTotal, locked)
      /\ Schedules(slope_changes, locked, LastTotal.ts) /\ slope_changes \in [Times -> Int] /\ locked \in EscrowLocks
  BY WeekIsPositive DEF EscrowTypes, TotalIsCurrent, Times, IsSumOf, EscrowPoint
<1>1. /\ count \in Nat /\ count >= 1 /\ MissedTime(count) = now
      /\ \A n \in Nat : MissedTime(n) \in Times /\ MissedTime(n) \in Nat /\ MissedTime(n) <= now
      /\ LastTotal.ts <= MissedTime(1)
      /\ \A w \in Nat : w % Week = 0 /\ LastTotal.ts < w => MissedTime(1) <= w
      /\ \A n \in Nat : /\ MissedTime(n) <= MissedTime(n + 1)
                        /\ \A w \in Nat : w % Week = 0 /\ MissedTime(n) < w => MissedTime(n + 1) <= w
  BY <1>0, MissedTimes, TimesAreNats
<1> HIDE DEF count
<1>2. \A j \in 1..count, e \in EscrowPoint : DecayedTo(e, MissedTime(j)) \in EscrowPoint
  BY <1>0, <1>1, DecayedType
<1>3. PICK f \in [0..count -> EscrowPoint] : f = [n \in 0..count |-> IF n = 0 THEN LastTotal ELSE DecayedTo(f[n - 1], MissedTime(n))]
  <2>2. \A j \in 1..count : \A e \in EscrowPoint : next[j][e] = DecayedTo(e, MissedTime(j))
    OBVIOUS
  <2>3. \A j \in 1..count, e \in EscrowPoint : next[j][e] \in EscrowPoint
    BY <1>2
  <2> HIDE DEF next
  <2>1. PICK f \in [0..count -> EscrowPoint] : Recurs(f, 0, count, LastTotal, next)
    BY <1>0, <1>1, <2>3, RecursionFromZero
  <2>4. f = [n \in 0..count |-> IF n = 0 THEN LastTotal ELSE next[n][f[n - 1]]]
    BY <2>1 DEF Recurs
  <2>5. ASSUME NEW n \in 0..count, n # 0 PROVE next[n][f[n - 1]] = DecayedTo(f[n - 1], MissedTime(n))
    <3>1. n \in 1..count /\ n - 1 \in 0..count
      BY <1>1, <2>5
    <3> QED  BY <2>2, <2>4, <3>1
  <2>6. f = [n \in 0..count |-> IF n = 0 THEN LastTotal ELSE DecayedTo(f[n - 1], MissedTime(n))]
    BY <2>4, <2>5
  <2> QED  BY <2>4, <2>6
<1>4. point = [n \in 0..count |-> IF n = 0 THEN LastTotal ELSE DecayedTo(point[n - 1], MissedTime(n))]
  <2>1. \E g : g = [n \in 0..count |-> IF n = 0 THEN LastTotal ELSE DecayedTo(g[n - 1], MissedTime(n))]
    BY <1>3
  <2> QED  BY <2>1
<1>5. MissedPoints = [n \in 1..count |-> point[n]]
  BY DEF MissedPoints, MissedTime, count, MissedCount, LastTotal
<1> HIDE DEF point
<1> DEFINE time(n) == IF n = 0 THEN LastTotal.ts ELSE MissedTime(n)
           Good == {n \in 0..count : IsSumOf(point[n], locked) /\ point[n].ts = time(n) /\ LastTotal.ts <= time(n)}
<1>6. 0 \in Good
  <2>1. 0 \in 0..count
    BY <1>1
  <2>2. point[0] = LastTotal
    BY <1>4, <2>1
  <2> QED  BY <1>0, <2>1, <2>2
<1>7. ASSUME NEW n \in 0..(count - 1), n \in Good PROVE n + 1 \in Good
  <2> DEFINE p == point[n]
             t == MissedTime(n + 1)
  <2>1. /\ n + 1 \in 0..count /\ n + 1 # 0 /\ (n + 1) - 1 = n /\ n \in Nat /\ n + 1 \in Nat
    BY <1>1
  <2>2. IsSumOf(p, locked) /\ p.ts = time(n) /\ LastTotal.ts <= time(n)
    BY <1>7
  <2>3. point[n + 1] = DecayedTo(p, t)
    BY <1>4, <2>1
  <2>4. /\ p.ts \in Nat /\ p.ts <= t /\ t \in Nat /\ t \in Times
        /\ \A w \in Nat : w % Week = 0 /\ p.ts < w => t <= w
    <3>1. CASE n = 0
      <4>1. n + 1 = 1
        BY <3>1
      <4> QED  BY <1>0, <1>1, <2>2, <3>1, <4>1
    <3>2. CASE n # 0
      BY <1>1, <2>1, <2>2, <3>2
    <3> QED  BY <3>1, <3>2
  <2>5. Schedules(slope_changes, locked, p.ts)
    <3>1. LastTotal.ts <= p.ts
      BY <2>2
    <3> HIDE DEF p
    <3>2. \A w \in Times : w > p.ts => w > LastTotal.ts
      BY <1>0, <2>4, <3>1, TimesAreNats
    <3> QED  BY <1>0, <3>2 DEF Schedules
  <2> HIDE DEF p, t
  <2>6. IsSumOf(DecayedTo(p, t), locked) /\ DecayedTo(p, t).ts = t
    BY <1>0, <2>2, <2>4, <2>5, PointDecays
  <2>7. time(n + 1) = t /\ LastTotal.ts <= t
    BY <1>0, <2>1, <2>2, <2>4 DEF t
  <2> QED  BY <2>1, <2>3, <2>6, <2>7
<1>8. 0..count \subseteq Good
  <2> HIDE DEF Good
  <2> QED  BY <1>1, <1>6, <1>7, Induction
<1>9. \A i \in 1..count : IsSumOf(point[i], locked) /\ point[i].ts = MissedTime(i) /\ LastTotal.ts <= MissedTime(i)
  <2> SUFFICES ASSUME NEW i \in 1..count
               PROVE  IsSumOf(point[i], locked) /\ point[i].ts = MissedTime(i) /\ LastTotal.ts <= MissedTime(i)
    OBVIOUS
  <2>1. i \in 0..count /\ i # 0
    BY <1>1
  <2> QED  BY <1>8, <2>1
<1>10. MissedPoints \in Seq(EscrowPoint) /\ Len(MissedPoints) = count
       /\ \A i \in 1..count : MissedPoints[i] = point[i]
  <2>1. \A i \in 1..count : point[i] \in EscrowPoint
    BY <1>9 DEF IsSumOf
  <2> QED  BY <1>1, <1>5, <2>1
<1>11. \A i \in 1..count : i \in Nat
  BY <1>1
<1>12. count \in 1..count
  BY <1>1
<1> QED  BY <1>1, <1>9, <1>10, <1>11, <1>12
-----------------------------------------------------------------------------
(* Steps of the VotingEscrow *)

LEMMA LastEpochAt ==
    ASSUME NEW points \in Seq(EscrowPoint), NEW t \in Int, NEW n, n = Len(points), n >= 1, points[n].ts <= t
    PROVE  EpochAt(points, t) = n
<1>1. /\ EpochAt(points, t) \in 0..Len(points)
      /\ \A e \in 1..Len(points) : points[e].ts <= t => e <= EpochAt(points, t)
  BY EpochAtIs
<1>2. Len(points) \in Nat
  OBVIOUS
<1>3. n \in Nat /\ n \in 1..n
  BY <1>2
<1>4. n <= EpochAt(points, t) /\ EpochAt(points, t) \in 0..n
  BY <1>1, <1>3
<1> QED  BY <1>3, <1>4

\* Since the last point of a user, its lock decides.
LEMMA CurrentPower ==
    ASSUME NEW points, NEW n \in Nat, InOrder(points, n), NEW lock \in EscrowLock, IsLastOf(points, lock),
           NEW t \in Nat, n <= t
    PROVE  PowerIn(points, t) = PowerOf(lock, t)
<1>1. points \in Seq(EscrowPoint) /\ Len(points) \in Nat
  BY DEF InOrder
<1>2. lock.end \in Nat /\ Rate(lock) \in Nat
  BY LockTypes
<1>3. CASE points = <<>>
  <2>1. EpochAt(points, t) = 0
    <3>1. Len(points) = 0
      BY <1>3
    <3>2. EpochAt(points, t) \in 0..Len(points)
      BY <1>1, EpochAtIs
    <3> QED  BY <3>1, <3>2
  <2>2. lock.end = 0
    BY <1>3 DEF IsLastOf, NoLock
  <2> QED  BY <2>1, <2>2 DEF PowerIn, PowerOf
<1>4. CASE points # <<>>
  <2> DEFINE e == Len(points)
             p == points[e]
             r == Rate(lock)
  <2>0. e \in Nat /\ e >= 1 /\ e \in 1..Len(points)
    BY <1>1, <1>4
  <2>1. p \in EscrowPoint /\ p.ts \in Nat /\ p.ts <= n
    <3>1. p \in EscrowPoint
      BY <1>1, <2>0
    <3>2. p.ts <= n
      BY <2>0 DEF InOrder
    <3> QED  BY <3>1, <3>2 DEF EscrowPoint
  <2>2. EpochAt(points, t) = e
    <3>1. p.ts <= t
      BY <2>1
    <3> HIDE DEF e
    <3>2. e = Len(points) /\ points[e].ts <= t
      BY <3>1 DEF e
    <3> QED  BY <1>1, <2>0, <3>2, LastEpochAt
  <2>3. p.bias = PowerOf(lock, p.ts) /\ p.slope = SlopeOf(lock, p.ts)
    BY <1>4 DEF IsLastOf
  <2>4. PowerIn(points, t) = AtLeastZero(p.bias - p.slope * (t - p.ts))
    BY <2>0, <2>2 DEF PowerIn
  <2> DEFINE s == p.ts
  <2> HIDE DEF p, r
  <2>5. s \in Nat /\ s <= t /\ r \in Nat
    BY <1>2, <2>1 DEF r
  <2>6. CASE lock.end > s
    <3>1. p.bias = r * (lock.end - s) /\ p.slope = r
      BY <2>3, <2>6 DEF PowerOf, SlopeOf, r
    <3>2. r * (lock.end - s) - r * (t - s) = r * (lock.end - t)
      BY <1>2, <2>5
    <3>3. CASE lock.end > t
      <4>1. r * (lock.end - t) >= 0 /\ r * (lock.end - t) \in Int
        BY <1>2, <2>5, <3>3
      <4> QED  BY <2>4, <3>1, <3>2, <3>3, <4>1 DEF PowerOf, AtLeastZero, r
    <3>4. CASE ~(lock.end > t)
      <4>1. r * (lock.end - t) <= 0 /\ r * (lock.end - t) \in Int
        <5>1. t - lock.end \in Nat
          BY <1>2, <2>5, <3>4
        <5>2. r * (t - lock.end) \in Nat /\ r * (lock.end - t) = 0 - r * (t - lock.end)
          BY <1>2, <2>5, <5>1
        <5> QED  BY <5>2
      <4> QED  BY <2>4, <3>1, <3>2, <3>4, <4>1 DEF PowerOf, AtLeastZero
    <3> QED  BY <3>3, <3>4
  <2>7. CASE ~(lock.end > s)
    <3>1. p.bias = 0 /\ p.slope = 0 /\ ~(lock.end > t)
      BY <1>2, <2>3, <2>5, <2>7 DEF PowerOf, SlopeOf
    <3>2. 0 - 0 * (t - s) = 0
      BY <2>5
    <3> QED  BY <2>4, <3>1, <3>2 DEF PowerOf, AtLeastZero
  <2> QED  BY <2>6, <2>7
<1> QED  BY <1>3, <1>4

LEMMA PointOfLockIs ==
    ASSUME NEW l \in EscrowLock, now \in Nat
    PROVE  /\ PointOfLock(l) = [bias |-> PowerOf(l, now), slope |-> SlopeOf(l, now), ts |-> now]
           /\ PointOfLock(l) \in EscrowPoint
<1>1. l.end \in Nat /\ PowerOf(l, now) \in Nat /\ SlopeOf(l, now) \in Nat
  BY LockTypes
<1>2. PointOfLock(l).bias = PowerOf(l, now)
  <2>1. CASE l.end > now
    BY <2>1 DEF PointOfLock, PowerOf, Rate
  <2>2. CASE ~(l.end > now)
    <3>1. 0 * (l.end - now) = 0
      BY <1>1
    <3> QED  BY <2>2, <3>1 DEF PointOfLock, PowerOf
  <2> QED  BY <2>1, <2>2
<1>3. PointOfLock(l) = [bias |-> PointOfLock(l).bias, slope |-> SlopeOf(l, now), ts |-> now]
  BY DEF PointOfLock, SlopeOf, Rate
<1> QED  BY <1>1, <1>2, <1>3 DEF EscrowPoint

\* When one lock changes, sums change by the difference.
LEMMA OneLockChanged ==
    ASSUME NEW locks \in EscrowLocks, NEW u \in Users, NEW new \in EscrowLock, NEW t \in Int,
           NEW locks2, locks2 = [locks EXCEPT ![u] = new]
    PROVE  /\ locks2 \in EscrowLocks
           /\ SumFunction(LockPowers(locks2, t)) = SumFunction(LockPowers(locks, t)) + PowerOf(new, t) - PowerOf(locks[u], t)
           /\ SumFunction(LockSlopes(locks2, t)) = SumFunction(LockSlopes(locks, t)) + SlopeOf(new, t) - SlopeOf(locks[u], t)
           /\ SumFunction(LockEndings(locks2, t)) = SumFunction(LockEndings(locks, t)) + EndingAt(new, t) - EndingAt(locks[u], t)
<1>1. locks2 \in EscrowLocks /\ locks2[u] = new /\ \A v \in Users \ {u} : locks2[v] = locks[v]
  BY DEF EscrowLocks
<1>2. ASSUME NEW f, NEW g, f \in [Users -> Nat], g \in [Users -> Nat], \A v \in Users \ {u} : g[v] = f[v]
      PROVE  SumFunction(g) = SumFunction(f) + g[u] - f[u]
  <2>1. f \in [Users -> Int] /\ g \in [Users -> Int]
    BY <1>2
  <2> QED  BY <1>2, <2>1, WeekIsPositive, SumOneChanged
<1>3. SumFunction(LockPowers(locks2, t)) = SumFunction(LockPowers(locks, t)) + PowerOf(new, t) - PowerOf(locks[u], t)
  <2> DEFINE f == LockPowers(locks, t)
             g == LockPowers(locks2, t)
  <2>1. f \in [Users -> Nat] /\ g \in [Users -> Nat]
    BY <1>1, LockSumTypes
  <2>2. g[u] = PowerOf(new, t) /\ f[u] = PowerOf(locks[u], t) /\ \A v \in Users \ {u} : g[v] = f[v]
    BY <1>1 DEF LockPowers
  <2> HIDE DEF f, g
  <2>3. SumFunction(g) = SumFunction(f) + g[u] - f[u]
    BY <1>2, <2>1, <2>2
  <2> QED  BY <2>2, <2>3 DEF f, g
<1>4. SumFunction(LockSlopes(locks2, t)) = SumFunction(LockSlopes(locks, t)) + SlopeOf(new, t) - SlopeOf(locks[u], t)
  <2> DEFINE f == LockSlopes(locks, t)
             g == LockSlopes(locks2, t)
  <2>1. f \in [Users -> Nat] /\ g \in [Users -> Nat]
    BY <1>1, LockSumTypes
  <2>2. g[u] = SlopeOf(new, t) /\ f[u] = SlopeOf(locks[u], t) /\ \A v \in Users \ {u} : g[v] = f[v]
    BY <1>1 DEF LockSlopes
  <2> HIDE DEF f, g
  <2>3. SumFunction(g) = SumFunction(f) + g[u] - f[u]
    BY <1>2, <2>1, <2>2
  <2> QED  BY <2>2, <2>3 DEF f, g
<1>5. SumFunction(LockEndings(locks2, t)) = SumFunction(LockEndings(locks, t)) + EndingAt(new, t) - EndingAt(locks[u], t)
  <2> DEFINE f == LockEndings(locks, t)
             g == LockEndings(locks2, t)
  <2>1. f \in [Users -> Nat] /\ g \in [Users -> Nat]
    BY <1>1, LockSumTypes
  <2>2. g[u] = EndingAt(new, t) /\ f[u] = EndingAt(locks[u], t) /\ \A v \in Users \ {u} : g[v] = f[v]
    BY <1>1 DEF LockEndings
  <2> HIDE DEF f, g
  <2>3. SumFunction(g) = SumFunction(f) + g[u] - f[u]
    BY <1>2, <2>1, <2>2
  <2> QED  BY <2>2, <2>3 DEF f, g
<1> QED  BY <1>1, <1>3, <1>4, <1>5

\* Slope changes of the future do not count.
LEMMA SupplySame ==
    ASSUME NEW p \in EscrowPoint, NEW t \in Times, NEW changes, NEW changes2,
           \A w \in Times : w <= t => changes[w] = changes2[w]
    PROVE  SupplyWith(changes, p, t) = SupplyWith(changes2, p, t)
<1>0. t \in Nat /\ p.ts \in Nat
  BY TimesAreNats DEF EscrowPoint
<1>1. \A w \in WeeksIn(p.ts, t) : changes[w] = changes2[w]
  BY <1>0, WeeksInAre, TimesAreNats
<1>2. [w \in WeeksIn(p.ts, t) |-> changes[w] * (t - w)] = [w \in WeeksIn(p.ts, t) |-> changes2[w] * (t - w)]
  BY <1>1
<1> QED  BY <1>2 DEF SupplyWith

LEMMA PointChanged ==
    ASSUME NEW p \in EscrowPoint, NEW b \in Nat, NEW c \in Nat
    PROVE  [p EXCEPT !.bias = b, !.slope = c] = [bias |-> b, slope |-> c, ts |-> p.ts]
<1> DEFINE q == [p EXCEPT !.bias = b, !.slope = c]
<1>1. q = [i \in {"bias", "slope", "ts"} |-> IF i = "slope" THEN c ELSE IF i = "bias" THEN b ELSE p[i]]
  BY DEF EscrowPoint
<1>2. q \in [bias : Nat, slope : Nat, ts : Nat]
  BY DEF EscrowPoint
<1> HIDE DEF q
<1>3. q.bias = b /\ q.slope = c /\ q.ts = p.ts
  BY <1>1
<1>4. q = [bias |-> q.bias, slope |-> q.slope, ts |-> q.ts]
  BY <1>2
<1>5. q = [bias |-> b, slope |-> c, ts |-> p.ts]
  BY <1>3, <1>4
<1> QED  BY <1>5 DEF q

\* The total's history after a checkpoint: the past is as it was, and from now on it is
\* that of the new locks.
LEMMA AddedPoints ==
    ASSUME EscrowTypes, TotalIsCurrent, NEW old \in EscrowPoint, NEW new \in EscrowPoint, AddPoints(old, new),
           locked' \in EscrowLocks,
           SumFunction(LockPowers(locked', now)) = SumFunction(LockPowers(locked, now)) + new.bias - old.bias,
           SumFunction(LockSlopes(locked', now)) = SumFunction(LockSlopes(locked, now)) + new.slope - old.slope,
           slope_changes' \in [Times -> Int], \A w \in Times : w <= now => slope_changes'[w] = slope_changes[w],
           Schedules(slope_changes', locked', now)
    PROVE  /\ point_history' \in Seq(EscrowPoint) /\ Len(point_history') \in Nat \ {0}
           /\ IsSumOf(point_history'[Len(point_history')], locked') /\ point_history'[Len(point_history')].ts = now
           /\ \A t \in Times : t < now =>
                 TotalWith(slope_changes', point_history', t) = TotalWith(slope_changes, point_history, t)
           /\ \A t \in Times : now <= t =>
                 TotalWith(slope_changes', point_history', t) = SumFunction(LockPowers(locked', t))
<1> DEFINE m == MissedPoints
           n == Len(m)
           last == m[n]
           sum == [last EXCEPT !.bias = AtLeastZero(last.bias + new.bias - old.bias),
                               !.slope = AtLeastZero(last.slope + new.slope - old.slope)]
           more == [m EXCEPT ![n] = sum]
           h == point_history
           h2 == point_history'
           k == Len(h)
<1>0. /\ now \in Nat /\ now \in Times /\ LastTotal.ts \in Nat /\ LastTotal.ts <= now /\ IsSumOf(LastTotal, locked)
      /\ Schedules(slope_changes, locked, LastTotal.ts) /\ slope_changes \in [Times -> Int] /\ locked \in EscrowLocks
      /\ h \in Seq(EscrowPoint)
  <2>1. now \in Nat /\ now \in Times
    BY WeekIsPositive DEF EscrowTypes, Times
  <2>2. LastTotal.ts \in Nat
    BY DEF TotalIsCurrent, IsSumOf, EscrowPoint
  <2> QED  BY <2>1, <2>2 DEF EscrowTypes, TotalIsCurrent
<1>1. /\ m \in Seq(EscrowPoint) /\ n >= 1 /\ last.ts = now
      /\ \A i \in 1..n : IsSumOf(m[i], locked) /\ LastTotal.ts <= m[i].ts /\ m[i].ts <= now
  BY MissedPointsAre
<1>2. h2 = h \o more
  BY DEF AddPoints, Last
<1> HIDE DEF m, sum
<1>3. n \in Nat /\ n \in 1..n /\ last \in EscrowPoint /\ IsSumOf(last, locked)
  BY <1>1
<1>4. /\ SumFunction(LockPowers(locked', now)) \in Nat /\ SumFunction(LockSlopes(locked', now)) \in Nat
      /\ SumFunction(LockPowers(locked, now)) \in Nat /\ SumFunction(LockSlopes(locked, now)) \in Nat
      /\ new.bias \in Nat /\ old.bias \in Nat /\ new.slope \in Nat /\ old.slope \in Nat
  BY <1>0, LockSumTypes DEF EscrowPoint
<1> DEFINE final == [bias |-> SumFunction(LockPowers(locked', now)), slope |-> SumFunction(LockSlopes(locked', now)), ts |-> now]
<1>5. final \in EscrowPoint /\ IsSumOf(final, locked') /\ final.ts = now
  BY <1>0, <1>4 DEF EscrowPoint, IsSumOf
<1>6. more = [m EXCEPT ![n] = final]
  <2>1. last.bias = SumFunction(LockPowers(locked, now)) /\ last.slope = SumFunction(LockSlopes(locked, now))
    BY <1>1, <1>3 DEF IsSumOf
  <2>2. /\ AtLeastZero(last.bias + new.bias - old.bias) = final.bias
        /\ AtLeastZero(last.slope + new.slope - old.slope) = final.slope
    BY <1>4, <2>1 DEF AtLeastZero
  <2>3. last = [bias |-> last.bias, slope |-> last.slope, ts |-> now]
    BY <1>1, <1>3 DEF EscrowPoint
  <2>4. sum = [bias |-> AtLeastZero(last.bias + new.bias - old.bias),
               slope |-> AtLeastZero(last.slope + new.slope - old.slope), ts |-> now]
    <3> DEFINE b == AtLeastZero(last.bias + new.bias - old.bias)
               c == AtLeastZero(last.slope + new.slope - old.slope)
    <3>1. sum = [last EXCEPT !.bias = b, !.slope = c]
      BY DEF sum
    <3> DEFINE a == last
    <3>3. b \in Nat /\ c \in Nat
      BY <1>4, <2>2 DEF final
    <3>4. sum = [a EXCEPT !.bias = b, !.slope = c] /\ a \in EscrowPoint /\ a.ts = now
      BY <1>1, <1>3, <3>1
    <3> HIDE DEF a, b, c
    <3>5. [a EXCEPT !.bias = b, !.slope = c] = [bias |-> b, slope |-> c, ts |-> now]
      BY <3>3, <3>4, PointChanged
    <3>2. sum = [bias |-> b, slope |-> c, ts |-> now]
      BY <3>4, <3>5
    <3> QED  BY <3>2 DEF b, c
  <2>5. sum = final
    <3> HIDE DEF last
    <3> QED  BY <2>2, <2>4
  <2> QED  BY <2>5
<1> HIDE DEF more, final
<1>7. /\ more \in Seq(EscrowPoint) /\ Len(more) = n /\ more[n] = final
      /\ \A i \in 1..n : i # n => more[i] = m[i]
  BY <1>1, <1>3, <1>5, <1>6
<1>8. /\ h2 \in Seq(EscrowPoint) /\ Len(h2) = k + n /\ k \in Nat /\ h2[k + n] = final
      /\ \A i \in 1..(k + n) : h2[i] = IF i <= k THEN h[i] ELSE more[i - k]
  <2>1. /\ h \o more \in Seq(EscrowPoint) /\ Len(h \o more) = k + n /\ k \in Nat
        /\ \A i \in 1..(k + n) : (h \o more)[i] = IF i <= k THEN h[i] ELSE more[i - k]
    <3>1. h \in Seq(EscrowPoint) /\ more \in Seq(EscrowPoint) /\ Len(more) = n
      BY <1>0, <1>7
    <3> HIDE DEF h, n
    <3> QED  BY <3>1
  <2>2. k + n \in 1..(k + n) /\ ~(k + n <= k) /\ (k + n) - k = n
    BY <1>3, <2>1
  <2> HIDE DEF h, h2, k
  <2> QED  BY <1>2, <1>7, <2>1, <2>2
<1> HIDE DEF h, h2, k, n
<1>9. ASSUME NEW t \in Times, t < now PROVE TotalWith(slope_changes', h2, t) = TotalWith(slope_changes, h, t)
  <2> DEFINE e == EpochAt(h2, t)
  <2>0. t \in Nat /\ t \in Int
    BY TimesAreNats
  <2>1. e \in 0..(k + n) /\ (e # 0 => h2[e].ts <= t) /\ \A d \in 1..(k + n) : h2[d].ts <= t => d <= e
    BY <1>8, <2>0, EpochAtIs
  <2>2. \A w \in Times : w <= t => slope_changes'[w] = slope_changes[w]
    BY <1>0, <1>9, <2>0, TimesAreNats
  <2> HIDE DEF e
  <2>3. CASE e <= k
    <3>1. EpochAt(h, t) = e
      <4>1. e \in 0..k
        BY <1>8, <2>1, <2>3
      <4>2. e # 0 => h[e].ts <= t
        BY <1>3, <1>8, <2>1, <4>1
      <4>3. \A d \in 1..k : h[d].ts <= t => d <= e
        BY <1>3, <1>8, <2>1
      <4> QED  BY <1>0, <1>8, <2>0, <4>1, <4>2, <4>3, EpochAtIsUnique DEF k
    <3>2. e # 0 => h2[e] = h[e] /\ h[e] \in EscrowPoint
      BY <1>0, <1>3, <1>8, <2>1, <2>3 DEF k
    <3>3. e # 0 => SupplyWith(slope_changes', h[e], t) = SupplyWith(slope_changes, h[e], t)
      BY <2>2, <3>2, SupplySame
    <3> QED  BY <3>1, <3>2, <3>3 DEF TotalWith, e
  <2>4. CASE e > k
    <3> DEFINE i == e - k
               p == m[i]
    <3>1. i \in 1..n /\ h2[e] = more[i] /\ e # 0
      BY <1>3, <1>8, <2>1, <2>4
    <3>2. i # n
      BY <1>0, <1>5, <1>7, <1>9, <2>0, <2>1, <3>1
    <3>3. h2[e] = p /\ IsSumOf(p, locked) /\ LastTotal.ts <= p.ts /\ p.ts <= t
      BY <1>1, <1>7, <2>1, <3>1, <3>2
    <3> HIDE DEF i, p
    <3>4. p \in EscrowPoint /\ p.ts \in Nat
      BY <3>3 DEF IsSumOf, EscrowPoint
    <3>5. Schedules(slope_changes, locked, p.ts)
      <4>1. \A w \in Times : w > p.ts => w > LastTotal.ts
        BY <1>0, <3>3, <3>4, TimesAreNats
      <4> QED  BY <1>0, <4>1 DEF Schedules
    <3>6. SupplyWith(slope_changes, p, t) = SumFunction(LockPowers(locked, t))
      BY <1>0, <3>3, <3>5, SupplyIsPower
    <3>7. SupplyWith(slope_changes', p, t) = SupplyWith(slope_changes, p, t)
      BY <2>2, <3>4, SupplySame
    <3>8. TotalWith(slope_changes', h2, t) = SupplyWith(slope_changes', p, t)
      BY <3>1, <3>3 DEF TotalWith, e
    <3>9. TotalWith(slope_changes, h, t) = SumFunction(LockPowers(locked, t))
      <4>1. LastTotal.ts <= t
        BY <1>0, <2>0, <3>3, <3>4
      <4>2. h # <<>>
        <5>1. h = <<>> => LastTotal.ts = now
          BY DEF LastTotal, Last0, h
        <5> QED  BY <1>0, <1>9, <2>0, <4>1, <5>1
      <4>3. k \in 1..k /\ LastTotal = h[k]
        BY <1>0, <1>8, <4>2 DEF LastTotal, Last0, Last, h, k
      <4>4. EpochAt(h, t) = k
        BY <1>0, <2>0, <4>1, <4>3, LastEpochAt DEF k
      <4>5. SupplyWith(slope_changes, LastTotal, t) = SumFunction(LockPowers(locked, t))
        BY <1>0, <4>1, SupplyIsPower
      <4> QED  BY <4>3, <4>4, <4>5 DEF TotalWith
    <3> QED  BY <3>6, <3>7, <3>8, <3>9
  <2> QED  BY <1>8, <2>1, <2>3, <2>4
<1>10. ASSUME NEW t \in Times, now <= t PROVE TotalWith(slope_changes', h2, t) = SumFunction(LockPowers(locked', t))
  <2>0. t \in Nat /\ t \in Int
    BY TimesAreNats
  <2>1. k + n \in 1..(k + n) /\ k + n # 0
    BY <1>1, <1>3, <1>8 DEF n
  <2>2. EpochAt(h2, t) = k + n
    <3>1. h2[k + n].ts <= t
      BY <1>5, <1>8, <1>10
    <3> QED  BY <1>8, <2>0, <2>1, <3>1, LastEpochAt
  <2>3. SupplyWith(slope_changes', final, t) = SumFunction(LockPowers(locked', t))
    BY <1>5, <1>10, SupplyIsPower
  <2> QED  BY <1>8, <2>1, <2>2, <2>3 DEF TotalWith
<1>11. k + n \in Nat \ {0}
  BY <1>1, <1>3, <1>8 DEF n
<1> QED  BY <1>5, <1>8, <1>9, <1>10, <1>11 DEF h, h2

\* A change of one lock in the schedule of the slopes: only the future changes, and what
\* ends then is what the locks say.
LEMMA RelockSchedules ==
    ASSUME EscrowTypes, TotalIsCurrent, NEW u \in Users, NEW new \in EscrowLock,
           slope_changes' = SlopeChanges(locked[u], new), locked' = [locked EXCEPT ![u] = new]
    PROVE  /\ slope_changes' \in [Times -> Int]
           /\ \A w \in Times : w <= now => slope_changes'[w] = slope_changes[w]
           /\ Schedules(slope_changes', locked', now)
<1> DEFINE old == locked[u]
<1>0. /\ now \in Nat /\ slope_changes \in [Times -> Int] /\ locked \in EscrowLocks /\ old \in EscrowLock
      /\ LastTotal.ts <= now /\ LastTotal.ts \in Nat /\ Schedules(slope_changes, locked, LastTotal.ts)
  <2>1. now \in Nat
    BY WeekIsPositive DEF EscrowTypes
  <2>2. LastTotal.ts \in Nat
    BY DEF TotalIsCurrent, IsSumOf, EscrowPoint
  <2> QED  BY <2>1, <2>2 DEF EscrowTypes, TotalIsCurrent, EscrowLocks
<1>1. /\ PointOfLock(old).slope = SlopeOf(old, now) /\ PointOfLock(new).slope = SlopeOf(new, now)
      /\ SlopeOf(old, now) \in Nat /\ SlopeOf(new, now) \in Nat /\ old.end \in Nat /\ new.end \in Nat
  BY <1>0, PointOfLockIs, LockTypes
<1>2. \A w \in Times :
          slope_changes'[w] = slope_changes[w] + (IF w > now /\ w = old.end THEN SlopeOf(old, now) ELSE 0)
                                               - (IF w > now /\ w = new.end THEN SlopeOf(new, now) ELSE 0)
  BY <1>1 DEF SlopeChanges
<1>3. slope_changes' \in [Times -> Int]
  <2>1. DOMAIN slope_changes' = Times /\ slope_changes' = [w \in Times |-> slope_changes'[w]]
    BY DEF SlopeChanges
  <2>2. \A w \in Times : slope_changes'[w] \in Int
    BY <1>0, <1>1, <1>2
  <2> QED  BY <2>1, <2>2
<1>4. \A w \in Times : w <= now => slope_changes'[w] = slope_changes[w]
  BY <1>0, <1>2, TimesAreNats
<1>5. ASSUME NEW w \in Times, w > now
      PROVE  slope_changes'[w] = 0 - SumFunction(LockEndings(locked', w))
  <2>0. w \in Nat /\ w \in Int
    BY TimesAreNats
  <2>1. slope_changes[w] = 0 - SumFunction(LockEndings(locked, w))
    BY <1>0, <1>5, <2>0 DEF Schedules
  <2>2. SumFunction(LockEndings(locked', w)) = SumFunction(LockEndings(locked, w)) + EndingAt(new, w) - EndingAt(old, w)
    BY <1>0, <2>0, OneLockChanged
  <2>3. /\ (IF w > now /\ w = old.end THEN SlopeOf(old, now) ELSE 0) = EndingAt(old, w)
        /\ (IF w > now /\ w = new.end THEN SlopeOf(new, now) ELSE 0) = EndingAt(new, w)
    BY <1>5 DEF SlopeOf, EndingAt
  <2>4. EndingAt(old, w) \in Nat /\ EndingAt(new, w) \in Nat /\ SumFunction(LockEndings(locked, w)) \in Nat
    <3>1. EndingAt(old, w) \in Nat /\ EndingAt(new, w) \in Nat
      BY <1>0, <2>0, LockTypes
    <3> QED  BY <1>0, <2>0, <3>1, LockSumTypes
  <2> QED  BY <1>2, <2>1, <2>2, <2>3, <2>4
<1> QED  BY <1>3, <1>4, <1>5 DEF Schedules

\* What no step changes: the past.
ExtendsAt(points, points2, time) ==
    /\ Len(points) <= Len(points2)
    /\ \A i \in 1..Len(points) : points2[i] = points[i]
    /\ \A i \in (Len(points) + 1)..Len(points2) : points2[i].ts = time

PastIsKept ==
    /\ now <= now'
    /\ \A t \in Times : t < now => /\ TotalSupply(t)' = TotalSupply(t)
                                   /\ \A u \in Users : BalanceOf(u, t)' = BalanceOf(u, t)
    /\ \A u \in Users : ExtendsAt(user_point_history[u], user_point_history'[u], now)

\* A user's later points change no earlier power.
LEMMA ExtendedPower ==
    ASSUME NEW points \in Seq(EscrowPoint), NEW points2 \in Seq(EscrowPoint), NEW time \in Nat,
           ExtendsAt(points, points2, time), NEW t \in Nat, t < time
    PROVE  PowerIn(points2, t) = PowerIn(points, t)
<1> DEFINE e == EpochAt(points2, t)
           k == Len(points)
           n == Len(points2)
<1>1. /\ e \in 0..n /\ (e # 0 => points2[e].ts <= t) /\ \A d \in 1..n : points2[d].ts <= t => d <= e
      /\ k \in Nat /\ n \in Nat
  <2>1. t \in Int /\ k \in Nat /\ n \in Nat
    OBVIOUS
  <2> QED  BY <2>1, EpochAtIs
<1>2. k <= n /\ (\A i \in 1..k : points2[i] = points[i]) /\ \A i \in (k + 1)..n : points2[i].ts = time
  BY DEF ExtendsAt
<1> HIDE DEF e, k, n
<1>3. e <= k
  <2>1. SUFFICES ASSUME e > k PROVE FALSE
    BY <1>1
  <2>2. e \in (k + 1)..n /\ e # 0
    BY <1>1, <2>1
  <2>3. points2[e].ts = time /\ points2[e].ts <= t
    BY <1>1, <1>2, <2>2
  <2> QED  BY <2>3
<1>4. EpochAt(points, t) = e
  <2>1. e \in 0..k
    BY <1>1, <1>3
  <2>2. e # 0 => points[e].ts <= t
    BY <1>1, <1>2, <2>1
  <2>3. \A d \in 1..k : points[d].ts <= t => d <= e
    BY <1>1, <1>2
  <2>4. t \in Int /\ k = Len(points)
    BY DEF k
  <2> QED  BY <2>1, <2>2, <2>3, <2>4, EpochAtIsUnique
<1>5. e # 0 => points2[e] = points[e]
  BY <1>1, <1>2, <1>3
<1> QED  BY <1>4, <1>5 DEF PowerIn, e

\* After a checkpoint of the total, with or without one of a user.
LEMMA AfterCheckpoint ==
    ASSUME EscrowIInv, now' = now, locked' \in EscrowLocks, slope_changes' \in [Times -> Int],
           Schedules(slope_changes', locked', now),
           point_history' \in Seq(EscrowPoint), Len(point_history') \in Nat \ {0},
           IsSumOf(point_history'[Len(point_history')], locked'), point_history'[Len(point_history')].ts = now,
           \A t \in Times : t < now =>
                 TotalWith(slope_changes', point_history', t) = TotalWith(slope_changes, point_history, t),
           \A t \in Times : now <= t =>
                 TotalWith(slope_changes', point_history', t) = SumFunction(LockPowers(locked', t)),
           user_point_history' \in [Users -> Seq(EscrowPoint)],
           \A u \in Users : /\ InOrder(user_point_history'[u], now)
                            /\ ExtendsAt(user_point_history[u], user_point_history'[u], now)
                            /\ IsLastOf(user_point_history'[u], locked'[u])
    PROVE  EscrowIInv' /\ PastIsKept
<1>0. now \in Nat /\ now \in 0..Horizon /\ user_point_history \in [Users -> Seq(EscrowPoint)]
  BY WeekIsPositive DEF EscrowIInv, EscrowTypes
<1>1. EscrowTypes'
  BY <1>0 DEF EscrowTypes
<1>2. UsersAreCurrent'
  BY DEF UsersAreCurrent
<1>3. TotalIsCurrent'
  <2>1. point_history' # <<>> /\ LastTotal' = point_history'[Len(point_history')]
    BY DEF LastTotal, Last0, Last
  <2>2. LastTotal.ts' = now
    BY <2>1
  <2> QED  BY <1>0, <2>1, <2>2 DEF TotalIsCurrent
<1>4. /\ \A t : TotalSupply(t) = TotalWith(slope_changes, point_history, t)
      /\ \A t : TotalSupply(t)' = TotalWith(slope_changes', point_history', t)
      /\ \A u, t : BalanceOf(u, t) = PowerIn(user_point_history[u], t)
      /\ \A u, t : BalanceOf(u, t)' = PowerIn(user_point_history'[u], t)
  <2>1. \A t : TotalSupply(t)' = TotalWith(slope_changes', point_history', t)
    BY DEF TotalSupply, TotalSupplyIn, TotalWith, SupplyAt, SupplyWith
  <2>2. \A u, t : BalanceOf(u, t)' = PowerIn(user_point_history'[u], t)
    BY DEF BalanceOf, PowerIn
  <2> QED  BY <2>1, <2>2, TotalIsWith, BalanceIsPower
<1>5. \A t \in Times : t < now => /\ TotalSupply(t)' = TotalSupply(t)
                                  /\ \A u \in Users : BalanceOf(u, t)' = BalanceOf(u, t)
  <2> SUFFICES ASSUME NEW t \in Times, t < now
               PROVE  TotalSupply(t)' = TotalSupply(t) /\ \A u \in Users : BalanceOf(u, t)' = BalanceOf(u, t)
    OBVIOUS
  <2>1. TotalSupply(t)' = TotalSupply(t)
    BY <1>4
  <2>2. ASSUME NEW u \in Users PROVE PowerIn(user_point_history'[u], t) = PowerIn(user_point_history[u], t)
    <3>1. user_point_history[u] \in Seq(EscrowPoint) /\ user_point_history'[u] \in Seq(EscrowPoint) /\ t \in Nat
      BY <1>0, TimesAreNats
    <3> QED  BY <1>0, <3>1, ExtendedPower
  <2> QED  BY <1>4, <2>1, <2>2
<1>6. PastIsKept
  BY <1>0, <1>5 DEF PastIsKept
<1>7. ASSUME NEW t \in Times PROVE TotalSupply(t)' = SumFunction([u \in Users |-> BalanceOf(u, t)'])
  <2>0. t \in Nat
    BY TimesAreNats
  <2>1. CASE t < now
    <3>1. TotalSupply(t) = SumFunction([u \in Users |-> BalanceOf(u, t)])
      BY DEF EscrowIInv, TotalsAgree
    <3>2. [u \in Users |-> BalanceOf(u, t)] = [u \in Users |-> BalanceOf(u, t)']
      BY <1>5, <2>1
    <3> QED  BY <1>5, <2>1, <3>1, <3>2
  <2>2. CASE now <= t
    <3>1. ASSUME NEW u \in Users PROVE BalanceOf(u, t)' = PowerOf(locked'[u], t)
      <4>1. locked'[u] \in EscrowLock
        BY DEF EscrowLocks
      <4>2. PowerIn(user_point_history'[u], t) = PowerOf(locked'[u], t)
        BY <1>0, <2>0, <2>2, <4>1, CurrentPower
      <4> QED  BY <1>4, <4>2
    <3>2. [u \in Users |-> BalanceOf(u, t)'] = LockPowers(locked', t)
      BY <3>1 DEF LockPowers
    <3> QED  BY <1>4, <2>2, <3>2
  <2> QED  BY <1>0, <2>0, <2>1, <2>2
<1>8. TotalsAgree'
  BY <1>7 DEF TotalsAgree
<1> QED  BY <1>1, <1>2, <1>3, <1>6, <1>8 DEF EscrowIInv

LEMMA StepRelock ==
    ASSUME EscrowIInv, NEW u \in Users, NEW new \in EscrowLock, Relock(u, new)
    PROVE  EscrowIInv' /\ PastIsKept
<1> DEFINE old == locked[u]
           p == PointOfLock(new)
           h == user_point_history[u]
<1>0. /\ now \in Nat /\ locked \in EscrowLocks /\ old \in EscrowLock
      /\ user_point_history \in [Users -> Seq(EscrowPoint)]
      /\ \A v \in Users : InOrder(user_point_history[v], now) /\ IsLastOf(user_point_history[v], locked[v])
      /\ EscrowTypes /\ TotalIsCurrent
  BY WeekIsPositive DEF EscrowIInv, EscrowTypes, EscrowLocks, UsersAreCurrent
<1>1. /\ AddPoints(PointOfLock(old), p)
      /\ slope_changes' = SlopeChanges(old, new)
      /\ user_point_history' = [user_point_history EXCEPT ![u] = Append(h, p)]
      /\ locked' = [locked EXCEPT ![u] = new]
      /\ now' = now
  BY DEF Relock
<1>2. /\ slope_changes' \in [Times -> Int]
      /\ \A w \in Times : w <= now => slope_changes'[w] = slope_changes[w]
      /\ Schedules(slope_changes', locked', now)
  BY <1>0, <1>1, RelockSchedules
<1>3. /\ PointOfLock(old) = [bias |-> PowerOf(old, now), slope |-> SlopeOf(old, now), ts |-> now]
      /\ p = [bias |-> PowerOf(new, now), slope |-> SlopeOf(new, now), ts |-> now]
      /\ PointOfLock(old) \in EscrowPoint /\ p \in EscrowPoint
  BY <1>0, PointOfLockIs
<1>4. /\ locked' \in EscrowLocks
      /\ SumFunction(LockPowers(locked', now)) = SumFunction(LockPowers(locked, now)) + p.bias - PointOfLock(old).bias
      /\ SumFunction(LockSlopes(locked', now)) = SumFunction(LockSlopes(locked, now)) + p.slope - PointOfLock(old).slope
  <2> DEFINE A == SumFunction(LockPowers(locked, now))
             B == SumFunction(LockSlopes(locked, now))
  <2>1. /\ locked' \in EscrowLocks
        /\ SumFunction(LockPowers(locked', now)) = A + PowerOf(new, now) - PowerOf(old, now)
        /\ SumFunction(LockSlopes(locked', now)) = B + SlopeOf(new, now) - SlopeOf(old, now)
    <3>1. now \in Int
      BY <1>0
    <3> QED  BY <1>0, <1>1, <3>1, OneLockChanged
  <2>2. /\ p.bias = PowerOf(new, now) /\ p.slope = SlopeOf(new, now)
        /\ PointOfLock(old).bias = PowerOf(old, now) /\ PointOfLock(old).slope = SlopeOf(old, now)
    BY <1>3
  <2> HIDE DEF A, B, p
  <2>3. /\ SumFunction(LockPowers(locked', now)) = A + p.bias - PointOfLock(old).bias
        /\ SumFunction(LockSlopes(locked', now)) = B + p.slope - PointOfLock(old).slope
    BY <2>1, <2>2
  <2> QED  BY <2>1, <2>3 DEF A, B
<1>5. /\ point_history' \in Seq(EscrowPoint) /\ Len(point_history') \in Nat \ {0}
      /\ IsSumOf(point_history'[Len(point_history')], locked') /\ point_history'[Len(point_history')].ts = now
      /\ \A t \in Times : t < now =>
            TotalWith(slope_changes', point_history', t) = TotalWith(slope_changes, point_history, t)
      /\ \A t \in Times : now <= t =>
            TotalWith(slope_changes', point_history', t) = SumFunction(LockPowers(locked', t))
  <2> HIDE DEF p
  <2> QED  BY <1>0, <1>1, <1>2, <1>3, <1>4, AddedPoints
<1>6. user_point_history' \in [Users -> Seq(EscrowPoint)]
  BY <1>0, <1>1, <1>3
<1>7. ASSUME NEW v \in Users
      PROVE  /\ InOrder(user_point_history'[v], now)
             /\ ExtendsAt(user_point_history[v], user_point_history'[v], now)
             /\ IsLastOf(user_point_history'[v], locked'[v])
  <2>1. CASE v # u
    <3>1. user_point_history'[v] = user_point_history[v] /\ locked'[v] = locked[v]
      BY <1>0, <1>1, <2>1 DEF EscrowLocks
    <3>2. user_point_history[v] \in Seq(EscrowPoint)
      BY <1>0
    <3>3. ExtendsAt(user_point_history[v], user_point_history[v], now)
      <4> DEFINE g == user_point_history[v]
      <4>1. Len(g) \in Nat
        BY <3>2
      <4> HIDE DEF g
      <4> QED  BY <4>1 DEF ExtendsAt, g
    <3> QED  BY <1>0, <3>1, <3>3
  <2>2. CASE v = u
    <3> DEFINE g == Append(h, p)
               n == Len(h)
    <3>1. user_point_history'[v] = g /\ locked'[v] = new
      BY <1>0, <1>1, <2>2 DEF EscrowLocks
    <3>2. h \in Seq(EscrowPoint) /\ InOrder(h, now)
      BY <1>0
    <3>3. g \in Seq(EscrowPoint) /\ Len(g) = n + 1 /\ n \in Nat /\ g[n + 1] = p /\ \A i \in 1..n : g[i] = h[i]
      <4> HIDE DEF h, p
      <4> QED  BY <1>3, <3>2
    <3>4. (\A i \in 1..n : h[i].ts <= now /\ h[i].ts \in Nat) /\ \A i, j \in 1..n : i <= j => h[i].ts <= h[j].ts
      <4>1. \A i \in 1..n : h[i] \in EscrowPoint
        BY <3>2
      <4> QED  BY <3>2, <4>1 DEF InOrder, EscrowPoint
    <3>5. p.ts = now /\ p.bias = PowerOf(new, now) /\ p.slope = SlopeOf(new, now)
      BY <1>3
    <3> HIDE DEF g, h, n, p
    <3>6. InOrder(g, now)
      <4>1. \A i \in 1..(n + 1) : i \in 1..n \/ i = n + 1
        BY <3>3
      <4>2. \A i \in 1..(n + 1) : g[i].ts <= now
        BY <1>0, <3>3, <3>4, <3>5, <4>1
      <4>3. ASSUME NEW i \in 1..(n + 1), NEW j \in 1..(n + 1), i <= j PROVE g[i].ts <= g[j].ts
        <5>1. CASE j = n + 1
          BY <3>3, <3>5, <4>2, <5>1
        <5>2. CASE j \in 1..n
          <6>1. i \in 1..n
            BY <3>3, <4>3, <5>2
          <6> QED  BY <3>3, <3>4, <4>3, <5>2, <6>1
        <5> QED  BY <4>1, <5>1, <5>2
      <4> QED  BY <3>3, <4>2, <4>3 DEF InOrder
    <3>7. ExtendsAt(h, g, now)
      <4>1. \A i \in (n + 1)..(n + 1) : i = n + 1
        BY <3>3
      <4> QED  BY <3>3, <3>5, <4>1 DEF ExtendsAt, n
    <3>8. IsLastOf(g, new)
      <4>1. g # <<>>
        BY <3>3
      <4> QED  BY <3>3, <3>5, <4>1 DEF IsLastOf
    <3> QED  BY <2>2, <3>1, <3>6, <3>7, <3>8 DEF h
  <2> QED  BY <2>1, <2>2
<1> QED  BY <1>1, <1>2, <1>4, <1>5, <1>6, <1>7, AfterCheckpoint

\* A checkpoint for nobody.
LEMMA StepNobody ==
    ASSUME EscrowIInv, AddPoints(ZeroPoint, ZeroPoint), UNCHANGED <<now, locked, user_point_history, slope_changes>>
    PROVE  EscrowIInv' /\ PastIsKept
<1>0. /\ now \in Nat /\ locked \in EscrowLocks /\ EscrowTypes /\ TotalIsCurrent
      /\ user_point_history \in [Users -> Seq(EscrowPoint)]
      /\ \A v \in Users : InOrder(user_point_history[v], now) /\ IsLastOf(user_point_history[v], locked[v])
      /\ slope_changes \in [Times -> Int] /\ LastTotal.ts \in Nat /\ LastTotal.ts <= now
      /\ Schedules(slope_changes, locked, LastTotal.ts)
  <2>1. now \in Nat
    BY WeekIsPositive DEF EscrowIInv, EscrowTypes
  <2>2. LastTotal.ts \in Nat
    BY DEF EscrowIInv, TotalIsCurrent, IsSumOf, EscrowPoint
  <2> QED  BY <2>1, <2>2 DEF EscrowIInv, EscrowTypes, UsersAreCurrent, TotalIsCurrent
<1>1. ZeroPoint \in EscrowPoint /\ ZeroPoint.bias = 0 /\ ZeroPoint.slope = 0
  BY DEF ZeroPoint, EscrowPoint
<1>2. Schedules(slope_changes, locked, now)
  BY <1>0, TimesAreNats DEF Schedules
<1>3. /\ SumFunction(LockPowers(locked, now)) = SumFunction(LockPowers(locked, now)) + ZeroPoint.bias - ZeroPoint.bias
      /\ SumFunction(LockSlopes(locked, now)) = SumFunction(LockSlopes(locked, now)) + ZeroPoint.slope - ZeroPoint.slope
  <2> DEFINE A == SumFunction(LockPowers(locked, now))
             B == SumFunction(LockSlopes(locked, now))
  <2>1. A \in Nat /\ B \in Nat
    BY <1>0, LockSumTypes
  <2> HIDE DEF A, B
  <2>2. A = A + ZeroPoint.bias - ZeroPoint.bias /\ B = B + ZeroPoint.slope - ZeroPoint.slope
    BY <1>1, <2>1
  <2> QED  BY <2>2 DEF A, B
<1>4. /\ point_history' \in Seq(EscrowPoint) /\ Len(point_history') \in Nat \ {0}
      /\ IsSumOf(point_history'[Len(point_history')], locked') /\ point_history'[Len(point_history')].ts = now
      /\ \A t \in Times : t < now =>
            TotalWith(slope_changes', point_history', t) = TotalWith(slope_changes, point_history, t)
      /\ \A t \in Times : now <= t =>
            TotalWith(slope_changes', point_history', t) = SumFunction(LockPowers(locked', t))
  <2>1. locked' = locked /\ slope_changes' = slope_changes
    OBVIOUS
  <2> HIDE DEF ZeroPoint
  <2> QED  BY <1>0, <1>1, <1>2, <1>3, <2>1, AddedPoints
<1>5. \A v \in Users : ExtendsAt(user_point_history[v], user_point_history[v], now)
  <2> SUFFICES ASSUME NEW v \in Users PROVE ExtendsAt(user_point_history[v], user_point_history[v], now)
    OBVIOUS
  <2> DEFINE g == user_point_history[v]
  <2>1. Len(g) \in Nat
    BY <1>0
  <2> HIDE DEF g
  <2> QED  BY <2>1 DEF ExtendsAt, g
<1> QED  BY <1>0, <1>2, <1>4, <1>5, AfterCheckpoint

LEMMA NothingPowers ==
    ASSUME NEW locks \in EscrowLocks, \A u \in Users : locks[u] = NoLock, NEW t \in Nat
    PROVE  SumFunction(LockPowers(locks, t)) = 0 /\ SumFunction(LockSlopes(locks, t)) = 0
<1> DEFINE f == LockPowers(locks, t)
           g == LockSlopes(locks, t)
<1>1. \A u \in Users : f[u] = 0 /\ g[u] = 0
  BY DEF LockPowers, LockSlopes, PowerOf, SlopeOf, NoLock
<1>2. f \in [Users -> Int] /\ g \in [Users -> Int]
  <2>1. t \in Int
    OBVIOUS
  <2> QED  BY <2>1, LockSumTypes
<1> HIDE DEF f, g
<1>3. SumFunction(f) = 0 /\ SumFunction(g) = 0
  BY <1>1, <1>2, WeekIsPositive, SumOfNone
<1> QED  BY <1>3 DEF f, g

\* Time passes.
LEMMA StepEscrowTick ==
    ASSUME EscrowIInv, EscrowTick
    PROVE  EscrowIInv' /\ PastIsKept
<1>0. /\ now \in Nat /\ now < Horizon /\ now' = now + 1 /\ Horizon \in Nat
      /\ locked' = locked /\ point_history' = point_history /\ user_point_history' = user_point_history
      /\ slope_changes' = slope_changes /\ locked \in EscrowLocks
      /\ user_point_history \in [Users -> Seq(EscrowPoint)] /\ point_history \in Seq(EscrowPoint)
      /\ LastTotal.ts \in Nat /\ LastTotal.ts <= now /\ IsSumOf(LastTotal, locked)
      /\ Schedules(slope_changes, locked, LastTotal.ts)
  <2>1. LastTotal.ts \in Nat
    BY DEF EscrowIInv, TotalIsCurrent, IsSumOf, EscrowPoint
  <2> QED  BY <2>1, WeekIsPositive DEF EscrowIInv, EscrowTypes, TotalIsCurrent, EscrowTick
<1>1. \A u \in Users : InOrder(user_point_history[u], now + 1)
  <2> SUFFICES ASSUME NEW u \in Users PROVE InOrder(user_point_history[u], now + 1)
    OBVIOUS
  <2> DEFINE h == user_point_history[u]
  <2>1. InOrder(h, now)
    BY DEF EscrowIInv, EscrowTypes
  <2> HIDE DEF h
  <2>2. \A i \in 1..Len(h) : h[i].ts \in Nat
    <3>1. h \in Seq(EscrowPoint)
      BY <2>1 DEF InOrder
    <3>2. \A i \in 1..Len(h) : h[i] \in EscrowPoint
      BY <3>1
    <3> QED  BY <3>2 DEF EscrowPoint
  <2>3. \A i \in 1..Len(h) : h[i].ts <= now + 1
    BY <1>0, <2>1, <2>2 DEF InOrder
  <2>4. InOrder(h, now + 1)
    BY <2>1, <2>3 DEF InOrder
  <2> QED  BY <2>4 DEF h
<1>2. EscrowTypes'
  <2>1. \A u \in Users : InOrder(user_point_history'[u], now')
    BY <1>0, <1>1
  <2>2. now' \in 0..Horizon
    BY <1>0
  <2> QED  BY <1>0, <2>1, <2>2 DEF EscrowIInv, EscrowTypes
<1>3. UsersAreCurrent'
  BY <1>0 DEF EscrowIInv, UsersAreCurrent
<1>4. TotalIsCurrent'
  <2>1. CASE point_history # <<>>
    <3>1. LastTotal' = LastTotal
      BY <1>0, <2>1 DEF LastTotal, Last0
    <3>2. LastTotal.ts <= now'
      BY <1>0
    <3>3. point_history' = <<>> => \A u \in Users : user_point_history'[u] = <<>>
      BY <1>0, <2>1
    <3> QED  BY <1>0, <3>1, <3>2, <3>3 DEF TotalIsCurrent
  <2>2. CASE point_history = <<>>
    <3>1. LastTotal = [bias |-> 0, slope |-> 0, ts |-> now] /\ LastTotal' = [bias |-> 0, slope |-> 0, ts |-> now']
      BY <1>0, <2>2 DEF LastTotal, Last0, ZeroPoint
    <3>2. \A u \in Users : user_point_history[u] = <<>> /\ locked[u] = NoLock
      BY <2>2 DEF EscrowIInv, TotalIsCurrent, UsersAreCurrent, IsLastOf
    <3>3. now' \in Nat
      BY <1>0
    <3>4. SumFunction(LockPowers(locked, now')) = 0 /\ SumFunction(LockSlopes(locked, now')) = 0
      BY <1>0, <3>2, <3>3, NothingPowers
    <3>5. IsSumOf(LastTotal', locked') /\ LastTotal.ts' = now'
      BY <1>0, <3>1, <3>3, <3>4 DEF IsSumOf, EscrowPoint
    <3>6. Schedules(slope_changes', locked', now')
      BY <1>0, <3>1, TimesAreNats DEF Schedules
    <3>7. now' <= now'
      BY <3>3
    <3> QED  BY <1>0, <2>2, <3>2, <3>5, <3>6, <3>7 DEF TotalIsCurrent
  <2> QED  BY <2>1, <2>2
<1>5. /\ \A t : TotalSupply(t)' = TotalSupply(t)
      /\ \A u, t : BalanceOf(u, t)' = BalanceOf(u, t)
  BY <1>0 DEF TotalSupply, TotalSupplyIn, SupplyAt, BalanceOf
<1>6. TotalsAgree'
  <2> SUFFICES ASSUME NEW t \in Times PROVE TotalSupply(t)' = SumFunction([u \in Users |-> BalanceOf(u, t)'])
    BY DEF TotalsAgree
  <2>1. TotalSupply(t) = SumFunction([u \in Users |-> BalanceOf(u, t)])
    BY DEF EscrowIInv, TotalsAgree
  <2>2. [u \in Users |-> BalanceOf(u, t)'] = [u \in Users |-> BalanceOf(u, t)]
    BY <1>5
  <2> QED  BY <1>5, <2>1, <2>2
<1>7. \A v \in Users : ExtendsAt(user_point_history[v], user_point_history[v], now)
  <2> SUFFICES ASSUME NEW v \in Users PROVE ExtendsAt(user_point_history[v], user_point_history[v], now)
    OBVIOUS
  <2> DEFINE g == user_point_history[v]
  <2>1. Len(g) \in Nat
    BY <1>0
  <2> HIDE DEF g
  <2> QED  BY <2>1 DEF ExtendsAt, g
<1>8. PastIsKept
  BY <1>0, <1>5, <1>7 DEF PastIsKept
<1> QED  BY <1>2, <1>3, <1>4, <1>6, <1>8 DEF EscrowIInv

LEMMA StepNoEscrow ==
    ASSUME EscrowIInv, UNCHANGED escrowVars
    PROVE  EscrowIInv' /\ PastIsKept
<1>0. /\ now \in Nat /\ now' = now /\ locked' = locked /\ point_history' = point_history
      /\ user_point_history' = user_point_history /\ slope_changes' = slope_changes
      /\ user_point_history \in [Users -> Seq(EscrowPoint)]
  BY WeekIsPositive DEF EscrowIInv, EscrowTypes, escrowVars
<1>1. /\ \A t : TotalSupply(t)' = TotalSupply(t)
      /\ \A u, t : BalanceOf(u, t)' = BalanceOf(u, t)
  BY <1>0 DEF TotalSupply, TotalSupplyIn, SupplyAt, BalanceOf
<1>2. \A v \in Users : ExtendsAt(user_point_history[v], user_point_history[v], now)
  <2> SUFFICES ASSUME NEW v \in Users PROVE ExtendsAt(user_point_history[v], user_point_history[v], now)
    OBVIOUS
  <2> DEFINE g == user_point_history[v]
  <2>1. Len(g) \in Nat
    BY <1>0
  <2> HIDE DEF g
  <2> QED  BY <2>1 DEF ExtendsAt, g
<1>3. PastIsKept
  BY <1>0, <1>1, <1>2 DEF PastIsKept
<1>4. EscrowTypes' /\ UsersAreCurrent'
  BY <1>0 DEF EscrowIInv, EscrowTypes, UsersAreCurrent
<1>5. TotalIsCurrent'
  <2>1. LastTotal' = LastTotal
    BY <1>0 DEF LastTotal, Last0
  <2> QED  BY <1>0, <2>1 DEF EscrowIInv, TotalIsCurrent
<1>6. TotalsAgree'
  <2> SUFFICES ASSUME NEW t \in Times PROVE TotalSupply(t)' = SumFunction([u \in Users |-> BalanceOf(u, t)'])
    BY DEF TotalsAgree
  <2>1. TotalSupply(t) = SumFunction([u \in Users |-> BalanceOf(u, t)])
    BY DEF EscrowIInv, TotalsAgree
  <2>2. [u \in Users |-> BalanceOf(u, t)'] = [u \in Users |-> BalanceOf(u, t)]
    BY <1>1
  <2> QED  BY <1>1, <2>1, <2>2
<1> QED  BY <1>3, <1>4, <1>5, <1>6 DEF EscrowIInv

\* Whatever a user does leaves a lock that ends at the beginning of a week.
LEMMA StepUser ==
    ASSUME EscrowIInv, NEW u \in Users, UserNext(u)
    PROVE  EscrowIInv' /\ PastIsKept
<1>0. locked[u] \in EscrowLock /\ Values \subseteq Nat
  BY EscrowAssumption DEF EscrowIInv, EscrowTypes, EscrowLocks
<1>1. ASSUME NEW value \in Values, NEW t \in Times, CreateLock(u, value, t) PROVE EscrowIInv' /\ PastIsKept
  <2>1. [amount |-> value, end |-> t] \in EscrowLock
    BY <1>0, <1>1 DEF CreateLock, MayUnlockAt, EscrowLock
  <2> QED  BY <1>1, <2>1, StepRelock DEF CreateLock
<1>2. ASSUME NEW value \in Values, DepositFor(u, value) PROVE EscrowIInv' /\ PastIsKept
  <2>1. [locked[u] EXCEPT !.amount = @ + value] \in EscrowLock
    BY <1>0 DEF EscrowLock
  <2> QED  BY <1>2, <2>1, StepRelock DEF DepositFor
<1>3. ASSUME NEW t \in Times, IncreaseUnlockTime(u, t) PROVE EscrowIInv' /\ PastIsKept
  <2>1. [locked[u] EXCEPT !.end = t] \in EscrowLock
    BY <1>0, <1>3 DEF IncreaseUnlockTime, MayUnlockAt, EscrowLock
  <2> QED  BY <1>3, <2>1, StepRelock DEF IncreaseUnlockTime
<1>4. ASSUME Withdraw(u) PROVE EscrowIInv' /\ PastIsKept
  <2>1. [amount |-> 0, end |-> 0] \in EscrowLock
    <3>1. 0 \in Times /\ 0 % Week = 0
      <4>1. 0 = 0 * Week
        BY WeekIsPositive
      <4>2. 0 % Week = 0
        BY <4>1, Multiples
      <4> QED  BY <4>2, WeekIsPositive DEF Times
    <3> QED  BY <3>1 DEF EscrowLock
  <2> QED  BY <1>4, <2>1, StepRelock DEF Withdraw
<1> QED  BY <1>1, <1>2, <1>3, <1>4 DEF UserNext

LEMMA StepEscrow ==
    ASSUME EscrowIInv, EscrowNext
    PROVE  EscrowIInv' /\ PastIsKept
<1>1. CASE CheckpointGlobal
  BY <1>1, StepNobody DEF CheckpointGlobal
<1> QED  BY <1>1, StepUser, StepEscrowTick DEF EscrowNext

\* What the FeeDistributor does to the VotingEscrow.
LEMMA StepCheckpointTotal ==
    ASSUME EscrowIInv, CheckpointTotalSupply
    PROVE  EscrowIInv' /\ PastIsKept
<1>1. CASE UNCHANGED <<escrowVars, timeCursor, veSupplyCache>>
  BY <1>1, StepNoEscrow
<1>2. CASE AddPoints(ZeroPoint, ZeroPoint) /\ UNCHANGED <<now, locked, supply, user_point_history, slope_changes>>
  BY <1>2, StepNobody
<1> QED  BY <1>1, <1>2 DEF CheckpointTotalSupply

LEMMA EscrowAlways ==
    ASSUME EscrowIInv, DistributorNext \/ UNCHANGED distributorVars
    PROVE  EscrowIInv' /\ PastIsKept
<1>1. CASE EscrowNext
  BY <1>1, StepEscrow
<1>2. CASE UNCHANGED escrowVars
  BY <1>2, StepNoEscrow
<1>3. CASE CheckpointTotalSupply
  BY <1>3, StepCheckpointTotal
<1>4. DistributorNext => EscrowNext \/ UNCHANGED escrowVars \/ CheckpointTotalSupply
  BY DEF DistributorNext, CheckpointSupply, CheckpointUser, CheckpointToken, DepositToken, SendToken, ClaimToken
<1>5. UNCHANGED distributorVars => UNCHANGED escrowVars
  BY DEF distributorVars
<1> QED  BY <1>1, <1>2, <1>3, <1>4, <1>5

LEMMA EscrowStarts == EscrowInit => EscrowIInv
<1> SUFFICES ASSUME EscrowInit PROVE EscrowIInv
  OBVIOUS
<1>0. /\ now = 0 /\ locked = [u \in Users |-> NoLock] /\ point_history = <<>>
      /\ user_point_history = [u \in Users |-> <<>>] /\ slope_changes = [t \in Times |-> 0]
  BY DEF EscrowInit, NoLock
<1>1. locked \in EscrowLocks
  <2>1. 0 \in Times /\ 0 % Week = 0
    <3>1. 0 = 0 * Week
      BY WeekIsPositive
    <3>2. 0 % Week = 0
      BY <3>1, Multiples
    <3> QED  BY <3>2, WeekIsPositive DEF Times
  <2>2. NoLock \in EscrowLock
    BY <2>1 DEF EscrowLock, NoLock
  <2> QED  BY <1>0, <2>2 DEF EscrowLocks
<1>2. \A u \in Users : user_point_history[u] = <<>> /\ locked[u] = NoLock
  BY <1>0
<1>3. EscrowTypes
  <2>1. \A u \in Users : InOrder(user_point_history[u], now)
    <3> DEFINE none == <<>>
    <3>1. none \in Seq(EscrowPoint) /\ Len(none) = 0 /\ \A i \in 1..0 : FALSE
      OBVIOUS
    <3> HIDE DEF none
    <3>2. InOrder(none, now)
      BY <3>1 DEF InOrder
    <3> QED  BY <1>2, <3>2 DEF none
  <2>2. now \in 0..Horizon /\ slope_changes \in [Times -> Int] /\ point_history \in Seq(EscrowPoint)
        /\ user_point_history \in [Users -> Seq(EscrowPoint)]
    BY <1>0, WeekIsPositive
  <2> QED  BY <1>1, <2>1, <2>2 DEF EscrowTypes
<1>4. UsersAreCurrent
  BY <1>2 DEF UsersAreCurrent, IsLastOf
<1>5. TotalIsCurrent
  <2>1. LastTotal = [bias |-> 0, slope |-> 0, ts |-> 0]
    BY <1>0 DEF LastTotal, Last0, ZeroPoint
  <2>2. SumFunction(LockPowers(locked, 0)) = 0 /\ SumFunction(LockSlopes(locked, 0)) = 0
    BY <1>1, <1>2, NothingPowers
  <2>3. IsSumOf(LastTotal, locked) /\ LastTotal.ts = 0
    BY <2>1, <2>2 DEF IsSumOf, EscrowPoint
  <2>4. ASSUME NEW w \in Times, w > 0 PROVE slope_changes[w] = 0 - SumFunction(LockEndings(locked, w))
    <3> DEFINE f == LockEndings(locked, w)
    <3>1. w \in Int /\ \A u \in Users : f[u] = 0
      BY <1>2, <2>4, TimesAreNats DEF LockEndings, EndingAt, NoLock
    <3>2. f \in [Users -> Int]
      BY <1>1, <3>1, LockSumTypes
    <3> HIDE DEF f
    <3>3. SumFunction(f) = 0
      BY <3>1, <3>2, WeekIsPositive, SumOfNone
    <3> QED  BY <1>0, <3>3 DEF f
  <2>5. Schedules(slope_changes, locked, 0)
    BY <2>4 DEF Schedules
  <2> QED  BY <1>0, <1>2, <2>3, <2>5 DEF TotalIsCurrent
<1>6. TotalsAgree
  <2> SUFFICES ASSUME NEW t \in Times PROVE TotalSupply(t) = SumFunction([u \in Users |-> BalanceOf(u, t)])
    BY DEF TotalsAgree
  <2>1. \A points : points = <<>> => EpochAt(points, t) = 0
    <3> SUFFICES EpochAt(<<>>, t) = 0
      OBVIOUS
    <3>1. t \in Int /\ <<>> \in Seq(EscrowPoint) /\ Len(<<>>) = 0
      BY TimesAreNats
    <3> DEFINE none == <<>>
    <3>2. none \in Seq(EscrowPoint) /\ Len(none) = 0
      BY <3>1
    <3> HIDE DEF none
    <3>3. EpochAt(none, t) \in 0..Len(none)
      BY <3>1, <3>2, EpochAtIs
    <3>4. EpochAt(none, t) = 0
      BY <3>2, <3>3
    <3> QED  BY <3>4 DEF none
  <2>2. TotalSupply(t) = 0
    BY <1>0, <2>1 DEF TotalSupply, TotalSupplyIn
  <2> DEFINE f == [u \in Users |-> BalanceOf(u, t)]
  <2>3. f \in [Users -> Int] /\ \A u \in Users : f[u] = 0
    BY <1>2, <2>1 DEF BalanceOf
  <2> HIDE DEF f
  <2>4. SumFunction(f) = 0
    BY <2>3, WeekIsPositive, SumOfNone
  <2> QED  BY <2>2, <2>4 DEF f
<1> QED  BY <1>3, <1>4, <1>5, <1>6 DEF EscrowIInv

LEMMA EscrowInvariant == DistributorSpec => []EscrowIInv
<1>1. DistributorInit => EscrowIInv
  BY EscrowStarts DEF DistributorInit
<1>2. EscrowIInv /\ [DistributorNext]_distributorVars => EscrowIInv'
  BY EscrowAlways
<1> QED  BY <1>1, <1>2, PTL DEF DistributorSpec

\* Whatever users lock, extend and withdraw, in whichever blocks, and however many weeks
\* pass without a checkpoint, the total is the sum of the balances, at every time.
THEOREM TotalsAgreeAlways == DistributorSpec => []SupplyIsSum
<1>1. EscrowIInv => SupplyIsSum
  <2> SUFFICES ASSUME EscrowIInv PROVE SupplyIsSum
    OBVIOUS
  <2>1. {now} \cup WeeksIn(-1, Horizon + MaxTime) \subseteq Times
    BY WeekIsPositive DEF EscrowIInv, EscrowTypes, WeeksIn, Times
  <2> QED  BY <2>1 DEF EscrowIInv, TotalsAgree, SupplyIsSum
<1> QED  BY <1>1, EscrowInvariant, PTL
-----------------------------------------------------------------------------
(* Spans of weeks *)

LEMMA FeeWeeksAre ==
    /\ FeeWeeks \subseteq Nat /\ IsFiniteSet(FeeWeeks)
    /\ \A w : w \in FeeWeeks <=> w \in Nat /\ w % Week = 0 /\ w <= Horizon + Week
<1>0. Week \in Nat /\ Horizon \in Nat
  BY WeekIsPositive
<1>1. \A w : w \in FeeWeeks <=> w \in Nat /\ w % Week = 0 /\ w <= Horizon + Week
  BY <1>0 DEF FeeWeeks
<1>2. IsFiniteSet(0..(Horizon + Week)) /\ FeeWeeks \subseteq 0..(Horizon + Week)
  BY <1>0, FS_Interval DEF FeeWeeks
<1> QED  BY <1>1, <1>2, FS_Subset

IsSpan(from, to, n, W, end) == W = WeeksFrom(from, to, n) /\ end = from + Week * Cardinality(W)
SpanGoes(from, to, W, end) ==
    /\ IsFiniteSet(W) /\ W \subseteq FeeWeeks
    /\ end \in Nat /\ end % Week = 0 /\ from <= end
    /\ \A w \in Nat : w % Week = 0 => (w \in W <=> from <= w /\ w < end)
    /\ \A w \in Nat : w \in W => w < to

\* The weeks that one call processes follow each other without a gap, from the first one
\* to the cursor's new value.
LEMMA SpanIs ==
    ASSUME NEW from \in Nat, from % Week = 0, NEW to \in Nat, NEW n \in Nat, to <= Horizon + Week + 1,
           NEW W, NEW end, IsSpan(from, to, n, W, end)
    PROVE  SpanGoes(from, to, W, end)
<1> DEFINE T == {k \in Nat : from + k * Week >= to \/ k = n}
           at(i) == from + i * Week
<1>0. Week \in Nat \ {0} /\ Horizon \in Nat
  BY WeekIsPositive
<1>1. PICK N \in T : \A k \in T : N <= k
  <2>1. T \subseteq Nat /\ n \in T
    OBVIOUS
  <2> HIDE DEF T
  <2> QED  BY <2>1, LeastNatural
<1>2. N \in Nat /\ N <= n /\ (at(N) >= to \/ N = n) /\ \A i \in Nat : i < N => at(i) < to /\ i < n
  <2>1. N \in Nat /\ (at(N) >= to \/ N = n)
    BY <1>1
  <2>2. N <= n
    BY <1>1
  <2>3. ASSUME NEW i \in Nat, i < N PROVE at(i) < to /\ i < n
    <3>1. i \notin T
      BY <1>1, <2>1, <2>3
    <3>2. at(i) \in Nat
      BY <1>0
    <3> QED  BY <2>1, <2>2, <2>3, <3>1, <3>2
  <2> QED  BY <2>1, <2>2, <2>3
<1> HIDE DEF T
<1>3. \A i \in Nat : at(i) \in Nat /\ at(i) % Week = 0 /\ at(i) >= from
  <2> SUFFICES ASSUME NEW i \in Nat PROVE at(i) \in Nat /\ at(i) % Week = 0 /\ at(i) >= from
    OBVIOUS
  <2>1. PICK p \in Nat : from = p * Week
    BY Multiples
  <2>2. at(i) = (p + i) * Week /\ p + i \in Nat
    BY <1>0, <2>1
  <2>3. i * Week \in Nat
    BY <1>0
  <2>4. at(i) \in Nat /\ at(i) >= from
    BY <2>3
  <2> QED  BY <2>2, <2>4, Multiples
<1>4. \A i, j \in Nat : i < j => at(i) < at(j)
  <2> SUFFICES ASSUME NEW i \in Nat, NEW j \in Nat, i < j PROVE at(i) < at(j)
    OBVIOUS
  <2>1. (i + 1) * Week <= j * Week
    BY <1>0
  <2>2. (i + 1) * Week = i * Week + Week /\ i * Week \in Nat /\ j * Week \in Nat
    BY <1>0
  <2> QED  BY <1>0, <2>1, <2>2
<1>5. \A w \in Nat : w % Week = 0 /\ from <= w => \E i \in Nat : w = at(i)
  <2> SUFFICES ASSUME NEW w \in Nat, w % Week = 0, from <= w PROVE \E i \in Nat : w = at(i)
    OBVIOUS
  <2>1. PICK p \in Nat : from = p * Week
    BY Multiples
  <2>2. PICK q \in Nat : w = q * Week
    BY Multiples
  <2>3. p <= q
    <3>1. SUFFICES ASSUME q + 1 <= p PROVE FALSE
      OBVIOUS
    <3>2. (q + 1) * Week <= p * Week
      BY <1>0, <3>1
    <3>3. (q + 1) * Week = q * Week + Week
      BY <1>0
    <3> QED  BY <1>0, <2>1, <2>2, <3>2, <3>3
  <2>4. q - p \in Nat /\ w = from + (q - p) * Week
    BY <1>0, <2>1, <2>2, <2>3
  <2> QED  BY <2>4
<1>6. \A w : w \in W <=> w \in Nat /\ w % Week = 0 /\ w <= Horizon + Week /\ from <= w /\ w < to /\ w < at(n)
  <2>1. \A w : w \in W <=> w \in FeeWeeks /\ from <= w /\ w < to /\ w < at(n)
    BY DEF WeeksFrom, IsSpan
  <2> QED  BY <2>1, FeeWeeksAre
<1> DEFINE M == 0..(N - 1)
           f == [i \in M |-> at(i)]
<1>7. \A i \in M : i \in Nat /\ i < N
  BY <1>2
<1>8. \A i \in M : at(i) \in W
  <2> SUFFICES ASSUME NEW i \in M PROVE at(i) \in W
    OBVIOUS
  <2>1. i \in Nat /\ i < N /\ at(i) < to /\ i < n
    BY <1>2, <1>7
  <2>2. at(i) < at(n)
    BY <1>4, <2>1
  <2>3. at(i) <= Horizon + Week
    BY <1>0, <1>3, <2>1
  <2> HIDE DEF at
  <2> QED  BY <1>3, <1>6, <2>1, <2>2, <2>3
<1>9. \A w \in W : \E i \in M : w = at(i)
  <2> SUFFICES ASSUME NEW w \in W PROVE \E i \in M : w = at(i)
    OBVIOUS
  <2>1. PICK i \in Nat : w = at(i)
    BY <1>5, <1>6
  <2>2. w < to /\ w < at(n) /\ w \in Nat
    BY <1>6
  <2>3. ~(N <= i)
    <3>1. SUFFICES ASSUME N <= i PROVE FALSE
      OBVIOUS
    <3>2. at(N) <= at(i)
      <4>1. CASE N = i
        BY <1>3, <4>1
      <4>2. CASE N < i
        BY <1>2, <1>3, <1>4, <4>2
      <4> QED  BY <1>2, <3>1, <4>1, <4>2
    <3>3. at(N) \in Nat /\ at(i) \in Nat
      BY <1>2, <1>3
    <3> HIDE DEF at
    <3> QED  BY <1>2, <2>1, <2>2, <3>2, <3>3
  <2>4. i \in M
    BY <1>2, <2>3
  <2> QED  BY <2>1, <2>4
<1>10. f \in Bijection(M, W)
  <2>1. f \in [M -> W]
    BY <1>8
  <2>2. \A i, j \in M : f[i] = f[j] => i = j
    <3> SUFFICES ASSUME NEW i \in M, NEW j \in M, at(i) = at(j) PROVE i = j
      OBVIOUS
    <3>1. i \in Nat /\ j \in Nat /\ at(i) \in Nat /\ at(j) \in Nat
      BY <1>3, <1>7
    <3>2. (i < j => at(i) < at(j)) /\ (j < i => at(j) < at(i))
      BY <1>4, <3>1
    <3> HIDE DEF at
    <3> QED  BY <3>1, <3>2
  <2>3. \A w \in W : \E i \in M : f[i] = w
    BY <1>9
  <2>4. DOMAIN f = M
    OBVIOUS
  <2> HIDE DEF f, M, at
  <2>5. f \in Injection(M, W)
    BY <2>1, <2>2, <2>4 DEF Injection, IsInjective
  <2>6. f \in Surjection(M, W)
    BY <2>1, <2>3, <2>4 DEF Surjection
  <2> QED  BY <2>5, <2>6 DEF Bijection
<1>11. IsFiniteSet(M) /\ Cardinality(M) = N
  <2> DEFINE first == 0
             last == N - 1
  <2>1. first \in Int /\ last \in Int /\ M = first..last
    BY <1>2
  <2>2. (IF first > last THEN 0 ELSE last - first + 1) = N
    BY <1>2
  <2> HIDE DEF M, first, last
  <2>3. IsFiniteSet(first..last) /\ Cardinality(first..last) = N
    BY <2>1, <2>2, FS_Interval
  <2> QED  BY <2>1, <2>3
<1>12. IsFiniteSet(W) /\ Cardinality(W) = N
  <2> HIDE DEF f, M
  <2>1. ExistsBijection(M, W)
    BY <1>10 DEF ExistsBijection
  <2> QED  BY <1>11, <2>1, FS_Bijection
<1>13. end = at(N)
  BY <1>0, <1>2, <1>12 DEF IsSpan
<1>14. ASSUME NEW w \in Nat, w % Week = 0 PROVE w \in W <=> from <= w /\ w < end
  <2>1. ASSUME w \in W PROVE from <= w /\ w < end
    <3>1. PICK i \in M : w = at(i)
      BY <1>9, <2>1
    <3>2. at(i) < at(N)
      BY <1>2, <1>4, <1>7
    <3> QED  BY <1>6, <1>13, <2>1, <3>1, <3>2
  <2>2. ASSUME from <= w, w < end PROVE w \in W
    <3>1. PICK i \in Nat : w = at(i)
      BY <1>5, <1>14, <2>2
    <3>2. ~(N <= i)
      <4>1. SUFFICES ASSUME N <= i PROVE FALSE
        OBVIOUS
      <4>2. at(N) <= at(i)
        <5>1. CASE N = i
          BY <1>3, <5>1
        <5>2. CASE N < i
          BY <1>2, <1>3, <1>4, <5>2
        <5> QED  BY <1>2, <4>1, <5>1, <5>2
      <4>3. at(N) \in Nat /\ at(i) \in Nat
        BY <1>2, <1>3
      <4> HIDE DEF at
      <4> QED  BY <1>13, <2>2, <3>1, <4>2, <4>3
    <3>3. i \in M
      BY <1>2, <3>2
    <3> QED  BY <1>8, <3>1, <3>3
  <2> QED  BY <2>1, <2>2
<1>15. W \subseteq FeeWeeks
  BY <1>6, FeeWeeksAre
<1> HIDE DEF at
<1> QED  BY <1>2, <1>3, <1>6, <1>12, <1>13, <1>14, <1>15 DEF SpanGoes

-----------------------------------------------------------------------------
(* Users' points *)

LEMMA FindUserEpochIs ==
    ASSUME NEW points \in Seq(EscrowPoint), NEW t \in Int, NEW min \in 0..Len(points)
    PROVE  /\ FindUserEpoch(points, t, min) \in min..Len(points)
           /\ FindUserEpoch(points, t, min) # min => points[FindUserEpoch(points, t, min)].ts <= t
           /\ \A e \in (min + 1)..Len(points) : points[e].ts <= t => e <= FindUserEpoch(points, t, min)
<1> DEFINE n == Len(points)
           S == {min} \cup {e \in (min + 1)..n : points[e].ts <= t}
<1>1. n \in Nat /\ min \in Int
  OBVIOUS
<1>2. S \subseteq min..n /\ min \in S
  BY <1>1
<1>3. IsFiniteSet(S)
  <2>1. IsFiniteSet(min..n)
    BY <1>1, FS_Interval
  <2> HIDE DEF S
  <2> QED  BY <1>2, <2>1, FS_Subset
<1>4. Max(S) \in S /\ \A y \in S : Max(S) >= y
  <2>1. S # {} /\ S \subseteq Int
    BY <1>1, <1>2
  <2> HIDE DEF S
  <2> QED  BY <1>3, <2>1, MaxIsLargest
<1>5. FindUserEpoch(points, t, min) = Max(S)
  BY DEF FindUserEpoch
<1> QED  BY <1>1, <1>2, <1>4, <1>5

\* Between two points, the first one decides.
LEMMA PowerBetween ==
    ASSUME NEW points, NEW until \in Nat, InOrder(points, until), NEW t \in Nat, NEW e \in 1..Len(points),
           points[e].ts <= t, e < Len(points) => t < points[e + 1].ts
    PROVE  PowerIn(points, t) = AtLeastZero(points[e].bias - points[e].slope * (t - points[e].ts))
<1> DEFINE n == Len(points)
<1>1. points \in Seq(EscrowPoint) /\ n \in Nat /\ \A i \in 1..n : points[i].ts \in Nat
  <2>1. points \in Seq(EscrowPoint)
    BY DEF InOrder
  <2>2. \A i \in 1..n : points[i] \in EscrowPoint
    BY <2>1
  <2> QED  BY <2>1, <2>2 DEF EscrowPoint
<1>2. ASSUME NEW d \in 1..n, points[d].ts <= t PROVE d <= e
  <2>1. SUFFICES ASSUME e + 1 <= d PROVE FALSE
    BY <1>1
  <2>2. e + 1 \in 1..n /\ e < n
    BY <1>1, <2>1
  <2>3. points[e + 1].ts <= points[d].ts
    BY <2>1, <2>2 DEF InOrder
  <2> QED  BY <1>1, <1>2, <2>2, <2>3
<1>3. EpochAt(points, t) = e
  <2>1. t \in Int /\ e \in 0..n
    BY <1>1
  <2> QED  BY <1>1, <1>2, <2>1, EpochAtIsUnique
<1> QED  BY <1>1, <1>3 DEF PowerIn

\* Before the first point there is no power.
LEMMA PowerBefore ==
    ASSUME NEW points, NEW until \in Nat, InOrder(points, until), NEW t \in Nat,
           points # <<>> => t < points[1].ts
    PROVE  PowerIn(points, t) = 0
<1> DEFINE n == Len(points)
<1>1. points \in Seq(EscrowPoint) /\ n \in Nat /\ \A i \in 1..n : points[i].ts \in Nat
  <2>1. points \in Seq(EscrowPoint)
    BY DEF InOrder
  <2>2. \A i \in 1..n : points[i] \in EscrowPoint
    BY <2>1
  <2>3. n \in Nat
    BY <2>1
  <2>4. \A i \in 1..n : points[i].ts \in Nat
    BY <2>2 DEF EscrowPoint
  <2> QED  BY <2>1, <2>3, <2>4
<1>2. ASSUME NEW d \in 1..n, points[d].ts <= t PROVE FALSE
  <2>1. 1 \in 1..n /\ 1 <= d /\ points # <<>>
    BY <1>1
  <2>2. points[1].ts <= points[d].ts
    BY <2>1 DEF InOrder
  <2> QED  BY <1>1, <1>2, <2>1, <2>2
<1>3. EpochAt(points, t) = 0
  <2>1. t \in Int /\ 0 \in 0..n
    BY <1>1
  <2> QED  BY <1>1, <1>2, <2>1, EpochAtIsUnique
<1> QED  BY <1>3 DEF PowerIn
-----------------------------------------------------------------------------
(* The walk of a user's checkpoint *)

Balances == [FeeWeeks -> Nat]

WalkTypes == [week : Nat, epoch : Nat, current : EscrowPoint, next : EscrowPoint, balances : Balances, done : BOOLEAN]

\* What is cached until a week, of the user with these points.
IsCachedUntil(points, week, balances, time) ==
    \A w \in FeeWeeks :
        /\ StartTime <= w /\ w < week => w < time /\ balances[w] = PowerIn(points, w)
        /\ w < StartTime \/ week <= w => balances[w] = 0

Walking(points, from, s) ==
    /\ s \in WalkTypes
    /\ s.epoch \in 1..(Len(points) + 1)
    /\ s.next = IF s.epoch > Len(points) THEN ZeroPoint ELSE points[s.epoch]
    /\ s.week % Week = 0 /\ StartTime <= from /\ from <= s.week
    /\ IsCachedUntil(points, s.week, s.balances, now)

BeforeFirst(points, s) == ~s.done /\ s.epoch <= Len(points) /\ s.next.ts <= s.week
AfterPoint(points, s) == s.epoch > 1 /\ s.current = points[s.epoch - 1] /\ s.current.ts <= s.week

ToNextPoint(q, s, e, c, n) == q = [s EXCEPT !.epoch = e, !.current = c, !.next = n]
ToNextWeek(q, s, power) == q = [s EXCEPT !.balances[s.week] = power, !.week = @ + Week]
NoFurther(q, s, w) == q = [s EXCEPT !.done = TRUE, !.week = w]

LEMMA WalkedToNextPoint ==
    ASSUME NEW s \in WalkTypes, NEW e \in Nat, NEW c \in EscrowPoint, NEW n \in EscrowPoint,
           NEW q, ToNextPoint(q, s, e, c, n)
    PROVE  /\ q \in WalkTypes /\ q.week = s.week /\ q.epoch = e /\ q.current = c /\ q.next = n
           /\ q.balances = s.balances /\ q.done = s.done
<1>1. q = [i \in {"week", "epoch", "current", "next", "balances", "done"} |->
             IF i = "next" THEN n ELSE IF i = "current" THEN c ELSE IF i = "epoch" THEN e ELSE s[i]]
  BY DEF WalkTypes, ToNextPoint
<1>2. q \in WalkTypes
  BY DEF WalkTypes, ToNextPoint
<1> QED  BY <1>1, <1>2

LEMMA WalkedNoFurther ==
    ASSUME NEW s \in WalkTypes, NEW w \in Nat, NEW q, NoFurther(q, s, w)
    PROVE  /\ q \in WalkTypes /\ q.week = w /\ q.epoch = s.epoch /\ q.current = s.current /\ q.next = s.next
           /\ q.balances = s.balances /\ q.done
<1>1. q = [i \in {"week", "epoch", "current", "next", "balances", "done"} |->
             IF i = "week" THEN w ELSE IF i = "done" THEN TRUE ELSE s[i]]
  BY DEF WalkTypes, NoFurther
<1>2. q \in WalkTypes
  BY DEF WalkTypes, NoFurther
<1> QED  BY <1>1, <1>2

LEMMA WalkedToNextWeek ==
    ASSUME NEW s \in WalkTypes, NEW power \in Nat, NEW q, ToNextWeek(q, s, power)
    PROVE  /\ q \in WalkTypes /\ q.week = s.week + Week /\ q.epoch = s.epoch /\ q.current = s.current /\ q.next = s.next
           /\ q.balances = [s.balances EXCEPT ![s.week] = power] /\ q.done = s.done
<1>1. q = [i \in {"week", "epoch", "current", "next", "balances", "done"} |->
             IF i = "week" THEN s.week + Week ELSE IF i = "balances" THEN [s.balances EXCEPT ![s.week] = power] ELSE s[i]]
  BY DEF WalkTypes, ToNextWeek
<1>2. s.week + Week \in Nat
  BY WeekIsPositive DEF WalkTypes
<1>3. [s.balances EXCEPT ![s.week] = power] \in Balances
  BY DEF WalkTypes, Balances
<1>4. q \in WalkTypes
  BY <1>1, <1>2, <1>3 DEF WalkTypes
<1> QED  BY <1>1, <1>4

LEMMA WalkKeeps ==
    ASSUME NEW points, now \in 0..Horizon, InOrder(points, now), NEW from \in Nat, NEW s, Walking(points, from, s),
           BeforeFirst(points, s) \/ AfterPoint(points, s)
    PROVE  Walking(points, from, Walk(points, s)) /\ AfterPoint(points, Walk(points, s))
<1> DEFINE n == Len(points)
           power == AtLeastZero(s.current.bias - s.current.slope * (s.week - s.current.ts))
           r == Walk(points, s)
<1>0. /\ points \in Seq(EscrowPoint) /\ n \in Nat /\ now \in Nat /\ Week \in Nat \ {0} /\ Horizon \in Nat /\ now <= Horizon
      /\ StartTime \in Nat
      /\ s \in WalkTypes /\ s.week \in Nat /\ s.epoch \in Nat /\ s.current \in EscrowPoint /\ s.next \in EscrowPoint
      /\ s.balances \in Balances
  <2>1. points \in Seq(EscrowPoint) /\ StartTime \in Nat
    BY DistributorAssumption DEF InOrder
  <2>2. s \in WalkTypes
    BY DEF Walking
  <2>3. n \in Nat
    BY <2>1
  <2> QED  BY <2>1, <2>2, <2>3, WeekIsPositive DEF WalkTypes
<1>1. /\ s.epoch \in 1..(n + 1) /\ s.next = (IF s.epoch > n THEN ZeroPoint ELSE points[s.epoch])
      /\ s.week % Week = 0 /\ StartTime <= from /\ from <= s.week /\ StartTime <= s.week /\ IsCachedUntil(points, s.week, s.balances, now)
  BY <1>0 DEF Walking
<1>2. power \in Nat
  <2> DEFINE x == s.current.bias - s.current.slope * (s.week - s.current.ts)
  <2>1. x \in Int
    BY <1>0 DEF EscrowPoint
  <2>2. power = AtLeastZero(x)
    OBVIOUS
  <2> HIDE DEF x, power
  <2> QED  BY <2>1, <2>2 DEF AtLeastZero
<1> HIDE DEF power
<1>3. CASE s.done
  <2>1. r = s
    BY <1>3 DEF Walk
  <2> QED  BY <1>3, <2>1 DEF BeforeFirst
<1>4. CASE ~s.done /\ s.week >= s.next.ts /\ s.epoch <= n
  <2> DEFINE next == IF s.epoch = n THEN ZeroPoint ELSE points[s.epoch + 1]
  <2>1. ToNextPoint(r, s, s.epoch + 1, s.next, next)
    BY <1>4 DEF Walk, ToNextPoint
  <2>2. s.epoch + 1 \in Nat /\ next \in EscrowPoint
    <3>1. s.epoch # n => points[s.epoch + 1] \in EscrowPoint
      BY <1>0, <1>1, <1>4
    <3>2. ZeroPoint \in EscrowPoint
      BY DEF ZeroPoint, EscrowPoint
    <3> QED  BY <1>0, <3>1, <3>2
  <2>3. next = IF s.epoch + 1 > n THEN ZeroPoint ELSE points[s.epoch + 1]
    BY <1>0, <1>4
  <2> HIDE DEF r, next
  <2>4. /\ r \in WalkTypes /\ r.week = s.week /\ r.epoch = s.epoch + 1 /\ r.current = s.next /\ r.next = next
        /\ r.balances = s.balances /\ r.done = s.done
    BY <1>0, <2>1, <2>2, WalkedToNextPoint
  <2>5. r.epoch \in 1..(n + 1) /\ r.epoch > 1 /\ r.epoch - 1 = s.epoch
    BY <1>0, <1>1, <1>4, <2>4
  <2>6. r.current = points[s.epoch] /\ r.current.ts <= r.week
    BY <1>0, <1>1, <1>4, <2>4
  <2>7. Walking(points, from, r)
    BY <1>1, <2>3, <2>4, <2>5 DEF Walking
  <2>8. AfterPoint(points, r)
    BY <2>5, <2>6 DEF AfterPoint
  <2> QED  BY <2>7, <2>8 DEF r
<1>5. ASSUME ~s.done, ~(s.week >= s.next.ts /\ s.epoch <= n)
      PROVE  Walking(points, from, r) /\ AfterPoint(points, r)
  <2> DEFINE e == s.epoch - 1
  <2>0. e \in 1..n /\ s.current = points[e] /\ s.current.ts <= s.week /\ s.epoch > 1
    <3>1. s.next.ts \in Nat
      BY <1>0 DEF EscrowPoint
    <3>2. ~(~s.done /\ s.epoch <= n /\ s.next.ts <= s.week)
      BY <1>0, <1>5, <3>1
    <3>3. AfterPoint(points, s)
      BY <3>2 DEF BeforeFirst
    <3>4. s.epoch > 1 /\ s.current = points[e] /\ s.current.ts <= s.week
      BY <3>3 DEF AfterPoint
    <3> QED  BY <1>0, <1>1, <3>4
  <2>1. e < n => s.week < points[e + 1].ts
    <3> SUFFICES ASSUME e < n PROVE s.week < points[e + 1].ts
      OBVIOUS
    <3>1. e + 1 = s.epoch /\ s.epoch <= n
      BY <1>0
    <3>2. s.next = points[s.epoch]
      BY <1>0, <1>1, <3>1
    <3>3. s.next.ts \in Nat
      BY <1>0 DEF EscrowPoint
    <3> QED  BY <1>0, <1>5, <3>1, <3>2, <3>3
  <2>2. power = PowerIn(points, s.week)
    <3>1. s.week \in Nat /\ e \in 1..Len(points) /\ points[e].ts <= s.week /\ (e < Len(points) => s.week < points[e + 1].ts)
      BY <1>0, <2>0, <2>1
    <3> HIDE DEF e
    <3>2. PowerIn(points, s.week) = AtLeastZero(points[e].bias - points[e].slope * (s.week - points[e].ts))
      BY <1>0, <3>1, PowerBetween
    <3> QED  BY <2>0, <3>2 DEF power, e
  <2>3. CASE s.week >= now
    <3>1. r = [s EXCEPT !.done = TRUE]
      BY <1>5, <2>3 DEF Walk
    <3>2. NoFurther(r, s, s.week)
      <4>1. [s EXCEPT !.done = TRUE] = [s EXCEPT !.done = TRUE, !.week = s.week]
        BY <1>0 DEF WalkTypes
      <4> QED  BY <3>1, <4>1 DEF NoFurther
    <3> HIDE DEF r
    <3>3. /\ r \in WalkTypes /\ r.week = s.week /\ r.epoch = s.epoch /\ r.current = s.current /\ r.next = s.next
          /\ r.balances = s.balances
      BY <1>0, <3>2, WalkedNoFurther
    <3> QED  BY <1>1, <2>0, <3>3 DEF Walking, AfterPoint
  <2>4. CASE ~(s.week >= now) /\ power = 0 /\ s.epoch > n
    <3> DEFINE w2 == RoundUp(now)
    <3>1. NoFurther(r, s, w2)
      BY <1>5, <2>4 DEF Walk, NoFurther, power
    <3>2. w2 \in Nat /\ w2 % Week = 0 /\ now <= w2 /\ \A w \in Nat : w % Week = 0 /\ now <= w => w2 <= w
      BY <1>0, RoundUpIs
    <3> HIDE DEF r, w2, power
    <3>3. /\ r \in WalkTypes /\ r.week = w2 /\ r.epoch = s.epoch /\ r.current = s.current /\ r.next = s.next
          /\ r.balances = s.balances
      BY <1>0, <3>1, <3>2, WalkedNoFurther
    <3>4. e = n
      BY <1>0, <2>0, <2>4
    <3>5. ASSUME NEW w \in FeeWeeks, s.week <= w PROVE PowerIn(points, w) = 0
      <4> DEFINE p == points[n]
      <4>1. w \in Nat /\ p = s.current /\ p.ts <= w /\ p.ts <= s.week /\ n \in 1..n
        <5>1. w \in Nat
          BY FeeWeeksAre
        <5>2. p.ts \in Nat
          BY <1>0, <2>0, <3>4 DEF EscrowPoint
        <5> QED  BY <1>0, <2>0, <3>4, <3>5, <5>1, <5>2
      <4>2. PowerIn(points, w) = AtLeastZero(p.bias - p.slope * (w - p.ts))
        <5>1. points[n].ts <= w /\ (n < Len(points) => w < points[n + 1].ts) /\ n \in 1..Len(points)
          BY <4>1
        <5> HIDE DEF n
        <5> QED  BY <1>0, <4>1, <5>1, PowerBetween
      <4>3. p.bias \in Nat /\ p.slope \in Nat /\ p.ts \in Nat
        BY <1>0, <4>1 DEF EscrowPoint
      <4>4. power = AtLeastZero(p.bias - p.slope * (s.week - p.ts))
        BY <4>1 DEF power
      <4> HIDE DEF p
      <4> DEFINE a == p.slope * (s.week - p.ts)
                 b == p.slope * (w - p.ts)
      <4>5. a \in Int /\ b \in Int
        BY <1>0, <4>1, <4>3
      <4>6. a <= b
        <5>1. w - s.week \in Nat
          BY <1>0, <3>5, <4>1
        <5>2. p.slope * (w - s.week) \in Nat
          BY <4>3, <5>1
        <5>3. b = a + p.slope * (w - s.week)
          BY <1>0, <4>1, <4>3
        <5> HIDE DEF a, b
        <5> QED  BY <4>5, <5>2, <5>3
      <4>7. power = AtLeastZero(p.bias - a) /\ PowerIn(points, w) = AtLeastZero(p.bias - b)
        BY <4>2, <4>4
      <4> HIDE DEF a, b
      <4> QED  BY <2>4, <4>3, <4>5, <4>6, <4>7 DEF AtLeastZero
    <3>6. IsCachedUntil(points, w2, s.balances, now)
      <4> SUFFICES ASSUME NEW w \in FeeWeeks
                   PROVE  /\ StartTime <= w /\ w < w2 => w < now /\ s.balances[w] = PowerIn(points, w)
                          /\ w < StartTime \/ w2 <= w => s.balances[w] = 0
        BY DEF IsCachedUntil
      <4>1. w \in Nat /\ w % Week = 0
        BY FeeWeeksAre
      <4>2. s.week < w2
        BY <1>0, <2>4, <3>2
      <4>3. /\ StartTime <= w /\ w < s.week => w < now /\ s.balances[w] = PowerIn(points, w)
            /\ w < StartTime \/ s.week <= w => s.balances[w] = 0
        BY <1>1 DEF IsCachedUntil
      <4>4. w < w2 => w < now
        BY <1>0, <3>2, <4>1
      <4> QED  BY <1>0, <3>2, <3>5, <4>1, <4>2, <4>3, <4>4
    <3>7. from <= w2
      BY <1>0, <1>1, <2>4, <3>2
    <3>8. r.epoch \in 1..(n + 1) /\ r.next = (IF r.epoch > n THEN ZeroPoint ELSE points[r.epoch])
      BY <1>1, <3>3
    <3>9. Walking(points, from, r)
      BY <1>1, <3>2, <3>3, <3>6, <3>7, <3>8 DEF Walking
    <3>10. r.current.ts <= r.week
      <4>1. s.current.ts \in Nat
        BY <1>0 DEF EscrowPoint
      <4> QED  BY <1>0, <2>0, <2>4, <3>2, <3>3, <4>1
    <3> QED  BY <2>0, <3>3, <3>9, <3>10 DEF AfterPoint, r
  <2>5. CASE ~(s.week >= now) /\ ~(power = 0 /\ s.epoch > n)
    <3>1. ToNextWeek(r, s, power)
      BY <1>5, <2>5 DEF Walk, ToNextWeek, power
    <3> HIDE DEF r, power
    <3>2. /\ r \in WalkTypes /\ r.week = s.week + Week /\ r.epoch = s.epoch /\ r.current = s.current /\ r.next = s.next
          /\ r.balances = [s.balances EXCEPT ![s.week] = power]
      BY <1>0, <1>2, <3>1, WalkedToNextWeek
    <3>3. s.week + Week \in Nat /\ (s.week + Week) % Week = 0 /\ s.week \in FeeWeeks
      <4>1. s.week <= Horizon + Week
        BY <1>0, <2>5
      <4>2. s.week \in FeeWeeks
        BY <1>0, <1>1, <4>1, FeeWeeksAre
      <4>3. (s.week + Week) % Week = 0
        BY <1>0, <1>1, WeeksApart
      <4>4. s.week + Week \in Nat
        BY <1>0
      <4> QED  BY <4>2, <4>3, <4>4
    <3>4. IsCachedUntil(points, r.week, r.balances, now)
      <4> SUFFICES ASSUME NEW w \in FeeWeeks
                   PROVE  /\ StartTime <= w /\ w < r.week => w < now /\ r.balances[w] = PowerIn(points, w)
                          /\ w < StartTime \/ r.week <= w => r.balances[w] = 0
        BY DEF IsCachedUntil
      <4>1. w \in Nat /\ w % Week = 0
        BY FeeWeeksAre
      <4>2. /\ StartTime <= w /\ w < s.week => w < now /\ s.balances[w] = PowerIn(points, w)
            /\ w < StartTime \/ s.week <= w => s.balances[w] = 0
        BY <1>1 DEF IsCachedUntil
      <4>3. s.week < w => s.week + Week <= w
        BY <1>0, <1>1, <4>1, WeeksApart
      <4>4. r.balances[w] = IF w = s.week THEN power ELSE s.balances[w]
        BY <1>0, <3>2, <3>3 DEF Balances
      <4> QED  BY <1>0, <1>1, <2>2, <2>5, <3>2, <4>1, <4>2, <4>3, <4>4
    <3>5. r.week % Week = 0 /\ from <= r.week /\ r.current.ts <= r.week
      <4>1. s.current.ts \in Nat
        BY <1>0 DEF EscrowPoint
      <4>2. s.current.ts <= s.week + Week /\ from <= s.week + Week
        BY <1>0, <1>1, <2>0, <4>1
      <4> QED  BY <3>2, <3>3, <4>2
    <3>6. r.epoch \in 1..(n + 1) /\ r.next = (IF r.epoch > n THEN ZeroPoint ELSE points[r.epoch])
      BY <1>1, <3>2
    <3>7. Walking(points, from, r)
      BY <1>1, <3>2, <3>4, <3>5, <3>6 DEF Walking
    <3> QED  BY <2>0, <3>2, <3>5, <3>7 DEF AfterPoint, r
  <2> QED  BY <2>3, <2>4, <2>5
<1> QED  BY <1>3, <1>4, <1>5

\* After all its steps.
LEMMA WalkedIs ==
    ASSUME NEW points, now \in 0..Horizon, InOrder(points, now), NEW from \in Nat, NEW s, Walking(points, from, s), BeforeFirst(points, s)
    PROVE  Walking(points, from, Walked(points, s)) /\ AfterPoint(points, Walked(points, s))
<1> DEFINE n == MaxUserSteps
           E == {e \in WalkTypes : Walking(points, from, e) /\ (BeforeFirst(points, e) \/ AfterPoint(points, e))}
           next == [j \in 1..n |-> [e \in E |-> Walk(points, e)]]
           after[j \in 0..n] == IF j = 0 THEN s ELSE Walk(points, after[j - 1])
<1>1. n \in Nat /\ n >= 1 /\ n - 1 \in 0..n /\ n \in 0..n /\ n # 0
  BY DistributorAssumption
<1>2. s \in E /\ \A e \in E : Walk(points, e) \in E
  <2>1. s \in E
    BY DEF Walking
  <2>2. ASSUME NEW e \in E PROVE Walk(points, e) \in E
    <3>1. Walking(points, from, Walk(points, e)) /\ AfterPoint(points, Walk(points, e))
      BY WalkKeeps
    <3> QED  BY <3>1 DEF Walking
  <2> QED  BY <2>1, <2>2
<1>3. \A j \in 1..n, e \in E : next[j][e] = Walk(points, e) /\ next[j][e] \in E
  <2> HIDE DEF E
  <2> QED  BY <1>2
<1> HIDE DEF next, E, n
<1>4. PICK f \in [0..n -> E] : Recurs(f, 0, n, s, next)
  BY <1>1, <1>2, <1>3, RecursionFromZero
<1>5. f = [j \in 0..n |-> IF j = 0 THEN s ELSE next[j][f[j - 1]]]
  BY <1>4 DEF Recurs
<1>6. ASSUME NEW j \in 0..n, j # 0 PROVE next[j][f[j - 1]] = Walk(points, f[j - 1])
  <2>1. j \in 1..n /\ j - 1 \in 0..n
    BY <1>1, <1>6
  <2> QED  BY <1>3, <1>4, <2>1
<1>7. f = [j \in 0..n |-> IF j = 0 THEN s ELSE Walk(points, f[j - 1])]
  BY <1>5, <1>6
<1>8. after = [j \in 0..n |-> IF j = 0 THEN s ELSE Walk(points, after[j - 1])]
  <2>1. \E g : g = [j \in 0..n |-> IF j = 0 THEN s ELSE Walk(points, g[j - 1])]
    BY <1>7
  <2> QED  BY <2>1
<1>9. Walked(points, s) = after[n]
  BY DEF Walked, n
<1> HIDE DEF after
<1>10. \A j \in 0..n : after[j] \in E
  <2> DEFINE P == {j \in 0..n : after[j] \in E}
  <2>1. 0 \in P
    BY <1>1, <1>2, <1>8
  <2>2. ASSUME NEW j \in 0..(n - 1), j \in P PROVE j + 1 \in P
    <3>1. j + 1 \in 0..n /\ j + 1 # 0 /\ (j + 1) - 1 = j
      BY <1>1
    <3>2. after[j + 1] = Walk(points, after[j])
      BY <1>8, <3>1
    <3> QED  BY <1>2, <2>2, <3>1, <3>2
  <2> HIDE DEF P
  <2>3. 0..n \subseteq P
    BY <1>1, <2>1, <2>2, Induction
  <2> QED  BY <2>3 DEF P
<1>11. after[n] = Walk(points, after[n - 1]) /\ after[n - 1] \in E
  BY <1>1, <1>8, <1>10
<1>12. Walking(points, from, after[n - 1]) /\ (BeforeFirst(points, after[n - 1]) \/ AfterPoint(points, after[n - 1]))
  BY <1>11 DEF E
<1> QED  BY <1>9, <1>11, <1>12, WalkKeeps
-----------------------------------------------------------------------------
(* What the FeeDistributor caches of the VotingEscrow *)

UserTypes == [startTime : Nat, timeCursor : Nat, lastEpoch : Nat, balances : Balances]

\* A user without a checkpoint, or what is cached until the cursor, with nothing before
\* the start; the walk continues from a point before the cursor.
UserIsCached(points, s, time) ==
    /\ s \in UserTypes
    /\ s.timeCursor = 0 => s.startTime = 0 /\ s.lastEpoch = 0 /\ \A w \in FeeWeeks : s.balances[w] = 0
    /\ s.timeCursor # 0 =>
          /\ s.timeCursor % Week = 0 /\ s.startTime % Week = 0
          /\ StartTime <= s.startTime /\ s.startTime <= s.timeCursor
          /\ s.lastEpoch \in 1..Len(points) /\ points[s.lastEpoch].ts <= s.timeCursor
          /\ IsCachedUntil(points, s.timeCursor, s.balances, time)
          /\ \A w \in FeeWeeks : StartTime <= w /\ w < s.startTime => PowerIn(points, w) = 0

UsersAreCached ==
    /\ userState \in [Users -> UserTypes]
    /\ \A u \in Users : UserIsCached(user_point_history[u], userState[u], now)

TotalIsCached ==
    /\ timeCursor \in Nat /\ timeCursor % Week = 0 /\ StartTime <= timeCursor
    /\ veSupplyCache \in [FeeWeeks -> Nat]
    /\ \A w \in FeeWeeks : StartTime <= w /\ w < timeCursor => w < now /\ veSupplyCache[w] = TotalSupply(w)

LEMMA StartIs == StartTime \in Nat /\ StartTime > 0 /\ StartTime % Week = 0
BY DistributorAssumption

\* What is cached is of the past.
LEMMA UserStays ==
    ASSUME NEW points, NEW time \in Nat, InOrder(points, time), NEW s, UserIsCached(points, s, time),
           NEW points2 \in Seq(EscrowPoint), ExtendsAt(points, points2, time), NEW time2 \in Nat, time <= time2
    PROVE  UserIsCached(points2, s, time2)
<1>0. points \in Seq(EscrowPoint) /\ Len(points) \in Nat /\ Len(points2) \in Nat /\ Len(points) <= Len(points2)
      /\ \A i \in 1..Len(points) : points2[i] = points[i]
  <2>1. points \in Seq(EscrowPoint)
    BY DEF InOrder
  <2> QED  BY <2>1 DEF ExtendsAt
<1>1. s \in UserTypes /\ s.timeCursor \in Nat /\ s.startTime \in Nat
  BY DEF UserIsCached, UserTypes
<1>2. \A w \in Nat : w < time => PowerIn(points2, w) = PowerIn(points, w)
  BY <1>0, ExtendedPower
<1>3. CASE s.timeCursor = 0
  BY <1>1, <1>3 DEF UserIsCached
<1>4. CASE s.timeCursor # 0
  <2>1. /\ s.timeCursor % Week = 0 /\ s.startTime % Week = 0
        /\ StartTime <= s.startTime /\ s.startTime <= s.timeCursor
        /\ s.lastEpoch \in 1..Len(points) /\ points[s.lastEpoch].ts <= s.timeCursor
        /\ IsCachedUntil(points, s.timeCursor, s.balances, time)
        /\ \A w \in FeeWeeks : StartTime <= w /\ w < s.startTime => PowerIn(points, w) = 0
    BY <1>4 DEF UserIsCached
  <2>2. s.lastEpoch \in 1..Len(points2) /\ points2[s.lastEpoch].ts <= s.timeCursor
    BY <1>0, <2>1
  <2>3. \A w \in FeeWeeks : StartTime <= w /\ w < s.timeCursor => w < time /\ w < time2 /\ PowerIn(points2, w) = PowerIn(points, w)
    BY <1>2, <2>1, FeeWeeksAre DEF IsCachedUntil
  <2>4. IsCachedUntil(points2, s.timeCursor, s.balances, time2)
    BY <2>1, <2>3 DEF IsCachedUntil
  <2>5. \A w \in FeeWeeks : StartTime <= w /\ w < s.startTime => PowerIn(points2, w) = 0
    <3> SUFFICES ASSUME NEW w \in FeeWeeks, StartTime <= w, w < s.startTime PROVE PowerIn(points2, w) = 0
      OBVIOUS
    <3>1. w < s.timeCursor
      BY <1>1, <2>1, FeeWeeksAre
    <3> QED  BY <2>1, <2>3, <3>1
  <2> QED  BY <1>1, <1>4, <2>1, <2>2, <2>4, <2>5 DEF UserIsCached
<1> QED  BY <1>3, <1>4

\* The state in which a user's checkpoint starts its walk.
LEMMA WalkStarts ==
    ASSUME NEW points, now \in 0..Horizon, InOrder(points, now), points # <<>>,
           NEW from \in Nat, StartTime <= from, NEW week \in Nat, from <= week, week % Week = 0,
           NEW epoch \in 1..Len(points), points[epoch].ts <= week,
           NEW balances \in Balances, IsCachedUntil(points, week, balances, now),
           NEW s, s = [week |-> week, epoch |-> epoch, current |-> ZeroPoint, next |-> points[epoch],
                       balances |-> balances, done |-> FALSE]
    PROVE  Walking(points, from, s) /\ BeforeFirst(points, s)
<1>0. points \in Seq(EscrowPoint) /\ Len(points) \in Nat
  <2>1. points \in Seq(EscrowPoint)
    BY DEF InOrder
  <2> QED  BY <2>1
<1>1. points[epoch] \in EscrowPoint /\ ZeroPoint \in EscrowPoint /\ epoch \in Nat /\ ~(epoch > Len(points))
  <2>1. points[epoch] \in EscrowPoint /\ epoch \in Nat /\ ~(epoch > Len(points))
    BY <1>0
  <2>2. ZeroPoint \in EscrowPoint
    BY DEF ZeroPoint, EscrowPoint
  <2> QED  BY <2>1, <2>2
<1>2. s \in WalkTypes
  BY <1>1 DEF WalkTypes
<1>3. /\ s.week = week /\ s.epoch = epoch /\ s.current = ZeroPoint /\ s.next = points[epoch] /\ s.balances = balances
      /\ ~s.done
  OBVIOUS
<1>4. s.epoch \in 1..(Len(points) + 1) /\ s.epoch <= Len(points) /\ ~(s.epoch > Len(points))
  BY <1>0, <1>3
<1>5. Walking(points, from, s)
  BY <1>2, <1>3, <1>4 DEF Walking
<1>6. BeforeFirst(points, s)
  BY <1>3, <1>4 DEF BeforeFirst
<1> QED  BY <1>5, <1>6

\* A user's state after a walk.
LEMMA WalkEnds ==
    ASSUME NEW points, now \in 0..Horizon, InOrder(points, now), NEW from \in Nat, from % Week = 0,
           NEW e, Walking(points, from, e), AfterPoint(points, e),
           \A w \in FeeWeeks : StartTime <= w /\ w < from => PowerIn(points, w) = 0,
           NEW s, s = [startTime |-> from, timeCursor |-> e.week, lastEpoch |-> e.epoch - 1, balances |-> e.balances]
    PROVE  UserIsCached(points, s, now) /\ s \in UserTypes
<1>0. points \in Seq(EscrowPoint) /\ Len(points) \in Nat
  <2>1. points \in Seq(EscrowPoint)
    BY DEF InOrder
  <2> QED  BY <2>1
<1>1. /\ e.week \in Nat /\ e.epoch \in 1..(Len(points) + 1) /\ e.balances \in Balances
      /\ e.week % Week = 0 /\ StartTime <= from /\ from <= e.week /\ IsCachedUntil(points, e.week, e.balances, now)
  BY DEF Walking, WalkTypes
<1>2. e.epoch > 1 /\ e.current = points[e.epoch - 1] /\ e.current.ts <= e.week
  BY DEF AfterPoint
<1>3. e.epoch - 1 \in 1..Len(points) /\ e.epoch - 1 \in Nat
  BY <1>0, <1>1, <1>2
<1>4. s.startTime = from /\ s.timeCursor = e.week /\ s.lastEpoch = e.epoch - 1 /\ s.balances = e.balances
  OBVIOUS
<1>5. s \in UserTypes
  BY <1>1, <1>3 DEF UserTypes
<1>6. s.timeCursor # 0
  BY <1>1, <1>4, StartIs
<1>7. points[s.lastEpoch].ts <= s.timeCursor
  BY <1>2, <1>4
<1> QED  BY <1>1, <1>3, <1>4, <1>5, <1>6, <1>7 DEF UserIsCached

LEMMA CheckpointedUser ==
    ASSUME now \in 0..Horizon, NEW u \in Users, InOrder(user_point_history[u], now),
           userState \in [Users -> UserTypes], UserIsCached(user_point_history[u], userState[u], now),
           CheckpointUserBalance(u)
    PROVE  /\ userState' \in [Users -> UserTypes]
           /\ \A v \in Users : v # u => userState'[v] = userState[v]
           /\ UserIsCached(user_point_history[u], userState'[u], now)
<1> DEFINE s == userState[u]
           points == user_point_history[u]
           first == s.timeCursor = 0
           found == IF first THEN FindUserEpoch(points, StartTime, 0)
                    ELSE IF Len(points) - s.lastEpoch > EpochGap
                         THEN FindUserEpoch(points, s.timeCursor, s.lastEpoch)
                         ELSE s.lastEpoch
           epoch == Max({1, found})
           week == IF first THEN Max({StartTime, RoundUp(points[epoch].ts)}) ELSE s.timeCursor
           start == [week |-> week, epoch |-> epoch, current |-> ZeroPoint,
                     next |-> points[epoch], balances |-> s.balances, done |-> FALSE]
           end == Walked(points, start)
           from == IF first THEN week ELSE s.startTime
           new == [startTime |-> from, timeCursor |-> end.week, lastEpoch |-> end.epoch - 1, balances |-> end.balances]
<1>1. CASE UNCHANGED userState
  BY <1>1
<1>2. ASSUME points # <<>>, ~(points = <<>> \/ (~first /\ s.timeCursor >= now)), userState' = [userState EXCEPT ![u] = new]
      PROVE  /\ userState' \in [Users -> UserTypes]
             /\ \A v \in Users : v # u => userState'[v] = userState[v]
             /\ UserIsCached(user_point_history[u], userState'[u], now)
  <2>0. /\ points \in Seq(EscrowPoint) /\ Len(points) \in Nat /\ Len(points) >= 1 /\ now \in Nat
        /\ \A i \in 1..Len(points) : points[i].ts \in Nat /\ points[i].ts <= now
        /\ s \in UserTypes /\ s.timeCursor \in Nat /\ s.startTime \in Nat /\ s.lastEpoch \in Nat /\ s.balances \in Balances
        /\ StartTime \in Nat /\ StartTime \in Int
    <3>1. points \in Seq(EscrowPoint)
      BY DEF InOrder
    <3>2. \A i \in 1..Len(points) : points[i] \in EscrowPoint
      BY <3>1
    <3>3. Len(points) \in Nat /\ Len(points) >= 1
      BY <1>2, <3>1
    <3>4. s \in UserTypes
      BY DEF UserIsCached
    <3>5. now \in Nat
      BY WeekIsPositive
    <3>6. \A i \in 1..Len(points) : points[i].ts \in Nat /\ points[i].ts <= now
      BY <3>2 DEF InOrder, EscrowPoint
    <3> QED  BY <3>1, <3>3, <3>4, <3>5, <3>6, StartIs DEF UserTypes
  <2>1. /\ from \in Nat /\ from % Week = 0 /\ StartTime <= from /\ week \in Nat /\ from <= week /\ week % Week = 0
        /\ epoch \in 1..Len(points) /\ points[epoch].ts <= week
        /\ IsCachedUntil(points, week, s.balances, now)
        /\ \A w \in FeeWeeks : StartTime <= w /\ w < from => PowerIn(points, w) = 0
    <3>1. CASE first
      <4> DEFINE none == 0
      <4>0. none \in 0..Len(points)
        BY <2>0
      <4> HIDE DEF none
      <4>1. /\ FindUserEpoch(points, StartTime, none) \in none..Len(points)
            /\ FindUserEpoch(points, StartTime, none) # none => points[FindUserEpoch(points, StartTime, none)].ts <= StartTime
        BY <2>0, <4>0, FindUserEpochIs
      <4>2. found = FindUserEpoch(points, StartTime, 0)
        BY <3>1
      <4> HIDE DEF found, points
      <4>3. found \in 0..Len(points) /\ (found # 0 => points[found].ts <= StartTime)
        BY <4>1, <4>2 DEF none
      <4>4. found \in Int /\ epoch = IF 1 >= found THEN 1 ELSE found
        <5>1. found \in Int
          BY <2>0, <4>3
        <5> HIDE DEF found
        <5> QED  BY <5>1, MaxOfTwo
      <4>5. epoch \in 1..Len(points)
        BY <2>0, <4>3, <4>4
      <4>6. found = 0 => epoch = 1
        BY <4>4
      <4>7. found # 0 => points[epoch].ts <= StartTime
        BY <2>0, <4>3, <4>4
      <4> HIDE DEF epoch
      <4> DEFINE t == points[epoch].ts
      <4>8. t \in Nat /\ t <= now
        BY <2>0, <4>5
      <4>9. /\ RoundUp(t) \in Nat /\ RoundUp(t) % Week = 0 /\ t <= RoundUp(t)
            /\ \A w \in Nat : w % Week = 0 /\ t <= w => RoundUp(t) <= w
        <5> HIDE DEF t
        <5> QED  BY <4>8, RoundUpIs
      <4>10. week = IF StartTime >= RoundUp(t) THEN StartTime ELSE RoundUp(t)
        <5>1. week = Max({StartTime, RoundUp(t)})
          BY <3>1
        <5> HIDE DEF week, t
        <5> QED  BY <2>0, <4>9, <5>1, MaxOfTwo
      <4>11. from = week
        BY <3>1
      <4> HIDE DEF week, t, from, s
      <4>12. week \in Nat /\ week % Week = 0 /\ StartTime <= week /\ t <= week
        BY <2>0, <4>8, <4>9, <4>10, StartIs
      <4>13. ASSUME NEW w \in FeeWeeks, StartTime <= w, w < week PROVE w < now /\ PowerIn(points, w) = 0
        <5>0. w \in Nat /\ w % Week = 0
          BY FeeWeeksAre
        <5>1. week = RoundUp(t) /\ StartTime < RoundUp(t)
          BY <2>0, <4>9, <4>10, <4>13, <5>0
        <5>2. w < t
          BY <4>8, <4>9, <4>13, <5>0, <5>1
        <5>3. found = 0
          <6>1. SUFFICES ASSUME found # 0 PROVE FALSE
            OBVIOUS
          <6>2. t <= StartTime
            BY <4>7, <6>1 DEF t
          <6>3. RoundUp(t) <= StartTime
            BY <2>0, <4>9, <6>2, StartIs
          <6> QED  BY <2>0, <4>9, <5>1, <6>3
        <5>4. w < points[1].ts
          BY <4>6, <5>2, <5>3 DEF t
        <5>5. PowerIn(points, w) = 0
          BY <2>0, <5>0, <5>4, PowerBefore DEF points
        <5>6. w < now
          BY <2>0, <4>8, <5>0, <5>2
        <5> QED  BY <5>5, <5>6
      <4>14. \A w \in FeeWeeks : s.balances[w] = 0
        BY <3>1 DEF UserIsCached, s
      <4>15. IsCachedUntil(points, week, s.balances, now)
        BY <4>13, <4>14 DEF IsCachedUntil
      <4> QED  BY <4>5, <4>11, <4>12, <4>13, <4>15 DEF t
    <3>2. CASE ~first
      <4>1. /\ s.timeCursor % Week = 0 /\ s.startTime % Week = 0
            /\ StartTime <= s.startTime /\ s.startTime <= s.timeCursor
            /\ s.lastEpoch \in 1..Len(points) /\ points[s.lastEpoch].ts <= s.timeCursor
            /\ IsCachedUntil(points, s.timeCursor, s.balances, now)
            /\ \A w \in FeeWeeks : StartTime <= w /\ w < s.startTime => PowerIn(points, w) = 0
        BY <3>2 DEF UserIsCached
      <4>2. week = s.timeCursor /\ from = s.startTime
        BY <3>2
      <4> DEFINE f == FindUserEpoch(points, s.timeCursor, s.lastEpoch)
      <4>3. f \in s.lastEpoch..Len(points) /\ (f # s.lastEpoch => points[f].ts <= s.timeCursor)
        <5>1. s.lastEpoch \in 0..Len(points) /\ s.timeCursor \in Int
          BY <2>0, <4>1
        <5> HIDE DEF points, s
        <5> QED  BY <2>0, <5>1, FindUserEpochIs
      <4>4. found \in {f, s.lastEpoch}
        BY <3>2
      <4> HIDE DEF found, f
      <4>5. found \in 1..Len(points) /\ points[found].ts <= s.timeCursor
        BY <2>0, <4>1, <4>3, <4>4
      <4>6. epoch = found
        <5>1. found \in Int /\ (1 >= found => found = 1)
          BY <2>0, <4>5
        <5>2. epoch = IF 1 >= found THEN 1 ELSE found
          BY <5>1, MaxOfTwo
        <5> QED  BY <5>1, <5>2
      <4> QED  BY <2>0, <4>1, <4>2, <4>5, <4>6
    <3> QED  BY <3>1, <3>2
  <2> HIDE DEF from, week, epoch, points, s
  <2>2. Walking(points, from, start) /\ BeforeFirst(points, start)
    <3>1. InOrder(points, now)
      BY DEF points
    <3> HIDE DEF start
    <3>2. start = [week |-> week, epoch |-> epoch, current |-> ZeroPoint, next |-> points[epoch],
                   balances |-> s.balances, done |-> FALSE]
      BY DEF start
    <3> QED  BY <1>2, <2>0, <2>1, <3>1, <3>2, WalkStarts
  <2> HIDE DEF start
  <2>3. Walking(points, from, end) /\ AfterPoint(points, end)
    <3>1. InOrder(points, now)
      BY DEF points
    <3> QED  BY <2>1, <2>2, <3>1, WalkedIs
  <2> HIDE DEF end
  <2>4. UserIsCached(points, new, now) /\ new \in UserTypes
    <3>1. InOrder(points, now)
      BY DEF points
    <3> DEFINE m == new
    <3>2. m = [startTime |-> from, timeCursor |-> end.week, lastEpoch |-> end.epoch - 1, balances |-> end.balances]
      OBVIOUS
    <3> HIDE DEF new
    <3>3. UserIsCached(points, m, now) /\ m \in UserTypes
      BY <2>1, <2>3, <3>1, <3>2, WalkEnds
    <3> QED  BY <3>3
  <2> HIDE DEF new
  <2>5. userState' \in [Users -> UserTypes] /\ userState'[u] = new /\ \A v \in Users : v # u => userState'[v] = userState[v]
    BY <1>2, <2>4
  <2> QED  BY <2>4, <2>5 DEF points
<1>3. CASE points = <<>> \/ (~first /\ s.timeCursor >= now)
  BY <1>1, <1>3 DEF CheckpointUserBalance
<1>4. CASE ~(points = <<>> \/ (~first /\ s.timeCursor >= now))
  <2>1. userState' = [userState EXCEPT ![u] = new] /\ points # <<>>
    BY <1>4 DEF CheckpointUserBalance
  <2> QED  BY <1>2, <1>4, <2>1
<1> QED  BY <1>3, <1>4

\* A week's total does not change after it is cached.
LEMMA StepTotal ==
    ASSUME EscrowIInv, EscrowIInv', PastIsKept, TotalIsCached,
           CheckpointTotalSupply \/ UNCHANGED <<timeCursor, veSupplyCache>>
    PROVE  TotalIsCached'
<1>0. /\ now \in Nat /\ now' \in Nat /\ now <= now' /\ now <= Horizon /\ now \in 0..Horizon
      /\ Week \in Nat \ {0} /\ Horizon \in Nat /\ StartTime \in Nat /\ MaxTime \in Nat
  BY WeekIsPositive, StartIs DEF EscrowIInv, EscrowTypes, PastIsKept
<1>1. /\ timeCursor \in Nat /\ timeCursor % Week = 0 /\ StartTime <= timeCursor /\ veSupplyCache \in [FeeWeeks -> Nat]
      /\ \A w \in FeeWeeks : StartTime <= w /\ w < timeCursor => w < now /\ veSupplyCache[w] = TotalSupply(w)
  BY DEF TotalIsCached
<1>2. \A w \in FeeWeeks : w < now => w < now' /\ w \in Times /\ TotalSupply(w)' = TotalSupply(w)
  <2> SUFFICES ASSUME NEW w \in FeeWeeks, w < now PROVE w < now' /\ w \in Times /\ TotalSupply(w)' = TotalSupply(w)
    OBVIOUS
  <2>1. w \in Nat
    BY FeeWeeksAre
  <2>2. w \in Times
    BY <1>0, <2>1 DEF Times
  <2> QED  BY <1>0, <2>1, <2>2 DEF PastIsKept
<1>3. CASE UNCHANGED <<timeCursor, veSupplyCache>>
  <2>1. timeCursor' = timeCursor /\ veSupplyCache' = veSupplyCache
    BY <1>3
  <2>2. \A w \in FeeWeeks : StartTime <= w /\ w < timeCursor' => w < now' /\ veSupplyCache'[w] = TotalSupply(w)'
    BY <1>1, <1>2, <2>1
  <2> QED  BY <1>1, <2>1, <2>2 DEF TotalIsCached
<1> DEFINE weekStart == RoundDown(now)
           to == weekStart + Week
           weeks == WeeksFrom(timeCursor, to, MaxWeeks)
           end == timeCursor + Week * Cardinality(weeks)
<1>4. ASSUME ~(timeCursor > weekStart \/ now = weekStart),
             slope_changes' = slope_changes, now' = now,
             veSupplyCache' = [w \in FeeWeeks |-> IF w \in weeks THEN TotalSupplyIn(point_history', w) ELSE veSupplyCache[w]],
             timeCursor' = end
      PROVE  TotalIsCached'
  <2>1. /\ weekStart \in Nat /\ weekStart % Week = 0 /\ weekStart <= now
        /\ \A w \in Nat : w % Week = 0 /\ w <= now => w <= weekStart
    BY <1>0, RoundDownIs
  <2>2. weekStart < now
    BY <1>0, <1>4, <2>1
  <2> HIDE DEF weekStart
  <2>3. to \in Nat /\ to <= Horizon + Week + 1 /\ to % Week = 0
    <3>1. to % Week = 0
      BY <1>0, <2>1, WeeksApart
    <3> QED  BY <1>0, <2>1, <3>1
  <2>4. MaxWeeks \in Nat
    BY DistributorAssumption
  <2> HIDE DEF to
  <2>5. /\ end \in Nat /\ end % Week = 0 /\ timeCursor <= end
        /\ \A w \in Nat : w % Week = 0 => (w \in weeks <=> timeCursor <= w /\ w < end)
        /\ \A w \in Nat : w \in weeks => w < to
    <3> DEFINE e == end
               W == weeks
    <3>1. IsSpan(timeCursor, to, MaxWeeks, W, e)
      BY DEF IsSpan
    <3> HIDE DEF e, W
    <3>2. /\ e \in Nat /\ e % Week = 0 /\ timeCursor <= e
          /\ \A w \in Nat : w % Week = 0 => (w \in W <=> timeCursor <= w /\ w < e)
          /\ \A w \in Nat : w \in W => w < to
      BY <1>1, <2>3, <2>4, <3>1, SpanIs DEF SpanGoes
    <3> QED  BY <3>2 DEF e, W
  <2> HIDE DEF weeks, end
  <2>6. ASSUME NEW w \in FeeWeeks, w \in weeks PROVE w < now /\ TotalSupplyIn(point_history', w) = TotalSupply(w)'
    <3>1. w \in Nat /\ w % Week = 0 /\ w < to
      BY <2>5, <2>6, FeeWeeksAre
    <3>2. w <= weekStart
      <4>1. SUFFICES ASSUME weekStart < w PROVE FALSE
        BY <2>1, <3>1
      <4>2. weekStart + Week <= w
        BY <2>1, <3>1, <4>1, WeeksApart
      <4> QED  BY <1>0, <2>1, <3>1, <4>2 DEF to
    <3>3. TotalSupplyIn(point_history', w) = TotalSupply(w)'
      BY <1>4 DEF TotalSupply, TotalSupplyIn, SupplyAt
    <3> QED  BY <1>0, <2>1, <2>2, <3>1, <3>2, <3>3
  <2>7. ASSUME NEW w \in FeeWeeks, w \in weeks PROVE TotalSupply(w)' \in Nat
    <3>1. w \in Nat /\ w \in Times
      BY <1>0, <2>6, <2>7, FeeWeeksAre DEF Times
    <3> DEFINE f == [u \in Users |-> BalanceOf(u, w)']
    <3>2. TotalSupply(w)' = SumFunction(f)
      BY <3>1 DEF EscrowIInv, TotalsAgree
    <3>3. \A u \in Users : BalanceOf(u, w)' \in Nat
      <4> SUFFICES ASSUME NEW u \in Users PROVE BalanceOf(u, w)' \in Nat
        OBVIOUS
      <4>1. BalanceOf(u, w)' = PowerIn(user_point_history'[u], w)
        BY DEF BalanceOf, PowerIn
      <4>2. user_point_history'[u] \in Seq(EscrowPoint)
        BY DEF EscrowIInv, EscrowTypes
      <4> QED  BY <3>1, <4>1, <4>2, PowerIsNat
    <3>4. f \in [Users -> Nat]
      BY <3>3
    <3> HIDE DEF f
    <3> QED  BY <3>2, <3>4, WeekIsPositive, SumOfNats
  <2>8. veSupplyCache' \in [FeeWeeks -> Nat]
    <3>1. \A w \in FeeWeeks : (IF w \in weeks THEN TotalSupplyIn(point_history', w) ELSE veSupplyCache[w]) \in Nat
      BY <1>1, <2>6, <2>7
    <3> QED  BY <1>4, <3>1
  <2>9. ASSUME NEW w \in FeeWeeks, StartTime <= w, w < timeCursor'
        PROVE  w < now' /\ veSupplyCache'[w] = TotalSupply(w)'
    <3>0. w \in Nat /\ w % Week = 0
      BY FeeWeeksAre
    <3>1. CASE w \in weeks
      BY <1>4, <2>6, <3>1
    <3>2. CASE w \notin weeks
      <4>1. w < timeCursor
        BY <1>1, <1>4, <2>5, <2>9, <3>0, <3>2
      <4>2. w < now /\ veSupplyCache[w] = TotalSupply(w)
        BY <1>1, <2>9, <4>1
      <4> QED  BY <1>2, <1>4, <3>2, <4>2
    <3> QED  BY <3>1, <3>2
  <2> QED  BY <1>0, <1>1, <1>4, <2>5, <2>8, <2>9 DEF TotalIsCached
<1>5. CheckpointTotalSupply =>
         \/ UNCHANGED <<timeCursor, veSupplyCache>>
         \/ /\ ~(timeCursor > weekStart \/ now = weekStart)
            /\ slope_changes' = slope_changes /\ now' = now
            /\ veSupplyCache' = [w \in FeeWeeks |-> IF w \in weeks THEN TotalSupplyIn(point_history', w) ELSE veSupplyCache[w]]
            /\ timeCursor' = end
  BY DEF CheckpointTotalSupply
<1> HIDE DEF weekStart, weeks, end
<1> QED  BY <1>3, <1>4, <1>5

\* Nor does a user's balance.
LEMMA StepUsers ==
    ASSUME EscrowIInv, EscrowIInv', PastIsKept, UsersAreCached,
           \/ UNCHANGED userState
           \/ \E u \in Users : CheckpointUserBalance(u)
    PROVE  UsersAreCached'
<1>0. /\ now \in Nat /\ now' \in Nat /\ now <= now' /\ now \in 0..Horizon
      /\ \A u \in Users : /\ InOrder(user_point_history[u], now) /\ user_point_history'[u] \in Seq(EscrowPoint)
                          /\ ExtendsAt(user_point_history[u], user_point_history'[u], now)
  BY WeekIsPositive DEF EscrowIInv, EscrowTypes, PastIsKept
<1>1. userState \in [Users -> UserTypes] /\ \A u \in Users : UserIsCached(user_point_history[u], userState[u], now)
  BY DEF UsersAreCached
<1>2. userState' \in [Users -> UserTypes] /\ \A u \in Users : UserIsCached(user_point_history[u], userState'[u], now)
  <2>1. CASE UNCHANGED userState
    BY <1>1, <2>1
  <2>2. CASE \E u \in Users : CheckpointUserBalance(u)
    <3>1. PICK u \in Users : CheckpointUserBalance(u)
      BY <2>2
    <3>2. /\ userState' \in [Users -> UserTypes]
          /\ \A v \in Users : v # u => userState'[v] = userState[v]
          /\ UserIsCached(user_point_history[u], userState'[u], now)
      BY <1>0, <1>1, <3>1, CheckpointedUser
    <3>3. ASSUME NEW v \in Users PROVE UserIsCached(user_point_history[v], userState'[v], now)
      BY <1>1, <3>2
    <3> QED  BY <3>2, <3>3
  <2> QED  BY <2>1, <2>2
<1>3. \A u \in Users : UserIsCached(user_point_history'[u], userState'[u], now')
  BY <1>0, <1>2, UserStays
<1> QED  BY <1>2, <1>3 DEF UsersAreCached

CacheIInv == EscrowIInv /\ TotalIsCached /\ UsersAreCached

LEMMA CacheStep ==
    ASSUME CacheIInv, DistributorNext \/ UNCHANGED distributorVars
    PROVE  CacheIInv' /\ PastIsKept
<1>1. EscrowIInv /\ EscrowIInv' /\ PastIsKept
  BY EscrowAlways DEF CacheIInv
<1>2. CheckpointTotalSupply \/ UNCHANGED <<timeCursor, veSupplyCache>>
  BY DEF DistributorNext, CheckpointSupply, CheckpointUser, CheckpointToken, DepositToken, SendToken, ClaimToken,
         cacheVars, distributorVars
<1>3. UNCHANGED userState \/ \E u \in Users : CheckpointUserBalance(u)
  BY DEF DistributorNext, CheckpointSupply, CheckpointUser, CheckpointToken, DepositToken, SendToken, ClaimToken,
         cacheVars, distributorVars
<1>4. TotalIsCached'
  BY <1>1, <1>2, StepTotal DEF CacheIInv
<1>5. UsersAreCached'
  BY <1>1, <1>3, StepUsers DEF CacheIInv
<1> QED  BY <1>1, <1>4, <1>5 DEF CacheIInv

LEMMA CacheStarts == DistributorInit => CacheIInv
<1> SUFFICES ASSUME DistributorInit PROVE CacheIInv
  OBVIOUS
<1>1. EscrowIInv
  BY EscrowStarts DEF DistributorInit
<1>2. /\ timeCursor = StartTime /\ veSupplyCache = [w \in FeeWeeks |-> 0]
      /\ userState = [u \in Users |-> [startTime |-> 0, timeCursor |-> 0, lastEpoch |-> 0,
                                       balances |-> [w \in FeeWeeks |-> 0]]]
  BY DEF DistributorInit
<1>3. TotalIsCached
  <2>1. \A w \in FeeWeeks : ~(StartTime <= w /\ w < StartTime)
    BY StartIs, FeeWeeksAre
  <2> QED  BY <1>2, <2>1, StartIs DEF TotalIsCached
<1>4. UsersAreCached
  <2> DEFINE b == [w \in FeeWeeks |-> 0]
             s == [startTime |-> 0, timeCursor |-> 0, lastEpoch |-> 0, balances |-> b]
  <2>1. b \in Balances /\ \A w \in FeeWeeks : b[w] = 0
    BY DEF Balances
  <2> HIDE DEF b
  <2>2. s \in UserTypes /\ s.timeCursor = 0 /\ s.startTime = 0 /\ s.lastEpoch = 0 /\ \A w \in FeeWeeks : s.balances[w] = 0
    BY <2>1 DEF UserTypes
  <2>3. userState = [u \in Users |-> s]
    BY <1>2 DEF b
  <2> HIDE DEF s
  <2>4. \A u \in Users : UserIsCached(user_point_history[u], s, now)
    BY <2>2 DEF UserIsCached
  <2> QED  BY <2>2, <2>3, <2>4 DEF UsersAreCached
<1> QED  BY <1>1, <1>3, <1>4 DEF CacheIInv

LEMMA CacheInvariant == DistributorSpec => []CacheIInv
<1>1. CacheIInv /\ [DistributorNext]_distributorVars => CacheIInv'
  BY CacheStep
<1> QED  BY <1>1, CacheStarts, PTL DEF DistributorSpec

\* What the cursors have passed is what the VotingEscrow says, now and ever after.
THEOREM CachesAreAlwaysRight == DistributorSpec => []CachesAreRight
<1>1. CacheIInv => CachesAreRight
  <2> SUFFICES ASSUME CacheIInv PROVE CachesAreRight
    OBVIOUS
  <2>1. \A w \in FeeWeeks : StartTime <= w /\ w < timeCursor => veSupplyCache[w] = TotalSupply(w)
    BY DEF CacheIInv, TotalIsCached
  <2>2. ASSUME NEW u \in Users, NEW w \in FeeWeeks, StartTime <= w, w < userState[u].timeCursor
        PROVE  userState[u].balances[w] = BalanceOf(u, w)
    <3>1. UserIsCached(user_point_history[u], userState[u], now)
      BY DEF CacheIInv, UsersAreCached
    <3>2. userState[u].timeCursor # 0
      BY <2>2, FeeWeeksAre, StartIs
    <3>3. userState[u].balances[w] = PowerIn(user_point_history[u], w)
      BY <2>2, <3>1, <3>2 DEF UserIsCached, IsCachedUntil
    <3> QED  BY <3>3, BalanceIsPower
  <2> QED  BY <2>1, <2>2 DEF CachesAreRight
<1> QED  BY <1>1, CacheInvariant, PTL
-----------------------------------------------------------------------------
(* Tokens, spread over weeks *)

LEMMA SumScaled ==
    ASSUME NEW S, IsFiniteSet(S), NEW a \in [S -> Int], NEW c \in [S -> Int], NEW n \in Int,
           \A x \in S : a[x] = n * c[x]
    PROVE  SumFunction(a) = n * SumFunction(c)
<1> DEFINE b == [x \in S |-> 0]
<1>1. b \in [S -> Int] /\ \A x \in S : b[x] = 0
  OBVIOUS
<1>2. \A x \in S : a[x] \in Int /\ c[x] \in Int
  OBVIOUS
<1> HIDE DEF b
<1>3. \A x \in S : a[x] = b[x] + n * c[x]
  BY <1>1, <1>2
<1>4. SumFunction(b) = 0 /\ SumFunction(a) = SumFunction(b) + n * SumFunction(c)
  BY <1>1, <1>3, SumLinear, SumOfNone
<1>5. SumFunction(c) \in Int
  BY SumType
<1> QED  BY <1>4, <1>5

\* The part of the time since the last checkpoint that is in a week.
Within(last, w) == Min({now, w + Week}) - Max({last, w})

TimesIn(last, n) ==
    [w \in FeeWeeks |-> IF RoundDown(last) <= w /\ w < now + 1 /\ w < RoundDown(last) + n * Week THEN Within(last, w) ELSE 0]

LEMMA WithinIs ==
    ASSUME now \in Nat, NEW last \in Nat, last <= now, NEW w \in Nat, w % Week = 0, RoundDown(last) <= w, w <= now
    PROVE  /\ Within(last, w) \in Nat
           /\ Within(last, w) = (IF now <= w + Week THEN now ELSE w + Week) - (IF last >= w THEN last ELSE w)
<1>0. Week \in Nat \ {0} /\ RoundDown(last) \in Nat /\ last < RoundDown(last) + Week
  BY WeekIsPositive, RoundDownIs
<1> DEFINE y == w + Week
<1>1. y \in Int /\ y = w + Week
  BY <1>0
<1> HIDE DEF y
<1>2. Min({now, y}) = IF now <= y THEN now ELSE y
  BY <1>1, MinOfTwo
<1>3. Max({last, w}) = IF last >= w THEN last ELSE w
  BY MaxOfTwo
<1>4. Within(last, w) = (IF now <= y THEN now ELSE y) - (IF last >= w THEN last ELSE w)
  BY <1>1, <1>2, <1>3 DEF Within
<1> QED  BY <1>0, <1>1, <1>4

\* No time is counted twice.
LEMMA TimeIsShared ==
    ASSUME now \in 0..Horizon, NEW last \in Nat, last <= now, NEW n \in Nat
    PROVE  TimesIn(last, n) \in [FeeWeeks -> Nat] /\ SumFunction(TimesIn(last, n)) <= now - last
<1> DEFINE from == RoundDown(last)
           bound(j) == IF j = 0 THEN 0 ELSE (IF now <= from + j * Week THEN now ELSE from + j * Week) - last
           P == {j \in 0..n : SumFunction(TimesIn(last, j)) <= bound(j)}
<1>0. /\ Week \in Nat \ {0} /\ now \in Nat /\ Horizon \in Nat /\ now <= Horizon
      /\ from \in Nat /\ from % Week = 0 /\ from <= last /\ last < from + Week
  BY WeekIsPositive, RoundDownIs
<1>1. ASSUME NEW j \in Nat
      PROVE  /\ TimesIn(last, j) \in [FeeWeeks -> Nat] /\ TimesIn(last, j) \in [FeeWeeks -> Int]
             /\ \A w \in FeeWeeks : TimesIn(last, j)[w] = IF from <= w /\ w <= now /\ w < from + j * Week THEN Within(last, w) ELSE 0
  <2>1. \A w \in FeeWeeks : w \in Nat /\ w % Week = 0
    BY FeeWeeksAre
  <2>2. \A w \in FeeWeeks : (w < now + 1) = (w <= now)
    BY <1>0, <2>1
  <2>3. \A w \in FeeWeeks : from <= w /\ w <= now => Within(last, w) \in Nat
    BY <1>0, <2>1, WithinIs
  <2> HIDE DEF from
  <2>4. TimesIn(last, j) = [w \in FeeWeeks |-> IF from <= w /\ w <= now /\ w < from + j * Week THEN Within(last, w) ELSE 0]
    BY <2>2 DEF TimesIn, from
  <2> QED  BY <2>3, <2>4
<1> HIDE DEF from
<1>2. 0 \in P
  <2> DEFINE none == 0
             f == TimesIn(last, none)
  <2>1. none \in Nat /\ none = 0
    OBVIOUS
  <2> HIDE DEF none
  <2>2. f \in [FeeWeeks -> Int] /\ \A w \in FeeWeeks : f[w] = IF from <= w /\ w <= now /\ w < from + none * Week THEN Within(last, w) ELSE 0
    BY <1>1, <2>1
  <2>3. from + none * Week = from
    BY <1>0, <2>1
  <2>4. \A w \in FeeWeeks : f[w] = 0
    <3>1. \A w \in FeeWeeks : ~(from <= w /\ w < from)
      BY <1>0, FeeWeeksAre
    <3> QED  BY <2>2, <2>3, <3>1
  <2> HIDE DEF f
  <2>5. SumFunction(f) = 0
    BY <2>2, <2>4, FeeWeeksAre, SumOfNone
  <2>6. SumFunction(TimesIn(last, 0)) = 0
    BY <2>5 DEF f, none
  <2>7. bound(0) = 0 /\ 0 \in 0..n
    OBVIOUS
  <2> HIDE DEF bound
  <2> QED  BY <2>6, <2>7
<1>3. ASSUME NEW j \in 0..(n - 1), j \in P PROVE j + 1 \in P
  <2> DEFINE x == from + j * Week
             f == TimesIn(last, j)
             g == TimesIn(last, j + 1)
             y == from + (j + 1) * Week
             A == SumFunction(f)
             B == SumFunction(g)
  <2>0. j \in Nat /\ j + 1 \in Nat /\ j + 1 \in 0..n /\ j + 1 # 0
    OBVIOUS
  <2>1. x \in Nat /\ y = x + Week /\ x % Week = 0 /\ from <= x /\ (j = 0 => x = from) /\ (j # 0 => from + Week <= x)
    <3>1. PICK p \in Nat : from = p * Week
      BY <1>0, Multiples
    <3>2. x = (p + j) * Week /\ p + j \in Nat /\ x \in Nat
      BY <1>0, <2>0, <3>1
    <3>3. x % Week = 0
      <4> HIDE DEF x
      <4> QED  BY <3>2, Multiples
    <3>4. y = x + Week
      BY <1>0, <2>0
    <3>5. j * Week \in Nat /\ (j = 0 => j * Week = 0) /\ (j # 0 => j * Week >= Week)
      <4>1. j * Week \in Nat
        BY <1>0, <2>0
      <4>2. ASSUME j # 0 PROVE j * Week >= Week
        <5>1. j - 1 \in Nat
          BY <2>0, <4>2
        <5>2. (j - 1) * Week \in Nat
          BY <1>0, <5>1
        <5>3. j * Week = (j - 1) * Week + Week
          BY <1>0, <2>0
        <5> QED  BY <1>0, <5>2, <5>3
      <4> QED  BY <1>0, <4>1, <4>2
    <3> QED  BY <1>0, <3>2, <3>3, <3>4, <3>5
  <2>2. /\ f \in [FeeWeeks -> Int] /\ g \in [FeeWeeks -> Int]
        /\ \A w \in FeeWeeks : f[w] = IF from <= w /\ w <= now /\ w < x THEN Within(last, w) ELSE 0
        /\ \A w \in FeeWeeks : g[w] = IF from <= w /\ w <= now /\ w < y THEN Within(last, w) ELSE 0
    BY <1>1, <2>0
  <2> HIDE DEF f, g, x, y
  <2>3. \A w \in FeeWeeks : w # x => f[w] = g[w]
    <3> SUFFICES ASSUME NEW w \in FeeWeeks, w # x PROVE f[w] = g[w]
      OBVIOUS
    <3>1. w \in Nat /\ w % Week = 0
      BY FeeWeeksAre
    <3>2. (w < x) = (w < y)
      <4>1. x < w => x + Week <= w
        BY <2>1, <3>1, WeeksApart
      <4> QED  BY <1>0, <2>1, <3>1, <4>1
    <3> QED  BY <2>2, <3>2
  <2>4. A \in Int /\ B \in Int
    BY <2>2, FeeWeeksAre, SumType
  <2>5. A <= bound(j)
    BY <1>3 DEF f
  <2>6. bound(j) = IF j = 0 THEN 0 ELSE (IF now <= x THEN now ELSE x) - last
    BY DEF x
  <2>7. bound(j + 1) = (IF now <= y THEN now ELSE y) - last
    BY <2>0 DEF y
  <2> HIDE DEF bound
  <2>8. B <= bound(j + 1)
    <3>1. CASE x <= now
      <4>1. x \in FeeWeeks
        BY <1>0, <2>1, <3>1, FeeWeeksAre
      <4>2. f[x] = 0 /\ g[x] = Within(last, x)
        BY <1>0, <2>1, <2>2, <3>1, <4>1
      <4>3. B = A + g[x] - f[x]
        <5>1. \A w \in FeeWeeks \ {x} : g[w] = f[w]
          BY <2>3
        <5> QED  BY <2>2, <4>1, <5>1, FeeWeeksAre, SumOneChanged
      <4>4. Within(last, x) = (IF now <= x + Week THEN now ELSE x + Week) - (IF last >= x THEN last ELSE x)
        BY <1>0, <2>1, <3>1, WithinIs DEF from
      <4>5. j = 0 => last >= x
        BY <1>0, <2>1
      <4>6. j # 0 => ~(last >= x)
        BY <1>0, <2>1
      <4> HIDE DEF A, B
      <4>7. B = A + Within(last, x)
        BY <1>0, <2>1, <2>4, <4>2, <4>3, <4>4
      <4>8. CASE j = 0
        BY <1>0, <2>1, <2>4, <2>5, <2>6, <2>7, <4>4, <4>5, <4>7, <4>8
      <4>9. CASE j # 0
        BY <1>0, <2>1, <2>4, <2>5, <2>6, <2>7, <3>1, <4>4, <4>6, <4>7, <4>9
      <4> QED  BY <4>8, <4>9
    <3>2. CASE ~(x <= now)
      <4>1. f = g
        <5>1. \A w \in FeeWeeks : f[w] = g[w]
          <6> SUFFICES ASSUME NEW w \in FeeWeeks PROVE f[w] = g[w]
            OBVIOUS
          <6>1. w = x => ~(w <= now)
            BY <3>2
          <6> QED  BY <2>2, <2>3, <6>1
        <5> QED  BY <2>2, <5>1
      <4>2. B = A
        BY <4>1
      <4>3. j # 0
        BY <1>0, <2>1, <3>2
      <4>4. bound(j + 1) = now - last /\ bound(j) = now - last
        BY <1>0, <2>1, <2>6, <2>7, <3>2, <4>3
      <4> QED  BY <2>5, <4>2, <4>4
    <3> QED  BY <3>1, <3>2
  <2> QED  BY <2>0, <2>8 DEF g
<1>4. n \in P
  <2> HIDE DEF P
  <2>1. 0..n \subseteq P
    BY <1>2, <1>3, Induction
  <2> QED  BY <2>1
<1>5. bound(n) <= now - last
  <2>1. n * Week \in Nat
    BY <1>0
  <2> QED  BY <1>0, <2>1
<1>6. SumFunction(TimesIn(last, n)) \in Int
  <2>1. TimesIn(last, n) \in [FeeWeeks -> Int]
    BY <1>1
  <2> QED  BY <2>1, FeeWeeksAre, SumType
<1>7. bound(n) \in Int
  <2>1. n * Week \in Nat
    BY <1>0
  <2> QED  BY <1>0, <2>1
<1>8. SumFunction(TimesIn(last, n)) <= bound(n)
  BY <1>4
<1> HIDE DEF bound
<1>9. SumFunction(TimesIn(last, n)) <= now - last
  BY <1>0, <1>5, <1>6, <1>7, <1>8
<1> QED  BY <1>1, <1>9

Spread == [FeeWeeks -> Nat]
TokenTypes == [startTime : Nat, timeCursor : Nat, cachedBalance : Int, perWeek : Spread]

\* A token without a checkpoint, or what is spread since its first one.
TokenIsSpread(s, time) ==
    /\ s \in TokenTypes
    /\ s.timeCursor <= time
    /\ s.timeCursor = 0 => s.startTime = 0
    /\ s.timeCursor # 0 => /\ s.startTime % Week = 0 /\ StartTime <= s.startTime
                           /\ s.startTime <= RoundDown(s.timeCursor)
    /\ \A w \in FeeWeeks : s.timeCursor = 0 \/ w < s.startTime => s.perWeek[w] = 0

\* The weeks before a checkpoint's get nothing more.
Continued(s, r) ==
    s.timeCursor # 0 => /\ s.timeCursor <= r.timeCursor /\ r.startTime = s.startTime
                        /\ \A w \in FeeWeeks : w < RoundDown(s.timeCursor) => r.perWeek[w] = s.perWeek[w]

\* What a checkpoint adds to the weeks.
ShareOfTime(last, new, w) == IF last = now THEN new ELSE (new * Within(last, w)) \div (now - last)
Added(last, new) ==
    [w \in FeeWeeks |-> IF w \in WeeksFrom(RoundDown(last), now + 1, MaxWeeks) THEN ShareOfTime(last, new, w) ELSE 0]

LEMMA AddedIs ==
    ASSUME now \in 0..Horizon, NEW last \in Nat, last <= now, NEW new \in Nat
    PROVE  /\ Added(last, new) \in [FeeWeeks -> Nat] /\ SumFunction(Added(last, new)) <= new
           /\ \A w \in FeeWeeks : w < RoundDown(last) => Added(last, new)[w] = 0
<1> DEFINE from == RoundDown(last)
           to == now + 1
           n == MaxWeeks
           W == WeeksFrom(from, to, n)
           a == Added(last, new)
           b == TimesIn(last, n)
           A == SumFunction(a)
           B == SumFunction(b)
           D == now - last
<1>0. /\ Week \in Nat \ {0} /\ now \in Nat /\ Horizon \in Nat /\ now <= Horizon /\ n \in Nat
      /\ from \in Nat /\ from % Week = 0 /\ from <= last /\ last < from + Week
      /\ \A w \in Nat : w % Week = 0 /\ w <= last => w <= from
      /\ last % Week = 0 => from = last
  <2>1. /\ from \in Nat /\ from % Week = 0 /\ from <= last /\ last < from + Week
        /\ \A w \in Nat : w % Week = 0 /\ w <= last => w <= from
        /\ last % Week = 0 => from = last
    BY RoundDownIs
  <2>2. n \in Nat
    BY DistributorAssumption
  <2> HIDE DEF from, n
  <2>3. Week \in Nat \ {0} /\ Horizon \in Nat
    BY WeekIsPositive
  <2>4. now \in Nat /\ now <= Horizon
    BY <2>3
  <2> QED  BY <2>1, <2>2, <2>3, <2>4
<1>1. \A w \in FeeWeeks : w \in W <=> from <= w /\ w <= now /\ w < from + n * Week
  <2>1. \A w \in FeeWeeks : w \in W <=> from <= w /\ w < to /\ w < from + n * Week
    BY DEF WeeksFrom
  <2>2. \A w \in FeeWeeks : w < to <=> w <= now
    BY <1>0, FeeWeeksAre
  <2> HIDE DEF W
  <2> QED  BY <2>1, <2>2
<1>2. a = [w \in FeeWeeks |-> IF w \in W THEN ShareOfTime(last, new, w) ELSE 0]
  BY DEF Added
<1> HIDE DEF W, from
<1>3. b \in [FeeWeeks -> Nat] /\ B <= D
  BY <1>0, TimeIsShared
<1>4. \A w \in FeeWeeks : b[w] = IF w \in W THEN Within(last, w) ELSE 0
  <2>1. \A w \in FeeWeeks : (w < now + 1) = (w <= now)
    BY <1>0, FeeWeeksAre
  <2>2. \A w \in FeeWeeks : b[w] = IF from <= w /\ w < now + 1 /\ w < from + n * Week THEN Within(last, w) ELSE 0
    BY DEF TimesIn, from
  <2> QED  BY <1>1, <2>1, <2>2
<1> HIDE DEF a, b
<1>5. \A w \in FeeWeeks : w < from => a[w] = 0
  <2>1. \A w \in FeeWeeks : w < from => w \notin W
    BY <1>0, <1>1, FeeWeeksAre
  <2> QED  BY <1>2, <2>1
<1>6. CASE last = now
  <2>1. \A w \in FeeWeeks : a[w] = IF w \in W THEN new ELSE 0
    BY <1>2, <1>6 DEF ShareOfTime
  <2>2. a \in [FeeWeeks -> Nat] /\ a \in [FeeWeeks -> Int]
    BY <1>2, <2>1
  <2>3. from \in FeeWeeks
    BY <1>0, <1>6, FeeWeeksAre
  <2>4. \A w \in FeeWeeks \ {from} : a[w] = 0
    <3> SUFFICES ASSUME NEW w \in FeeWeeks, w # from PROVE w \notin W
      BY <2>1
    <3>1. w \in Nat /\ w % Week = 0
      BY FeeWeeksAre
    <3> QED  BY <1>0, <1>1, <1>6, <3>1
  <2>5. A = a[from]
    BY <2>2, <2>3, <2>4, FeeWeeksAre, SumOfOne
  <2>6. a[from] <= new
    BY <2>1, <2>3
  <2> QED  BY <1>5, <2>2, <2>5, <2>6 DEF a, from
<1>7. CASE last < now
  <2>0. D \in Nat \ {0}
    BY <1>0, <1>7
  <2> HIDE DEF D
  <2>1. \A w \in FeeWeeks : w \in W => a[w] = (new * b[w]) \div D
    <3>1. last # now
      BY <1>0, <1>7
    <3>2. \A w \in FeeWeeks : w \in W => a[w] = ShareOfTime(last, new, w)
      BY <1>2
    <3> QED  BY <1>4, <3>1, <3>2 DEF ShareOfTime, D
  <2>2. ASSUME NEW w \in FeeWeeks PROVE a[w] \in Nat /\ D * a[w] <= new * b[w] /\ new * b[w] \in Nat /\ D * a[w] \in Nat
    <3> DEFINE x == new * b[w]
    <3>1. b[w] \in Nat
      BY <1>3
    <3>2. x \in Nat
      BY <3>1
    <3>3. CASE w \in W
      <4>1. a[w] = x \div D
        BY <2>1, <3>3
      <4> HIDE DEF x
      <4>2. x \div D \in Nat /\ D * (x \div D) <= x
        BY <2>0, <3>2, Quotients
      <4>3. D * (x \div D) \in Nat
        BY <2>0, <4>2
      <4> QED  BY <3>2, <4>1, <4>2, <4>3 DEF x
    <3>4. CASE w \notin W
      <4>1. a[w] = 0
        BY <1>2, <3>4
      <4>2. D * 0 = 0
        BY <2>0
      <4> HIDE DEF x
      <4> QED  BY <3>2, <4>1, <4>2 DEF x
    <3> QED  BY <3>3, <3>4
  <2>3. a \in [FeeWeeks -> Nat] /\ a \in [FeeWeeks -> Int] /\ b \in [FeeWeeks -> Int]
    <3>1. a = [w \in FeeWeeks |-> a[w]]
      BY <1>2
    <3> QED  BY <1>3, <2>2, <3>1
  <2> DEFINE c == [w \in FeeWeeks |-> D * a[w]]
             d == [w \in FeeWeeks |-> new * b[w]]
  <2>4. c \in [FeeWeeks -> Int] /\ d \in [FeeWeeks -> Int] /\ \A w \in FeeWeeks : c[w] <= d[w]
    BY <2>2
  <2>5. (\A w \in FeeWeeks : c[w] = D * a[w]) /\ \A w \in FeeWeeks : d[w] = new * b[w]
    OBVIOUS
  <2> HIDE DEF c, d
  <2>6. SumFunction(c) = D * A
    <3>1. D \in Int
      BY <2>0
    <3> QED  BY <2>3, <2>4, <2>5, <3>1, FeeWeeksAre, SumScaled
  <2>7. SumFunction(d) = new * B
    <3>1. new \in Int
      OBVIOUS
    <3> QED  BY <2>3, <2>4, <2>5, <3>1, FeeWeeksAre, SumScaled
  <2>8. SumFunction(c) <= SumFunction(d)
    BY <2>4, FeeWeeksAre, SumMonotone
  <2>9. A \in Nat /\ B \in Nat
    BY <1>3, <2>3, FeeWeeksAre, SumOfNats
  <2> HIDE DEF A, B
  <2>10. D * A <= new * B /\ B <= D
    BY <1>3, <2>6, <2>7, <2>8
  <2>11. A <= new
    <3>1. new * B <= new * D
      BY <2>0, <2>9, <2>10
    <3>2. D * A <= D * new
      BY <2>0, <2>9, <2>10, <3>1
    <3>3. SUFFICES ASSUME new + 1 <= A PROVE FALSE
      BY <2>9
    <3>4. D * (new + 1) <= D * A
      BY <2>0, <2>9, <3>3
    <3>5. D * (new + 1) = D * new + D
      BY <2>0
    <3>6. D * new \in Nat /\ D * A \in Nat
      BY <2>0, <2>9
    <3> QED  BY <2>0, <3>2, <3>4, <3>5, <3>6
  <2> QED  BY <1>5, <2>3, <2>11 DEF a, A, from
<1> QED  BY <1>0, <1>6, <1>7

LEMMA CheckpointedTokenIs ==
    ASSUME now \in 0..Horizon, NEW s, TokenIsSpread(s, now), s.timeCursor # 0 \/ now > StartTime,
           NEW balance \in Int, s.cachedBalance <= balance, NEW force,
           NEW r, r = CheckpointedToken(s, balance, force)
    PROVE  /\ TokenIsSpread(r, now) /\ r.timeCursor # 0 /\ r.cachedBalance <= balance
           /\ Continued(s, r)
           /\ r.cachedBalance - s.cachedBalance >= SumFunction(r.perWeek) - SumFunction(s.perWeek)
<1> DEFINE first == s.timeCursor = 0
           last == IF first THEN now ELSE s.timeCursor
           new == balance - s.cachedBalance
           start == IF first THEN RoundDown(now) ELSE s.startTime
           added == Added(last, new)
           per == [w \in FeeWeeks |-> s.perWeek[w] + added[w]]
           stays == ~first /\ ~force /\ RoundDown(now) = RoundDown(last) /\ RoundUp(now) - now < Day
<1>0. /\ now \in Nat /\ now <= Horizon /\ s \in TokenTypes /\ s.startTime \in Nat /\ s.timeCursor \in Nat
      /\ s.cachedBalance \in Int /\ s.perWeek \in Spread /\ s.timeCursor <= now
      /\ StartTime \in Nat /\ StartTime > 0 /\ StartTime % Week = 0
  <2>1. s \in TokenTypes /\ s.timeCursor <= now
    BY DEF TokenIsSpread
  <2> QED  BY <2>1, StartIs, WeekIsPositive DEF TokenTypes
<1>1. /\ s.timeCursor # 0 => /\ s.startTime % Week = 0 /\ StartTime <= s.startTime
                             /\ s.startTime <= RoundDown(s.timeCursor)
      /\ \A w \in FeeWeeks : s.timeCursor = 0 \/ w < s.startTime => s.perWeek[w] = 0
  BY DEF TokenIsSpread
<1>2. last \in Nat /\ last <= now /\ new \in Nat
  BY <1>0
<1>3. CASE r = s
  <2>1. s.timeCursor # 0 \/ r = s
    BY <1>3
  <2>2. SumFunction(s.perWeek) \in Int
    <3>1. s.perWeek \in [FeeWeeks -> Int]
      BY <1>0 DEF Spread
    <3> QED  BY <3>1, FeeWeeksAre, SumType
  <2>3. s.cachedBalance - s.cachedBalance >= SumFunction(s.perWeek) - SumFunction(s.perWeek)
    BY <1>0, <2>2
  <2>4. Continued(s, s)
    BY <1>0 DEF Continued
  <2>5. CASE s.timeCursor # 0
    BY <1>3, <2>3, <2>4, <2>5
  <2>6. CASE s.timeCursor = 0
    <3>1. r = [startTime |-> RoundDown(now), timeCursor |-> now, cachedBalance |-> balance, perWeek |-> r.perWeek]
      BY <2>6 DEF CheckpointedToken
    <3>2. r.timeCursor = now
      BY <3>1
    <3> QED  BY <1>0, <1>3, <2>6, <3>2
  <2> QED  BY <2>5, <2>6
<1>4. CASE r = [startTime |-> start, timeCursor |-> now, cachedBalance |-> balance, perWeek |-> per]
  <2>1. /\ added \in [FeeWeeks -> Nat] /\ SumFunction(added) <= new
        /\ \A w \in FeeWeeks : w < RoundDown(last) => added[w] = 0
    <3> HIDE DEF last, new
    <3> QED  BY <1>2, AddedIs
  <2> HIDE DEF added
  <2>2. per \in Spread /\ \A w \in FeeWeeks : per[w] = s.perWeek[w] + added[w]
    BY <1>0, <2>1 DEF Spread
  <2> HIDE DEF per
  <2>3. SumFunction(per) = SumFunction(s.perWeek) + SumFunction(added)
    <3>1. per \in [FeeWeeks -> Int] /\ s.perWeek \in [FeeWeeks -> Int] /\ added \in [FeeWeeks -> Int]
      BY <1>0, <2>1, <2>2 DEF Spread
    <3> DEFINE p == s.perWeek
    <3>2. p \in [FeeWeeks -> Int] /\ \A w \in FeeWeeks : per[w] = p[w] + added[w]
      BY <2>2, <3>1
    <3> HIDE DEF p
    <3>3. SumFunction(per) = SumFunction(p) + SumFunction(added)
      BY <3>1, <3>2, FeeWeeksAre, SumAdds
    <3> QED  BY <3>3 DEF p
  <2>4. SumFunction(s.perWeek) \in Int /\ SumFunction(added) \in Int
    <3>1. s.perWeek \in [FeeWeeks -> Int] /\ added \in [FeeWeeks -> Int]
      BY <1>0, <2>1 DEF Spread
    <3> QED  BY <3>1, FeeWeeksAre, SumType
  <2>5. /\ RoundDown(now) \in Nat /\ RoundDown(now) % Week = 0 /\ RoundDown(now) <= now
        /\ \A w \in Nat : w % Week = 0 /\ w <= now => w <= RoundDown(now)
    BY <1>0, RoundDownIs
  <2>6. RoundDown(last) \in Nat /\ RoundDown(last) <= RoundDown(now)
    <3> HIDE DEF last
    <3>1. RoundDown(last) \in Nat /\ RoundDown(last) % Week = 0 /\ RoundDown(last) <= last
      BY <1>2, RoundDownIs
    <3> QED  BY <1>0, <1>2, <2>5, <3>1
  <2>7. start \in Nat /\ start % Week = 0 /\ StartTime <= start /\ start <= RoundDown(last)
    <3>1. CASE first
      BY <1>0, <2>5, <3>1
    <3>2. CASE ~first
      BY <1>0, <1>1, <3>2
    <3> QED  BY <3>1, <3>2
  <2>8. now # 0
    BY <1>0
  <2>9. ASSUME NEW w \in FeeWeeks, w < start PROVE per[w] = 0
    <3>1. w \in Nat /\ w < RoundDown(last)
      BY <2>6, <2>7, <2>9, FeeWeeksAre
    <3>2. s.perWeek[w] = 0
      BY <1>1, <2>9
    <3> QED  BY <2>1, <2>2, <3>1, <3>2
  <2>10. Continued(s, r)
    <3>1. ASSUME s.timeCursor # 0, NEW w \in FeeWeeks, w < RoundDown(s.timeCursor) PROVE per[w] = s.perWeek[w]
      <4>1. added[w] = 0
        BY <2>1, <3>1
      <4>2. s.perWeek[w] \in Nat
        BY <1>0 DEF Spread
      <4> QED  BY <2>2, <4>1, <4>2
    <3>2. r.timeCursor = now /\ r.perWeek = per /\ r.startTime = start
      BY <1>4
    <3> QED  BY <1>0, <3>1, <3>2 DEF Continued
  <2> HIDE DEF start, last
  <2>11. r \in TokenTypes
    BY <1>0, <1>4, <2>2, <2>7 DEF TokenTypes
  <2>12. r.startTime = start /\ r.timeCursor = now /\ r.cachedBalance = balance /\ r.perWeek = per
    BY <1>4
  <2>13. start <= RoundDown(now)
    BY <2>5, <2>6, <2>7
  <2>14. TokenIsSpread(r, now)
    <3>1. now <= now
      BY <1>0
    <3> QED  BY <2>7, <2>8, <2>9, <2>11, <2>12, <2>13, <3>1 DEF TokenIsSpread
  <2>15. balance - s.cachedBalance >= SumFunction(per) - SumFunction(s.perWeek)
    BY <1>0, <2>1, <2>3, <2>4
  <2> QED  BY <1>0, <2>8, <2>10, <2>12, <2>14, <2>15
<1>5. r = s \/ r = [startTime |-> start, timeCursor |-> now, cachedBalance |-> balance, perWeek |-> per]
  <2> DEFINE share(w) == IF last = now THEN new ELSE (new * Within(last, w)) \div (now - last)
             W == WeeksFrom(RoundDown(last), now + 1, MaxWeeks)
             p == [w \in FeeWeeks |-> s.perWeek[w] + IF w \in W THEN share(w) ELSE 0]
  <2>1. r = s \/ r = [startTime |-> start, timeCursor |-> now, cachedBalance |-> balance, perWeek |-> p]
    BY DEF CheckpointedToken, Within
  <2>2. p = per
    BY DEF Added, ShareOfTime
  <2> QED  BY <2>1, <2>2
<1> QED  BY <1>3, <1>4, <1>5
-----------------------------------------------------------------------------
(* Sums over some of the weeks *)

Extends(g, S, T, f) == g = [x \in S |-> IF x \in T THEN f[x] ELSE 0]

LEMMA SumOfPart ==
    ASSUME NEW S, IsFiniteSet(S), NEW T \in SUBSET S, NEW f \in [T -> Int], NEW g, Extends(g, S, T, f)
    PROVE  SumFunction(f) = SumFunction(g) /\ g \in [S -> Int]
<1> DEFINE P == {U \in SUBSET S : SumFunctionOnSet(g, U) = SumFunctionOnSet(f, U \cap T)}
<1>1. g \in [S -> Int] /\ \A x \in S : g[x] = IF x \in T THEN f[x] ELSE 0
  BY DEF Extends
<1>2. ASSUME NEW U \in SUBSET S, \A x \in U : U \ {x} \in P PROVE U \in P
  <2>1. IsFiniteSet(U) /\ IsFiniteSet(U \cap T)
    BY FS_Subset
  <2>2. (\A x \in U : g[x] \in Int) /\ \A x \in U \cap T : f[x] \in Int
    BY <1>1
  <2>3. CASE U = {}
    <3>1. U \cap T = {} /\ U = {}
      BY <2>3
    <3>2. SumFunctionOnSet(g, {}) = 0
      BY <2>1, <2>2, SumOn
    <3>3. SumFunctionOnSet(f, {}) = 0
      BY <2>1, <2>2, SumOn
    <3>4. SumFunctionOnSet(g, U) = SumFunctionOnSet(f, U \cap T)
      BY <3>1, <3>2, <3>3
    <3> QED  BY <3>4
  <2>4. CASE U # {}
    <3>1. PICK x \in U : TRUE
      BY <2>4
    <3>2. SumFunctionOnSet(g, U) = g[x] + SumFunctionOnSet(g, U \ {x})
      BY <2>1, <2>2, SumOn
    <3>3. SumFunctionOnSet(g, U \ {x}) = SumFunctionOnSet(f, (U \ {x}) \cap T)
      BY <1>2
    <3>4. CASE x \in T
      <4>1. SumFunctionOnSet(f, U \cap T) = f[x] + SumFunctionOnSet(f, (U \cap T) \ {x})
        BY <2>1, <2>2, <3>4, SumOn
      <4>2. (U \cap T) \ {x} = (U \ {x}) \cap T /\ g[x] = f[x]
        BY <1>1, <3>4
      <4>3. SumFunctionOnSet(g, U) = SumFunctionOnSet(f, U \cap T)
        BY <3>2, <3>3, <4>1, <4>2
      <4> QED  BY <4>3
    <3>5. CASE x \notin T
      <4>1. (U \ {x}) \cap T = U \cap T /\ g[x] = 0
        BY <1>1, <3>5
      <4>2. SumFunctionOnSet(f, U \cap T) \in Int
        BY <2>1, <2>2, SumOn
      <4>3. SumFunctionOnSet(g, U \ {x}) = SumFunctionOnSet(f, U \cap T)
        <5> DEFINE V == (U \ {x}) \cap T
        <5>1. V = U \cap T /\ SumFunctionOnSet(g, U \ {x}) = SumFunctionOnSet(f, V)
          BY <3>3, <4>1
        <5> HIDE DEF V
        <5> QED  BY <5>1
      <4> DEFINE y == SumFunctionOnSet(f, U \cap T)
                 z == SumFunctionOnSet(g, U)
      <4>4. y \in Int /\ z = 0 + y
        BY <3>2, <4>1, <4>2, <4>3
      <4>5. z = y
        <5> HIDE DEF y, z
        <5> QED  BY <4>4
      <4> QED  BY <4>5
    <3> QED  BY <3>4, <3>5
  <2> QED  BY <2>3, <2>4
<1>3. S \in P
  <2> HIDE DEF P
  <2>1. SUBSET S \subseteq P
    BY <1>2, SubsetInduction
  <2> QED  BY <2>1
<1>4. S \cap T = T /\ DOMAIN f = T /\ DOMAIN g = S
  BY <1>1
<1>5. SumFunctionOnSet(g, S) = SumFunctionOnSet(f, T)
  BY <1>3, <1>4
<1> QED  BY <1>1, <1>4, <1>5 DEF SumFunction

-----------------------------------------------------------------------------
(* What users receive *)

WeeksBefore(c) == {v \in FeeWeeks : v < c}
SharesUntil(u, k, c) == SumFunction([w \in WeeksBefore(c) |-> Share(u, k, w)])

\* Until a user's cursor, the weeks are over; they get no more tokens, or the user has no power.
ClaimIsFinal(c, tokenCursor, u) ==
    /\ c \in Nat
    /\ c # 0 => c % Week = 0 /\ StartTime <= c /\ tokenCursor # 0
    /\ \A w \in FeeWeeks : StartTime <= w /\ w < c =>
          w < now /\ (w < RoundDown(tokenCursor) \/ BalanceOf(u, w) = 0)

ClaimStands(u, k, c) == ClaimIsFinal(c, tokenState[k].timeCursor, u)

TokensAreSpread ==
    /\ tokenState \in [Tokens -> TokenTypes]
    /\ \A k \in Tokens : TokenIsSpread(tokenState[k], now)

ClaimsAreFinal ==
    /\ userTokenTimeCursor \in [Users -> [Tokens -> Nat]]
    /\ \A u \in Users, k \in Tokens : ClaimStands(u, k, userTokenTimeCursor[u][k])

SharesArePaid ==
    /\ paid \in [Users -> [Tokens -> Int]]
    /\ \A u \in Users, k \in Tokens : paid[u][k] = SharesUntil(u, k, userTokenTimeCursor[u][k])

\* The contract holds what it assigned to weeks, as far as it is not paid.
TokenIsHeld(s, balance, out) == balance >= s.cachedBalance /\ s.cachedBalance + out >= SumFunction(s.perWeek)

TokensAreHeld ==
    /\ held \in [Tokens -> Int]
    /\ \A k \in Tokens : TokenIsHeld(tokenState[k], held[k], TotalPaid(k))

\* The quotient of a share.
ShareOf(p, b, t) == IF t = 0 THEN 0 ELSE (p * b) \div t

LEMMA ShareOfNothing ==
    ASSUME NEW p \in Nat, NEW b \in Nat, NEW t \in Nat, p = 0 \/ b = 0
    PROVE  ShareOf(p, b, t) = 0
<1>1. p * b = 0
  OBVIOUS
<1>2. ASSUME t # 0 PROVE 0 \div t = 0
  BY <1>2
<1> QED  BY <1>1, <1>2 DEF ShareOf

LEMMA ShareIsNat ==
    ASSUME NEW p \in Nat, NEW b \in Nat, NEW t \in Nat
    PROVE  ShareOf(p, b, t) \in Nat
<1> DEFINE x == p * b
<1>1. x \in Nat
  OBVIOUS
<1> HIDE DEF x
<1>2. ASSUME t # 0 PROVE x \div t \in Nat
  BY <1>1, <1>2, Quotients
<1> QED  BY <1>2 DEF ShareOf, x

LEMMA ShareIs ==
    \A u, k, w : /\ Share(u, k, w) = ShareOf(tokenState[k].perWeek[w], BalanceOf(u, w), TotalSupply(w))
                 /\ Share(u, k, w)' = ShareOf(tokenState'[k].perWeek[w], BalanceOf(u, w)', TotalSupply(w)')
BY DEF Share, ShareOf

LEMMA PowersAreNats ==
    ASSUME EscrowIInv, NEW w \in Nat, w <= now
    PROVE  /\ w \in Times /\ TotalSupply(w) \in Nat
           /\ \A u \in Users : BalanceOf(u, w) \in Nat
           /\ TotalSupply(w) = SumFunction([u \in Users |-> BalanceOf(u, w)])
<1>1. w \in Times
  BY WeekIsPositive DEF EscrowIInv, EscrowTypes, Times
<1> DEFINE f == [u \in Users |-> BalanceOf(u, w)]
<1>2. TotalSupply(w) = SumFunction(f)
  BY <1>1 DEF EscrowIInv, TotalsAgree
<1>3. \A u \in Users : BalanceOf(u, w) \in Nat
  <2> SUFFICES ASSUME NEW u \in Users PROVE BalanceOf(u, w) \in Nat
    OBVIOUS
  <2>1. user_point_history[u] \in Seq(EscrowPoint)
    BY DEF EscrowIInv, EscrowTypes
  <2> QED  BY <2>1, BalanceIsPower, PowerIsNat
<1>4. f \in [Users -> Nat]
  BY <1>3
<1>5. SumFunction(f) \in Nat
  <2> HIDE DEF f
  <2> QED  BY <1>4, WeekIsPositive, SumOfNats
<1> QED  BY <1>1, <1>2, <1>3, <1>5

LEMMA ShareType ==
    ASSUME EscrowIInv, TokensAreSpread, NEW u \in Users, NEW k \in Tokens, NEW w \in FeeWeeks, w <= now
    PROVE  /\ Share(u, k, w) \in Nat
           /\ tokenState[k].perWeek[w] = 0 \/ BalanceOf(u, w) = 0 => Share(u, k, w) = 0
<1> DEFINE p == tokenState[k].perWeek[w]
           b == BalanceOf(u, w)
           t == TotalSupply(w)
<1>1. p \in Nat
  BY DEF TokensAreSpread, TokenTypes, Spread
<1>2. b \in Nat /\ t \in Nat
  <2>1. w \in Nat
    BY FeeWeeksAre
  <2> QED  BY <2>1, PowersAreNats
<1>3. Share(u, k, w) = ShareOf(p, b, t)
  BY ShareIs
<1> HIDE DEF p, b, t
<1> QED  BY <1>1, <1>2, <1>3, ShareIsNat, ShareOfNothing DEF p, b, t

\* No token comes to the weeks before the first one of a token.
LEMMA NothingEarly ==
    ASSUME NEW s, NEW time, TokenIsSpread(s, time), NEW w \in FeeWeeks, w < StartTime
    PROVE  s.perWeek[w] = 0
<1>1. s \in TokenTypes
  BY DEF TokenIsSpread
<1>2. s.timeCursor # 0 => StartTime <= s.startTime
  BY DEF TokenIsSpread
<1>3. s.startTime \in Nat /\ w \in Nat /\ StartTime \in Nat
  BY <1>1, FeeWeeksAre, StartIs DEF TokenTypes
<1>4. s.timeCursor # 0 => w < s.startTime
  BY <1>2, <1>3
<1> QED  BY <1>1, <1>4 DEF TokenIsSpread
-----------------------------------------------------------------------------
(* What steps do to tokens *)

\* A token's state in a step which pays so much of it.
TokenMoves(s, r, balance, out) ==
    /\ TokenIsSpread(r, now) /\ Continued(s, r)
    /\ balance \in Int /\ r.cachedBalance <= balance
    /\ out \in Int /\ r.cachedBalance + out - s.cachedBalance >= SumFunction(r.perWeek) - SumFunction(s.perWeek)

LEMMA SpreadTypes ==
    ASSUME NEW s, NEW time, TokenIsSpread(s, time)
    PROVE  /\ s \in TokenTypes /\ s.startTime \in Nat /\ s.timeCursor \in Nat /\ s.cachedBalance \in Int
           /\ s.perWeek \in [FeeWeeks -> Nat] /\ s.perWeek \in [FeeWeeks -> Int] /\ SumFunction(s.perWeek) \in Int
<1>1. s \in TokenTypes
  BY DEF TokenIsSpread
<1>2. s.perWeek \in [FeeWeeks -> Nat] /\ s.perWeek \in [FeeWeeks -> Int]
  BY <1>1 DEF TokenTypes, Spread
<1>3. SumFunction(s.perWeek) \in Int
  BY <1>2, FeeWeeksAre, SumType
<1> QED  BY <1>1, <1>2, <1>3 DEF TokenTypes

LEMMA TokenRests ==
    ASSUME NEW s, TokenIsSpread(s, now), NEW balance \in Int, s.cachedBalance <= balance
    PROVE  TokenMoves(s, s, balance, 0)
<1>1. s.timeCursor \in Nat /\ s.cachedBalance \in Int /\ SumFunction(s.perWeek) \in Int
  BY SpreadTypes
<1>2. Continued(s, s)
  BY <1>1 DEF Continued
<1>3. 0 \in Int /\ s.cachedBalance + 0 - s.cachedBalance >= SumFunction(s.perWeek) - SumFunction(s.perWeek)
  BY <1>1
<1> QED  BY <1>2, <1>3 DEF TokenMoves

LEMMA MovesCompose ==
    ASSUME now \in Nat, NEW s, TokenIsSpread(s, now), NEW q, NEW r, NEW b \in Int, NEW c \in Int, NEW d \in Int, NEW e \in Int,
           TokenMoves(s, q, b, d), TokenMoves(q, r, c, e)
    PROVE  TokenMoves(s, r, c, d + e)
<1>1. /\ s.timeCursor \in Nat /\ s.cachedBalance \in Int /\ SumFunction(s.perWeek) \in Int
  BY SpreadTypes
<1>2. /\ q.timeCursor \in Nat /\ q.cachedBalance \in Int /\ SumFunction(q.perWeek) \in Int
  BY SpreadTypes DEF TokenMoves
<1>3. /\ r.timeCursor \in Nat /\ r.cachedBalance \in Int /\ SumFunction(r.perWeek) \in Int
  BY SpreadTypes DEF TokenMoves
<1>4. r.cachedBalance + (d + e) - s.cachedBalance >= SumFunction(r.perWeek) - SumFunction(s.perWeek)
  <2>1. /\ q.cachedBalance + d - s.cachedBalance >= SumFunction(q.perWeek) - SumFunction(s.perWeek)
        /\ r.cachedBalance + e - q.cachedBalance >= SumFunction(r.perWeek) - SumFunction(q.perWeek)
    BY DEF TokenMoves
  <2> QED  BY <1>1, <1>2, <1>3, <2>1
<1>5. Continued(s, r)
  <2>1. SUFFICES ASSUME s.timeCursor # 0
                 PROVE  /\ s.timeCursor <= r.timeCursor /\ r.startTime = s.startTime
                        /\ \A w \in FeeWeeks : w < RoundDown(s.timeCursor) => r.perWeek[w] = s.perWeek[w]
    BY DEF Continued
  <2>2. /\ s.timeCursor <= q.timeCursor /\ q.startTime = s.startTime
        /\ \A w \in FeeWeeks : w < RoundDown(s.timeCursor) => q.perWeek[w] = s.perWeek[w]
    BY <2>1 DEF Continued, TokenMoves
  <2>3. q.timeCursor # 0
    BY <1>1, <1>2, <2>1, <2>2
  <2>4. /\ q.timeCursor <= r.timeCursor /\ r.startTime = q.startTime
        /\ \A w \in FeeWeeks : w < RoundDown(q.timeCursor) => r.perWeek[w] = q.perWeek[w]
    BY <2>3 DEF Continued, TokenMoves
  <2>5. RoundDown(s.timeCursor) \in Nat /\ RoundDown(q.timeCursor) \in Nat /\ RoundDown(s.timeCursor) <= RoundDown(q.timeCursor)
    <3> DEFINE x == s.timeCursor
               y == q.timeCursor
    <3>1. x \in Nat /\ y \in Nat /\ x <= y
      BY <1>1, <1>2, <2>2
    <3> HIDE DEF x, y
    <3>2. RoundDown(x) \in Nat /\ RoundDown(x) % Week = 0 /\ RoundDown(x) <= x
      BY <3>1, RoundDownIs
    <3>3. RoundDown(y) \in Nat /\ \A w \in Nat : w % Week = 0 /\ w <= y => w <= RoundDown(y)
      BY <3>1, RoundDownIs
    <3>4. RoundDown(x) <= RoundDown(y)
      BY <3>1, <3>2, <3>3
    <3> QED  BY <3>2, <3>3, <3>4 DEF x, y
  <2>6. \A w \in FeeWeeks : w < RoundDown(s.timeCursor) => w < RoundDown(q.timeCursor)
    BY <2>5, FeeWeeksAre
  <2> QED  BY <1>1, <1>2, <1>3, <2>2, <2>4, <2>6
<1> QED  BY <1>4, <1>5 DEF TokenMoves

LEMMA CheckpointMoves ==
    ASSUME now \in 0..Horizon, NEW s, TokenIsSpread(s, now), s.timeCursor # 0 \/ now > StartTime,
           NEW balance \in Int, s.cachedBalance <= balance, NEW force
    PROVE  /\ TokenMoves(s, CheckpointedToken(s, balance, force), balance, 0)
           /\ CheckpointedToken(s, balance, force).timeCursor # 0
<1> DEFINE r == CheckpointedToken(s, balance, force)
<1>1. r = CheckpointedToken(s, balance, force)
  OBVIOUS
<1> HIDE DEF r
<1>2. /\ TokenIsSpread(r, now) /\ r.timeCursor # 0 /\ r.cachedBalance <= balance
      /\ Continued(s, r)
      /\ r.cachedBalance - s.cachedBalance >= SumFunction(r.perWeek) - SumFunction(s.perWeek)
  BY <1>1, CheckpointedTokenIs
<1>3. r.cachedBalance \in Int /\ s.cachedBalance \in Int
  BY <1>2, SpreadTypes
<1>4. 0 \in Int /\ r.cachedBalance + 0 - s.cachedBalance = r.cachedBalance - s.cachedBalance
  BY <1>3
<1> QED  BY <1>1, <1>2, <1>4 DEF TokenMoves

\* What a claim does, after its checkpoints.
Claimed(u, k, token, weeks, next, amount) ==
    /\ token = CheckpointedToken(tokenState[k], held[k], FALSE)
    /\ next = IF userTokenTimeCursor[u][k] > 0 THEN userTokenTimeCursor[u][k]
              ELSE Max({userState'[u].startTime, token.startTime})
    /\ weeks = WeeksFrom(next, FirstUnclaimableWeek(u, token), MaxWeeks)
    /\ \A w \in weeks : veSupplyCache'[w] # 0
    /\ amount = SumFunction([w \in weeks |-> (token.perWeek[w] * userState'[u].balances[w]) \div veSupplyCache'[w]])
    /\ userTokenTimeCursor' = [userTokenTimeCursor EXCEPT ![u][k] = next + Week * Cardinality(weeks)]
    /\ tokenState' = [tokenState EXCEPT ![k] = [token EXCEPT !.cachedBalance = token.cachedBalance - amount]]
    /\ held' = [held EXCEPT ![k] = @ - amount]
    /\ paid' = [paid EXCEPT ![u][k] = @ + amount]

ClaimedOf(u, k, token, weeks, next) ==
    LET amount == SumFunction([w \in weeks |-> (token.perWeek[w] * userState'[u].balances[w]) \div veSupplyCache'[w]])
    IN /\ \A w \in weeks : veSupplyCache'[w] # 0
       /\ userTokenTimeCursor' = [userTokenTimeCursor EXCEPT ![u][k] = next + Week * Cardinality(weeks)]
       /\ tokenState' = [tokenState EXCEPT ![k] = [token EXCEPT !.cachedBalance = token.cachedBalance - amount]]
       /\ held' = [held EXCEPT ![k] = @ - amount]
       /\ paid' = [paid EXCEPT ![u][k] = @ + amount]

ClaimedWith(u, k, token) ==
    LET next == IF userTokenTimeCursor[u][k] > 0 THEN userTokenTimeCursor[u][k]
                ELSE Max({userState'[u].startTime, token.startTime})
    IN \E weeks \in {WeeksFrom(next, FirstUnclaimableWeek(u, token), MaxWeeks)} : ClaimedOf(u, k, token, weeks, next)

LEMMA ClaimIsClaimed ==
    ASSUME NEW u \in Users, NEW k \in Tokens, ClaimToken(u, k)
    PROVE  MayCheckpointToken(k) /\ now' = now /\ \E token, weeks, next, amount : Claimed(u, k, token, weeks, next, amount)
<1>1. MayCheckpointToken(k) /\ CheckpointTotalSupply
  BY DEF ClaimToken
<1>2. now' = now
  BY <1>1 DEF CheckpointTotalSupply, escrowVars
<1>3. \E token, weeks, next, amount : Claimed(u, k, token, weeks, next, amount)
  <2>1. PICK token \in {CheckpointedToken(tokenState[k], held[k], FALSE)} : ClaimedWith(u, k, token)
    BY DEF ClaimToken, ClaimedWith, ClaimedOf
  <2> DEFINE next == IF userTokenTimeCursor[u][k] > 0 THEN userTokenTimeCursor[u][k]
                     ELSE Max({userState'[u].startTime, token.startTime})
             weeks == WeeksFrom(next, FirstUnclaimableWeek(u, token), MaxWeeks)
  <2>2. ClaimedOf(u, k, token, weeks, next)
    BY <2>1 DEF ClaimedWith, ClaimedOf
  <2> DEFINE amount == SumFunction([w \in weeks |-> (token.perWeek[w] * userState'[u].balances[w]) \div veSupplyCache'[w]])
  <2>3. token = CheckpointedToken(tokenState[k], held[k], FALSE)
    BY <2>1
  <2>4. Claimed(u, k, token, weeks, next, amount)
    BY <2>2, <2>3 DEF Claimed, ClaimedOf
  <2> HIDE DEF next, weeks, amount
  <2> QED  BY <2>4
<1> QED  BY <1>1, <1>2, <1>3

\* The weeks that are claimed are cached, and the quotient of each is a natural.
LEMMA AmountIs ==
    ASSUME CacheIInv', now \in 0..Horizon, NEW u \in Users, NEW k \in Tokens, NEW token, TokenIsSpread(token, now),
           NEW weeks, NEW next, NEW amount, Claimed(u, k, token, weeks, next, amount)
    PROVE  /\ IsFiniteSet(weeks) /\ weeks \subseteq FeeWeeks /\ amount \in Int
           /\ \A w \in weeks : /\ userState'[u].balances[w] \in Nat /\ veSupplyCache'[w] \in Nat \ {0}
                               /\ (token.perWeek[w] * userState'[u].balances[w]) \div veSupplyCache'[w] \in Nat
<1>1. weeks \subseteq FeeWeeks
  BY DEF Claimed, WeeksFrom
<1>2. IsFiniteSet(weeks)
  BY <1>1, FeeWeeksAre, FS_Subset
<1> DEFINE b == userState'[u].balances
           q(w) == (token.perWeek[w] * b[w]) \div veSupplyCache'[w]
           f == [w \in weeks |-> q(w)]
<1>3. b \in [FeeWeeks -> Nat]
  BY DEF CacheIInv, UsersAreCached, UserTypes, Balances
<1>4. veSupplyCache' \in [FeeWeeks -> Nat] /\ \A w \in weeks : veSupplyCache'[w] # 0
  BY DEF CacheIInv, TotalIsCached, Claimed
<1>5. token.perWeek \in [FeeWeeks -> Nat]
  BY SpreadTypes
<1>6. ASSUME NEW w \in weeks PROVE b[w] \in Nat /\ veSupplyCache'[w] \in Nat \ {0} /\ q(w) \in Nat
  <2> DEFINE x == token.perWeek[w] * b[w]
             t == veSupplyCache'[w]
  <2>1. b[w] \in Nat /\ t \in Nat \ {0} /\ token.perWeek[w] \in Nat
    BY <1>1, <1>3, <1>4, <1>5
  <2>2. x \in Nat
    BY <2>1
  <2>3. q(w) = x \div t
    OBVIOUS
  <2> HIDE DEF x, t, q
  <2>4. x \div t \in Nat
    BY <2>1, <2>2, Quotients
  <2> QED  BY <2>1, <2>3, <2>4 DEF t
<1>7. f \in [weeks -> Nat] /\ f \in [weeks -> Int]
  BY <1>6
<1>8. amount = SumFunction(f)
  BY DEF Claimed
<1> HIDE DEF f
<1>9. amount \in Int
  BY <1>2, <1>7, <1>8, SumType
<1> QED  BY <1>1, <1>2, <1>6, <1>9

LEMMA SumGrows ==
    ASSUME NEW S, IsFiniteSet(S), NEW f \in [S -> Int], NEW g \in [S -> Int], NEW x \in S,
           \A y \in S \ {x} : g[y] = f[y], NEW n \in Int, g[x] = f[x] + n
    PROVE  SumFunction(g) = SumFunction(f) + n /\ SumFunction(f) \in Int
<1>1. SumFunction(g) = SumFunction(f) + g[x] - f[x]
  BY SumOneChanged
<1>2. SumFunction(f) \in Int /\ f[x] \in Int
  BY SumType
<1> QED  BY <1>1, <1>2

\* All that is paid of a token.
Column(table, k) == [u \in Users |-> table[u][k]]

LEMMA ColumnGrows ==
    ASSUME NEW p \in [Users -> [Tokens -> Int]], NEW q \in [Users -> [Tokens -> Int]], NEW u \in Users, NEW k \in Tokens,
           NEW amount \in Int, q[u][k] = p[u][k] + amount, \A v \in Users : v # u => q[v][k] = p[v][k]
    PROVE  SumFunction(Column(q, k)) = SumFunction(Column(p, k)) + amount
<1> DEFINE f == Column(p, k)
           g == Column(q, k)
<1>1. f \in [Users -> Int] /\ g \in [Users -> Int] /\ g[u] = f[u] + amount /\ \A v \in Users \ {u} : g[v] = f[v]
  BY DEF Column
<1> HIDE DEF f, g
<1>2. IsFiniteSet(Users)
  BY WeekIsPositive
<1>3. SumFunction(g) = SumFunction(f) + amount
  BY <1>1, <1>2, SumGrows
<1> QED  BY <1>3 DEF f, g

LEMMA ColumnType ==
    ASSUME NEW p \in [Users -> [Tokens -> Int]], NEW k \in Tokens
    PROVE  SumFunction(Column(p, k)) \in Int
<1> DEFINE f == Column(p, k)
<1>1. f \in [Users -> Int]
  BY DEF Column
<1> HIDE DEF f
<1>2. SumFunction(f) \in Int
  BY <1>1, WeekIsPositive, SumType
<1> QED  BY <1>2 DEF f

LEMMA TotalPaidIs == \A k : TotalPaid(k) = SumFunction(Column(paid, k)) /\ TotalPaid(k)' = SumFunction(Column(paid', k))
BY DEF TotalPaid, Column

PaysMore(u, k, amount) == paid' = [paid EXCEPT ![u][k] = @ + amount]

LEMMA PaidMore ==
    ASSUME NEW u \in Users, NEW k \in Tokens, NEW amount \in Int, paid \in [Users -> [Tokens -> Int]],
           PaysMore(u, k, amount)
    PROVE  /\ paid' \in [Users -> [Tokens -> Int]]
           /\ paid'[u][k] = paid[u][k] + amount
           /\ \A v \in Users, j \in Tokens : v # u \/ j # k => paid'[v][j] = paid[v][j]
           /\ TotalPaid(k)' = TotalPaid(k) + amount
           /\ \A j \in Tokens : TotalPaid(j) \in Int /\ (j # k => TotalPaid(j)' = TotalPaid(j))
<1>1. paid' \in [Users -> [Tokens -> Int]] /\ paid'[u][k] = paid[u][k] + amount
      /\ \A v \in Users, j \in Tokens : v # u \/ j # k => paid'[v][j] = paid[v][j]
  BY DEF PaysMore
<1>2. SumFunction(Column(paid', k)) = SumFunction(Column(paid, k)) + amount
  <2> DEFINE q == paid'
  <2>1. q \in [Users -> [Tokens -> Int]] /\ q[u][k] = paid[u][k] + amount /\ \A v \in Users : v # u => q[v][k] = paid[v][k]
    BY <1>1
  <2> HIDE DEF q
  <2>2. SumFunction(Column(q, k)) = SumFunction(Column(paid, k)) + amount
    BY <2>1, ColumnGrows
  <2> QED  BY <2>2 DEF q
<1>3. \A j \in Tokens : j # k => Column(paid', j) = Column(paid, j)
  BY <1>1 DEF Column
<1>4. \A j \in Tokens : SumFunction(Column(paid, j)) \in Int
  BY ColumnType
<1> QED  BY <1>1, <1>2, <1>3, <1>4, TotalPaidIs
-----------------------------------------------------------------------------
(* Steps of tokens *)

PaidTypes == paid \in [Users -> [Tokens -> Int]]

TokensMove ==
    /\ tokenState' \in [Tokens -> TokenTypes] /\ held' \in [Tokens -> Int] /\ PaidTypes'
    /\ \A k \in Tokens : TokenMoves(tokenState[k], tokenState'[k], held'[k], TotalPaid(k)' - TotalPaid(k))

LEMMA PaidSame ==
    ASSUME PaidTypes, paid' = paid
    PROVE  PaidTypes' /\ \A k \in Tokens : TotalPaid(k)' - TotalPaid(k) = 0
<1>1. PaidTypes'
  BY DEF PaidTypes
<1>2. ASSUME NEW k \in Tokens PROVE TotalPaid(k)' - TotalPaid(k) = 0
  <2>1. TotalPaid(k)' = SumFunction(Column(paid, k)) /\ TotalPaid(k) = SumFunction(Column(paid, k))
    BY TotalPaidIs
  <2>2. SumFunction(Column(paid, k)) \in Int
    BY ColumnType DEF PaidTypes
  <2> QED  BY <2>1, <2>2
<1> QED  BY <1>1, <1>2

LEMMA TokensKnown ==
    ASSUME TokensAreSpread, TokensAreHeld, NEW k \in Tokens
    PROVE  /\ tokenState[k] \in TokenTypes /\ TokenIsSpread(tokenState[k], now)
           /\ tokenState[k].cachedBalance \in Int /\ held[k] \in Int /\ tokenState[k].cachedBalance <= held[k]
           /\ tokenState \in [Tokens -> TokenTypes] /\ held \in [Tokens -> Int]
<1>1. /\ tokenState[k] \in TokenTypes /\ TokenIsSpread(tokenState[k], now)
      /\ tokenState \in [Tokens -> TokenTypes]
  BY DEF TokensAreSpread
<1>2. tokenState[k].cachedBalance \in Int
  BY <1>1 DEF TokenTypes
<1>3. held \in [Tokens -> Int] /\ held[k] >= tokenState[k].cachedBalance /\ held[k] \in Int
  BY DEF TokensAreHeld, TokenIsHeld
<1> QED  BY <1>1, <1>2, <1>3

LEMMA MoveNone ==
    ASSUME TokensAreSpread, TokensAreHeld, PaidTypes, UNCHANGED <<tokenState, paid>>,
           held' \in [Tokens -> Int], \A k \in Tokens : held[k] <= held'[k]
    PROVE  TokensMove
<1>1. PaidTypes' /\ \A k \in Tokens : TotalPaid(k)' - TotalPaid(k) = 0
  BY PaidSame
<1>2. tokenState' \in [Tokens -> TokenTypes]
  BY DEF TokensAreSpread
<1>3. ASSUME NEW k \in Tokens PROVE TokenMoves(tokenState[k], tokenState'[k], held'[k], TotalPaid(k)' - TotalPaid(k))
  <2> DEFINE s == tokenState[k]
             b == held'[k]
             d == TotalPaid(k)' - TotalPaid(k)
  <2>1. tokenState'[k] = s /\ d = 0
    BY <1>1
  <2>2. TokenIsSpread(s, now) /\ b \in Int /\ s.cachedBalance <= b
    <3>1. TokenIsSpread(s, now) /\ s.cachedBalance \in Int /\ held[k] \in Int /\ s.cachedBalance <= held[k]
      BY TokensKnown
    <3>2. b \in Int /\ held[k] <= b
      OBVIOUS
    <3> HIDE DEF s, b
    <3> QED  BY <3>1, <3>2
  <2> HIDE DEF s, b, d
  <2>3. TokenMoves(s, s, b, 0)
    BY <2>2, TokenRests
  <2>4. TokenMoves(s, tokenState'[k], b, d)
    BY <2>1, <2>3
  <2> QED  BY <2>4 DEF s, b, d
<1> QED  BY <1>1, <1>2, <1>3 DEF TokensMove

\* One token changes.
LEMMA MoveOne ==
    ASSUME TokensAreSpread, TokensAreHeld, PaidTypes, PaidTypes', NEW k \in Tokens, NEW r, NEW b \in Int, NEW d \in Int,
           TokenMoves(tokenState[k], r, b, d),
           tokenState' = [tokenState EXCEPT ![k] = r], held' = [held EXCEPT ![k] = b],
           TotalPaid(k)' - TotalPaid(k) = d, \A j \in Tokens : j # k => TotalPaid(j)' - TotalPaid(j) = 0
    PROVE  TokensMove
<1>1. r \in TokenTypes
  BY DEF TokenMoves, TokenIsSpread
<1>2. tokenState \in [Tokens -> TokenTypes] /\ held \in [Tokens -> Int]
  BY TokensKnown
<1>3. /\ tokenState' \in [Tokens -> TokenTypes] /\ held' \in [Tokens -> Int] /\ tokenState'[k] = r /\ held'[k] = b
      /\ \A j \in Tokens : j # k => tokenState'[j] = tokenState[j] /\ held'[j] = held[j]
  BY <1>1, <1>2
<1>4. TokenMoves(tokenState[k], tokenState'[k], held'[k], TotalPaid(k)' - TotalPaid(k))
  BY <1>3
<1>5. ASSUME NEW j \in Tokens, j # k PROVE TokenMoves(tokenState[j], tokenState'[j], held'[j], TotalPaid(j)' - TotalPaid(j))
  <2> DEFINE s == tokenState[j]
             h == held[j]
  <2>1. TokenIsSpread(s, now) /\ h \in Int /\ s.cachedBalance <= h
    BY TokensKnown
  <2>2. tokenState'[j] = s /\ held'[j] = h /\ TotalPaid(j)' - TotalPaid(j) = 0
    BY <1>3, <1>5
  <2> HIDE DEF s, h
  <2>3. TokenMoves(s, s, h, 0)
    BY <2>1, TokenRests
  <2> QED  BY <2>2, <2>3 DEF s
<1> QED  BY <1>3, <1>4, <1>5 DEF TokensMove

LEMMA MoveCheckpoint ==
    ASSUME CacheIInv, TokensAreSpread, TokensAreHeld, PaidTypes, NEW k \in Tokens, CheckpointToken(k)
    PROVE  TokensMove
<1> DEFINE s == tokenState[k]
           h == held[k]
           r == CheckpointedToken(s, h, TRUE)
<1>1. TokenIsSpread(s, now) /\ h \in Int /\ s.cachedBalance <= h /\ held \in [Tokens -> Int]
  BY TokensKnown
<1>2. s.timeCursor # 0 \/ now > StartTime
  BY DEF CheckpointToken, MayCheckpointToken
<1>3. now \in 0..Horizon
  BY DEF CacheIInv, EscrowIInv, EscrowTypes
<1>4. TokenMoves(s, r, h, 0)
  <2> DEFINE force == TRUE
  <2> HIDE DEF s, h, force
  <2>1. TokenMoves(s, CheckpointedToken(s, h, force), h, 0)
    BY <1>1, <1>2, <1>3, CheckpointMoves
  <2> QED  BY <2>1 DEF force
<1>5. tokenState' = [tokenState EXCEPT ![k] = r] /\ held' = [held EXCEPT ![k] = h] /\ paid' = paid
  BY <1>1 DEF CheckpointToken
<1>6. PaidTypes' /\ \A j \in Tokens : TotalPaid(j)' - TotalPaid(j) = 0
  BY <1>5, PaidSame
<1> HIDE DEF r, h
<1> DEFINE none == 0
<1>7. none \in Int /\ TokenMoves(s, r, h, none) /\ TotalPaid(k)' - TotalPaid(k) = none
  <2>1. 0 \in Int /\ TotalPaid(k)' - TotalPaid(k) = 0
    BY <1>6
  <2>2. none = 0
    OBVIOUS
  <2> HIDE DEF none
  <2> QED  BY <1>4, <2>1, <2>2
<1> HIDE DEF none
<1> QED  BY <1>1, <1>5, <1>6, <1>7, MoveOne

LEMMA MoveDeposit ==
    ASSUME CacheIInv, TokensAreSpread, TokensAreHeld, PaidTypes, NEW k \in Tokens, NEW amount \in Amounts,
           DepositToken(k, amount)
    PROVE  TokensMove
<1> DEFINE s == tokenState[k]
           h == held[k]
           b == h + amount
           q == CheckpointedToken(s, h, FALSE)
           r == CheckpointedToken(q, b, TRUE)
<1>1. TokenIsSpread(s, now) /\ h \in Int /\ s.cachedBalance <= h /\ held \in [Tokens -> Int]
  BY TokensKnown
<1>2. s.timeCursor # 0 \/ now > StartTime
  BY DEF DepositToken, MayCheckpointToken
<1>3. now \in 0..Horizon /\ now \in Nat
  BY WeekIsPositive DEF CacheIInv, EscrowIInv, EscrowTypes
<1>4. amount \in Nat
  BY DistributorAssumption
<1>5. b \in Int /\ h <= b
  BY <1>1, <1>4
<1> HIDE DEF b
<1>6. tokenState' = [tokenState EXCEPT ![k] = r] /\ held' = [held EXCEPT ![k] = b] /\ paid' = paid
  BY <1>1 DEF DepositToken, b
<1> HIDE DEF s, h
<1> DEFINE none == 0
           no == FALSE
           yes == TRUE
<1>7. none \in Int
  OBVIOUS
<1>8. TokenMoves(s, q, h, none) /\ q.timeCursor # 0
  <2> HIDE DEF no
  <2>1. TokenMoves(s, CheckpointedToken(s, h, no), h, 0) /\ CheckpointedToken(s, h, no).timeCursor # 0
    BY <1>1, <1>2, <1>3, CheckpointMoves
  <2> QED  BY <2>1 DEF no
<1> HIDE DEF q
<1>9. TokenIsSpread(q, now) /\ q.cachedBalance <= b
  <2>1. TokenIsSpread(q, now) /\ q.cachedBalance <= h
    BY <1>8 DEF TokenMoves
  <2>2. q.cachedBalance \in Int
    BY <2>1, SpreadTypes
  <2> QED  BY <1>1, <1>5, <2>1, <2>2
<1>10. TokenMoves(q, r, b, none)
  <2> HIDE DEF yes
  <2>1. TokenMoves(q, CheckpointedToken(q, b, yes), b, 0)
    BY <1>3, <1>5, <1>8, <1>9, CheckpointMoves
  <2> QED  BY <2>1 DEF yes
<1> HIDE DEF r
<1>11. TokenMoves(s, r, b, none)
  <2>1. none + none = none
    OBVIOUS
  <2> HIDE DEF none
  <2>2. TokenMoves(s, r, b, none + none)
    BY <1>1, <1>3, <1>5, <1>7, <1>8, <1>10, MovesCompose
  <2> QED  BY <2>1, <2>2
<1>12. PaidTypes' /\ \A j \in Tokens : TotalPaid(j)' - TotalPaid(j) = none
  BY <1>6, PaidSame
<1>13. TokenMoves(tokenState[k], r, b, none) /\ TotalPaid(k)' - TotalPaid(k) = none
       /\ \A j \in Tokens : j # k => TotalPaid(j)' - TotalPaid(j) = 0
  BY <1>11, <1>12 DEF s
<1> HIDE DEF none
<1> QED  BY <1>5, <1>6, <1>7, <1>12, <1>13, MoveOne

LEMMA MoveSend ==
    ASSUME TokensAreSpread, TokensAreHeld, PaidTypes, NEW k \in Tokens, NEW amount \in Amounts, SendToken(k, amount)
    PROVE  TokensMove
<1>1. held \in [Tokens -> Int] /\ amount \in Nat
  BY TokensKnown, DistributorAssumption
<1>2. held' = [held EXCEPT ![k] = @ + amount] /\ UNCHANGED <<tokenState, paid>>
  BY DEF SendToken
<1>3. held' \in [Tokens -> Int] /\ \A j \in Tokens : held[j] <= held'[j]
  BY <1>1, <1>2
<1> QED  BY <1>2, <1>3, MoveNone

LEMMA MoveClaim ==
    ASSUME CacheIInv, CacheIInv', TokensAreSpread, TokensAreHeld, PaidTypes, NEW u \in Users, NEW k \in Tokens,
           MayCheckpointToken(k), NEW token, NEW weeks, NEW next, NEW amount, Claimed(u, k, token, weeks, next, amount)
    PROVE  /\ TokensMove
           /\ TokenMoves(tokenState[k], token, held[k], 0) /\ token.timeCursor # 0 /\ amount \in Int
<1> DEFINE s == tokenState[k]
           h == held[k]
           b == h - amount
           r == [token EXCEPT !.cachedBalance = token.cachedBalance - amount]
<1>1. TokenIsSpread(s, now) /\ h \in Int /\ s.cachedBalance <= h /\ held \in [Tokens -> Int]
  BY TokensKnown
<1>2. s.timeCursor # 0 \/ now > StartTime
  BY DEF MayCheckpointToken
<1>3. now \in 0..Horizon
  BY DEF CacheIInv, EscrowIInv, EscrowTypes
<1>4. /\ token = CheckpointedToken(s, h, FALSE)
      /\ tokenState' = [tokenState EXCEPT ![k] = r] /\ held' = [held EXCEPT ![k] = b]
      /\ paid' = [paid EXCEPT ![u][k] = @ + amount]
  BY DEF Claimed
<1>5. TokenMoves(s, token, h, 0) /\ token.timeCursor # 0
  <2> DEFINE no == FALSE
  <2> HIDE DEF s, h, no
  <2>1. TokenMoves(s, CheckpointedToken(s, h, no), h, 0) /\ CheckpointedToken(s, h, no).timeCursor # 0
    BY <1>1, <1>2, <1>3, CheckpointMoves
  <2> QED  BY <1>4, <2>1 DEF no
<1>6. TokenIsSpread(token, now)
  BY <1>5 DEF TokenMoves
<1>7. amount \in Int
  BY <1>3, <1>6, AmountIs
<1>8. /\ r.startTime = token.startTime /\ r.timeCursor = token.timeCursor /\ r.perWeek = token.perWeek
      /\ r.cachedBalance = token.cachedBalance - amount /\ r \in TokenTypes
      /\ token.cachedBalance \in Int /\ s.cachedBalance \in Int /\ SumFunction(s.perWeek) \in Int
      /\ SumFunction(token.perWeek) \in Int
  <2>1. token \in TokenTypes
    BY <1>6, SpreadTypes
  <2>2. s.cachedBalance \in Int /\ SumFunction(s.perWeek) \in Int /\ SumFunction(token.perWeek) \in Int
    BY <1>1, <1>6, SpreadTypes
  <2> HIDE DEF s
  <2> QED  BY <1>7, <2>1, <2>2 DEF TokenTypes
<1> HIDE DEF r, s, h, b
<1>9. TokenIsSpread(r, now)
  BY <1>6, <1>8 DEF TokenIsSpread
<1>10. Continued(s, r)
  BY <1>5, <1>8 DEF TokenMoves, Continued
<1>11. TokenMoves(s, r, b, amount)
  <2>1. token.cachedBalance <= h /\ token.cachedBalance + 0 - s.cachedBalance >= SumFunction(token.perWeek) - SumFunction(s.perWeek)
    BY <1>5 DEF TokenMoves
  <2>2. b \in Int /\ r.cachedBalance <= b
    BY <1>1, <1>7, <1>8, <2>1 DEF b
  <2>3. r.cachedBalance + amount - s.cachedBalance >= SumFunction(r.perWeek) - SumFunction(s.perWeek)
    BY <1>7, <1>8, <2>1
  <2> QED  BY <1>7, <1>9, <1>10, <2>2, <2>3 DEF TokenMoves
<1>12. /\ PaidTypes' /\ TotalPaid(k)' - TotalPaid(k) = amount
       /\ \A j \in Tokens : j # k => TotalPaid(j)' - TotalPaid(j) = 0
  <2>1. /\ paid' \in [Users -> [Tokens -> Int]] /\ TotalPaid(k)' = TotalPaid(k) + amount
        /\ \A j \in Tokens : TotalPaid(j) \in Int /\ (j # k => TotalPaid(j)' = TotalPaid(j))
    <3>1. paid \in [Users -> [Tokens -> Int]]
      BY DEF PaidTypes
    <3>2. PaysMore(u, k, amount)
      BY <1>4 DEF PaysMore
    <3> QED  BY <1>7, <3>1, <3>2, PaidMore
  <2> QED  BY <1>7, <2>1 DEF PaidTypes
<1>13. b \in Int
  BY <1>1, <1>7 DEF b
<1>14. TokensMove
  BY <1>4, <1>7, <1>11, <1>12, <1>13, MoveOne DEF s
<1> QED  BY <1>5, <1>7, <1>14 DEF s, h
-----------------------------------------------------------------------------
(* Every step moves tokens and nothing else is lost *)

\* Every step of the distributor is one of the steps of tokens above.
LEMMA TokensStep ==
    ASSUME CacheIInv, TokensAreSpread, TokensAreHeld, PaidTypes, DistributorNext \/ UNCHANGED distributorVars
    PROVE  TokensMove
<1>1. ASSUME UNCHANGED <<tokenState, paid, held>> PROVE TokensMove
  <2>1. held \in [Tokens -> Int]
    BY DEF TokensAreHeld
  <2>2. held' \in [Tokens -> Int] /\ \A k \in Tokens : held[k] <= held'[k]
    <3>1. \A k \in Tokens : held[k] \in Int
      BY <2>1
    <3>2. held' = held
      BY <1>1
    <3> QED  BY <2>1, <3>1, <3>2
  <2> QED  BY <1>1, <2>2, MoveNone
<1>2. CASE EscrowNext /\ UNCHANGED <<cacheVars, tokenVars>>
  BY <1>1, <1>2 DEF tokenVars
<1>3. CASE CheckpointSupply
  BY <1>1, <1>3 DEF CheckpointSupply, tokenVars
<1>4. CASE \E u \in Users : CheckpointUser(u)
  BY <1>1, <1>4 DEF CheckpointUser, tokenVars
<1>5. CASE \E k \in Tokens : CheckpointToken(k)
  BY <1>5, MoveCheckpoint
<1>6. CASE \E k \in Tokens, amount \in Amounts : DepositToken(k, amount) \/ SendToken(k, amount)
  BY <1>6, MoveDeposit, MoveSend
<1>7. CASE \E u \in Users, k \in Tokens : ClaimToken(u, k)
  <2>1. CacheIInv'
    BY CacheStep
  <2>2. PICK u \in Users, k \in Tokens : ClaimToken(u, k)
    BY <1>7
  <2>3. MayCheckpointToken(k) /\ \E token, weeks, next, amount : Claimed(u, k, token, weeks, next, amount)
    BY <2>2, ClaimIsClaimed
  <2>4. PICK token, weeks, next, amount : Claimed(u, k, token, weeks, next, amount)
    BY <2>3
  <2> QED  BY <2>1, <2>3, <2>4, MoveClaim
<1>8. CASE UNCHANGED distributorVars
  BY <1>1, <1>8 DEF distributorVars, tokenVars
<1> QED  BY <1>2, <1>3, <1>4, <1>5, <1>6, <1>7, <1>8 DEF DistributorNext

LEMMA SpreadLater ==
    ASSUME NEW s, NEW time \in Nat, TokenIsSpread(s, time), NEW time2 \in Nat, time <= time2
    PROVE  TokenIsSpread(s, time2)
<1>1. s.timeCursor \in Nat /\ s.timeCursor <= time
  BY SpreadTypes DEF TokenIsSpread
<1>2. s.timeCursor <= time2
  BY <1>1
<1> QED  BY <1>2 DEF TokenIsSpread

LEMMA TokensKept ==
    ASSUME now \in Nat, now' \in Nat, now <= now', TokensAreSpread, TokensAreHeld, PaidTypes, TokensMove
    PROVE  TokensAreSpread' /\ TokensAreHeld' /\ PaidTypes'
<1>1. TokensAreSpread'
  <2>1. ASSUME NEW k \in Tokens PROVE TokenIsSpread(tokenState'[k], now')
    <3>1. TokenIsSpread(tokenState'[k], now)
      BY DEF TokensMove, TokenMoves
    <3> QED  BY <3>1, SpreadLater
  <2>2. tokenState' \in [Tokens -> TokenTypes]
    BY DEF TokensMove
  <2> QED  BY <2>1, <2>2 DEF TokensAreSpread
<1>2. ASSUME NEW k \in Tokens PROVE TokenIsHeld(tokenState'[k], held'[k], TotalPaid(k)')
  <2> DEFINE s == tokenState[k]
             r == tokenState'[k]
             d == TotalPaid(k)' - TotalPaid(k)
             p == TotalPaid(k)
             q == TotalPaid(k)'
  <2>1. s.cachedBalance \in Int /\ SumFunction(s.perWeek) \in Int /\ s.cachedBalance + p >= SumFunction(s.perWeek)
    <3>1. TokenIsSpread(s, now)
      BY TokensKnown
    <3>2. s.cachedBalance + p >= SumFunction(s.perWeek)
      BY DEF TokensAreHeld, TokenIsHeld
    <3> HIDE DEF s, p
    <3> QED  BY <3>1, <3>2, SpreadTypes
  <2>2. /\ TokenIsSpread(r, now) /\ held'[k] \in Int /\ r.cachedBalance <= held'[k]
        /\ d \in Int /\ r.cachedBalance + d - s.cachedBalance >= SumFunction(r.perWeek) - SumFunction(s.perWeek)
    BY DEF TokensMove, TokenMoves
  <2>3. p \in Int /\ q \in Int
    <3>1. p = SumFunction(Column(paid, k)) /\ q = SumFunction(Column(paid', k))
      BY TotalPaidIs
    <3>2. SumFunction(Column(paid, k)) \in Int
      BY ColumnType DEF PaidTypes
    <3>3. SumFunction(Column(paid', k)) \in Int
      <4> DEFINE z == paid'
      <4>1. z \in [Users -> [Tokens -> Int]]
        BY DEF TokensMove, PaidTypes
      <4> HIDE DEF z
      <4>2. SumFunction(Column(z, k)) \in Int
        BY <4>1, ColumnType
      <4> QED  BY <4>2 DEF z
    <3> QED  BY <3>1, <3>2, <3>3
  <2>4. d = q - p
    OBVIOUS
  <2> HIDE DEF s, r, d, p, q
  <2>5. r.cachedBalance \in Int /\ SumFunction(r.perWeek) \in Int
    BY <2>2, SpreadTypes
  <2>6. r.cachedBalance + q >= SumFunction(r.perWeek)
    BY <2>1, <2>2, <2>3, <2>4, <2>5
  <2>7. held'[k] >= r.cachedBalance
    BY <2>2, <2>5
  <2> QED  BY <2>6, <2>7 DEF TokenIsHeld, r, q
<1>3. TokensAreHeld'
  <2>1. held' \in [Tokens -> Int]
    BY DEF TokensMove
  <2> QED  BY <1>2, <2>1 DEF TokensAreHeld
<1>4. PaidTypes'
  BY DEF TokensMove
<1> QED  BY <1>1, <1>3, <1>4

\* What is final stays as it is.
LEMMA SharesKept ==
    ASSUME CacheIInv, CacheIInv', PastIsKept, TokensAreSpread, TokensAreSpread', NEW u \in Users, NEW k \in Tokens,
           Continued(tokenState[k], tokenState'[k]), NEW c, ClaimStands(u, k, c)
    PROVE  /\ ClaimStands(u, k, c)'
           /\ \A w \in FeeWeeks : w < c => w < now /\ w < now' /\ Share(u, k, w)' = Share(u, k, w)
<1> DEFINE s == tokenState[k]
           r == tokenState'[k]
           x == s.timeCursor
           y == r.timeCursor
<1>0. /\ now \in Nat /\ now' \in Nat /\ now <= now' /\ StartTime \in Nat /\ StartTime > 0
      /\ EscrowIInv /\ EscrowIInv'
  BY WeekIsPositive, StartIs DEF CacheIInv, EscrowIInv, EscrowTypes, PastIsKept
<1>1. x \in Nat /\ y \in Nat /\ x <= now /\ y <= now' /\ s.startTime \in Nat
  BY DEF TokensAreSpread, TokenIsSpread, TokenTypes
<1>2. c \in Nat /\ (c # 0 => c % Week = 0 /\ StartTime <= c /\ x # 0)
      /\ \A w \in FeeWeeks : StartTime <= w /\ w < c => w < now /\ (w < RoundDown(x) \/ BalanceOf(u, w) = 0)
  BY DEF ClaimStands, ClaimIsFinal
<1>3. ASSUME c # 0
      PROVE  /\ x # 0 /\ x <= y /\ y # 0 /\ RoundDown(x) \in Nat /\ RoundDown(y) \in Nat /\ RoundDown(x) <= RoundDown(y)
             /\ StartTime <= s.startTime /\ s.startTime <= RoundDown(x) /\ RoundDown(x) <= x
             /\ \A w \in FeeWeeks : w < RoundDown(x) => r.perWeek[w] = s.perWeek[w]
  <2>1. x # 0
    BY <1>2, <1>3
  <2>2. x <= y /\ \A w \in FeeWeeks : w < RoundDown(x) => r.perWeek[w] = s.perWeek[w]
    BY <2>1 DEF Continued
  <2>3. TokenIsSpread(s, now)
    BY DEF TokensAreSpread
  <2>4. StartTime <= s.startTime /\ s.startTime <= RoundDown(x)
    BY <2>1, <2>3 DEF TokenIsSpread
  <2> HIDE DEF x, y, s, r
  <2>5. RoundDown(x) \in Nat /\ RoundDown(x) % Week = 0 /\ RoundDown(x) <= x
    BY <1>1, RoundDownIs
  <2>6. RoundDown(y) \in Nat /\ \A w \in Nat : w % Week = 0 /\ w <= y => w <= RoundDown(y)
    BY <1>1, RoundDownIs
  <2>7. RoundDown(x) <= RoundDown(y)
    BY <1>1, <2>2, <2>5, <2>6
  <2>8. y # 0
    BY <1>1, <2>1, <2>2
  <2> QED  BY <2>1, <2>2, <2>4, <2>5, <2>6, <2>7, <2>8
<1> HIDE DEF x, y
<1>4. ASSUME NEW w \in FeeWeeks, w < c
      PROVE  /\ w < now /\ w < now' /\ w \in Times /\ c # 0
             /\ BalanceOf(u, w)' = BalanceOf(u, w) /\ TotalSupply(w)' = TotalSupply(w)
  <2>1. w \in Nat /\ c # 0
    BY <1>2, <1>4, FeeWeeksAre
  <2>2. w < now
    <3>1. CASE StartTime <= w
      BY <1>2, <1>4, <3>1
    <3>2. CASE w < StartTime
      BY <1>0, <1>1, <1>3, <2>1, <3>2
    <3> QED  BY <1>0, <2>1, <3>1, <3>2
  <2>3. w \in Times
    <3>1. w \in Nat /\ w <= now
      BY <1>0, <2>1, <2>2
    <3> QED  BY <1>0, <3>1, PowersAreNats
  <2> QED  BY <1>0, <2>1, <2>2, <2>3 DEF PastIsKept
<1>5. ASSUME NEW w \in FeeWeeks, StartTime <= w, w < c
      PROVE  w < now' /\ (w < RoundDown(y) \/ BalanceOf(u, w)' = 0)
  <2>1. w < RoundDown(x) \/ BalanceOf(u, w) = 0
    BY <1>2, <1>5
  <2>2. w \in Nat /\ c # 0
    BY <1>4, <1>5, FeeWeeksAre
  <2>3. w < RoundDown(x) => w < RoundDown(y)
    BY <1>3, <2>2
  <2> QED  BY <1>4, <1>5, <2>1, <2>3
<1>6. ASSUME NEW w \in FeeWeeks, w < c PROVE Share(u, k, w)' = Share(u, k, w)
  <2> DEFINE p == s.perWeek[w]
             q == r.perWeek[w]
             b == BalanceOf(u, w)
             t == TotalSupply(w)
  <2>0. w \in Nat /\ w <= now /\ p \in Nat /\ q \in Nat /\ TokenIsSpread(s, now) /\ TokenIsSpread(r, now')
    BY <1>0, <1>4, <1>6, FeeWeeksAre DEF TokensAreSpread, TokenTypes, Spread
  <2>1. b \in Nat /\ t \in Nat
    BY <1>0, <2>0, PowersAreNats
  <2>2. Share(u, k, w) = ShareOf(p, b, t) /\ Share(u, k, w)' = ShareOf(q, b, t)
    BY <1>4, <1>6, ShareIs
  <2>3. b = 0 \/ p = q
    <3>1. CASE w < StartTime
      <4>1. p = 0
        BY <2>0, <3>1, NothingEarly
      <4>2. q = 0
        BY <2>0, <3>1, NothingEarly
      <4> QED  BY <4>1, <4>2
    <3>2. CASE StartTime <= w
      BY <1>2, <1>3, <1>4, <1>6, <3>2
    <3> QED  BY <1>0, <2>0, <3>1, <3>2
  <2> HIDE DEF p, q, b, t
  <2>4. CASE b = 0
    BY <2>0, <2>1, <2>2, <2>4, ShareOfNothing
  <2> QED  BY <2>2, <2>3, <2>4
<1>7. c # 0 => c % Week = 0 /\ StartTime <= c /\ y # 0
  BY <1>2, <1>3
<1>8. ClaimStands(u, k, c)'
  BY <1>2, <1>5, <1>7 DEF ClaimStands, ClaimIsFinal, y
<1> QED  BY <1>4, <1>6, <1>8
-----------------------------------------------------------------------------
(* A claim pays the shares of its weeks *)

\* The smaller of the cursors, none of which is inside a week.
LEMMA LastWeekIs ==
    ASSUME NEW a \in Nat, a % Week = 0, NEW b \in Nat, b % Week = 0, NEW d \in Nat,
           NEW fw, fw = Min({RoundUp(Min({a, b})), d})
    PROVE  fw \in Nat /\ fw <= a /\ fw <= b /\ fw <= d
<1> DEFINE m == Min({a, b})
<1>1. m = IF a <= b THEN a ELSE b
  <2>1. a \in Int /\ b \in Int
    OBVIOUS
  <2> QED  BY <2>1, MinOfTwo
<1>2. m \in Nat /\ m % Week = 0 /\ m <= a /\ m <= b
  BY <1>1
<1> HIDE DEF m
<1>3. RoundUp(m) = m
  BY <1>2, RoundUpIs
<1>4. fw = Min({m, d})
  BY <1>3 DEF m
<1>5. fw = IF m <= d THEN m ELSE d
  <2>1. m \in Int /\ d \in Int
    BY <1>2
  <2> QED  BY <1>4, <2>1, MinOfTwo
<1> QED  BY <1>2, <1>5

\* A user's cache after a step.
LEMMA CachedUserIs ==
    ASSUME NEW points, NEW user, NEW time, UserIsCached(points, user, time)
    PROVE  /\ user.timeCursor \in Nat /\ user.startTime \in Nat /\ user.balances \in [FeeWeeks -> Nat]
           /\ user.timeCursor % Week = 0 /\ user.startTime % Week = 0
           /\ user.timeCursor = 0 => user.startTime = 0
           /\ user.timeCursor # 0 => StartTime <= user.startTime /\ user.startTime <= user.timeCursor
           /\ \A w \in FeeWeeks : StartTime <= w /\ w < user.timeCursor => w < time /\ user.balances[w] = PowerIn(points, w)
           /\ \A w \in FeeWeeks : StartTime <= w /\ w < user.startTime => PowerIn(points, w) = 0
<1>1. user \in UserTypes
  BY DEF UserIsCached
<1>2. user.timeCursor \in Nat /\ user.startTime \in Nat /\ user.balances \in [FeeWeeks -> Nat]
  BY <1>1 DEF UserTypes, Balances
<1>3. 0 % Week = 0
  BY WeekIsPositive
<1>4. CASE user.timeCursor # 0
  BY <1>2, <1>4 DEF UserIsCached, IsCachedUntil
<1>5. CASE user.timeCursor = 0
  <2>1. user.startTime = 0
    BY <1>5 DEF UserIsCached
  <2>2. \A w \in FeeWeeks : ~(w < 0)
    BY FeeWeeksAre
  <2> QED  BY <1>2, <1>3, <1>5, <2>1, <2>2
<1> QED  BY <1>4, <1>5

\* The sum until a cursor, over the same weeks as every other.
UntilWeek(f, c) == [w \in FeeWeeks |-> IF w < c THEN f[w] ELSE 0]
SharesOf(u, k) == [w \in FeeWeeks |-> Share(u, k, w)]

LEMMA SharesUntilIs ==
    ASSUME NEW f, NEW c, NEW g, g = [w \in WeeksBefore(c) |-> f[w]], \A w \in FeeWeeks : w < c => f[w] \in Int
    PROVE  /\ SumFunction(g) = SumFunction(UntilWeek(f, c)) /\ UntilWeek(f, c) \in [FeeWeeks -> Int]
           /\ SumFunction(g) \in Int
<1> DEFINE T == WeeksBefore(c)
           h == UntilWeek(f, c)
<1>1. T \in SUBSET FeeWeeks /\ \A w \in FeeWeeks : w \in T <=> w < c
  BY DEF WeeksBefore
<1> HIDE DEF T
<1>2. g \in [T -> Int] /\ \A w \in T : g[w] = f[w]
  BY <1>1 DEF T
<1>3. Extends(h, FeeWeeks, T, g)
  BY <1>1, <1>2 DEF UntilWeek, Extends
<1> HIDE DEF h
<1>4. SumFunction(g) = SumFunction(h) /\ h \in [FeeWeeks -> Int]
  <2>1. T \in SUBSET FeeWeeks /\ IsFiniteSet(FeeWeeks)
    BY <1>1, FeeWeeksAre
  <2>2. g \in [T -> Int]
    BY <1>2
  <2> QED  BY <1>3, <2>1, <2>2, SumOfPart
<1>5. SumFunction(h) \in Int
  BY <1>4, FeeWeeksAre, SumType
<1> QED  BY <1>4, <1>5 DEF h

LEMMA SharesUntilAre ==
    \A u, k, c : /\ SharesUntil(u, k, c) = SumFunction([w \in WeeksBefore(c) |-> SharesOf(u, k)[w]])
                 /\ SharesUntil(u, k, c)' = SumFunction([w \in WeeksBefore(c') |-> SharesOf(u, k)'[w]])
                 /\ \A w \in FeeWeeks : SharesOf(u, k)[w] = Share(u, k, w) /\ SharesOf(u, k)'[w] = Share(u, k, w)'
BY DEF SharesUntil, SharesOf, WeeksBefore
-----------------------------------------------------------------------------
(* The weeks of a claim *)

\* Powers of weeks before now are numbers before and after a step.
LEMMA PowersKeepTypes ==
    ASSUME EscrowIInv, PastIsKept, NEW u \in Users, NEW w \in Nat, w < now
    PROVE  BalanceOf(u, w)' \in Nat /\ TotalSupply(w)' \in Nat
<1>1. w <= now
  BY WeekIsPositive DEF EscrowIInv, EscrowTypes
<1>2. w \in Times /\ TotalSupply(w) \in Nat /\ BalanceOf(u, w) \in Nat
  BY <1>1, PowersAreNats
<1> QED  BY <1>2 DEF PastIsKept

\* The weeks between the cursors are final, and each gives the user's share, which is
\* what the caches and the token's state give.
LEMMA ClaimedWeeks ==
    ASSUME CacheIInv, CacheIInv', PastIsKept, now' = now, NEW u \in Users, NEW k \in Tokens,
           TokensAreSpread, ClaimStands(u, k, userTokenTimeCursor[u][k]), userTokenTimeCursor[u][k] \in Nat,
           NEW token, TokenIsSpread(token, now), token.timeCursor # 0, Continued(tokenState[k], token),
           tokenState'[k].timeCursor = token.timeCursor, tokenState'[k].perWeek = token.perWeek,
           NEW weeks, NEW next, NEW amount, Claimed(u, k, token, weeks, next, amount),
           NEW end, end = next + Week * Cardinality(weeks)
    PROVE  /\ end \in Nat /\ end % Week = 0 /\ StartTime <= next /\ next <= end /\ next \in Nat
           /\ userTokenTimeCursor[u][k] # 0 => next = userTokenTimeCursor[u][k]
           /\ \A w \in FeeWeeks : w \in weeks <=> next <= w /\ w < end
           /\ \A w \in weeks : /\ w \in FeeWeeks /\ w < now /\ w < RoundDown(token.timeCursor)
                               /\ (token.perWeek[w] * userState'[u].balances[w]) \div veSupplyCache'[w] = Share(u, k, w)'
           /\ userTokenTimeCursor[u][k] = 0 =>
                 \A w \in FeeWeeks : w < next =>
                    /\ StartTime <= w => w < now /\ (w < RoundDown(token.timeCursor) \/ BalanceOf(u, w)' = 0)
                    /\ Share(u, k, w)' = 0
<1> DEFINE c == userTokenTimeCursor[u][k]
           user == userState'[u]
           x == token.timeCursor
           fw == FirstUnclaimableWeek(u, token)
           T == timeCursor'
           C == veSupplyCache'
           points == user_point_history'[u]
<1>0. /\ now \in Nat /\ now <= Horizon /\ Week \in Nat \ {0} /\ Horizon \in Nat
      /\ StartTime \in Nat /\ StartTime > 0 /\ StartTime % Week = 0
      /\ EscrowIInv
  BY WeekIsPositive, StartIs DEF CacheIInv, EscrowIInv, EscrowTypes
<1>1. /\ user.timeCursor \in Nat /\ user.startTime \in Nat /\ user.balances \in [FeeWeeks -> Nat]
      /\ user.timeCursor % Week = 0 /\ user.startTime % Week = 0
      /\ user.timeCursor = 0 => user.startTime = 0
      /\ user.timeCursor # 0 => StartTime <= user.startTime /\ user.startTime <= user.timeCursor
      /\ \A w \in FeeWeeks : StartTime <= w /\ w < user.timeCursor => w < now /\ user.balances[w] = BalanceOf(u, w)'
      /\ \A w \in FeeWeeks : StartTime <= w /\ w < user.startTime => BalanceOf(u, w)' = 0
  <2>1. UserIsCached(points, user, now)
    BY DEF CacheIInv, UsersAreCached
  <2>2. \A w : BalanceOf(u, w)' = PowerIn(points, w)
    BY DEF BalanceOf, PowerIn
  <2> HIDE DEF points, user
  <2> QED  BY <2>1, <2>2, CachedUserIs
<1>2. /\ T \in Nat /\ T % Week = 0 /\ C \in [FeeWeeks -> Nat]
      /\ \A w \in FeeWeeks : StartTime <= w /\ w < T => w < now /\ C[w] = TotalSupply(w)'
  BY DEF CacheIInv, TotalIsCached
<1>3. /\ x \in Nat /\ x # 0 /\ x <= now /\ token.startTime \in Nat /\ token.startTime % Week = 0
      /\ StartTime <= token.startTime /\ token.startTime <= RoundDown(x)
      /\ RoundDown(x) \in Nat /\ RoundDown(x) % Week = 0 /\ RoundDown(x) <= now
      /\ token.perWeek \in [FeeWeeks -> Nat]
      /\ \A w \in FeeWeeks : w < token.startTime => token.perWeek[w] = 0
  <2>1. x \in Nat /\ token.startTime \in Nat /\ token.perWeek \in [FeeWeeks -> Nat]
    BY SpreadTypes
  <2>2. /\ x <= now /\ token.startTime % Week = 0 /\ StartTime <= token.startTime /\ token.startTime <= RoundDown(x)
        /\ \A w \in FeeWeeks : w < token.startTime => token.perWeek[w] = 0
    BY DEF TokenIsSpread
  <2> HIDE DEF x
  <2>3. RoundDown(x) \in Nat /\ RoundDown(x) % Week = 0 /\ RoundDown(x) <= x
    BY <2>1, RoundDownIs
  <2>4. x # 0
    BY DEF x
  <2> QED  BY <1>0, <2>1, <2>2, <2>3, <2>4
<1>4. fw \in Nat /\ fw <= T /\ fw <= user.timeCursor /\ fw <= RoundDown(x)
  <2> DEFINE b == user.timeCursor
             d == RoundDown(x)
  <2>1. fw = Min({RoundUp(Min({T, b})), d})
    BY DEF FirstUnclaimableWeek
  <2>2. T \in Nat /\ T % Week = 0 /\ b \in Nat /\ b % Week = 0 /\ d \in Nat
    BY <1>1, <1>2, <1>3
  <2> HIDE DEF fw, T, b, d
  <2>3. fw \in Nat /\ fw <= T /\ fw <= b /\ fw <= d
    BY <2>1, <2>2, LastWeekIs
  <2> QED  BY <2>3 DEF b, d
<1>5. /\ next = IF c > 0 THEN c ELSE Max({user.startTime, token.startTime})
      /\ weeks = WeeksFrom(next, fw, MaxWeeks)
      /\ \A w \in weeks : C[w] # 0
  BY DEF Claimed
<1>6. c \in Nat /\ (c # 0 => c % Week = 0 /\ StartTime <= c)
  BY DEF ClaimStands, ClaimIsFinal
<1> HIDE DEF c, user, x, fw, T, C
<1>7. /\ next \in Nat /\ next % Week = 0 /\ StartTime <= next /\ (c # 0 => next = c)
      /\ c = 0 => next = IF user.startTime >= token.startTime THEN user.startTime ELSE token.startTime
  <2>1. CASE c # 0
    BY <1>5, <1>6, <2>1
  <2>2. CASE c = 0
    <3> DEFINE a == user.startTime
               b == token.startTime
    <3>1. a \in Int /\ b \in Int
      BY <1>1, <1>3
    <3>2. next = Max({a, b})
      BY <1>5, <2>2
    <3> HIDE DEF a, b
    <3>3. next = IF a >= b THEN a ELSE b
      BY <3>1, <3>2, MaxOfTwo
    <3> QED  BY <1>0, <1>1, <1>3, <2>2, <3>3 DEF a, b
  <2> QED  BY <2>1, <2>2
<1>8. /\ end \in Nat /\ end % Week = 0 /\ next <= end
      /\ weeks \subseteq FeeWeeks
      /\ \A w \in FeeWeeks : w \in weeks <=> next <= w /\ w < end
      /\ \A w \in FeeWeeks : w \in weeks => w < fw
  <2>1. MaxWeeks \in Nat /\ fw <= Horizon + Week + 1
    BY <1>0, <1>3, <1>4, DistributorAssumption
  <2>2. /\ IsFiniteSet(weeks) /\ weeks \subseteq FeeWeeks
        /\ end \in Nat /\ end % Week = 0 /\ next <= end
        /\ \A w \in Nat : w % Week = 0 => (w \in weeks <=> next <= w /\ w < end)
        /\ \A w \in Nat : w \in weeks => w < fw
    <3> DEFINE n == MaxWeeks
    <3>1. weeks = WeeksFrom(next, fw, n) /\ end = next + Week * Cardinality(weeks)
      BY <1>5
    <3>2. next \in Nat /\ next % Week = 0 /\ fw \in Nat /\ n \in Nat /\ fw <= Horizon + Week + 1
      BY <1>4, <1>7, <2>1
    <3> HIDE DEF n
    <3>3. IsSpan(next, fw, n, weeks, end)
      BY <3>1 DEF IsSpan
    <3>4. SpanGoes(next, fw, weeks, end)
      BY <3>2, <3>3, SpanIs
    <3> QED  BY <3>4 DEF SpanGoes
  <2> QED  BY <2>2, FeeWeeksAre
<1>9. \A w : Share(u, k, w)' = ShareOf(token.perWeek[w], BalanceOf(u, w)', TotalSupply(w)')
  BY ShareIs
<1>10. ASSUME NEW w \in weeks
       PROVE  /\ w \in FeeWeeks /\ w < now /\ w < RoundDown(x)
              /\ (token.perWeek[w] * user.balances[w]) \div C[w] = Share(u, k, w)'
  <2>1. w \in FeeWeeks /\ w \in Nat /\ w < fw /\ StartTime <= w
    BY <1>0, <1>7, <1>8, FeeWeeksAre
  <2>2. w < T /\ w < user.timeCursor /\ w < RoundDown(x)
    BY <1>1, <1>2, <1>3, <1>4, <2>1
  <2>3. w < now /\ user.balances[w] = BalanceOf(u, w)' /\ C[w] = TotalSupply(w)' /\ C[w] # 0
    BY <1>1, <1>2, <1>5, <2>1, <2>2
  <2>4. Share(u, k, w)' = ShareOf(token.perWeek[w], user.balances[w], C[w])
    BY <1>9, <2>3
  <2>5. (token.perWeek[w] * user.balances[w]) \div C[w] = Share(u, k, w)'
    BY <2>3, <2>4 DEF ShareOf
  <2> QED  BY <2>1, <2>2, <2>3, <2>5
<1>11. ASSUME c = 0, NEW w \in FeeWeeks, w < next
       PROVE  /\ StartTime <= w => w < now /\ (w < RoundDown(x) \/ BalanceOf(u, w)' = 0)
              /\ Share(u, k, w)' = 0
  <2>0. w \in Nat
    BY FeeWeeksAre
  <2>1. w < token.startTime \/ (user.timeCursor # 0 /\ w < user.startTime /\ w < user.timeCursor /\ ~(w < token.startTime))
    <3>1. CASE user.startTime >= token.startTime
      <4>1. next = user.startTime
        BY <1>7, <1>11, <3>1
      <4>2. user.timeCursor # 0
        BY <1>0, <1>1, <1>3, <3>1
      <4> QED  BY <1>1, <1>3, <1>11, <2>0, <4>1, <4>2
    <3>2. CASE ~(user.startTime >= token.startTime)
      BY <1>7, <1>11, <3>2
    <3> QED  BY <3>1, <3>2
  <2>2. CASE w < token.startTime
    <3>1. w < RoundDown(x) /\ w < now /\ token.perWeek[w] = 0
      BY <1>0, <1>3, <2>0, <2>2
    <3>2. BalanceOf(u, w)' \in Nat /\ TotalSupply(w)' \in Nat
      BY <1>0, <2>0, <3>1, PowersKeepTypes
    <3>3. ShareOf(token.perWeek[w], BalanceOf(u, w)', TotalSupply(w)') = 0
      <4> DEFINE p == token.perWeek[w]
                 b == BalanceOf(u, w)'
                 t == TotalSupply(w)'
      <4>1. p = 0 /\ p \in Nat /\ b \in Nat /\ t \in Nat
        BY <3>1, <3>2
      <4> HIDE DEF p, b, t
      <4>2. ShareOf(p, b, t) = 0
        BY <4>1, ShareOfNothing
      <4> QED  BY <4>2 DEF p, b, t
    <3> QED  BY <1>9, <3>1, <3>3
  <2>3. CASE user.timeCursor # 0 /\ w < user.startTime /\ w < user.timeCursor /\ ~(w < token.startTime)
    <3>1. StartTime <= w
      BY <1>0, <1>3, <2>0, <2>3
    <3>2. w < now /\ BalanceOf(u, w)' = 0
      BY <1>1, <2>3, <3>1
    <3>3. BalanceOf(u, w)' \in Nat /\ TotalSupply(w)' \in Nat
      BY <1>0, <2>0, <3>2, PowersKeepTypes
    <3>4. ShareOf(token.perWeek[w], BalanceOf(u, w)', TotalSupply(w)') = 0
      <4> DEFINE p == token.perWeek[w]
                 b == BalanceOf(u, w)'
                 t == TotalSupply(w)'
      <4>1. b = 0 /\ p \in Nat /\ b \in Nat /\ t \in Nat
        BY <1>3, <3>2, <3>3
      <4> HIDE DEF p, b, t
      <4>2. ShareOf(p, b, t) = 0
        BY <4>1, ShareOfNothing
      <4> QED  BY <4>2 DEF p, b, t
    <3> QED  BY <1>9, <3>2, <3>4
  <2> QED  BY <2>1, <2>2, <2>3
<1> QED  BY <1>7, <1>8, <1>10, <1>11 DEF c, user, x, C
-----------------------------------------------------------------------------
(* Claims *)

\* A claim moves the cursor over its weeks and pays exactly their shares.
LEMMA ClaimPays ==
    ASSUME CacheIInv, CacheIInv', PastIsKept, now' = now, NEW u \in Users, NEW k \in Tokens,
           TokensAreSpread, TokensAreSpread', Continued(tokenState[k], tokenState'[k]),
           NEW c \in Nat, c = userTokenTimeCursor[u][k], ClaimStands(u, k, c),
           NEW token, TokenIsSpread(token, now), token.timeCursor # 0, Continued(tokenState[k], token),
           tokenState'[k].timeCursor = token.timeCursor, tokenState'[k].perWeek = token.perWeek,
           NEW weeks, NEW next, NEW amount, Claimed(u, k, token, weeks, next, amount),
           NEW end, end = next + Week * Cardinality(weeks)
    PROVE  end \in Nat /\ ClaimStands(u, k, end)' /\ SharesUntil(u, k, end)' = SharesUntil(u, k, c) + amount
<1> DEFINE x == token.timeCursor
           quotient(w) == (token.perWeek[w] * userState'[u].balances[w]) \div veSupplyCache'[w]
           f == SharesOf(u, k)
           h == SharesOf(u, k)'
           g == [w \in weeks |-> quotient(w)]
           X == [w \in FeeWeeks |-> IF w \in weeks THEN g[w] ELSE 0]
           A == UntilWeek(f, c)
           B == UntilWeek(h, end)
<1>0. /\ now \in Nat /\ StartTime \in Nat /\ StartTime > 0 /\ EscrowIInv /\ now \in 0..Horizon
  BY WeekIsPositive, StartIs DEF CacheIInv, EscrowIInv, EscrowTypes
<1>1. /\ end \in Nat /\ end % Week = 0 /\ StartTime <= next /\ next <= end /\ next \in Nat
      /\ c # 0 => next = c
      /\ \A w \in FeeWeeks : w \in weeks <=> next <= w /\ w < end
      /\ \A w \in weeks : w \in FeeWeeks /\ w < now /\ w < RoundDown(x) /\ quotient(w) = Share(u, k, w)'
      /\ c = 0 =>
            \A w \in FeeWeeks : w < next =>
               /\ StartTime <= w => w < now /\ (w < RoundDown(x) \/ BalanceOf(u, w)' = 0)
               /\ Share(u, k, w)' = 0
  BY ClaimedWeeks
<1>2. /\ ClaimStands(u, k, c)'
      /\ \A w \in FeeWeeks : w < c => w < now /\ Share(u, k, w)' = Share(u, k, w)
  BY SharesKept
<1>3. /\ IsFiniteSet(weeks) /\ weeks \in SUBSET FeeWeeks /\ amount \in Int /\ \A w \in weeks : quotient(w) \in Nat
  BY <1>0, AmountIs
<1>4. amount = SumFunction(g)
  BY DEF Claimed
<1> HIDE DEF quotient
<1>5. ClaimStands(u, k, end)'
  <2>1. /\ c # 0 => /\ c % Week = 0 /\ StartTime <= c
        /\ \A w \in FeeWeeks : StartTime <= w /\ w < c =>
              w < now /\ (w < RoundDown(x) \/ BalanceOf(u, w)' = 0)
    BY <1>2 DEF ClaimStands, ClaimIsFinal
  <2>2. ASSUME NEW w \in FeeWeeks, StartTime <= w, w < end
        PROVE  w < now /\ (w < RoundDown(x) \/ BalanceOf(u, w)' = 0)
    <3>1. CASE w \in weeks
      BY <1>1, <3>1
    <3>2. CASE w \notin weeks
      <4>1. w < next
        BY <1>1, <2>2, <3>2, FeeWeeksAre
      <4>2. CASE c = 0
        BY <1>1, <2>2, <4>1, <4>2
      <4>3. CASE c # 0
        BY <1>1, <2>1, <2>2, <4>1, <4>3
      <4> QED  BY <4>2, <4>3
    <3> QED  BY <3>1, <3>2
  <2>3. end # 0 /\ StartTime <= end
    BY <1>0, <1>1
  <2> QED  BY <1>1, <2>2, <2>3 DEF ClaimStands, ClaimIsFinal
<1>6. \A w \in FeeWeeks : f[w] = Share(u, k, w) /\ h[w] = Share(u, k, w)'
  BY SharesUntilAre
<1> HIDE DEF f, h
<1>7. ASSUME NEW w \in FeeWeeks
      PROVE  /\ w < c => f[w] \in Int
             /\ w < end => h[w] \in Int
             /\ (IF w < end THEN h[w] ELSE 0) = (IF w < c THEN f[w] ELSE 0) + (IF w \in weeks THEN quotient(w) ELSE 0)
  <2>0. w \in Nat
    BY FeeWeeksAre
  <2>1. w < c => f[w] \in Nat /\ h[w] = f[w]
    <3>1. w < c => w <= now
      BY <1>0, <1>2, <2>0
    <3>2. w < c => Share(u, k, w) \in Nat
      BY <1>0, <3>1, ShareType
    <3> QED  BY <1>2, <1>6, <3>2
  <2>2. CASE w \in weeks
    <3>1. h[w] = quotient(w) /\ quotient(w) \in Nat /\ next <= w /\ w < end
      BY <1>1, <1>3, <1>6, <2>2
    <3>2. ~(w < c)
      BY <1>1, <2>0, <3>1
    <3> QED  BY <2>2, <3>1, <3>2
  <2>3. CASE w \notin weeks /\ w < end
    <3>1. w < next
      BY <1>1, <2>0, <2>3
    <3>2. CASE c = 0
      <4>1. h[w] = 0
        BY <1>1, <1>6, <3>1, <3>2
      <4> QED  BY <2>0, <2>3, <3>2, <4>1
    <3>3. CASE c # 0
      BY <1>1, <2>1, <2>3, <3>1, <3>3
    <3> QED  BY <3>2, <3>3
  <2>4. CASE w \notin weeks /\ ~(w < end)
    <3>1. ~(w < c)
      BY <1>1, <2>0, <2>4
    <3> QED  BY <2>4, <3>1
  <2> QED  BY <2>2, <2>3, <2>4
<1>8. SharesUntil(u, k, c) = SumFunction(A) /\ A \in [FeeWeeks -> Int]
  <2> DEFINE a == [w \in WeeksBefore(c) |-> f[w]]
  <2>1. SharesUntil(u, k, c) = SumFunction(a)
    BY SharesUntilAre DEF f
  <2>2. \A w \in FeeWeeks : w < c => f[w] \in Int
    BY <1>7
  <2>3. SumFunction(a) = SumFunction(A) /\ A \in [FeeWeeks -> Int]
    BY <2>2, SharesUntilIs
  <2> QED  BY <2>1, <2>3
<1>9. SharesUntil(u, k, end)' = SumFunction(B) /\ B \in [FeeWeeks -> Int]
  <2> DEFINE a == [w \in WeeksBefore(end) |-> h[w]]
  <2>1. SharesUntil(u, k, end)' = SumFunction(a)
    BY SharesUntilAre DEF h
  <2>2. \A w \in FeeWeeks : w < end => h[w] \in Int
    BY <1>7
  <2>3. SumFunction(a) = SumFunction(B) /\ B \in [FeeWeeks -> Int]
    BY <2>2, SharesUntilIs
  <2> QED  BY <2>1, <2>3
<1>10. amount = SumFunction(X) /\ X \in [FeeWeeks -> Int]
  <2>1. g \in [weeks -> Int]
    BY <1>3
  <2>2. Extends(X, FeeWeeks, weeks, g)
    BY DEF Extends
  <2>3. IsFiniteSet(FeeWeeks)
    BY FeeWeeksAre
  <2> HIDE DEF g, X
  <2>4. SumFunction(g) = SumFunction(X) /\ X \in [FeeWeeks -> Int]
    BY <1>3, <2>1, <2>2, <2>3, SumOfPart
  <2> QED  BY <1>4, <2>4
<1>11. \A w \in FeeWeeks : B[w] = A[w] + X[w]
  <2> SUFFICES ASSUME NEW w \in FeeWeeks PROVE B[w] = A[w] + X[w]
    OBVIOUS
  <2>1. /\ B[w] = IF w < end THEN h[w] ELSE 0
        /\ A[w] = IF w < c THEN f[w] ELSE 0
        /\ X[w] = IF w \in weeks THEN quotient(w) ELSE 0
    BY DEF UntilWeek
  <2> QED  BY <1>7, <2>1
<1> HIDE DEF A, B, X
<1>12. SumFunction(B) = SumFunction(A) + SumFunction(X)
  <2>1. IsFiniteSet(FeeWeeks)
    BY FeeWeeksAre
  <2>2. A \in [FeeWeeks -> Int] /\ B \in [FeeWeeks -> Int] /\ X \in [FeeWeeks -> Int]
    BY <1>8, <1>9, <1>10
  <2> QED  BY <1>11, <2>1, <2>2, SumAdds
<1> QED  BY <1>1, <1>5, <1>8, <1>9, <1>10, <1>12

\* Without a claim, what is paid stays what the weeks came to.
LEMMA PaidStays ==
    ASSUME CacheIInv, CacheIInv', PastIsKept, TokensAreSpread, TokensAreSpread', NEW u \in Users, NEW k \in Tokens,
           Continued(tokenState[k], tokenState'[k]), NEW c, ClaimStands(u, k, c)
    PROVE  ClaimStands(u, k, c)' /\ SharesUntil(u, k, c)' = SharesUntil(u, k, c)
<1>1. ClaimStands(u, k, c)' /\ \A w \in FeeWeeks : w < c => Share(u, k, w)' = Share(u, k, w)
  BY SharesKept
<1>2. [w \in WeeksBefore(c) |-> SharesOf(u, k)'[w]] = [w \in WeeksBefore(c) |-> SharesOf(u, k)[w]]
  <2>1. \A w \in WeeksBefore(c) : SharesOf(u, k)'[w] = SharesOf(u, k)[w]
    <3> SUFFICES ASSUME NEW w \in WeeksBefore(c) PROVE SharesOf(u, k)'[w] = SharesOf(u, k)[w]
      OBVIOUS
    <3>1. w \in FeeWeeks /\ w < c
      BY DEF WeeksBefore
    <3> QED  BY <1>1, <3>1, SharesUntilAre
  <2> QED  BY <2>1
<1>3. SharesUntil(u, k, c)' = SharesUntil(u, k, c)
  BY <1>2, SharesUntilAre
<1> QED  BY <1>1, <1>3
-----------------------------------------------------------------------------
(* The inductive invariant of payments *)

PayIInv ==
    /\ CacheIInv /\ TokensAreSpread /\ TokensAreHeld /\ PaidTypes
    /\ ClaimsAreFinal /\ SharesArePaid

LEMMA ClaimsStep ==
    ASSUME PayIInv, CacheIInv', PastIsKept, TokensMove, TokensAreSpread', DistributorNext \/ UNCHANGED distributorVars
    PROVE  ClaimsAreFinal' /\ SharesArePaid'
<1>0. CacheIInv /\ TokensAreSpread /\ TokensAreHeld /\ PaidTypes /\ PaidTypes'
      /\ userTokenTimeCursor \in [Users -> [Tokens -> Nat]]
  BY DEF PayIInv, TokensMove, ClaimsAreFinal
<1>1. ASSUME NEW u \in Users, NEW k \in Tokens
      PROVE  /\ Continued(tokenState[k], tokenState'[k])
             /\ userTokenTimeCursor[u][k] \in Nat /\ ClaimStands(u, k, userTokenTimeCursor[u][k])
             /\ paid[u][k] = SharesUntil(u, k, userTokenTimeCursor[u][k])
  BY DEF PayIInv, TokensMove, TokenMoves, ClaimsAreFinal, SharesArePaid
<1>2. ASSUME NEW u \in Users, NEW k \in Tokens, NEW c, c = userTokenTimeCursor[u][k]
      PROVE  c \in Nat /\ ClaimStands(u, k, c) /\ ClaimStands(u, k, c)'
             /\ SharesUntil(u, k, c)' = paid[u][k] /\ SharesUntil(u, k, c) = paid[u][k]
  <2>1. c \in Nat /\ ClaimStands(u, k, c) /\ paid[u][k] = SharesUntil(u, k, c) /\ Continued(tokenState[k], tokenState'[k])
    BY <1>1, <1>2
  <2>2. ClaimStands(u, k, c)' /\ SharesUntil(u, k, c)' = SharesUntil(u, k, c)
    BY <1>0, <2>1, PaidStays
  <2> QED  BY <2>1, <2>2
<1>3. SUFFICES ASSUME TRUE
               PROVE  /\ userTokenTimeCursor' \in [Users -> [Tokens -> Nat]]
                      /\ \A u \in Users, k \in Tokens : \A c : c = userTokenTimeCursor'[u][k] =>
                            ClaimStands(u, k, c)' /\ paid'[u][k] = SharesUntil(u, k, c)'
  <2>1. SUFFICES ASSUME userTokenTimeCursor' \in [Users -> [Tokens -> Nat]],
                        \A u \in Users, k \in Tokens : \A c : c = userTokenTimeCursor'[u][k] =>
                            ClaimStands(u, k, c)' /\ paid'[u][k] = SharesUntil(u, k, c)'
                 PROVE  ClaimsAreFinal' /\ SharesArePaid'
    OBVIOUS
  <2>2. ASSUME NEW u \in Users, NEW k \in Tokens
        PROVE  ClaimStands(u, k, userTokenTimeCursor[u][k])' /\ paid'[u][k] = SharesUntil(u, k, userTokenTimeCursor[u][k])'
    <3>1. PICK c : c = userTokenTimeCursor'[u][k]
      OBVIOUS
    <3>2. ClaimStands(u, k, c)' /\ paid'[u][k] = SharesUntil(u, k, c)'
      BY <2>1, <3>1
    <3>3. ClaimStands(u, k, userTokenTimeCursor[u][k])'
      BY <3>1, <3>2 DEF ClaimStands, ClaimIsFinal
    <3>4. paid'[u][k] = SharesUntil(u, k, userTokenTimeCursor[u][k])'
      BY <3>1, <3>2 DEF SharesUntil
    <3> QED  BY <3>3, <3>4
  <2>3. ClaimsAreFinal'
    BY <2>1, <2>2 DEF ClaimsAreFinal
  <2>4. SharesArePaid'
    BY <1>0, <2>2 DEF SharesArePaid, PaidTypes
  <2> QED  BY <2>3, <2>4
<1>4. CASE UNCHANGED <<userTokenTimeCursor, paid>>
  BY <1>0, <1>2, <1>4
<1>5. ASSUME NEW u \in Users, NEW k \in Tokens, ClaimToken(u, k)
      PROVE  /\ userTokenTimeCursor' \in [Users -> [Tokens -> Nat]]
             /\ \A v \in Users, j \in Tokens : \A c : c = userTokenTimeCursor'[v][j] =>
                   ClaimStands(v, j, c)' /\ paid'[v][j] = SharesUntil(v, j, c)'
  <2>1. MayCheckpointToken(k) /\ now' = now /\ \E token, weeks, next, amount : Claimed(u, k, token, weeks, next, amount)
    BY <1>5, ClaimIsClaimed
  <2>2. PICK token, weeks, next, amount : Claimed(u, k, token, weeks, next, amount)
    BY <2>1
  <2>3. TokenMoves(tokenState[k], token, held[k], 0) /\ token.timeCursor # 0 /\ amount \in Int
    BY <1>0, <2>1, <2>2, MoveClaim
  <2>4. TokenIsSpread(token, now) /\ Continued(tokenState[k], token)
    BY <2>3 DEF TokenMoves
  <2>5. tokenState'[k].timeCursor = token.timeCursor /\ tokenState'[k].perWeek = token.perWeek
    <3>1. token \in TokenTypes
      BY <2>4, SpreadTypes
    <3>2. tokenState'[k] = [token EXCEPT !.cachedBalance = token.cachedBalance - amount]
      BY <1>0, <2>2 DEF Claimed, TokensAreSpread
    <3> QED  BY <3>1, <3>2 DEF TokenTypes
  <2> DEFINE end == next + Week * Cardinality(weeks)
             old == userTokenTimeCursor[u][k]
  <2>6. PICK c : c = userTokenTimeCursor[u][k]
    OBVIOUS
  <2>7. PICK e : e = end
    OBVIOUS
  <2> HIDE DEF end
  <2>8. c \in Nat /\ ClaimStands(u, k, c) /\ SharesUntil(u, k, c) = paid[u][k] /\ Continued(tokenState[k], tokenState'[k])
    BY <1>1, <1>2, <2>6
  <2>9. e \in Nat /\ ClaimStands(u, k, e)' /\ SharesUntil(u, k, e)' = SharesUntil(u, k, c) + amount
    <3>1. e = next + Week * Cardinality(weeks)
      BY <2>7 DEF end
    <3> QED  BY <1>0, <2>1, <2>2, <2>4, <2>3, <2>5, <2>6, <2>8, <3>1, ClaimPays
  <2>10. userTokenTimeCursor' = [userTokenTimeCursor EXCEPT ![u][k] = e] /\ PaysMore(u, k, amount)
    BY <2>2, <2>7 DEF Claimed, PaysMore, end
  <2>11. /\ userTokenTimeCursor' \in [Users -> [Tokens -> Nat]] /\ userTokenTimeCursor'[u][k] = e
         /\ \A v \in Users, j \in Tokens : v # u \/ j # k => userTokenTimeCursor'[v][j] = userTokenTimeCursor[v][j]
    BY <1>0, <2>9, <2>10
  <2>12. /\ paid'[u][k] = paid[u][k] + amount
         /\ \A v \in Users, j \in Tokens : v # u \/ j # k => paid'[v][j] = paid[v][j]
    BY <1>0, <2>3, <2>10, PaidMore DEF PaidTypes
  <2>13. ASSUME NEW v \in Users, NEW j \in Tokens, NEW d, d = userTokenTimeCursor'[v][j]
         PROVE  ClaimStands(v, j, d)' /\ paid'[v][j] = SharesUntil(v, j, d)'
    <3>1. CASE v = u /\ j = k
      <4>1. d = e /\ paid'[v][j] = SharesUntil(u, k, e)'
        BY <2>8, <2>9, <2>11, <2>12, <2>13, <3>1
      <4> QED  BY <2>9, <3>1, <4>1
    <3>2. CASE ~(v = u /\ j = k)
      <4>1. d = userTokenTimeCursor[v][j] /\ paid'[v][j] = paid[v][j]
        BY <2>11, <2>12, <2>13, <3>2
      <4> QED  BY <1>2, <4>1
    <3> QED  BY <3>1, <3>2
  <2> QED  BY <2>11, <2>13
<1>6. CASE \E u \in Users, k \in Tokens : ClaimToken(u, k)
  BY <1>5, <1>6
<1>7. (\E u \in Users, k \in Tokens : ClaimToken(u, k)) \/ UNCHANGED <<userTokenTimeCursor, paid>>
  BY DEF DistributorNext, CheckpointSupply, CheckpointUser, CheckpointToken, DepositToken, SendToken, tokenVars, distributorVars
<1> QED  BY <1>4, <1>6, <1>7

LEMMA PayStep ==
    ASSUME PayIInv, DistributorNext \/ UNCHANGED distributorVars
    PROVE  PayIInv'
<1>1. CacheIInv /\ TokensAreSpread /\ TokensAreHeld /\ PaidTypes
  BY DEF PayIInv
<1>2. CacheIInv' /\ PastIsKept
  BY <1>1, CacheStep
<1>3. TokensMove
  BY <1>1, TokensStep
<1>4. now \in Nat /\ now' \in Nat /\ now <= now'
  BY <1>1, <1>2, WeekIsPositive DEF CacheIInv, EscrowIInv, EscrowTypes, PastIsKept
<1>5. TokensAreSpread' /\ TokensAreHeld' /\ PaidTypes'
  BY <1>1, <1>3, <1>4, TokensKept
<1>6. ClaimsAreFinal' /\ SharesArePaid'
  BY <1>2, <1>3, <1>5, ClaimsStep
<1> QED  BY <1>2, <1>5, <1>6 DEF PayIInv

LEMMA PayStarts == DistributorInit => PayIInv
<1> SUFFICES ASSUME DistributorInit PROVE PayIInv
  OBVIOUS
<1> DEFINE z == [w \in FeeWeeks |-> 0]
           s == [startTime |-> 0, timeCursor |-> 0, cachedBalance |-> 0, perWeek |-> z]
<1>1. /\ tokenState = [k \in Tokens |-> s] /\ held = [k \in Tokens |-> 0]
      /\ userTokenTimeCursor = [u \in Users |-> [k \in Tokens |-> 0]]
      /\ paid = [u \in Users |-> [k \in Tokens |-> 0]]
  BY DEF DistributorInit
<1>2. CacheIInv
  BY CacheStarts
<1>3. now \in Nat
  BY <1>2, WeekIsPositive DEF CacheIInv, EscrowIInv, EscrowTypes
<1>4. z \in [FeeWeeks -> Int] /\ z \in Spread /\ \A w \in FeeWeeks : z[w] = 0
  BY DEF Spread
<1> HIDE DEF z
<1>5. s \in TokenTypes /\ s.timeCursor = 0 /\ s.startTime = 0 /\ s.cachedBalance = 0 /\ s.perWeek = z
  BY <1>4 DEF TokenTypes
<1> HIDE DEF s
<1>6. TokenIsSpread(s, now)
  BY <1>3, <1>4, <1>5 DEF TokenIsSpread
<1>7. TokensAreSpread
  BY <1>1, <1>5, <1>6 DEF TokensAreSpread
<1>8. PaidTypes
  BY <1>1 DEF PaidTypes
<1>9. ASSUME NEW k \in Tokens PROVE TotalPaid(k) = 0
  <2> DEFINE f == [u \in Users |-> paid[u][k]]
  <2>1. f \in [Users -> Int] /\ \A u \in Users : f[u] = 0
    BY <1>1
  <2>2. TotalPaid(k) = SumFunction(f)
    BY DEF TotalPaid
  <2> HIDE DEF f
  <2> QED  BY <2>1, <2>2, WeekIsPositive, SumOfNone
<1>10. SumFunction(z) = 0
  BY <1>4, FeeWeeksAre, SumOfNone
<1>11. TokensAreHeld
  <2>1. \A k \in Tokens : TokenIsHeld(tokenState[k], held[k], TotalPaid(k))
    BY <1>1, <1>5, <1>9, <1>10 DEF TokenIsHeld
  <2> QED  BY <1>1, <2>1 DEF TokensAreHeld
<1>12. \A w \in FeeWeeks : ~(w < 0)
  BY FeeWeeksAre
<1>13. ClaimsAreFinal
  <2>1. \A u \in Users, k \in Tokens : ClaimStands(u, k, 0)
    BY <1>12 DEF ClaimStands, ClaimIsFinal
  <2> QED  BY <1>1, <2>1 DEF ClaimsAreFinal
<1>14. SharesArePaid
  <2>1. ASSUME NEW u \in Users, NEW k \in Tokens PROVE SharesUntil(u, k, 0) = 0
    <3> DEFINE none == WeeksBefore(0)
               f == [w \in none |-> Share(u, k, w)]
    <3>1. none = {}
      BY <1>12 DEF WeeksBefore
    <3>2. f \in [{} -> Int] /\ IsFiniteSet({})
      BY <3>1, FS_EmptySet
    <3>3. SharesUntil(u, k, 0) = SumFunction(f)
      BY DEF SharesUntil
    <3> HIDE DEF f
    <3> QED  BY <3>2, <3>3, SumType
  <2>2. \A u \in Users, k \in Tokens : paid[u][k] = 0 /\ userTokenTimeCursor[u][k] = 0
    BY <1>1
  <2>3. paid \in [Users -> [Tokens -> Int]]
    BY <1>1
  <2> QED  BY <2>1, <2>2, <2>3 DEF SharesArePaid
<1> QED  BY <1>2, <1>7, <1>8, <1>11, <1>13, <1>14 DEF PayIInv

LEMMA PayInvariant == DistributorSpec => []PayIInv
<1>1. PayIInv /\ [DistributorNext]_distributorVars => PayIInv'
  BY PayStep
<1> QED  BY <1>1, PayStarts, PTL DEF DistributorSpec

\* A user has received each week's share until the cursor exactly once, of tokens that
\* nothing adds to, by balances that no later lock changes.
THEOREM SharesArePaidOnce == DistributorSpec => []ShareOfEachWeekOnce
<1>1. PayIInv => ShareOfEachWeekOnce
  BY DEF PayIInv, SharesArePaid, SharesUntil, WeeksBefore, ShareOfEachWeekOnce
<1> QED  BY <1>1, PayInvariant, PTL
-----------------------------------------------------------------------------
(* What is not claimed yet is there *)

\* Shares that are rounded down are not more than the whole.
LEMMA SharesFit ==
    ASSUME NEW p \in Nat, NEW b \in [Users -> Nat], NEW t, t = SumFunction(b), NEW q, q = [u \in Users |-> ShareOf(p, b[u], t)]
    PROVE  q \in [Users -> Nat] /\ SumFunction(q) <= p
<1>0. IsFiniteSet(Users) /\ t \in Nat
  BY WeekIsPositive, SumOfNats
<1>1. q \in [Users -> Nat] /\ \A u \in Users : q[u] = ShareOf(p, b[u], t)
  BY <1>0, ShareIsNat
<1> DEFINE A == SumFunction(q)
<1>2. A \in Nat /\ q \in [Users -> Int] /\ b \in [Users -> Int]
  BY <1>0, <1>1, SumOfNats
<1>3. CASE t = 0
  <2>1. \A u \in Users : q[u] = 0
    BY <1>1, <1>3 DEF ShareOf
  <2>2. A = 0
    BY <1>0, <1>2, <2>1, SumOfNone
  <2> QED  BY <1>1, <2>2
<1>4. CASE t # 0
  <2> DEFINE c == [u \in Users |-> t * q[u]]
             d == [u \in Users |-> p * b[u]]
  <2>1. ASSUME NEW u \in Users PROVE t * q[u] \in Nat /\ p * b[u] \in Nat /\ t * q[u] <= p * b[u]
    <3> DEFINE x == p * b[u]
    <3>1. x \in Nat /\ q[u] \in Nat /\ t \in Nat \ {0}
      BY <1>0, <1>1, <1>4
    <3>2. q[u] = x \div t
      BY <1>1, <1>4 DEF ShareOf
    <3> HIDE DEF x
    <3>3. t * (x \div t) <= x
      BY <3>1, Quotients
    <3>4. t * q[u] \in Nat
      BY <3>1
    <3>5. t * q[u] <= x
      BY <3>2, <3>3
    <3> QED  BY <3>1, <3>4, <3>5 DEF x
  <2>2. c \in [Users -> Int] /\ d \in [Users -> Int] /\ \A u \in Users : c[u] <= d[u]
    BY <2>1
  <2>3. (\A u \in Users : c[u] = t * q[u]) /\ \A u \in Users : d[u] = p * b[u]
    OBVIOUS
  <2> HIDE DEF c, d
  <2>4. SumFunction(c) = t * A
    <3>1. t \in Int
      BY <1>0
    <3> QED  BY <1>0, <1>2, <2>2, <2>3, <3>1, SumScaled
  <2>5. SumFunction(d) = p * t
    <3>1. p \in Int
      OBVIOUS
    <3>2. SumFunction(d) = p * SumFunction(b)
      BY <1>0, <1>2, <2>2, <2>3, <3>1, SumScaled
    <3> QED  BY <3>2
  <2>6. SumFunction(c) <= SumFunction(d)
    BY <1>0, <2>2, SumMonotone
  <2> HIDE DEF A
  <2>7. t * A <= p * t
    BY <2>4, <2>5, <2>6
  <2>8. A <= p
    <3>1. SUFFICES ASSUME p + 1 <= A PROVE FALSE
      BY <1>2
    <3>2. t * (p + 1) <= t * A
      BY <1>0, <1>2, <3>1
    <3>3. t * (p + 1) = p * t + t
      BY <1>0
    <3>4. p * t \in Nat /\ t * A \in Nat /\ t \in Nat
      BY <1>0, <1>2
    <3> QED  BY <1>4, <2>7, <3>2, <3>3, <3>4
  <2> QED  BY <1>1, <2>8 DEF A
<1> QED  BY <1>3, <1>4

LEMMA FinalIsPast ==
    ASSUME PayIInv, NEW u \in Users, NEW k \in Tokens, NEW w \in FeeWeeks, w < userTokenTimeCursor[u][k]
    PROVE  w < now
<1> DEFINE c == userTokenTimeCursor[u][k]
           s == tokenState[k]
           x == s.timeCursor
<1>0. now \in Nat /\ StartTime \in Nat /\ w \in Nat
  BY WeekIsPositive, StartIs, FeeWeeksAre DEF PayIInv, CacheIInv, EscrowIInv, EscrowTypes
<1>1. c \in Nat /\ (c # 0 => x # 0) /\ (StartTime <= w => w < now)
  BY DEF PayIInv, ClaimsAreFinal, ClaimStands, ClaimIsFinal
<1>2. c # 0
  BY <1>0, <1>1
<1>3. TokenIsSpread(s, now)
  BY DEF PayIInv, TokensAreSpread
<1>4. x \in Nat /\ s.startTime \in Nat
  BY <1>3, SpreadTypes
<1>5. x <= now /\ StartTime <= s.startTime /\ s.startTime <= RoundDown(x)
  BY <1>1, <1>2, <1>3 DEF TokenIsSpread
<1> HIDE DEF x, s
<1>6. RoundDown(x) \in Nat /\ RoundDown(x) <= x
  BY <1>4, RoundDownIs
<1> QED  BY <1>0, <1>1, <1>4, <1>5, <1>6

\* What a user may still claim of the weeks until now.
Unclaimed(u, k) == {v \in FeeWeeks : v <= now /\ v >= userTokenTimeCursor[u][k]}
ClaimableOf(u, k) == SumFunction([w \in Unclaimed(u, k) |-> Share(u, k, w)])

\* All the shares of the weeks until now, by user and by week.
ShareNow(u, k, w) == IF w <= now THEN Share(u, k, w) ELSE 0
ByUser(k) == [u \in Users |-> [w \in FeeWeeks |-> ShareNow(u, k, w)]]
ByWeek(k) == [w \in FeeWeeks |-> [u \in Users |-> ShareNow(u, k, w)]]

LEMMA SharesOfUser ==
    ASSUME PayIInv, NEW u \in Users, NEW k \in Tokens
    PROVE  /\ ClaimableOf(u, k) \in Int /\ paid[u][k] \in Int
           /\ paid[u][k] + ClaimableOf(u, k) = SumFunction(ByUser(k)[u])
<1> DEFINE c == userTokenTimeCursor[u][k]
           T == Unclaimed(u, k)
           f == [w \in T |-> Share(u, k, w)]
           F == [w \in FeeWeeks |-> IF w \in T THEN f[w] ELSE 0]
           g == [w \in WeeksBefore(c) |-> SharesOf(u, k)[w]]
           G == UntilWeek(SharesOf(u, k), c)
           H == ByUser(k)[u]
<1>0. EscrowIInv /\ TokensAreSpread /\ now \in Nat /\ c \in Nat /\ ClaimStands(u, k, c) /\ paid[u][k] = SharesUntil(u, k, c)
  BY WeekIsPositive DEF PayIInv, CacheIInv, EscrowIInv, EscrowTypes, ClaimsAreFinal, SharesArePaid
<1>1. H = [w \in FeeWeeks |-> ShareNow(u, k, w)]
  BY DEF ByUser
<1>2. \A w \in FeeWeeks : w \in Nat /\ (w <= now => Share(u, k, w) \in Nat) /\ SharesOf(u, k)[w] = Share(u, k, w)
  BY <1>0, ShareType, FeeWeeksAre, SharesUntilAre
<1>3. \A w \in FeeWeeks : w < c => w <= now
  <2> SUFFICES ASSUME NEW w \in FeeWeeks, w < c PROVE w <= now
    OBVIOUS
  <2>1. w < now
    BY <1>0, FinalIsPast
  <2> QED  BY <1>0, <1>2, <2>1
<1>4. T \in SUBSET FeeWeeks /\ \A w \in FeeWeeks : w \in T <=> w <= now /\ w >= c
  BY DEF Unclaimed
<1> HIDE DEF c, T
<1>5. SumFunction(f) = SumFunction(F) /\ F \in [FeeWeeks -> Int]
  <2>1. f \in [T -> Int]
    BY <1>2, <1>4
  <2>2. Extends(F, FeeWeeks, T, f)
    BY DEF Extends
  <2>3. IsFiniteSet(FeeWeeks)
    BY FeeWeeksAre
  <2> HIDE DEF f, F
  <2> QED  BY <1>4, <2>1, <2>2, <2>3, SumOfPart
<1>6. SumFunction(g) = SumFunction(G) /\ G \in [FeeWeeks -> Int] /\ SumFunction(g) \in Int
  <2> DEFINE S == SharesOf(u, k)
  <2>1. \A w \in FeeWeeks : w < c => S[w] \in Int
    BY <1>2, <1>3
  <2>2. g = [w \in WeeksBefore(c) |-> S[w]]
    OBVIOUS
  <2> HIDE DEF S, g
  <2>3. SumFunction(g) = SumFunction(UntilWeek(S, c)) /\ UntilWeek(S, c) \in [FeeWeeks -> Int] /\ SumFunction(g) \in Int
    BY <2>1, <2>2, SharesUntilIs
  <2> QED  BY <2>3 DEF S
<1>7. \A w \in FeeWeeks : H[w] = G[w] + F[w] /\ H[w] \in Int
  <2> SUFFICES ASSUME NEW w \in FeeWeeks PROVE H[w] = G[w] + F[w] /\ H[w] \in Int
    OBVIOUS
  <2>1. /\ H[w] = IF w <= now THEN Share(u, k, w) ELSE 0
        /\ G[w] = IF w < c THEN Share(u, k, w) ELSE 0
        /\ F[w] = IF w \in T THEN Share(u, k, w) ELSE 0
    BY <1>1, <1>2 DEF ShareNow, UntilWeek
  <2> HIDE DEF H, G, F
  <2>2. CASE w < c
    BY <1>0, <1>2, <1>3, <1>4, <2>1, <2>2
  <2>3. CASE ~(w < c) /\ w <= now
    BY <1>0, <1>2, <1>4, <2>1, <2>3
  <2>4. CASE ~(w < c) /\ ~(w <= now)
    BY <1>0, <1>2, <1>4, <2>1, <2>4
  <2> QED  BY <2>2, <2>3, <2>4
<1>8. H \in [FeeWeeks -> Int]
  BY <1>1, <1>7
<1>9. SharesUntil(u, k, c) = SumFunction(g) /\ ClaimableOf(u, k) = SumFunction(f)
  BY SharesUntilAre DEF ClaimableOf, T
<1> HIDE DEF f, g, F, G, H
<1>10. SumFunction(H) = SumFunction(G) + SumFunction(F)
  <2>1. IsFiniteSet(FeeWeeks) /\ \A w \in FeeWeeks : H[w] = G[w] + F[w]
    BY <1>7, FeeWeeksAre
  <2>2. H \in [FeeWeeks -> Int] /\ G \in [FeeWeeks -> Int] /\ F \in [FeeWeeks -> Int]
    BY <1>5, <1>6, <1>8
  <2> QED  BY <2>1, <2>2, SumAdds
<1>11. SumFunction(F) \in Int
  BY <1>5, FeeWeeksAre, SumType
<1> QED  BY <1>0, <1>5, <1>6, <1>9, <1>10, <1>11 DEF H

LEMMA SharesOfWeek ==
    ASSUME PayIInv, NEW k \in Tokens, NEW w \in FeeWeeks
    PROVE  ByWeek(k)[w] \in [Users -> Int] /\ SumFunction(ByWeek(k)[w]) <= tokenState[k].perWeek[w]
<1> DEFINE p == tokenState[k].perWeek[w]
           t == TotalSupply(w)
           b == [u \in Users |-> BalanceOf(u, w)]
           q == [u \in Users |-> ShareOf(p, b[u], t)]
           H == ByWeek(k)[w]
<1>0. EscrowIInv /\ TokensAreSpread /\ w \in Nat
  BY FeeWeeksAre DEF PayIInv, CacheIInv
<1>1. p \in Nat
  BY <1>0 DEF TokensAreSpread, TokenTypes, Spread
<1>2. H = [u \in Users |-> ShareNow(u, k, w)]
  BY DEF ByWeek
<1>3. CASE w <= now
  <2>1. b \in [Users -> Nat] /\ t = SumFunction(b)
    BY <1>0, <1>3, PowersAreNats
  <2>2. H = q
    <3>1. \A u \in Users : ShareNow(u, k, w) = ShareOf(p, b[u], t)
      BY <1>3, ShareIs DEF ShareNow
    <3> QED  BY <1>2, <3>1
  <2>3. q = [u \in Users |-> ShareOf(p, b[u], t)]
    OBVIOUS
  <2> HIDE DEF p, t, b, q, H
  <2>4. q \in [Users -> Nat] /\ SumFunction(q) <= p
    BY <1>1, <2>1, <2>3, SharesFit
  <2>5. H \in [Users -> Int] /\ SumFunction(H) <= p
    BY <2>2, <2>4
  <2> QED  BY <2>5 DEF p, H
<1>4. CASE ~(w <= now)
  <2>1. H \in [Users -> Int] /\ \A u \in Users : H[u] = 0
    BY <1>2, <1>4 DEF ShareNow
  <2> HIDE DEF H
  <2>2. SumFunction(H) = 0
    BY <2>1, WeekIsPositive, SumOfNone
  <2> QED  BY <1>1, <2>1, <2>2 DEF H
<1> QED  BY <1>3, <1>4

LEMMA UnclaimedIsThere ==
    ASSUME PayIInv, NEW k \in Tokens
    PROVE  /\ held[k] >= tokenState[k].cachedBalance
           /\ tokenState[k].cachedBalance >= SumFunction([u \in Users |-> ClaimableOf(u, k)])
<1> DEFINE row == ByUser(k)
           col == ByWeek(k)
           a == [u \in Users |-> SumFunction(row[u])]
           b == [w \in FeeWeeks |-> SumFunction(col[w])]
           p == tokenState[k].perWeek
           x == tokenState[k].cachedBalance
           left == [u \in Users |-> ClaimableOf(u, k)]
           out == Column(paid, k)
<1>0. /\ x \in Int /\ p \in [FeeWeeks -> Int] /\ IsFiniteSet(Users) /\ IsFiniteSet(FeeWeeks)
      /\ held[k] >= x /\ x + TotalPaid(k) >= SumFunction(p) /\ paid \in [Users -> [Tokens -> Int]]
  <2>1. TokenIsSpread(tokenState[k], now)
    BY DEF PayIInv, TokensAreSpread
  <2>2. x \in Int /\ p \in [FeeWeeks -> Int]
    BY <2>1, SpreadTypes
  <2>3. held[k] >= x /\ x + TotalPaid(k) >= SumFunction(p)
    BY DEF PayIInv, TokensAreHeld, TokenIsHeld
  <2> QED  BY <2>2, <2>3, WeekIsPositive, FeeWeeksAre DEF PayIInv, PaidTypes
<1>1. \A u \in Users, w \in FeeWeeks : ShareNow(u, k, w) \in Int
  <2> SUFFICES ASSUME NEW u \in Users, NEW w \in FeeWeeks PROVE ShareNow(u, k, w) \in Int
    OBVIOUS
  <2>1. w <= now => Share(u, k, w) \in Nat
    BY ShareType DEF PayIInv, CacheIInv
  <2> QED  BY <2>1 DEF ShareNow
<1>2. IsTable(Users, FeeWeeks, row, col)
  BY <1>1 DEF IsTable, ByUser, ByWeek
<1>3. AreSums(a, Users, row) /\ AreSums(b, FeeWeeks, col)
  BY DEF AreSums
<1>4. \A w \in FeeWeeks : b[w] <= p[w]
  BY SharesOfWeek
<1>5. /\ left \in [Users -> Int] /\ out \in [Users -> Int]
      /\ \A u \in Users : a[u] = out[u] + left[u]
  <2>1. ASSUME NEW u \in Users PROVE left[u] \in Int /\ out[u] \in Int /\ a[u] = out[u] + left[u]
    BY SharesOfUser DEF Column
  <2>2. left = [u \in Users |-> left[u]] /\ out = [u \in Users |-> out[u]]
    BY DEF Column
  <2> HIDE DEF left, out, a
  <2> QED  BY <2>1, <2>2
<1>6. TotalPaid(k) = SumFunction(out)
  BY TotalPaidIs
<1> HIDE DEF row, col, a, b, p, x, left, out
<1>7. SumFunction(a) = SumFunction(b) /\ a \in [Users -> Int] /\ b \in [FeeWeeks -> Int]
  BY <1>0, <1>2, <1>3, SumExchange
<1>8. SumFunction(b) <= SumFunction(p)
  BY <1>0, <1>4, <1>7, SumMonotone
<1>9. SumFunction(a) = SumFunction(out) + SumFunction(left)
  BY <1>0, <1>5, <1>7, SumAdds
<1>10. SumFunction(out) \in Int /\ SumFunction(left) \in Int /\ SumFunction(p) \in Int /\ SumFunction(b) \in Int
  BY <1>0, <1>5, <1>7, SumType
<1>11. x >= SumFunction(left)
  BY <1>0, <1>6, <1>7, <1>8, <1>9, <1>10
<1> QED  BY <1>0, <1>11 DEF x, left

\* Whatever users do, and however the shares are rounded, the contract holds what all of
\* them can still claim.
THEOREM ClaimsAreCovered == DistributorSpec => []Covered
<1>1. PayIInv => Covered
  BY UnclaimedIsThere DEF Covered, ClaimableOf, Unclaimed
<1> QED  BY <1>1, PayInvariant, PTL
===============================================================================
