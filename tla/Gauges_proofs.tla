------------------------ MODULE Gauges_proofs ----------------------------
(***************************************************************************)
(* Theorems about GaugeController and StakelessGauges, for any users,      *)
(* gauges, types, locks and weights: however votes change and whoever fills *)
(* in the missed weeks, a gauge's weight is that of its votes, weights add   *)
(* up, the past is final, the checkpointer skips no gauge of its list, and   *)
(* what gauges emit can be minted.                                         *)
(***************************************************************************)
EXTENDS StakelessGauges, LiquidityMining_proofs

LEMMA LastWeekIsLast ==
    LastWeek \in Nat /\ Horizon + Week <= LastWeek /\ \A l \in Locks : l.end \in Weeks
<1> DEFINE S == {Horizon + Week} \cup {l.end : l \in Locks}
<1>1. IsFiniteSet(S)
  <2> DEFINE Ends(T) == {l.end : l \in T}
             P == {T \in SUBSET Locks : IsFiniteSet(Ends(T))}
  <2>0. ASSUME NEW T \in SUBSET Locks, \A x \in T : T \ {x} \in P PROVE T \in P
    <3>1. CASE T = {}
      BY <3>1, FS_EmptySet
    <3>2. CASE T # {}
      <4>1. PICK x \in T : TRUE
        BY <3>2
      <4>2. IsFiniteSet(Ends(T \ {x}))
        BY <2>0
      <4>3. Ends(T) = Ends(T \ {x}) \cup {x.end}
        OBVIOUS
      <4> HIDE DEF Ends
      <4>4. IsFiniteSet(Ends(T \ {x}) \cup {x.end})
        BY <4>2, FS_AddElement
      <4>5. IsFiniteSet(Ends(T))
        BY <4>3, <4>4
      <4> QED  BY <4>5
    <3> QED  BY <3>1, <3>2
  <2> HIDE DEF P
  <2>1. IsFiniteSet({l.end : l \in Locks})
    <3>1. Locks \in P
      BY <2>0, SubsetInduction, ControllerAssumption, MiningAssumption
    <3> QED  BY <3>1 DEF P
  <2> QED  BY <2>1, FS_Union, FS_Singleton
<1>2. S \subseteq Nat /\ S # {}
  BY ControllerAssumption, MiningAssumption
<1>3. LastWeek \in S /\ \A y \in S : LastWeek >= y
  <2> HIDE DEF S
  <2>1. Max(S) \in S /\ \A y \in S : Max(S) >= y
    <3>1. S \subseteq Int
      BY <1>2
    <3> QED  BY <1>1, <1>2, <3>1, MaxIsLargest
  <2> QED  BY <2>1 DEF S, LastWeek
<1> QED  BY <1>2, <1>3, ControllerAssumption, MiningAssumption DEF Weeks

\* What the weeks are to each other.
LEMMA WeekSteps ==
    /\ \A w \in Weeks : w \in Nat
    /\ 0 \in Weeks /\ Week \in Nat \ {0}
    /\ \A w \in Weeks : w # 0 => w - Week \in Weeks
    /\ \A v, w \in Weeks : v < w => v + Week <= w
<1>1. Week \in Nat \ {0} /\ LastWeek \in Nat
  BY ControllerAssumption, MiningAssumption, LastWeekIsLast
<1>2. \A w \in Weeks : w \in Nat /\ w % Week = 0 /\ w <= LastWeek
  BY <1>1 DEF Weeks
<1>3. 0 \in Weeks
  <2>1. 0 = 0 * Week
    BY <1>1
  <2>2. 0 % Week = 0
    BY <2>1, Multiples
  <2> QED  BY <1>1, <2>2 DEF Weeks
<1>4. \A v, w \in Weeks : v < w => v + Week <= w
  BY <1>2, WeeksApart
<1>5. ASSUME NEW w \in Weeks, w # 0 PROVE w - Week \in Weeks
  <2>1. w >= Week
    BY <1>1, <1>2, <1>3, <1>4, <1>5
  <2>2. (w - Week) % Week = 0
    BY <1>2, <2>1, WeeksApart
  <2> QED  BY <1>1, <1>2, <2>1, <2>2 DEF Weeks
<1> QED  BY <1>1, <1>2, <1>3, <1>4, <1>5

\* The next week is the first that begins after now.
LEMMA NextWeekIsNext ==
    ASSUME now \in Start..Horizon
    PROVE  /\ NextWeek \in Weeks /\ NextWeek # 0 /\ NextWeek - Week \in Weeks
           /\ NextWeek > now
           /\ \A w \in Weeks : w > now <=> w >= NextWeek
           /\ NextWeek <= now + Week
<1> DEFINE x == now + Week
           d == x \div Week
           m == x % Week
<1>0. Week \in Nat \ {0} /\ now \in Nat /\ now >= Week /\ now <= Horizon /\ Horizon \in Nat
  BY ControllerAssumption, MiningAssumption
<1>1. d \in Int /\ m \in 0..(Week - 1) /\ x = d * Week + m /\ NextWeek = d * Week
  BY <1>0 DEF NextWeek
<1>2. d \in Nat
  <2>1. SUFFICES ASSUME d <= -1 PROVE FALSE
    BY <1>1
  <2>2. d * Week <= (-1) * Week
    BY <1>0, <1>1, <2>1
  <2> QED  BY <1>0, <1>1, <2>2
<1> HIDE DEF d, m
<1>3. NextWeek \in Nat /\ NextWeek > now /\ NextWeek <= now + Week
  BY <1>0, <1>1
<1>4. NextWeek % Week = 0
  BY <1>1, <1>2, <1>3, Multiples
<1>5. NextWeek \in Weeks
  BY <1>0, <1>3, <1>4, LastWeekIsLast DEF Weeks
<1>6. NextWeek - Week \in Weeks /\ NextWeek # 0
  BY <1>0, <1>3, <1>5, WeekSteps
<1>7. ASSUME NEW w \in Weeks, w > now PROVE w >= NextWeek
  BY <1>0, <1>3, <1>5, <1>7, WeekSteps
<1> QED  BY <1>0, <1>3, <1>5, <1>6, <1>7, WeekSteps

-----------------------------------------------------------------------------
(* Histories *)

Point == [bias : Nat, slope : Nat]
History == [points : [Weeks -> Point], changes : [Weeks -> Int], time : Weeks]

\* What is recorded and what follows from it.
Continues(h, points) ==
    points = [w \in Weeks |->
        IF w <= h.time \/ h.time = 0 THEN h.points[w] ELSE Decayed(points[w - Week], h.changes[w])]

\* There is only one such continuation, and it is Continued.
LEMMA ContinuedIs ==
    ASSUME NEW h \in History, NEW points, Continues(h, points)
    PROVE  Continued(h) = points
<1> DEFINE point[w \in Weeks] == IF w <= h.time \/ h.time = 0 THEN h.points[w] ELSE Decayed(point[w - Week], h.changes[w])
           Differ == {w \in Weeks : point[w] # points[w]}
<1>1. point = [w \in Weeks |-> IF w <= h.time \/ h.time = 0 THEN h.points[w] ELSE Decayed(point[w - Week], h.changes[w])]
  <2>1. \E p : p = [w \in Weeks |-> IF w <= h.time \/ h.time = 0 THEN h.points[w] ELSE Decayed(p[w - Week], h.changes[w])]
    BY DEF Continues
  <2> QED  BY <2>1
<1>2. Continued(h) = point
  BY DEF Continued
<1>3. h.time \in Weeks /\ h.time \in Nat
  BY WeekSteps DEF History
<1> HIDE DEF point
<1>4. Differ = {}
  <2>1. SUFFICES ASSUME Differ # {} PROVE FALSE
    OBVIOUS
  <2>2. Differ \subseteq Nat
    BY WeekSteps
  <2>3. PICK w \in Differ : \A v \in Differ : w <= v
    BY <2>1, <2>2, LeastNatural
  <2>4. /\ point[w] = IF w <= h.time \/ h.time = 0 THEN h.points[w] ELSE Decayed(point[w - Week], h.changes[w])
        /\ points[w] = IF w <= h.time \/ h.time = 0 THEN h.points[w] ELSE Decayed(points[w - Week], h.changes[w])
    BY <1>1 DEF Continues
  <2>5. w # 0
    BY <2>4, <1>3, WeekSteps
  <2>6. w - Week \in Weeks /\ w - Week < w
    BY <2>5, WeekSteps
  <2>7. w - Week \notin Differ
    BY <2>2, <2>3, <2>6
  <2> QED  BY <2>4, <2>6, <2>7
<1>5. point = points
  BY <1>1, <1>4 DEF Continues
<1> QED  BY <1>2, <1>5

\* The votes of a set: their biases and slopes at the beginning of each week, and the
\* slopes of those that end then. Slopes last until votes end, and as long as some are
\* left, so is bias.
IsTally(t) ==
    /\ t \in [bias : [Weeks -> Nat], slope : [Weeks -> Nat], ending : [Weeks -> Nat]]
    /\ \A w \in Weeks : t.slope[w] <= t.bias[w]
    /\ \A w \in Weeks : w # 0 => /\ t.slope[w - Week] = t.slope[w] + 1 * t.ending[w]
                                 /\ t.bias[w - Week] = t.bias[w] + Week * t.slope[w - Week]

TallyPoint(t, w) == [bias |-> t.bias[w], slope |-> t.slope[w]]

\* Decayed leads from each week to the next.
LEMMA TallyDecays ==
    ASSUME NEW t, IsTally(t), NEW w \in Weeks, w # 0
    PROVE  Decayed(TallyPoint(t, w - Week), t.ending[w]) = TallyPoint(t, w)
<1> DEFINE v == w - Week
           n == Week * t.slope[v]
<1>1. v \in Weeks /\ Week \in Nat
  BY WeekSteps
<1> HIDE DEF v
<1>2. t.bias[v] \in Nat /\ t.slope[v] \in Nat /\ t.bias[w] \in Nat /\ t.slope[w] \in Nat /\ t.ending[w] \in Nat
  BY <1>1 DEF IsTally
<1>3. t.slope[v] = t.slope[w] + t.ending[w] /\ t.bias[v] = t.bias[w] + n /\ t.slope[w] <= t.bias[w]
  BY <1>2 DEF IsTally, v
<1>4. n = t.slope[v] * Week /\ n \in Nat
  BY <1>1, <1>2
<1> HIDE DEF n
<1>5. CASE t.bias[w] = 0
  <2>1. t.slope[w] = 0 /\ ~(t.bias[v] > n)
    BY <1>2, <1>3, <1>4, <1>5
  <2>2. Decayed(TallyPoint(t, v), t.ending[w]) = NoPoint
    BY <2>1, <1>4 DEF Decayed, TallyPoint
  <2> QED  BY <2>1, <2>2, <1>5 DEF NoPoint, TallyPoint, v
<1>6. CASE t.bias[w] # 0
  <2>1. t.bias[v] > n /\ t.bias[v] - n = t.bias[w] /\ t.slope[v] - t.ending[w] = t.slope[w]
    BY <1>2, <1>3, <1>4, <1>6
  <2>2. Decayed(TallyPoint(t, v), t.ending[w]) = TallyPoint(t, w)
    BY <2>1, <1>4 DEF Decayed, TallyPoint
  <2> QED  BY <2>2 DEF v
<1> QED  BY <1>5, <1>6

\* A history whose last point and whose later changes are those of the votes.
Matches(h, t) ==
    /\ h.time # 0
    /\ h.points[h.time] = TallyPoint(t, h.time)
    /\ \A w \in Weeks : w > h.time => h.changes[w] = t.ending[w]

\* It continues like them.
LEMMA MatchesContinues ==
    ASSUME NEW h \in History, NEW t, IsTally(t), Matches(h, t)
    PROVE  /\ Continued(h) = [w \in Weeks |-> IF w <= h.time THEN h.points[w] ELSE TallyPoint(t, w)]
           /\ Continues(h, Continued(h))
<1> DEFINE points == [w \in Weeks |-> IF w <= h.time THEN h.points[w] ELSE TallyPoint(t, w)]
           next(w) == IF w <= h.time \/ h.time = 0 THEN h.points[w] ELSE Decayed(points[w - Week], h.changes[w])
<1>1. h.time \in Weeks /\ h.time \in Nat /\ h.time # 0
  BY WeekSteps DEF History, Matches
<1>2. ASSUME NEW w \in Weeks PROVE points[w] = next(w)
  <2>1. CASE w <= h.time
    BY <2>1
  <2>2. CASE ~(w <= h.time)
    <3>0. w \in Nat /\ w > h.time
      BY <1>1, <2>2, WeekSteps
    <3>1. w # 0 /\ w - Week \in Weeks /\ w > h.time /\ w - Week >= h.time
      BY <1>1, <3>0, WeekSteps
    <3>2. points[w - Week] = TallyPoint(t, w - Week)
      <4> DEFINE v == w - Week
      <4>1. v \in Weeks /\ v >= h.time
        BY <3>1
      <4> HIDE DEF v
      <4>2. points[v] = TallyPoint(t, v)
        <5>1. v \in Nat
          BY <4>1, WeekSteps
        <5>2. CASE v = h.time
          BY <5>1, <5>2, <4>1 DEF Matches
        <5>3. CASE v > h.time
          BY <5>1, <5>3, <4>1, <1>1
        <5> QED  BY <5>1, <5>2, <5>3, <4>1, <1>1
      <4> QED  BY <4>2 DEF v
    <3>3. h.changes[w] = t.ending[w]
      BY <3>1 DEF Matches
    <3> HIDE DEF points
    <3>4. Decayed(points[w - Week], h.changes[w]) = TallyPoint(t, w)
      BY <3>1, <3>2, <3>3, TallyDecays
    <3>5. points[w] = TallyPoint(t, w)
      BY <2>2 DEF points
    <3> QED  BY <1>1, <2>2, <3>4, <3>5
  <2> QED  BY <2>1, <2>2
<1>3. points = [w \in Weeks |-> next(w)]
  BY <1>2
<1>4. Continues(h, points)
  <2> HIDE DEF points
  <2> QED  BY <1>3 DEF Continues
<1>5. Continued(h) = points
  <2> HIDE DEF points
  <2> QED  BY <1>4, ContinuedIs
<1> QED  BY <1>4, <1>5

\* Where nothing is recorded yet, nothing follows.
LEMMA NothingContinues ==
    ASSUME NEW h \in History, h.time = 0
    PROVE  Continued(h) = h.points
<1>1. Continues(h, h.points)
  BY DEF Continues, History
<1> QED  BY <1>1, ContinuedIs

-----------------------------------------------------------------------------
(* Tallies of votes *)

UserVote == [slope : Nat, power : Nat, end : Weeks, at : Int]

\* What a vote adds to a gauge.
VoteTally(v) ==
    [bias   |-> [w \in Weeks |-> v.slope * AtLeastZero(v.end - w)],
     slope  |-> [w \in Weeks |-> IF v.end > w THEN v.slope ELSE 0],
     ending |-> [w \in Weeks |-> IF v.end = w THEN v.slope ELSE 0]]

\* A vote decays to nothing by its end.
LEMMA VoteDecays ==
    ASSUME NEW v \in UserVote
    PROVE  IsTally(VoteTally(v))
<1> DEFINE t == VoteTally(v)
           bias(w) == v.slope * AtLeastZero(v.end - w)
<1>1. v.slope \in Nat /\ v.end \in Weeks /\ v.end \in Nat /\ Week \in Nat \ {0}
  BY WeekSteps DEF UserVote
<1>2. ASSUME NEW w \in Weeks
      PROVE  /\ w \in Nat /\ AtLeastZero(v.end - w) \in Nat
             /\ v.end > w => AtLeastZero(v.end - w) = v.end - w
             /\ ~(v.end > w) => AtLeastZero(v.end - w) = 0
  BY <1>1, WeekSteps DEF AtLeastZero
<1>3. ASSUME NEW w \in Weeks
      PROVE  /\ t.bias[w] = bias(w) /\ bias(w) \in Nat /\ t.slope[w] \in Nat /\ t.ending[w] \in Nat
             /\ t.slope[w] = IF v.end > w THEN v.slope ELSE 0
             /\ t.ending[w] = IF v.end = w THEN v.slope ELSE 0
  <2>1. bias(w) \in Nat
    BY <1>1, <1>2
  <2> HIDE DEF bias
  <2>2. t.bias[w] = bias(w)
    BY DEF VoteTally, bias
  <2> QED  BY <1>1, <2>1, <2>2 DEF VoteTally
<1>4. t \in [bias : [Weeks -> Nat], slope : [Weeks -> Nat], ending : [Weeks -> Nat]]
  <2>1. t.bias \in [Weeks -> Nat] /\ t.slope \in [Weeks -> Nat] /\ t.ending \in [Weeks -> Nat]
    BY <1>3 DEF VoteTally
  <2> QED  BY <2>1 DEF VoteTally
<1>5. ASSUME NEW w \in Weeks PROVE t.slope[w] <= t.bias[w]
  <2>1. CASE v.end > w
    <3> DEFINE d == v.end - w
    <3>1. d \in Nat /\ d >= 1 /\ bias(w) = v.slope * d
      BY <1>1, <1>2, <2>1
    <3> HIDE DEF d
    <3>2. v.slope * 1 <= v.slope * d
      BY <1>1, <3>1
    <3> QED  BY <1>1, <1>3, <2>1, <3>1, <3>2
  <2>2. CASE ~(v.end > w)
    BY <1>3, <2>2
  <2> QED  BY <2>1, <2>2
<1>6. ASSUME NEW w \in Weeks, w # 0
      PROVE  /\ t.slope[w - Week] = t.slope[w] + 1 * t.ending[w]
             /\ t.bias[w - Week] = t.bias[w] + Week * t.slope[w - Week]
  <2> DEFINE x == w - Week
  <2>1. x \in Weeks /\ x \in Nat /\ w \in Nat /\ w = x + Week
    BY <1>6, WeekSteps
  <2>2. v.end > x => v.end >= w
    BY <1>1, <2>1, WeekSteps
  <2> HIDE DEF x
  <2>3. CASE v.end > x
    <3>1. t.slope[x] = v.slope /\ t.slope[x] = t.slope[w] + 1 * t.ending[w]
      BY <1>1, <1>3, <2>1, <2>2, <2>3
    <3> DEFINE d == v.end - w
    <3>2. d \in Nat /\ bias(x) = v.slope * (d + Week) /\ bias(w) = v.slope * d
      <4>1. AtLeastZero(v.end - x) = d + Week /\ d \in Nat
        BY <1>1, <1>2, <2>1, <2>2, <2>3
      <4>2. AtLeastZero(v.end - w) = d
        BY <1>1, <2>1, <2>2, <2>3 DEF AtLeastZero
      <4> QED  BY <4>1, <4>2
    <3> HIDE DEF d
    <3>3. v.slope * (d + Week) = v.slope * d + Week * v.slope
      BY <1>1, <3>2
    <3>4. t.bias[x] = bias(x) /\ t.bias[w] = bias(w)
      BY <1>3, <2>1
    <3> HIDE DEF bias, t
    <3>5. t.bias[x] = t.bias[w] + Week * t.slope[x]
      BY <3>1, <3>2, <3>3, <3>4
    <3> QED  BY <3>1, <3>5 DEF x
  <2>4. CASE ~(v.end > x)
    <3>1. ~(v.end > w) /\ v.end # w
      BY <1>1, <2>1, <2>4
    <3>2. t.slope[x] = 0 /\ t.slope[w] = 0 /\ t.ending[w] = 0
      BY <1>3, <2>1, <2>4, <3>1
    <3>3. bias(x) = 0 /\ bias(w) = 0
      BY <1>1, <1>2, <2>1, <2>4, <3>1
    <3>4. t.bias[x] = 0 /\ t.bias[w] = 0
      BY <1>3, <2>1, <3>3
    <3> HIDE DEF bias, t
    <3>5. t.bias[x] = t.bias[w] + Week * t.slope[x]
      BY <1>1, <3>2, <3>4
    <3> QED  BY <3>2, <3>5 DEF x
  <2> QED  BY <2>3, <2>4
<1> QED  BY <1>3, <1>4, <1>5, <1>6 DEF IsTally

\* The sum of the tallies of a set.
SumTally(S, t) ==
    [bias   |-> [w \in Weeks |-> SumFunction([x \in S |-> t[x].bias[w]])],
     slope  |-> [w \in Weeks |-> SumFunction([x \in S |-> t[x].slope[w]])],
     ending |-> [w \in Weeks |-> SumFunction([x \in S |-> t[x].ending[w]])]]

\* It decays like its parts.
LEMMA SumDecays ==
    ASSUME NEW S, IsFiniteSet(S), NEW t, \A x \in S : IsTally(t[x])
    PROVE  IsTally(SumTally(S, t))
<1> DEFINE Bias(w) == [x \in S |-> t[x].bias[w]]
           Slope(w) == [x \in S |-> t[x].slope[w]]
           Ending(w) == [x \in S |-> t[x].ending[w]]
           s == SumTally(S, t)
<1>1. ASSUME NEW w \in Weeks
      PROVE  /\ Bias(w) \in [S -> Nat] /\ Slope(w) \in [S -> Nat] /\ Ending(w) \in [S -> Nat]
             /\ Bias(w) \in [S -> Int] /\ Slope(w) \in [S -> Int] /\ Ending(w) \in [S -> Int]
  <2>1. \A x \in S : t[x].bias[w] \in Nat /\ t[x].slope[w] \in Nat /\ t[x].ending[w] \in Nat
    BY DEF IsTally
  <2> QED  BY <2>1
<1>2. ASSUME NEW w \in Weeks
      PROVE  s.bias[w] = SumFunction(Bias(w)) /\ s.slope[w] = SumFunction(Slope(w)) /\ s.ending[w] = SumFunction(Ending(w))
  BY DEF SumTally
<1>3. ASSUME NEW w \in Weeks
      PROVE  SumFunction(Bias(w)) \in Nat /\ SumFunction(Slope(w)) \in Nat /\ SumFunction(Ending(w)) \in Nat
  BY <1>1, SumOfNats
<1>4. s \in [bias : [Weeks -> Nat], slope : [Weeks -> Nat], ending : [Weeks -> Nat]]
  <2>1. s.bias \in [Weeks -> Nat] /\ s.slope \in [Weeks -> Nat] /\ s.ending \in [Weeks -> Nat]
    BY <1>3 DEF SumTally
  <2> QED  BY <2>1 DEF SumTally
<1>5. ASSUME NEW w \in Weeks PROVE s.slope[w] <= s.bias[w]
  <2>1. \A x \in S : Slope(w)[x] <= Bias(w)[x]
    BY DEF IsTally
  <2> HIDE DEF Slope, Bias, s
  <2>2. SumFunction(Slope(w)) <= SumFunction(Bias(w))
    BY <1>1, <2>1, SumMonotone
  <2> QED  BY <1>2, <2>2
<1>6. ASSUME NEW w \in Weeks, w # 0
      PROVE  /\ s.slope[w - Week] = s.slope[w] + 1 * s.ending[w]
             /\ s.bias[w - Week] = s.bias[w] + Week * s.slope[w - Week]
  <2> DEFINE v == w - Week
  <2>1. v \in Weeks /\ Week \in Int /\ 1 \in Int
    BY <1>6, WeekSteps
  <2>2. \A x \in S : /\ t[x].slope[v] = t[x].slope[w] + 1 * t[x].ending[w]
                     /\ t[x].bias[v] = t[x].bias[w] + Week * t[x].slope[v]
    BY <1>6 DEF IsTally
  <2> HIDE DEF v
  <2>3. \A x \in S : Slope(v)[x] = Slope(w)[x] + 1 * Ending(w)[x] /\ Bias(v)[x] = Bias(w)[x] + Week * Slope(v)[x]
    BY <2>2
  <2> HIDE DEF Slope, Bias, Ending, s
  <2>4. SumFunction(Slope(v)) = SumFunction(Slope(w)) + 1 * SumFunction(Ending(w))
    BY <1>1, <2>1, <2>3, SumLinear
  <2>5. SumFunction(Bias(v)) = SumFunction(Bias(w)) + Week * SumFunction(Slope(v))
    BY <1>1, <2>1, <2>3, SumLinear
  <2>6. /\ s.slope[v] = s.slope[w] + 1 * s.ending[w]
        /\ s.bias[v] = s.bias[w] + Week * s.slope[v]
    BY <1>2, <2>1, <2>4, <2>5
  <2> QED  BY <2>6 DEF v
<1> QED  BY <1>4, <1>5, <1>6 DEF IsTally

\* A tally with a bias that does not decay.
Raised(i, t) == [bias |-> [w \in Weeks |-> i + t.bias[w]], slope |-> t.slope, ending |-> t.ending]

LEMMA RaisedDecays ==
    ASSUME NEW t, IsTally(t), NEW i \in Nat
    PROVE  IsTally(Raised(i, t))
<1> DEFINE r == Raised(i, t)
<1>1. ASSUME NEW w \in Weeks
      PROVE  /\ t.bias[w] \in Nat /\ t.slope[w] \in Nat /\ t.ending[w] \in Nat /\ t.slope[w] <= t.bias[w]
             /\ r.bias[w] = i + t.bias[w] /\ r.slope[w] = t.slope[w] /\ r.ending[w] = t.ending[w]
  BY DEF IsTally, Raised
<1>2. r \in [bias : [Weeks -> Nat], slope : [Weeks -> Nat], ending : [Weeks -> Nat]]
  BY DEF IsTally, Raised
<1>3. ASSUME NEW w \in Weeks, w # 0
      PROVE  /\ r.slope[w - Week] = r.slope[w] + 1 * r.ending[w]
             /\ r.bias[w - Week] = r.bias[w] + Week * r.slope[w - Week]
  <2> DEFINE v == w - Week
  <2>1. v \in Weeks /\ Week \in Nat
    BY <1>3, WeekSteps
  <2>2. t.slope[v] = t.slope[w] + 1 * t.ending[w] /\ t.bias[v] = t.bias[w] + Week * t.slope[v]
    BY <1>3 DEF IsTally
  <2> HIDE DEF v, r
  <2>3. r.bias[v] = i + t.bias[v] /\ r.slope[v] = t.slope[v] /\ t.slope[v] \in Nat
    BY <1>1, <2>1
  <2> DEFINE n == Week * t.slope[v]
  <2>4. n \in Nat /\ t.bias[v] = t.bias[w] + n
    BY <2>1, <2>2, <2>3
  <2> HIDE DEF n
  <2>5. r.bias[v] = r.bias[w] + n
    BY <1>1, <2>3, <2>4
  <2>6. r.bias[v] = r.bias[w] + Week * r.slope[v]
    BY <2>3, <2>5 DEF n
  <2> QED  BY <1>1, <2>2, <2>3, <2>6 DEF v
<1>4. \A w \in Weeks : r.slope[w] <= r.bias[w]
  BY <1>1
<1> QED  BY <1>2, <1>3, <1>4 DEF IsTally

\* One tally of a sum, or a sum of tallies, changes by the difference of two others.
ChangedBy(now2, was, new, old) ==
    \A w \in Weeks : /\ now2.bias[w] = was.bias[w] + new.bias[w] - old.bias[w]
                     /\ now2.slope[w] = was.slope[w] + new.slope[w] - old.slope[w]
                     /\ now2.ending[w] = was.ending[w] + new.ending[w] - old.ending[w]

LEMMA SumTallyChanges ==
    ASSUME NEW S, IsFiniteSet(S), NEW t, NEW t2, NEW x \in S,
           \A y \in S : IsTally(t[y]) /\ IsTally(t2[y]), \A y \in S \ {x} : t2[y] = t[y]
    PROVE  ChangedBy(SumTally(S, t2), SumTally(S, t), t2[x], t[x])
<1> SUFFICES ASSUME NEW w \in Weeks
             PROVE  /\ SumTally(S, t2).bias[w] = SumTally(S, t).bias[w] + t2[x].bias[w] - t[x].bias[w]
                    /\ SumTally(S, t2).slope[w] = SumTally(S, t).slope[w] + t2[x].slope[w] - t[x].slope[w]
                    /\ SumTally(S, t2).ending[w] = SumTally(S, t).ending[w] + t2[x].ending[w] - t[x].ending[w]
  BY DEF ChangedBy
<1> DEFINE Bias(s) == [y \in S |-> s[y].bias[w]]
           Slope(s) == [y \in S |-> s[y].slope[w]]
           Ending(s) == [y \in S |-> s[y].ending[w]]
<1>1. /\ \A y \in S : t[y].bias[w] \in Int /\ t[y].slope[w] \in Int /\ t[y].ending[w] \in Int
      /\ \A y \in S : t2[y].bias[w] \in Int /\ t2[y].slope[w] \in Int /\ t2[y].ending[w] \in Int
  BY DEF IsTally
<1>2. /\ Bias(t) \in [S -> Int] /\ Slope(t) \in [S -> Int] /\ Ending(t) \in [S -> Int]
      /\ Bias(t2) \in [S -> Int] /\ Slope(t2) \in [S -> Int] /\ Ending(t2) \in [S -> Int]
  BY <1>1
<1>3. \A y \in S \ {x} : Bias(t2)[y] = Bias(t)[y] /\ Slope(t2)[y] = Slope(t)[y] /\ Ending(t2)[y] = Ending(t)[y]
  OBVIOUS
<1>4. /\ Bias(t)[x] = t[x].bias[w] /\ Slope(t)[x] = t[x].slope[w] /\ Ending(t)[x] = t[x].ending[w]
      /\ Bias(t2)[x] = t2[x].bias[w] /\ Slope(t2)[x] = t2[x].slope[w] /\ Ending(t2)[x] = t2[x].ending[w]
  OBVIOUS
<1>5. /\ SumTally(S, t).bias[w] = SumFunction(Bias(t)) /\ SumTally(S, t2).bias[w] = SumFunction(Bias(t2))
      /\ SumTally(S, t).slope[w] = SumFunction(Slope(t)) /\ SumTally(S, t2).slope[w] = SumFunction(Slope(t2))
      /\ SumTally(S, t).ending[w] = SumFunction(Ending(t)) /\ SumTally(S, t2).ending[w] = SumFunction(Ending(t2))
  BY DEF SumTally
<1> HIDE DEF Bias, Slope, Ending
<1>6. /\ SumFunction(Bias(t2)) = SumFunction(Bias(t)) + Bias(t2)[x] - Bias(t)[x]
      /\ SumFunction(Slope(t2)) = SumFunction(Slope(t)) + Slope(t2)[x] - Slope(t)[x]
      /\ SumFunction(Ending(t2)) = SumFunction(Ending(t)) + Ending(t2)[x] - Ending(t)[x]
  BY <1>2, <1>3, SumOneChanged
<1> QED  BY <1>4, <1>5, <1>6

\* One tally more.
Adding(now2, was, more) ==
    \A w \in Weeks : /\ now2.bias[w] = was.bias[w] + more.bias[w]
                     /\ now2.slope[w] = was.slope[w] + more.slope[w]
                     /\ now2.ending[w] = was.ending[w] + more.ending[w]

LEMMA SumTallyGrows ==
    ASSUME NEW S, IsFiniteSet(S), NEW t, NEW t2, NEW x, x \notin S,
           \A y \in S : IsTally(t[y]), \A y \in S \cup {x} : IsTally(t2[y]), \A y \in S : t2[y] = t[y]
    PROVE  Adding(SumTally(S \cup {x}, t2), SumTally(S, t), t2[x])
<1> DEFINE R == S \cup {x}
<1> SUFFICES ASSUME NEW w \in Weeks
             PROVE  /\ SumTally(R, t2).bias[w] = SumTally(S, t).bias[w] + t2[x].bias[w]
                    /\ SumTally(R, t2).slope[w] = SumTally(S, t).slope[w] + t2[x].slope[w]
                    /\ SumTally(R, t2).ending[w] = SumTally(S, t).ending[w] + t2[x].ending[w]
  BY DEF Adding
<1> DEFINE Bias(Q, s) == [y \in Q |-> s[y].bias[w]]
           Slope(Q, s) == [y \in Q |-> s[y].slope[w]]
           Ending(Q, s) == [y \in Q |-> s[y].ending[w]]
<1>0. R \ {x} = S /\ x \in R
  OBVIOUS
<1>1. /\ \A y \in S : t[y].bias[w] \in Int /\ t[y].slope[w] \in Int /\ t[y].ending[w] \in Int
      /\ \A y \in R : t2[y].bias[w] \in Int /\ t2[y].slope[w] \in Int /\ t2[y].ending[w] \in Int
  BY DEF IsTally
<1> HIDE DEF R
<1>2. /\ Bias(S, t) \in [S -> Int] /\ Slope(S, t) \in [S -> Int] /\ Ending(S, t) \in [S -> Int]
      /\ Bias(R, t2) \in [R -> Int] /\ Slope(R, t2) \in [R -> Int] /\ Ending(R, t2) \in [R -> Int]
  BY <1>0, <1>1
<1>3. \A y \in S : /\ Bias(R, t2)[y] = Bias(S, t)[y] /\ Slope(R, t2)[y] = Slope(S, t)[y]
                         /\ Ending(R, t2)[y] = Ending(S, t)[y]
  BY <1>0
<1>4. Bias(R, t2)[x] = t2[x].bias[w] /\ Slope(R, t2)[x] = t2[x].slope[w] /\ Ending(R, t2)[x] = t2[x].ending[w]
  BY <1>0
<1>5. /\ SumTally(S, t).bias[w] = SumFunction(Bias(S, t)) /\ SumTally(R, t2).bias[w] = SumFunction(Bias(R, t2))
      /\ SumTally(S, t).slope[w] = SumFunction(Slope(S, t)) /\ SumTally(R, t2).slope[w] = SumFunction(Slope(R, t2))
      /\ SumTally(S, t).ending[w] = SumFunction(Ending(S, t)) /\ SumTally(R, t2).ending[w] = SumFunction(Ending(R, t2))
  BY DEF SumTally
<1> HIDE DEF Bias, Slope, Ending
<1>6. /\ SumFunction(Bias(R, t2)) = SumFunction(Bias(S, t)) + Bias(R, t2)[x]
      /\ SumFunction(Slope(R, t2)) = SumFunction(Slope(S, t)) + Slope(R, t2)[x]
      /\ SumFunction(Ending(R, t2)) = SumFunction(Ending(S, t)) + Ending(R, t2)[x]
  <2>1. SumFunction(Bias(R, t2)) = SumFunction(Bias(S, t)) + Bias(R, t2)[x]
    BY <1>0, <1>2, <1>3, SumOneMore
  <2>2. SumFunction(Slope(R, t2)) = SumFunction(Slope(S, t)) + Slope(R, t2)[x]
    BY <1>0, <1>2, <1>3, SumOneMore
  <2>3. SumFunction(Ending(R, t2)) = SumFunction(Ending(S, t)) + Ending(R, t2)[x]
    BY <1>0, <1>2, <1>3, SumOneMore
  <2> QED  BY <2>1, <2>2, <2>3
<1> QED  BY <1>4, <1>5, <1>6

-----------------------------------------------------------------------------
(* Histories of tallies *)

Nothing(t) == \A w \in Weeks : t.bias[w] = 0 /\ t.slope[w] = 0 /\ t.ending[w] = 0

\* A history, recorded until a time, of what has this tally.
IsHistoryOf(h, t, last) ==
    /\ h \in History /\ IsTally(t)
    /\ h.time <= last
    /\ \/ h = NoHistory /\ Nothing(t)
       \/ Matches(h, t)

\* From its last point on, a history continues like the tally.
LEMMA HistoryContinues ==
    ASSUME NEW h, NEW t, NEW last, IsHistoryOf(h, t, last)
    PROVE  /\ Continued(h) \in [Weeks -> Point]
           /\ \A w \in Weeks : w <= h.time => Continued(h)[w] = h.points[w]
           /\ \A w \in Weeks : w >= h.time => Continued(h)[w] = TallyPoint(t, w)
           /\ h.time = 0 => Continued(h) = h.points /\ Nothing(t) /\ h = NoHistory
           /\ h.time # 0 => Matches(h, t)
<1>0. h \in History /\ IsTally(t) /\ h.time \in Weeks /\ h.time \in Nat
  BY WeekSteps DEF IsHistoryOf, History
<1>1. \A w \in Weeks : TallyPoint(t, w) \in Point /\ h.points[w] \in Point /\ w \in Nat
  BY <1>0, WeekSteps DEF IsTally, TallyPoint, Point, History
<1>2. CASE h = NoHistory /\ Nothing(t)
  <2>1. h.time = 0 /\ \A w \in Weeks : h.points[w] = NoPoint
    BY <1>2 DEF NoHistory
  <2>2. Continued(h) = h.points
    BY <1>0, <2>1, NothingContinues
  <2>3. \A w \in Weeks : TallyPoint(t, w) = NoPoint
    BY <1>2 DEF Nothing, TallyPoint, NoPoint
  <2>4. h.points \in [Weeks -> Point]
    BY <1>0 DEF History
  <2> QED  BY <1>2, <2>1, <2>2, <2>3, <2>4
<1>3. CASE Matches(h, t)
  <2>1. Continued(h) = [w \in Weeks |-> IF w <= h.time THEN h.points[w] ELSE TallyPoint(t, w)]
    BY <1>0, <1>3, MatchesContinues
  <2>2. h.time # 0 /\ h.points[h.time] = TallyPoint(t, h.time)
    BY <1>3 DEF Matches
  <2>3. ASSUME NEW w \in Weeks, w >= h.time PROVE Continued(h)[w] = TallyPoint(t, w)
    <3>1. CASE w = h.time
      BY <2>1, <2>2, <3>1, <1>1
    <3>2. CASE w # h.time
      BY <1>0, <1>1, <2>1, <2>3, <3>2
    <3> QED  BY <3>1, <3>2
  <2>4. Continued(h) \in [Weeks -> Point]
    BY <1>1, <2>1
  <2> QED  BY <1>3, <2>1, <2>2, <2>3, <2>4
<1> QED  BY <1>2, <1>3 DEF IsHistoryOf

\* A history with its missed weeks filled in is still that of its votes.
LEMMA FilledHistory ==
    ASSUME NEW h, NEW t, now \in Start..Horizon, IsHistoryOf(h, t, NextWeek)
    PROVE  /\ IsHistoryOf(Filled(h), t, NextWeek)
           /\ Continued(Filled(h)) = Continued(h)
           /\ Filled(h).time = IF h.time = 0 THEN 0 ELSE NextWeek
           /\ \A w \in Weeks : w <= NextWeek => Filled(h).points[w] = Continued(h)[w]
<1>0. /\ h \in History /\ IsTally(t) /\ h.time \in Weeks /\ h.time \in Nat /\ h.time <= NextWeek
      /\ NextWeek \in Weeks /\ NextWeek \in Nat /\ NextWeek # 0
  BY WeekSteps, NextWeekIsNext DEF IsHistoryOf, History
<1>1. CASE h.time = 0
  <2>1. Filled(h) = h
    BY <1>1 DEF Filled
  <2>2. Continued(h) = h.points
    BY <1>1, HistoryContinues
  <2> QED  BY <1>1, <2>1, <2>2
<1>2. CASE h.time # 0
  <2> DEFINE f == Filled(h)
             c == Continued(h)
             points == [w \in Weeks |-> IF w <= NextWeek THEN c[w] ELSE h.points[w]]
  <2>1. f = [h EXCEPT !.points = points, !.time = NextWeek]
    BY <1>2 DEF Filled
  <2>2. /\ c \in [Weeks -> Point]
        /\ \A w \in Weeks : w <= h.time => c[w] = h.points[w]
        /\ \A w \in Weeks : w >= h.time => c[w] = TallyPoint(t, w)
        /\ Matches(h, t)
    BY <1>2, HistoryContinues
  <2>2a. \A w \in Weeks : w \in Nat
    BY WeekSteps
  <2> HIDE DEF c
  <2>3. points \in [Weeks -> Point]
    BY <1>0, <2>2 DEF History
  <2> HIDE DEF f, points
  <2>4. f.points = points /\ f.changes = h.changes /\ f.time = NextWeek /\ f \in History
    BY <1>0, <2>1, <2>3 DEF History
  <2>5. \A w \in Weeks : w <= NextWeek => f.points[w] = c[w]
    BY <2>4 DEF points
  <2>6. Matches(f, t)
    <3>1. f.points[NextWeek] = TallyPoint(t, NextWeek)
      BY <1>0, <2>2, <2>5
    <3>2. \A w \in Weeks : w > NextWeek => h.changes[w] = t.ending[w]
      BY <1>0, <2>2, <2>2a DEF Matches
    <3> QED  BY <1>0, <2>4, <3>1, <3>2 DEF Matches
  <2>7. IsHistoryOf(f, t, NextWeek)
    BY <1>0, <2>4, <2>6 DEF IsHistoryOf
  <2>8. Continued(f) = c
    <3>1. Continued(f) = [w \in Weeks |-> IF w <= NextWeek THEN f.points[w] ELSE TallyPoint(t, w)]
      BY <1>0, <2>4, <2>6, MatchesContinues
    <3>2. c = [w \in Weeks |-> c[w]]
      BY <2>2
    <3>3. \A w \in Weeks : c[w] = IF w <= NextWeek THEN f.points[w] ELSE TallyPoint(t, w)
      BY <1>0, <2>2, <2>2a, <2>5
    <3> QED  BY <3>1, <3>2, <3>3
  <2> QED  BY <1>2, <2>4, <2>5, <2>7, <2>8 DEF f, c
<1> QED  BY <1>1, <1>2

\* A new point for the next week changes what follows, and nothing before.
LEMMA NewPoint ==
    ASSUME NEW h, NEW t, NEW h2, NEW t2, now \in Start..Horizon, IsHistoryOf(h, t, NextWeek),
           h2 \in History, h2.time = NextWeek, IsTally(t2),
           h2.points[NextWeek] = TallyPoint(t2, NextWeek),
           \A w \in Weeks : w < NextWeek => h2.points[w] = Continued(h)[w],
           \A w \in Weeks : w > NextWeek => h2.changes[w] = t2.ending[w]
    PROVE  /\ IsHistoryOf(h2, t2, NextWeek)
           /\ \A w \in Weeks : w < NextWeek => Continued(h2)[w] = Continued(h)[w]
           /\ \A w \in Weeks : w >= NextWeek => Continued(h2)[w] = TallyPoint(t2, w)
<1>0. NextWeek \in Weeks /\ NextWeek \in Nat /\ NextWeek # 0 /\ \A w \in Weeks : w \in Nat
  BY WeekSteps, NextWeekIsNext
<1>1. Matches(h2, t2)
  BY <1>0 DEF Matches
<1>2. IsHistoryOf(h2, t2, NextWeek)
  BY <1>0, <1>1 DEF IsHistoryOf
<1>3. /\ \A w \in Weeks : w <= h2.time => Continued(h2)[w] = h2.points[w]
      /\ \A w \in Weeks : w >= h2.time => Continued(h2)[w] = TallyPoint(t2, w)
  BY <1>2, HistoryContinues
<1> QED  BY <1>0, <1>2, <1>3

\* Equal tallies have the same history, and time only passes.
LEMMA SameHistory ==
    ASSUME NEW h, NEW t, NEW t2, NEW last \in Nat, NEW later \in Nat, last <= later,
           IsHistoryOf(h, t, last), IsTally(t2),
           \A w \in Weeks : t2.bias[w] = t.bias[w] /\ t2.slope[w] = t.slope[w] /\ t2.ending[w] = t.ending[w]
    PROVE  IsHistoryOf(h, t2, later)
<1>1. h.time \in Weeks /\ h.time \in Nat /\ h.time <= later
  BY WeekSteps DEF IsHistoryOf, History
<1>2. TallyPoint(t2, h.time) = TallyPoint(t, h.time)
  BY <1>1 DEF TallyPoint
<1>3. CASE Matches(h, t)
  <2>1. Matches(h, t2)
    BY <1>2, <1>3 DEF Matches
  <2> QED  BY <1>1, <2>1 DEF IsHistoryOf
<1>4. CASE h = NoHistory /\ Nothing(t)
  <2>1. Nothing(t2)
    BY <1>4 DEF Nothing
  <2> QED  BY <1>1, <1>4, <2>1 DEF IsHistoryOf
<1> QED  BY <1>3, <1>4 DEF IsHistoryOf

-----------------------------------------------------------------------------
(* The inductive invariant *)

TypeHistory == [points : [Weeks -> Nat], time : Weeks]

ControllerTypes ==
    /\ now \in Start..Horizon
    /\ \A u \in Users : lock[u].slope \in Nat /\ lock[u].end \in Weeks
    /\ n_gauge_types \in Nat
    /\ gauge_type \in [Gauges -> Types \cup {NoType}]
    /\ weight \in [Gauges -> History]
    /\ sum \in [Types -> History]
    /\ total \in [points : [Weeks -> Int], time : Weeks]
    /\ type_weight \in [Types -> TypeHistory]
    /\ vote \in [Users -> [Gauges -> UserVote]]
    /\ vote_user_power \in [Users -> Int]
    /\ initial_weight \in [Gauges -> Nat]

\* What has been voted for a gauge, and for the gauges of a type.
TallyOf(g) == Raised(initial_weight[g], SumTally(Users, [u \in Users |-> VoteTally(vote[u][g])]))
Tallies == [g \in Gauges |-> TallyOf(g)]
OfType(k) == {g \in Gauges : gauge_type[g] = k}
TallyOfType(k) == SumTally(OfType(k), Tallies)

\* The history of each gauge is that of its votes.
GaugesAreTallied ==
    \A g \in Gauges : /\ IsHistoryOf(weight[g], TallyOf(g), NextWeek)
                      /\ gauge_type[g] # NoType <=> weight[g].time # 0

\* The history of each type is that of the votes for its gauges.
TypesAreTallied ==
    \A k \in Types : /\ IsHistoryOf(sum[k], TallyOfType(k), NextWeek)
                     /\ OfType(k) # {} => sum[k].time # 0
                     /\ k \notin Added => sum[k].time = 0

\* The weights of types are filled in with the total; until one is set, it is zero.
TypeWeightsAreTimely ==
    /\ total.time <= NextWeek
    /\ \A k \in Types : /\ type_weight[k].time = 0 => \A w \in Weeks : type_weight[k].points[w] = 0
                        /\ type_weight[k].time # 0 => type_weight[k].time = total.time /\ k \in Added

PowersAddUp ==
    \A u \in Users : SumFunction([g \in Gauges |-> vote[u][g].power]) = vote_user_power[u]

ControllerIInv ==
    /\ ControllerTypes
    /\ GaugesAreTallied
    /\ TypesAreTallied
    /\ TypeWeightsAreTimely
    /\ SumsAddUp
    /\ PowersAddUp

\* The votes that the properties count are those that are tallied.
LEMMA TalliesAreVotes ==
    ASSUME ControllerTypes, NEW g \in Gauges
    PROVE  /\ IsTally(TallyOf(g))
           /\ \A w \in Weeks : Votes(g, w) = TallyPoint(TallyOf(g), w)
<1> DEFINE votes == [u \in Users |-> VoteTally(vote[u][g])]
<1>1. \A u \in Users : vote[u][g] \in UserVote
  BY DEF ControllerTypes
<1>2. \A u \in Users : IsTally(votes[u])
  BY <1>1, VoteDecays
<1>3. initial_weight[g] \in Nat /\ IsFiniteSet(Users)
  BY ControllerAssumption, MiningAssumption DEF ControllerTypes
<1>4. IsTally(TallyOf(g))
  <2> HIDE DEF votes
  <2>1. IsTally(SumTally(Users, votes))
    BY <1>2, <1>3, SumDecays
  <2>2. IsTally(Raised(initial_weight[g], SumTally(Users, votes)))
    BY <1>3, <2>1, RaisedDecays
  <2> QED  BY <2>2 DEF TallyOf, votes
<1>5. ASSUME NEW w \in Weeks PROVE Votes(g, w) = TallyPoint(TallyOf(g), w)
  <2>1. /\ \A u \in Users : votes[u].bias[w] = vote[u][g].slope * AtLeastZero(vote[u][g].end - w)
        /\ \A u \in Users : votes[u].slope[w] = IF vote[u][g].end > w THEN vote[u][g].slope ELSE 0
    BY DEF VoteTally
  <2>2. /\ [u \in Users |-> votes[u].bias[w]] = [u \in Users |-> vote[u][g].slope * AtLeastZero(vote[u][g].end - w)]
        /\ [u \in Users |-> votes[u].slope[w]] = [u \in Users |-> IF vote[u][g].end > w THEN vote[u][g].slope ELSE 0]
    BY <2>1
  <2> HIDE DEF votes
  <2>3. /\ SumTally(Users, votes).bias[w] = SumFunction([u \in Users |-> votes[u].bias[w]])
        /\ SumTally(Users, votes).slope[w] = SumFunction([u \in Users |-> votes[u].slope[w]])
    BY DEF SumTally
  <2>4. /\ TallyOf(g).bias[w] = initial_weight[g] + SumTally(Users, votes).bias[w]
        /\ TallyOf(g).slope[w] = SumTally(Users, votes).slope[w]
    BY DEF TallyOf, Raised, votes
  <2> QED  BY <2>2, <2>3, <2>4 DEF Votes, TallyPoint
<1> QED  BY <1>4, <1>5

\* From the tallies, the first property follows.
LEMMA TalliedIsVoted == ControllerIInv => WeightsAreVotes
<1> SUFFICES ASSUME ControllerIInv PROVE WeightsAreVotes
  OBVIOUS
<1>1. ASSUME NEW g \in Gauges, NEW w \in Weeks, w >= weight[g].time
      PROVE  Continued(weight[g])[w] = Votes(g, w)
  <2>1. IsHistoryOf(weight[g], TallyOf(g), NextWeek) /\ ControllerTypes
    BY DEF ControllerIInv, GaugesAreTallied
  <2>2. Continued(weight[g])[w] = TallyPoint(TallyOf(g), w)
    BY <1>1, <2>1, HistoryContinues
  <2> QED  BY <2>1, <2>2, TalliesAreVotes
<1> QED  BY <1>1 DEF WeightsAreVotes, ControllerIInv, PowersAddUp

LEMMA TypesAreTallies ==
    ASSUME ControllerTypes, NEW k
    PROVE  /\ OfType(k) \subseteq Gauges /\ IsFiniteSet(OfType(k))
           /\ \A g \in OfType(k) : IsTally(Tallies[g])
           /\ IsTally(TallyOfType(k))
<1>1. OfType(k) \subseteq Gauges
  BY DEF OfType
<1>2. IsFiniteSet(OfType(k))
  BY <1>1, FS_Subset, ControllerAssumption, MiningAssumption
<1>3. \A g \in OfType(k) : IsTally(Tallies[g])
  BY <1>1, TalliesAreVotes DEF Tallies
<1> QED  BY <1>1, <1>2, <1>3, SumDecays DEF TallyOfType

-----------------------------------------------------------------------------
(* Filling in *)

\* The weight of a type in a week, with what will be filled in.
TypeWeightAt(h, w) == h.points[Min({w, h.time})]

\* The weight of a type lasts until it is changed.
LEMMA FilledType ==
    ASSUME NEW h \in TypeHistory, now \in Start..Horizon, h.time <= NextWeek
    PROVE  /\ FilledTypeWeight(h) \in TypeHistory
           /\ FilledTypeWeight(h).time = IF h.time = 0 THEN 0 ELSE NextWeek
           /\ h.time = 0 => FilledTypeWeight(h) = h
           /\ \A w \in Weeks : w <= h.time => FilledTypeWeight(h).points[w] = h.points[w]
           /\ \A w \in Weeks : w < NextWeek => TypeWeightAt(FilledTypeWeight(h), w) = TypeWeightAt(h, w)
           /\ \A w \in Weeks : w < NextWeek /\ h.time # 0 => FilledTypeWeight(h).points[w] = TypeWeightAt(h, w)
<1>0. /\ h.time \in Weeks /\ h.time \in Nat /\ NextWeek \in Weeks /\ NextWeek \in Nat /\ NextWeek # 0
      /\ \A w \in Weeks : w \in Nat
  BY WeekSteps, NextWeekIsNext DEF TypeHistory
<1>1. CASE h.time = 0
  <2>1. FilledTypeWeight(h) = h
    BY <1>1 DEF FilledTypeWeight
  <2> QED  BY <1>1, <2>1
<1>2. CASE h.time # 0
  <2> DEFINE f == FilledTypeWeight(h)
             points == [w \in Weeks |-> IF h.time <= w /\ w <= NextWeek THEN h.points[h.time] ELSE h.points[w]]
  <2>1. f = [points |-> points, time |-> NextWeek]
    BY <1>2 DEF FilledTypeWeight
  <2>2. points \in [Weeks -> Nat]
    BY <1>0 DEF TypeHistory
  <2>3. \A w \in Weeks : points[w] = IF h.time <= w /\ w <= NextWeek THEN h.points[h.time] ELSE h.points[w]
    OBVIOUS
  <2> HIDE DEF f, points
  <2>4. f \in TypeHistory /\ f.time = NextWeek /\ f.points = points
    BY <1>0, <2>1, <2>2 DEF TypeHistory
  <2>5. ASSUME NEW w \in Weeks, w <= h.time PROVE f.points[w] = h.points[w]
    <3>1. CASE w = h.time
      BY <3>1, <2>3, <2>4
    <3>2. CASE w # h.time
      <4>1. w \in Nat /\ h.time \in Nat
        BY <1>0, WeekSteps
      <4>2. ~(h.time <= w)
        BY <2>5, <3>2, <4>1
      <4> QED  BY <2>3, <2>4, <4>2
    <3> QED  BY <3>1, <3>2
  <2>6. ASSUME NEW w \in Weeks, w < NextWeek
        PROVE  f.points[w] = TypeWeightAt(h, w) /\ TypeWeightAt(f, w) = TypeWeightAt(h, w)
    <3>1. w \in Nat
      BY <1>0
    <3>2. Min({w, h.time}) = IF w <= h.time THEN w ELSE h.time
      BY <1>0, <3>1, MinOfTwo
    <3>3. Min({w, f.time}) = w
      BY <1>0, <2>4, <2>6, <3>1, MinOfTwo
    <3>4. f.points[w] = TypeWeightAt(h, w)
      <4>1. CASE w <= h.time
        BY <2>5, <3>2, <4>1 DEF TypeWeightAt
      <4>2. CASE ~(w <= h.time)
        BY <1>0, <2>3, <2>4, <2>6, <3>1, <3>2, <4>2 DEF TypeWeightAt
      <4> QED  BY <4>1, <4>2
    <3> QED  BY <3>3, <3>4 DEF TypeWeightAt
  <2> QED  BY <1>2, <2>4, <2>5, <2>6 DEF f
<1> QED  BY <1>1, <1>2

\* The total of some types in a week.
Total(types, sums, typeWeights, w) ==
    SumFunction([k \in types |-> Continued(sums[k])[w].bias * typeWeights[k].points[w]])

\* Histories of the types that differ from those recorded only from the next week on.
AreNew(sums, tally) ==
    \A k \in Types : /\ IsHistoryOf(sums[k], tally[k], NextWeek)
                     /\ \A w \in Weeks : w < NextWeek => Continued(sums[k])[w] = Continued(sum[k])[w]
                     /\ k \notin Added => sums[k].time = 0

\* _get_sum, _get_type_weight and _get_total bring all three up to the next week.
LEMMA FilledSumsAndWeights ==
    ASSUME ControllerIInv, NEW sums, NEW tally, AreNew(sums, tally)
    PROVE  /\ FilledSums(sums) \in [Types -> History]
           /\ AreNew(FilledSums(sums), tally)
           /\ \A k \in Types : /\ Continued(FilledSums(sums)[k]) = Continued(sums[k])
                               /\ FilledSums(sums)[k].time = IF sums[k].time = 0 THEN 0 ELSE NextWeek
                               /\ \A w \in Weeks : w <= NextWeek => FilledSums(sums)[k].points[w] = Continued(sums[k])[w]
           /\ FilledTypeWeights \in [Types -> TypeHistory]
           /\ \A k \in Types : /\ FilledTypeWeights[k] = FilledTypeWeight(type_weight[k])
                               /\ type_weight[k].time <= NextWeek /\ type_weight[k] \in TypeHistory
<1>0. now \in Start..Horizon /\ ControllerTypes /\ NextWeek \in Nat /\ NextWeek # 0
  BY WeekSteps, NextWeekIsNext DEF ControllerIInv, ControllerTypes
<1>1. ASSUME NEW k \in Types
      PROVE  /\ FilledSums(sums)[k] = Filled(sums[k])
             /\ IsHistoryOf(sums[k], tally[k], NextWeek)
             /\ \A w \in Weeks : w < NextWeek => Continued(sums[k])[w] = Continued(sum[k])[w]
  BY DEF FilledSums, AreNew, Filled
<1>2. ASSUME NEW k \in Types
      PROVE  /\ IsHistoryOf(FilledSums(sums)[k], tally[k], NextWeek)
             /\ FilledSums(sums)[k] \in History
             /\ Continued(FilledSums(sums)[k]) = Continued(sums[k])
             /\ FilledSums(sums)[k].time = IF sums[k].time = 0 THEN 0 ELSE NextWeek
             /\ \A w \in Weeks : w <= NextWeek => FilledSums(sums)[k].points[w] = Continued(sums[k])[w]
  <2>1. PICK h : h = sums[k] /\ FilledSums(sums)[k] = Filled(h) /\ IsHistoryOf(h, tally[k], NextWeek)
    BY <1>1, <1>2
  <2>2. IsHistoryOf(Filled(h), tally[k], NextWeek) /\ Filled(h) \in History
    BY <1>0, <2>1, FilledHistory DEF IsHistoryOf
  <2>3. /\ Continued(Filled(h)) = Continued(h)
        /\ Filled(h).time = IF h.time = 0 THEN 0 ELSE NextWeek
        /\ \A w \in Weeks : w <= NextWeek => Filled(h).points[w] = Continued(h)[w]
    BY <1>0, <2>1, FilledHistory
  <2> QED  BY <2>1, <2>2, <2>3
<1>3. FilledSums(sums) \in [Types -> History]
  BY <1>2 DEF FilledSums
<1>4. AreNew(FilledSums(sums), tally)
  BY <1>1, <1>2 DEF AreNew
<1>5. ASSUME NEW k \in Types
      PROVE  /\ FilledTypeWeights[k] = FilledTypeWeight(type_weight[k])
             /\ type_weight[k].time <= NextWeek /\ type_weight[k] \in TypeHistory
             /\ FilledTypeWeights[k] \in TypeHistory
  <2>1. type_weight[k] \in TypeHistory
    BY <1>0 DEF ControllerTypes
  <2>2. type_weight[k].time <= NextWeek
    BY <1>0 DEF ControllerIInv, TypeWeightsAreTimely
  <2>3. FilledTypeWeight(type_weight[k]) \in TypeHistory
    BY <1>0, <2>1, <2>2, FilledType
  <2>4. k \notin Added => type_weight[k].time = 0
    BY DEF ControllerIInv, TypeWeightsAreTimely
  <2>5. FilledTypeWeights[k] = FilledTypeWeight(type_weight[k])
    BY <2>4 DEF FilledTypeWeights, FilledTypeWeight
  <2> QED  BY <2>1, <2>2, <2>3, <2>5
<1>6. FilledTypeWeights \in [Types -> TypeHistory]
  BY <1>5 DEF FilledTypeWeights
<1> QED  BY <1>2, <1>3, <1>4, <1>5, <1>6

LEMMA AddedIsFinite == IsFiniteSet(Added) /\ Added \subseteq Types
BY FS_Subset, ControllerAssumption, MiningAssumption DEF Added

\* The terms of a total are numbers.
LEMMA TotalType ==
    ASSUME ControllerTypes, NEW sums, NEW tally, AreNew(sums, tally), NEW tws \in [Types -> TypeHistory],
           NEW w \in Weeks
    PROVE  /\ \A k \in Added : Continued(sums[k])[w].bias * tws[k].points[w] \in Nat
           /\ Total(Added, sums, tws, w) \in Nat
<1>1. ASSUME NEW k \in Added PROVE Continued(sums[k])[w].bias \in Nat /\ tws[k].points[w] \in Nat
  <2>1. k \in Types
    BY AddedIsFinite
  <2>2. Continued(sums[k]) \in [Weeks -> Point]
    BY <2>1, HistoryContinues DEF AreNew
  <2> QED  BY <2>1, <2>2 DEF Point, TypeHistory
<1>2. \A k \in Added : Continued(sums[k])[w].bias * tws[k].points[w] \in Nat
  BY <1>1
<1>3. [k \in Added |-> Continued(sums[k])[w].bias * tws[k].points[w]] \in [Added -> Nat]
  BY <1>2
<1> QED  BY <1>2, <1>3, AddedIsFinite, SumOfNats DEF Total

LEMMA FilledTotalIs ==
    ASSUME ControllerIInv, NEW sums, NEW tally, AreNew(sums, tally)
    PROVE  /\ FilledTotal(sums) \in [points : [Weeks -> Int], time : Weeks]
           /\ FilledTotal(sums).time = NextWeek
           /\ \A w \in Weeks : w <= NextWeek =>
                  FilledTotal(sums).points[w] = Total(Added, FilledSums(sums), FilledTypeWeights, w)
<1> DEFINE F == FilledSums(sums)
           T == FilledTypeWeights
           Term(w) == [k \in Added |-> F[k].points[w].bias * T[k].points[w]]
           m == Min({total.time, NextWeek - Week})
           f == FilledTotal(sums)
<1>0. /\ now \in Start..Horizon /\ ControllerTypes /\ NextWeek \in Nat /\ NextWeek \in Weeks
      /\ NextWeek - Week \in Nat /\ total.time \in Nat /\ total.time <= NextWeek /\ total.points \in [Weeks -> Int]
      /\ Week \in Nat \ {0} /\ \A w \in Weeks : w \in Nat
  BY WeekSteps, NextWeekIsNext DEF ControllerIInv, ControllerTypes, TypeWeightsAreTimely
<1>1. m \in Nat /\ m < NextWeek /\ m <= total.time
  BY <1>0, MinOfTwo
<1> HIDE DEF m
<1>2. AreNew(F, tally) /\ T \in [Types -> TypeHistory]
  BY FilledSumsAndWeights
<1>3. ASSUME NEW w \in Weeks, w <= NextWeek PROVE SumFunction(Term(w)) = Total(Added, F, T, w)
  <2>1. ASSUME NEW k \in Added PROVE F[k].points[w] = Continued(F[k])[w]
    <3>1. k \in Types
      BY AddedIsFinite
    <3>2. F[k].points[w] = Continued(sums[k])[w] /\ Continued(F[k]) = Continued(sums[k])
      BY <1>3, <3>1, FilledSumsAndWeights
    <3> QED  BY <3>2
  <2> HIDE DEF F, T
  <2>2. Term(w) = [k \in Added |-> Continued(F[k])[w].bias * T[k].points[w]]
    BY <2>1
  <2> HIDE DEF Term
  <2> QED  BY <2>2 DEF Total
<1>4. ASSUME NEW w \in Weeks PROVE Total(Added, F, T, w) \in Int
  BY <1>0, <1>2, <1>4, TotalType
<1>5. f = [points |-> [w \in Weeks |-> IF m < w /\ w <= NextWeek THEN SumFunction(Term(w)) ELSE total.points[w]],
           time |-> NextWeek]
  BY DEF FilledTotal, m
<1>6. ASSUME NEW w \in Weeks, w <= NextWeek PROVE f.points[w] = Total(Added, F, T, w)
  <2>1. CASE m < w
    BY <1>3, <1>5, <1>6, <2>1
  <2>2. CASE ~(m < w)
    <3>1. w <= total.time /\ w < NextWeek /\ w \in Nat
      BY <1>0, <1>1, <2>2
    <3>2. f.points[w] = total.points[w]
      BY <1>5, <2>2
    <3>3. total.points[w] = SumFunction([k \in Added |-> Continued(sum[k])[w].bias * type_weight[k].points[w]])
      BY <3>1 DEF ControllerIInv, SumsAddUp
    <3>4. ASSUME NEW k \in Added
          PROVE  Continued(sum[k])[w] = Continued(F[k])[w] /\ type_weight[k].points[w] = T[k].points[w]
      <4>1. k \in Types
        BY AddedIsFinite
      <4>2. Continued(F[k])[w] = Continued(sum[k])[w]
        BY <1>2, <3>1, <4>1 DEF AreNew
      <4>3. T[k] = FilledTypeWeight(type_weight[k]) /\ type_weight[k].time <= NextWeek /\ type_weight[k] \in TypeHistory
        BY <4>1, FilledSumsAndWeights
      <4>4. CASE type_weight[k].time = 0
        BY <1>0, <4>2, <4>3, <4>4, FilledType
      <4>5. CASE type_weight[k].time # 0
        <5>1. w <= type_weight[k].time
          BY <3>1, <4>1, <4>5 DEF ControllerIInv, TypeWeightsAreTimely
        <5>2. FilledTypeWeight(type_weight[k]).points[w] = type_weight[k].points[w]
          BY <1>0, <4>3, <5>1, FilledType
        <5> QED  BY <4>2, <4>3, <5>2
      <4> QED  BY <4>4, <4>5
    <3> HIDE DEF F, T, f
    <3>5. [k \in Added |-> Continued(sum[k])[w].bias * type_weight[k].points[w]]
            = [k \in Added |-> Continued(F[k])[w].bias * T[k].points[w]]
      BY <3>4
    <3> QED  BY <3>2, <3>3, <3>5 DEF Total
  <2> QED  BY <2>1, <2>2
<1>7. f \in [points : [Weeks -> Int], time : Weeks]
  <2>1. \A w \in Weeks : (IF m < w /\ w <= NextWeek THEN SumFunction(Term(w)) ELSE total.points[w]) \in Int
    BY <1>0, <1>3, <1>4
  <2> HIDE DEF Term
  <2> QED  BY <1>0, <1>5, <2>1
<1>8. f.time = NextWeek
  BY <1>5
<1> HIDE DEF f
<1> QED  BY <1>6, <1>7, <1>8 DEF f

-----------------------------------------------------------------------------
(* Steps *)

\* What no step may do to the weeks that have begun.
KeepsPast ==
    /\ \A g \in Gauges, w \in Weeks : w < NextWeek => Continued(weight'[g])[w] = Continued(weight[g])[w]
    /\ \A k \in Types, w \in Weeks : w < NextWeek => Continued(sum'[k])[w] = Continued(sum[k])[w]
    /\ \A k \in Types, w \in Weeks : w < NextWeek =>
           TypeWeightAt(type_weight'[k], w) = TypeWeightAt(type_weight[k], w)
    /\ Added' = Added \/ \E k \in Types \ Added : Added' = Added \cup {k}
    /\ \A g \in Gauges : gauge_type'[g] # gauge_type[g] => gauge_type[g] = NoType /\ gauge_type'[g] \in Added'

\* From the next week on, tallies add up.
LEMMA TalliesAddUp ==
    ASSUME NEW S, IsFiniteSet(S), NEW hs, NEW t, NEW h, NEW n, \A g \in S : IsHistoryOf(hs[g], t[g], n),
           IsHistoryOf(h, SumTally(S, t), n), NEW w \in Weeks, n \in Nat, w >= n
    PROVE  Continued(h)[w].bias = SumFunction([g \in S |-> Continued(hs[g])[w].bias])
<1>0. \A x \in Weeks : x \in Nat
  BY WeekSteps
<1>1. ASSUME NEW g \in S PROVE Continued(hs[g])[w].bias = t[g].bias[w]
  <2>1. hs[g].time <= w
    BY <1>0 DEF IsHistoryOf, History
  <2>2. Continued(hs[g])[w] = TallyPoint(t[g], w)
    BY <2>1, HistoryContinues
  <2> QED  BY <2>2 DEF TallyPoint
<1>2. Continued(h)[w].bias = SumTally(S, t).bias[w]
  <2>1. h.time <= w
    BY <1>0 DEF IsHistoryOf, History
  <2>2. Continued(h)[w] = TallyPoint(SumTally(S, t), w)
    BY <2>1, HistoryContinues
  <2> QED  BY <2>2 DEF TallyPoint
<1>3. SumTally(S, t).bias[w] = SumFunction([g \in S |-> t[g].bias[w]])
  BY DEF SumTally
<1>4. [g \in S |-> t[g].bias[w]] = [g \in S |-> Continued(hs[g])[w].bias]
  BY <1>1
<1> QED  BY <1>2, <1>3, <1>4

\* As in the past they are kept, they add up at all times.
LEMMA TypesAddUp ==
    ASSUME ControllerIInv, UNCHANGED now, NEW k \in Added, k \in Types,
           \A g \in Gauges : IsHistoryOf(weight'[g], TallyOf(g)', NextWeek),
           IsHistoryOf(sum'[k], TallyOfType(k)', NextWeek),
           OfType(k)' = OfType(k),
           \A g \in Gauges, w \in Weeks : w < NextWeek => Continued(weight'[g])[w] = Continued(weight[g])[w],
           \A w \in Weeks : w < NextWeek => Continued(sum'[k])[w] = Continued(sum[k])[w],
           NEW w \in Weeks
    PROVE  Continued(sum'[k])[w].bias = SumFunction([g \in OfType(k) |-> Continued(weight'[g])[w].bias])
<1>1. IsFiniteSet(OfType(k)) /\ OfType(k) \subseteq Gauges
  BY TypesAreTallies DEF ControllerIInv
<1>2. NextWeek \in Nat /\ w \in Nat
  BY NextWeekIsNext, WeekSteps DEF ControllerIInv, ControllerTypes
<1>3. CASE w >= NextWeek
  <2> DEFINE t == Tallies'
  <2>1. \A g \in OfType(k) : IsHistoryOf(weight'[g], t[g], NextWeek)
    BY <1>1 DEF Tallies
  <2>2. IsHistoryOf(sum'[k], SumTally(OfType(k), t), NextWeek)
    BY DEF TallyOfType
  <2> HIDE DEF t
  <2> QED  BY <1>1, <1>2, <1>3, <2>1, <2>2, TalliesAddUp
<1>4. CASE ~(w >= NextWeek)
  <2>1. w < NextWeek
    BY <1>2, <1>4
  <2>2. Continued(sum[k])[w].bias = SumFunction([g \in OfType(k) |-> Continued(weight[g])[w].bias])
    BY DEF ControllerIInv, SumsAddUp, OfType
  <2>3. [g \in OfType(k) |-> Continued(weight[g])[w].bias] = [g \in OfType(k) |-> Continued(weight'[g])[w].bias]
    BY <1>1, <2>1
  <2> QED  BY <2>1, <2>2, <2>3
<1> QED  BY <1>3, <1>4

\* What is tallied only changes with votes and gauges.
LEMMA SameTallies ==
    ASSUME UNCHANGED <<vote, initial_weight>>
    PROVE  \A g \in Gauges : TallyOf(g)' = TallyOf(g)
BY DEF TallyOf

LEMMA SameTypeTallies ==
    ASSUME UNCHANGED <<vote, initial_weight, gauge_type>>
    PROVE  \A k \in Types : OfType(k)' = OfType(k) /\ TallyOfType(k)' = TallyOfType(k)
<1>1. Tallies' = Tallies
  BY SameTallies DEF Tallies
<1>2. \A k \in Types : OfType(k)' = OfType(k)
  BY DEF OfType
<1> QED  BY <1>1, <1>2 DEF TallyOfType

LEMMA InvariantTypes ==
    ASSUME ControllerIInv
    PROVE  /\ ControllerTypes /\ now \in Start..Horizon
           /\ NextWeek \in Nat /\ NextWeek \in Weeks /\ NextWeek # 0 /\ \A w \in Weeks : w \in Nat
BY NextWeekIsNext, WeekSteps DEF ControllerIInv, ControllerTypes

\* The recorded histories are new ones themselves.
LEMMA RecordedAreNew ==
    ASSUME ControllerIInv
    PROVE  AreNew(sum, [k \in Types |-> TallyOfType(k)])
BY DEF ControllerIInv, TypesAreTallied, AreNew

\* Filling in sums, weights and the total.
LEMMA GetTotalKeeps ==
    ASSUME ControllerIInv, NEW sums, NEW tally, AreNew(sums, tally), GetTotal(sums),
           UNCHANGED <<now, n_gauge_types>>
    PROVE  /\ sum' \in [Types -> History] /\ type_weight' \in [Types -> TypeHistory]
           /\ total' \in [points : [Weeks -> Int], time : Weeks]
           /\ AreNew(sum', tally)
           /\ \A k \in Types : /\ Continued(sum'[k]) = Continued(sums[k])
                               /\ sums[k].time # 0 => sum'[k].time # 0
           /\ TypeWeightsAreTimely'
           /\ \A k \in Types, w \in Weeks : w < NextWeek =>
                  TypeWeightAt(type_weight'[k], w) = TypeWeightAt(type_weight[k], w)
           /\ \A w \in Weeks : w <= total'.time => total'.points[w] = Total(Added, sum', type_weight', w)
<1>0. ControllerTypes /\ now \in Start..Horizon /\ NextWeek \in Nat /\ NextWeek # 0 /\ \A w \in Weeks : w \in Nat
  BY InvariantTypes
<1>1. sum' = FilledSums(sums) /\ type_weight' = FilledTypeWeights /\ total' = FilledTotal(sums)
  BY DEF GetTotal
<1>2. /\ FilledSums(sums) \in [Types -> History]
      /\ AreNew(FilledSums(sums), tally)
      /\ \A k \in Types : /\ Continued(FilledSums(sums)[k]) = Continued(sums[k])
                          /\ FilledSums(sums)[k].time = IF sums[k].time = 0 THEN 0 ELSE NextWeek
      /\ FilledTypeWeights \in [Types -> TypeHistory]
      /\ \A k \in Types : /\ FilledTypeWeights[k] = FilledTypeWeight(type_weight[k])
                          /\ type_weight[k].time <= NextWeek /\ type_weight[k] \in TypeHistory
  BY FilledSumsAndWeights
<1>3. /\ FilledTotal(sums) \in [points : [Weeks -> Int], time : Weeks]
      /\ FilledTotal(sums).time = NextWeek
      /\ \A w \in Weeks : w <= NextWeek =>
             FilledTotal(sums).points[w] = Total(Added, FilledSums(sums), FilledTypeWeights, w)
  BY FilledTotalIs
<1>4. /\ \A k \in Types, w \in Weeks : w < NextWeek =>
             TypeWeightAt(type_weight'[k], w) = TypeWeightAt(type_weight[k], w)
      /\ \A k \in Types : /\ type_weight'[k].time = IF type_weight[k].time = 0 THEN 0 ELSE NextWeek
                          /\ type_weight[k].time = 0 => type_weight'[k] = type_weight[k]
  BY <1>0, <1>1, <1>2, FilledType
<1>5. NextWeek' = NextWeek /\ Added' = Added
  BY DEF NextWeek, Added
<1>6. TypeWeightsAreTimely'
  <2>1. total'.time = NextWeek
    BY <1>1, <1>3
  <2>2. ASSUME NEW k \in Types
        PROVE  /\ type_weight'[k].time = 0 => \A w \in Weeks : type_weight'[k].points[w] = 0
               /\ type_weight'[k].time # 0 => type_weight'[k].time = total'.time /\ k \in Added
    BY <1>0, <1>4, <2>1 DEF ControllerIInv, TypeWeightsAreTimely
  <2> QED  BY <1>0, <1>5, <2>1, <2>2 DEF TypeWeightsAreTimely
<1> QED  BY <1>0, <1>1, <1>2, <1>3, <1>4, <1>6

LEMMA StepCheckpoint ==
    ASSUME ControllerIInv, NEW gauges, CheckpointController(gauges)
    PROVE  ControllerIInv' /\ KeepsPast
<1> DEFINE tally == [k \in Types |-> TallyOfType(k)]
<1>0. /\ ControllerTypes /\ now \in Start..Horizon /\ NextWeek \in Nat /\ NextWeek # 0
      /\ UNCHANGED <<now, lock, vote, vote_user_power, n_gauge_types, gauge_type, initial_weight>>
      /\ GetTotal(sum)
      /\ weight' = [g \in Gauges |-> IF g \in gauges THEN Filled(weight[g]) ELSE weight[g]]
  BY InvariantTypes DEF CheckpointController, FillGauges, lockVars, voteVars
<1>1. NextWeek' = NextWeek /\ Added' = Added
  BY <1>0 DEF NextWeek, Added
<1>2. /\ sum' \in [Types -> History] /\ type_weight' \in [Types -> TypeHistory]
      /\ total' \in [points : [Weeks -> Int], time : Weeks]
      /\ AreNew(sum', tally)
      /\ \A k \in Types : /\ Continued(sum'[k]) = Continued(sum[k])
                          /\ sum[k].time # 0 => sum'[k].time # 0
      /\ TypeWeightsAreTimely'
      /\ \A k \in Types, w \in Weeks : w < NextWeek =>
             TypeWeightAt(type_weight'[k], w) = TypeWeightAt(type_weight[k], w)
      /\ \A w \in Weeks : w <= total'.time => total'.points[w] = Total(Added, sum', type_weight', w)
  BY <1>0, RecordedAreNew, GetTotalKeeps
<1>3. ASSUME NEW g \in Gauges
      PROVE  /\ IsHistoryOf(weight'[g], TallyOf(g)', NextWeek)
             /\ weight'[g] \in History
             /\ gauge_type'[g] # NoType <=> weight'[g].time # 0
             /\ Continued(weight'[g]) = Continued(weight[g])
  <2>1. IsHistoryOf(weight[g], TallyOf(g), NextWeek) /\ (gauge_type[g] # NoType <=> weight[g].time # 0)
    BY DEF ControllerIInv, GaugesAreTallied
  <2>2. /\ IsHistoryOf(Filled(weight[g]), TallyOf(g), NextWeek)
        /\ Filled(weight[g]).time # 0 <=> weight[g].time # 0
        /\ Continued(Filled(weight[g])) = Continued(weight[g])
    BY <1>0, <2>1, FilledHistory
  <2>3. TallyOf(g)' = TallyOf(g)
    BY <1>0, SameTallies
  <2>4. weight'[g] = Filled(weight[g]) \/ weight'[g] = weight[g]
    BY <1>0
  <2>5. IsHistoryOf(weight'[g], TallyOf(g), NextWeek)
    BY <2>1, <2>2, <2>4
  <2> QED  BY <1>0, <2>1, <2>2, <2>3, <2>4, <2>5 DEF IsHistoryOf
<1>4. ControllerTypes'
  <2>1. weight' \in [Gauges -> History]
    BY <1>0, <1>3
  <2> QED  BY <1>0, <1>2, <2>1 DEF ControllerTypes
<1>5. GaugesAreTallied'
  BY <1>1, <1>3 DEF GaugesAreTallied
<1>6. ASSUME NEW k \in Types
      PROVE  /\ IsHistoryOf(sum'[k], TallyOfType(k)', NextWeek)
             /\ OfType(k)' = OfType(k)
             /\ OfType(k)' # {} => sum'[k].time # 0
             /\ k \notin Added => sum'[k].time = 0
  <2>1. OfType(k)' = OfType(k) /\ TallyOfType(k)' = TallyOfType(k)
    BY <1>0, SameTypeTallies
  <2>2. OfType(k) # {} => sum[k].time # 0
    BY DEF ControllerIInv, TypesAreTallied
  <2>3. IsHistoryOf(sum'[k], tally[k], NextWeek) /\ tally[k] = TallyOfType(k) /\ (k \notin Added => sum'[k].time = 0)
    BY <1>2 DEF AreNew
  <2> QED  BY <1>2, <2>1, <2>2, <2>3
<1>7. TypesAreTallied'
  BY <1>1, <1>6 DEF TypesAreTallied
<1>8. SumsAddUp'
  <2>1. ASSUME NEW k \in Added, NEW w \in Weeks
        PROVE  Continued(sum'[k])[w].bias = SumFunction([g \in OfType(k)' |-> Continued(weight'[g])[w].bias])
    <3>1. k \in Types
      BY AddedIsFinite
    <3> QED  BY <1>0, <1>2, <1>3, <1>6, <3>1, TypesAddUp
  <2> QED  BY <1>1, <1>2, <2>1 DEF SumsAddUp, Total, OfType
<1>9. PowersAddUp'
  BY <1>0 DEF ControllerIInv, PowersAddUp
<1>10. KeepsPast
  BY <1>0, <1>1, <1>2, <1>3 DEF KeepsPast
<1> QED  BY <1>2, <1>4, <1>5, <1>7, <1>8, <1>9, <1>10 DEF ControllerIInv

\* A type whose weight is set, new or old.
LEMMA ChangeTypeWeightKeeps ==
    ASSUME ControllerIInv, NEW k \in Types, NEW new \in Nat, ChangeTypeWeight(k, new), UNCHANGED now,
           k \in Added', \A j \in Types : j # k => (j \in Added' <=> j \in Added)
    PROVE  /\ sum' \in [Types -> History] /\ type_weight' \in [Types -> TypeHistory]
           /\ total' \in [points : [Weeks -> Int], time : Weeks]
           /\ AreNew(sum', [j \in Types |-> TallyOfType(j)])
           /\ \A j \in Types : /\ Continued(sum'[j]) = Continued(sum[j])
                               /\ sum[j].time # 0 => sum'[j].time # 0
           /\ TypeWeightsAreTimely'
           /\ \A j \in Types, w \in Weeks : w < NextWeek =>
                  TypeWeightAt(type_weight'[j], w) = TypeWeightAt(type_weight[j], w)
           /\ \A w \in Weeks : w <= total'.time => total'.points[w] = Total(Added, sum', type_weight', w)
<1> DEFINE tally == [j \in Types |-> TallyOfType(j)]
           F == FilledSums(sum)
           T == FilledTypeWeights
           T2 == type_weight'
           R == FilledTotal(sum)
           old == T[k].points[NextWeek]
           ofType == F[k].points[NextWeek].bias
           more == ofType * new - ofType * old
<1>0. /\ ControllerTypes /\ now \in Start..Horizon /\ NextWeek \in Nat /\ NextWeek # 0
      /\ NextWeek \in Weeks /\ \A w \in Weeks : w \in Nat
  BY InvariantTypes
<1>1. AreNew(sum, tally)
  BY RecordedAreNew
<1>2. /\ F \in [Types -> History]
      /\ AreNew(F, tally)
      /\ \A j \in Types : /\ Continued(F[j]) = Continued(sum[j])
                          /\ F[j].time = IF sum[j].time = 0 THEN 0 ELSE NextWeek
                          /\ \A w \in Weeks : w <= NextWeek => F[j].points[w] = Continued(sum[j])[w]
      /\ T \in [Types -> TypeHistory]
      /\ \A j \in Types : /\ T[j] = FilledTypeWeight(type_weight[j])
                          /\ type_weight[j].time <= NextWeek /\ type_weight[j] \in TypeHistory
  <2> HIDE DEF tally
  <2> QED  BY <1>1, FilledSumsAndWeights
<1>3. /\ R \in [points : [Weeks -> Int], time : Weeks]
      /\ R.time = NextWeek
      /\ \A w \in Weeks : w <= NextWeek => R.points[w] = Total(Added, F, T, w)
  <2> HIDE DEF tally
  <2> QED  BY <1>1, FilledTotalIs
<1>4. /\ sum' = F
      /\ total' = [R EXCEPT !.points[NextWeek] = @ + ofType * new - ofType * old]
      /\ T2 = [T EXCEPT ![k] = [points |-> [@.points EXCEPT ![NextWeek] = new], time |-> NextWeek]]
  BY DEF ChangeTypeWeight
<1>5. NextWeek' = NextWeek
  BY DEF NextWeek
<1>6. ofType \in Nat /\ old \in Nat
  <2>1. F[k].points \in [Weeks -> Point]
    BY <1>2 DEF History
  <2>2. T[k].points \in [Weeks -> Nat]
    BY <1>2 DEF TypeHistory
  <2> HIDE DEF F, T
  <2> QED  BY <1>0, <2>1, <2>2 DEF Point
<1> HIDE DEF F, T, T2, R, old, ofType
<1>7. /\ \A j \in Types : j # k => T2[j] = T[j]
      /\ T2[k].time = NextWeek
      /\ T2[k].points \in [Weeks -> Nat] /\ T2[k].points[NextWeek] = new
      /\ \A w \in Weeks : w # NextWeek => T2[k].points[w] = T[k].points[w]
      /\ T2 \in [Types -> TypeHistory]
  <2> DEFINE points == [T[k].points EXCEPT ![NextWeek] = new]
  <2>1. T[k].points \in [Weeks -> Nat] /\ T[k].time \in Weeks
    BY <1>2 DEF TypeHistory
  <2>2. /\ points \in [Weeks -> Nat] /\ points[NextWeek] = new
        /\ \A w \in Weeks : w # NextWeek => points[w] = T[k].points[w]
    BY <1>0, <2>1
  <2>3. T2[k] = [points |-> points, time |-> NextWeek]
    BY <1>2, <1>4
  <2> HIDE DEF points
  <2>4. T2[k] \in TypeHistory
    BY <1>0, <2>2, <2>3 DEF TypeHistory
  <2>5. \A j \in Types : j # k => T2[j] = T[j]
    BY <1>2, <1>4
  <2>6. T2 \in [Types -> TypeHistory]
    <3>1. T2 = [j \in Types |-> T2[j]]
      BY <1>2, <1>4
    <3>2. \A j \in Types : T2[j] \in TypeHistory
      BY <1>2, <2>4, <2>5
    <3> QED  BY <3>1, <3>2
  <2> QED  BY <2>2, <2>3, <2>5, <2>6
<1>8. /\ total'.time = NextWeek /\ total' \in [points : [Weeks -> Int], time : Weeks]
      /\ total'.points[NextWeek] = R.points[NextWeek] + ofType * new - ofType * old
      /\ \A w \in Weeks : w # NextWeek => total'.points[w] = R.points[w]
  <2> DEFINE n == R.points[NextWeek] + ofType * new - ofType * old
             points == [R.points EXCEPT ![NextWeek] = n]
  <2>1. R.points \in [Weeks -> Int] /\ R.points[NextWeek] \in Int
    BY <1>0, <1>3
  <2>2. n \in Int
    BY <1>6, <2>1
  <2>3. total' = [R EXCEPT !.points = points]
    BY <1>3, <1>4
  <2> HIDE DEF n
  <2>4. /\ points \in [Weeks -> Int] /\ points[NextWeek] = n
        /\ \A w \in Weeks : w # NextWeek => points[w] = R.points[w]
    BY <1>0, <2>1, <2>2
  <2> HIDE DEF points
  <2>5. total'.points = points /\ total'.time = NextWeek /\ total' \in [points : [Weeks -> Int], time : Weeks]
    BY <1>0, <1>3, <2>3, <2>4
  <2> QED  BY <2>4, <2>5 DEF n
<1>9. ASSUME NEW j \in Types
      PROVE  /\ T[j].time = IF type_weight[j].time = 0 THEN 0 ELSE NextWeek
             /\ type_weight[j].time = 0 => T[j] = type_weight[j] /\ \A w \in Weeks : type_weight[j].points[w] = 0
             /\ type_weight[j].time # 0 => j \in Added
             /\ \A w \in Weeks : w < NextWeek => TypeWeightAt(T[j], w) = TypeWeightAt(type_weight[j], w)
             /\ \A w \in Weeks : w < NextWeek /\ type_weight[j].time # 0 =>
                    T[j].points[w] = TypeWeightAt(type_weight[j], w)
  BY <1>0, <1>2, FilledType DEF ControllerIInv, TypeWeightsAreTimely
<1>10. TypeWeightsAreTimely'
  <2>1. ASSUME NEW j \in Types
        PROVE  /\ T2[j].time = 0 => \A w \in Weeks : T2[j].points[w] = 0
               /\ T2[j].time # 0 => T2[j].time = total'.time /\ j \in Added'
    <3>1. CASE j = k
      BY <1>0, <1>7, <1>8, <3>1
    <3>2. CASE j # k
      BY <1>0, <1>7, <1>8, <1>9, <3>2
    <3> QED  BY <3>1, <3>2
  <2> QED  BY <1>0, <1>5, <1>8, <2>1 DEF TypeWeightsAreTimely, T2
<1>11. ASSUME NEW j \in Types, NEW w \in Weeks, w < NextWeek
       PROVE  TypeWeightAt(T2[j], w) = TypeWeightAt(type_weight[j], w)
  <2>1. CASE j # k
    BY <1>7, <1>9, <1>11, <2>1
  <2>2. CASE j = k
    <3>1. w \in Nat /\ w # NextWeek
      BY <1>0, <1>11
    <3>2. Min({w, NextWeek}) = w
      BY <1>0, <1>11, <3>1, MinOfTwo
    <3>3. TypeWeightAt(T2[k], w) = T[k].points[w]
      BY <1>7, <3>1, <3>2 DEF TypeWeightAt
    <3>4. CASE type_weight[k].time # 0
      BY <1>9, <1>11, <2>2, <3>3, <3>4
    <3>5. CASE type_weight[k].time = 0
      <4>1. Min({w, 0}) \in Weeks
        BY <3>1, MinOfTwo, WeekSteps
      <4>2. TypeWeightAt(type_weight[k], w) = 0 /\ T[k].points[w] = 0
        BY <1>9, <3>5, <4>1 DEF TypeWeightAt
      <4> QED  BY <2>2, <3>3, <4>2
    <3> QED  BY <3>4, <3>5
  <2> QED  BY <2>1, <2>2
<1>12. ASSUME NEW w \in Weeks, w <= NextWeek PROVE total'.points[w] = Total(Added, F, T2, w)
  <2> DEFINE f == [j \in Added |-> Continued(F[j])[w].bias * T[j].points[w]]
             f2 == [j \in Added |-> Continued(F[j])[w].bias * T2[j].points[w]]
  <2>1. /\ f \in [Added -> Nat] /\ f2 \in [Added -> Nat]
        /\ Total(Added, F, T, w) = SumFunction(f) /\ Total(Added, F, T2, w) = SumFunction(f2)
    <3>1. /\ \A j \in Added : Continued(F[j])[w].bias * T[j].points[w] \in Nat
          /\ \A j \in Added : Continued(F[j])[w].bias * T2[j].points[w] \in Nat
      <4> HIDE DEF tally
      <4> QED  BY <1>0, <1>2, <1>7, TotalType
    <3> QED  BY <3>1 DEF Total
  <2>2. f \in [Added -> Int] /\ f2 \in [Added -> Int]
    BY <2>1
  <2>3. IsFiniteSet(Added) /\ Added \subseteq Types
    BY AddedIsFinite
  <2>4. R.points[w] = SumFunction(f) /\ SumFunction(f) \in Int
    BY <1>3, <1>12, <2>1, <2>2, <2>3, SumType
  <2>5. CASE w # NextWeek
    <3>1. \A j \in Added : T2[j].points[w] = T[j].points[w]
      BY <1>7, <2>3, <2>5
    <3>2. f2 = f
      BY <3>1
    <3> HIDE DEF f, f2
    <3> QED  BY <1>8, <2>1, <2>4, <2>5, <3>2
  <2>6. CASE w = NextWeek
    <3>1. F[k].points[NextWeek] = Continued(sum[k])[NextWeek] /\ Continued(F[k]) = Continued(sum[k])
      BY <1>0, <1>2
    <3>2. ofType = Continued(F[k])[w].bias
      BY <2>6, <3>1 DEF ofType
    <3>3. CASE k \in Added
      <4>1. f[k] = ofType * old /\ f2[k] = ofType * new
        BY <1>7, <2>6, <3>2, <3>3 DEF old
      <4>2. \A j \in Added \ {k} : f2[j] = f[j]
        BY <1>7, <2>3
      <4> HIDE DEF f, f2
      <4>3. SumFunction(f2) = SumFunction(f) + f2[k] - f[k]
        BY <2>2, <2>3, <3>3, <4>2, SumOneChanged
      <4> QED  BY <1>8, <2>1, <2>4, <2>6, <4>1, <4>3
    <3>4. CASE k \notin Added
      <4>1. sum[k].time = 0 /\ IsHistoryOf(sum[k], TallyOfType(k), NextWeek)
        BY <3>4 DEF ControllerIInv, TypesAreTallied
      <4>2. Continued(sum[k]) = sum[k].points /\ sum[k] = NoHistory
        BY <4>1, HistoryContinues
      <4>3. Continued(F[k])[w].bias = 0
        BY <3>1, <4>2 DEF NoHistory, NoPoint
      <4>4. ofType = 0
        BY <3>2, <4>3
      <4>5. \A j \in Added : T2[j] = T[j]
        BY <1>7, <2>3, <3>4
      <4>6. f2 = f
        BY <4>5
      <4>7. ofType * new = 0 /\ ofType * old = 0
        BY <1>6, <4>4
      <4> HIDE DEF f, f2
      <4> QED  BY <1>8, <2>1, <2>4, <2>6, <4>6, <4>7
    <3> QED  BY <3>3, <3>4
  <2> QED  BY <2>5, <2>6
<1>13. \A j \in Types : sum[j].time # 0 => F[j].time # 0
  BY <1>0, <1>2
<1>14. /\ F \in [Types -> History] /\ AreNew(F, tally)
       /\ \A j \in Types : Continued(F[j]) = Continued(sum[j])
  BY <1>2
<1>15. \A w \in Weeks : w <= total'.time => total'.points[w] = Total(Added, F, T2, w)
  BY <1>8, <1>12
<1> QED  BY <1>4, <1>7, <1>8, <1>10, <1>11, <1>13, <1>14, <1>15 DEF T2

\* Setting the weights of types leaves votes alone.
LEMMA TypesStep ==
    ASSUME ControllerIInv,
           UNCHANGED <<now, lock, vote, vote_user_power, gauge_type, initial_weight, weight>>,
           AreNew(sum', [j \in Types |-> TallyOfType(j)]),
           \A j \in Types : /\ Continued(sum'[j]) = Continued(sum[j])
                            /\ sum[j].time # 0 => sum'[j].time # 0,
           \A j \in Types \ Added : sum'[j].time = 0,
           Added \subseteq Added'
    PROVE  /\ GaugesAreTallied' /\ TypesAreTallied' /\ PowersAddUp'
           /\ \A k \in Types, w \in Weeks :
                  Continued(sum'[k])[w].bias = SumFunction([g \in OfType(k)' |-> Continued(weight'[g])[w].bias])
<1>1. NextWeek' = NextWeek
  BY DEF NextWeek
<1>2. \A g \in Gauges : TallyOf(g)' = TallyOf(g)
  BY SameTallies
<1>3. GaugesAreTallied'
  BY <1>1, <1>2 DEF ControllerIInv, GaugesAreTallied
<1>4. ASSUME NEW k \in Types
      PROVE  /\ IsHistoryOf(sum'[k], TallyOfType(k)', NextWeek)
             /\ OfType(k)' = OfType(k)
             /\ OfType(k)' # {} => sum'[k].time # 0
             /\ k \notin Added' => sum'[k].time = 0
  <2>1. OfType(k)' = OfType(k) /\ TallyOfType(k)' = TallyOfType(k)
    BY SameTypeTallies
  <2>2. OfType(k) # {} => sum[k].time # 0
    BY DEF ControllerIInv, TypesAreTallied
  <2>3. IsHistoryOf(sum'[k], TallyOfType(k), NextWeek)
    BY DEF AreNew
  <2> QED  BY <2>1, <2>2, <2>3
<1>5. TypesAreTallied'
  BY <1>1, <1>4 DEF TypesAreTallied
<1>6. PowersAddUp'
  BY DEF ControllerIInv, PowersAddUp
<1>7. ASSUME NEW k \in Types, NEW w \in Weeks
      PROVE  Continued(sum'[k])[w].bias = SumFunction([g \in OfType(k)' |-> Continued(weight'[g])[w].bias])
  <2>1. CASE k \in Added
    <3>1. Continued(sum[k])[w].bias = SumFunction([g \in OfType(k) |-> Continued(weight[g])[w].bias])
      BY <2>1 DEF ControllerIInv, SumsAddUp, OfType
    <3> QED  BY <1>4, <3>1
  <2>2. CASE k \notin Added
    <3>1. sum[k].time = 0 /\ OfType(k) = {} /\ IsHistoryOf(sum[k], TallyOfType(k), NextWeek)
      BY <2>2 DEF ControllerIInv, TypesAreTallied
    <3>2. Continued(sum[k]) = sum[k].points /\ sum[k] = NoHistory
      BY <3>1, HistoryContinues
    <3>3. Continued(sum'[k])[w].bias = 0
      BY <3>2 DEF NoHistory, NoPoint
    <3> DEFINE f == [g \in OfType(k)' |-> Continued(weight'[g])[w].bias]
               S == OfType(k)'
    <3>4. S = {}
      BY <1>4, <3>1
    <3>5. f \in [S -> Int] /\ IsFiniteSet(S)
      BY <3>4, FS_EmptySet
    <3> HIDE DEF f, S
    <3>6. SumFunction(f) = 0
      BY <3>4, <3>5, SumType
    <3> QED  BY <3>3, <3>6 DEF f
  <2> QED  BY <2>1, <2>2
<1> QED  BY <1>3, <1>5, <1>6, <1>7

LEMMA StepChangeWeightOfType ==
    ASSUME ControllerIInv, NEW k \in Types, NEW new \in TypeWeights, ChangeWeightOfType(k, new)
    PROVE  ControllerIInv' /\ KeepsPast
<1>0. /\ k \in Added /\ ChangeTypeWeight(k, new) /\ new \in Nat /\ ControllerTypes
      /\ UNCHANGED <<now, lock, vote, vote_user_power, n_gauge_types, gauge_type, initial_weight, weight>>
  BY InvariantTypes, ControllerAssumption, MiningAssumption DEF ChangeWeightOfType, lockVars, voteVars
<1>1. NextWeek' = NextWeek /\ Added' = Added
  BY <1>0 DEF NextWeek, Added
<1>2. /\ sum' \in [Types -> History] /\ type_weight' \in [Types -> TypeHistory]
      /\ total' \in [points : [Weeks -> Int], time : Weeks]
      /\ AreNew(sum', [j \in Types |-> TallyOfType(j)])
      /\ \A j \in Types : /\ Continued(sum'[j]) = Continued(sum[j])
                          /\ sum[j].time # 0 => sum'[j].time # 0
      /\ TypeWeightsAreTimely'
      /\ \A j \in Types, w \in Weeks : w < NextWeek =>
             TypeWeightAt(type_weight'[j], w) = TypeWeightAt(type_weight[j], w)
      /\ \A w \in Weeks : w <= total'.time => total'.points[w] = Total(Added, sum', type_weight', w)
  BY <1>0, <1>1, ChangeTypeWeightKeeps
<1>3. \A j \in Types \ Added : sum'[j].time = 0
  BY <1>2 DEF AreNew
<1>4. /\ GaugesAreTallied' /\ TypesAreTallied' /\ PowersAddUp'
      /\ \A j \in Types, w \in Weeks :
             Continued(sum'[j])[w].bias = SumFunction([g \in OfType(j)' |-> Continued(weight'[g])[w].bias])
  BY <1>0, <1>1, <1>2, <1>3, TypesStep
<1>5. ControllerTypes'
  BY <1>0, <1>2 DEF ControllerTypes
<1>6. SumsAddUp'
  BY <1>1, <1>2, <1>4, AddedIsFinite DEF SumsAddUp, Total, OfType
<1>7. KeepsPast
  BY <1>0, <1>1, <1>2 DEF KeepsPast
<1> QED  BY <1>2, <1>4, <1>5, <1>6, <1>7 DEF ControllerIInv

\* A type that is not added yet has no history to add to the total.
LEMMA NewTypeAddsNothing ==
    ASSUME ControllerTypes, NEW sums, NEW tally, AreNew(sums, tally), NEW tws \in [Types -> TypeHistory],
           NEW k \in Types, k \notin Added, NEW w \in Weeks
    PROVE  /\ Continued(sums[k])[w].bias = 0
           /\ Total(Added \cup {k}, sums, tws, w) = Total(Added, sums, tws, w)
<1> DEFINE D == Added \cup {k}
           term(j) == Continued(sums[j])[w].bias * tws[j].points[w]
           f == [j \in Added |-> term(j)]
           g == [j \in D |-> term(j)]
<1>1. sums[k].time = 0 /\ IsHistoryOf(sums[k], tally[k], NextWeek)
  BY DEF AreNew
<1>2. Continued(sums[k])[w].bias = 0
  <2>1. Continued(sums[k]) = sums[k].points /\ sums[k] = NoHistory
    BY <1>1, HistoryContinues
  <2> QED  BY <2>1 DEF NoHistory, NoPoint
<1>3. term(k) = 0
  <2>1. tws[k].points[w] \in Nat
    BY DEF TypeHistory
  <2> QED  BY <1>2, <2>1
<1>4. \A j \in Added : term(j) \in Nat
  BY TotalType
<1>5. Total(Added, sums, tws, w) = SumFunction(f) /\ Total(D, sums, tws, w) = SumFunction(g)
  BY DEF Total
<1>6. f \in [Added -> Int] /\ g \in [D -> Int] /\ \A j \in Added : g[j] = f[j]
  <2> HIDE DEF term
  <2> QED  BY <1>3, <1>4
<1>7. g[k] = 0 /\ k \in D /\ D \ {k} = Added
  BY <1>3
<1> HIDE DEF f, g, D
<1>8. SumFunction(g) = SumFunction(f) + g[k]
  BY <1>6, <1>7, AddedIsFinite, SumOneMore
<1>9. SumFunction(f) \in Int
  BY <1>6, AddedIsFinite, SumType
<1> QED  BY <1>2, <1>5, <1>7, <1>8, <1>9 DEF D

LEMMA StepAddType ==
    ASSUME ControllerIInv, NEW initial \in TypeWeights, AddType(initial)
    PROVE  ControllerIInv' /\ KeepsPast
<1> DEFINE n == n_gauge_types
           tally == [j \in Types |-> TallyOfType(j)]
<1>0. /\ n \in Types /\ n_gauge_types' = n + 1 /\ initial \in Nat /\ ControllerTypes
      /\ UNCHANGED <<now, lock, vote, vote_user_power, gauge_type, initial_weight, weight>>
      /\ IF initial = 0 THEN UNCHANGED <<sum, total, type_weight>> ELSE ChangeTypeWeight(n, initial)
      /\ n \in Nat /\ \A j \in Types : j \in Nat
  BY InvariantTypes, ControllerAssumption, MiningAssumption DEF AddType, lockVars, voteVars, historyVars, ControllerTypes
<1>1. NextWeek' = NextWeek /\ Added' = Added \cup {n} /\ n \notin Added
  <2>1. NextWeek' = NextWeek
    BY <1>0 DEF NextWeek
  <2>2. \A j \in Types : j < n + 1 <=> j < n \/ j = n
    BY <1>0
  <2>3. Added' = {j \in Types : j < n + 1} /\ Added = {j \in Types : j < n}
    BY <1>0 DEF Added
  <2>4. ~(n < n)
    BY <1>0
  <2> HIDE DEF n
  <2> QED  BY <1>0, <2>1, <2>2, <2>3, <2>4
<1>2. /\ sum' \in [Types -> History] /\ type_weight' \in [Types -> TypeHistory]
      /\ total' \in [points : [Weeks -> Int], time : Weeks]
      /\ AreNew(sum', tally)
      /\ \A j \in Types : /\ Continued(sum'[j]) = Continued(sum[j])
                          /\ sum[j].time # 0 => sum'[j].time # 0
      /\ TypeWeightsAreTimely'
      /\ \A j \in Types, w \in Weeks : w < NextWeek =>
             TypeWeightAt(type_weight'[j], w) = TypeWeightAt(type_weight[j], w)
      /\ \A w \in Weeks : w <= total'.time => total'.points[w] = Total(Added, sum', type_weight', w)
  <2>1. CASE initial = 0
    <3>1. UNCHANGED <<sum, total, type_weight>>
      BY <1>0, <2>1
    <3>2. AreNew(sum', tally)
      BY <3>1, RecordedAreNew
    <3>3. TypeWeightsAreTimely'
      BY <1>1, <3>1 DEF ControllerIInv, TypeWeightsAreTimely
    <3>4. \A w \in Weeks : w <= total'.time => total'.points[w] = Total(Added, sum', type_weight', w)
      BY <3>1 DEF ControllerIInv, SumsAddUp, Total
    <3> QED  BY <1>0, <3>1, <3>2, <3>3, <3>4 DEF ControllerTypes
  <2>2. CASE initial # 0
    <3>1. ChangeTypeWeight(n, initial)
      BY <1>0, <2>2
    <3>2. n \in Added' /\ \A j \in Types : j # n => (j \in Added' <=> j \in Added)
      BY <1>1
    <3> HIDE DEF n
    <3> QED  BY <1>0, <3>1, <3>2, ChangeTypeWeightKeeps
  <2> QED  BY <2>1, <2>2
<1>3. \A j \in Types \ Added : sum'[j].time = 0
  BY <1>2 DEF AreNew
<1>4. /\ GaugesAreTallied' /\ TypesAreTallied' /\ PowersAddUp'
      /\ \A j \in Types, w \in Weeks :
             Continued(sum'[j])[w].bias = SumFunction([g \in OfType(j)' |-> Continued(weight'[g])[w].bias])
  <2>1. Added \subseteq Added'
    BY <1>1
  <2> QED  BY <1>0, <1>2, <1>3, <2>1, TypesStep
<1>5. ControllerTypes'
  BY <1>0, <1>2 DEF ControllerTypes
<1>6. SumsAddUp'
  <2>1. ASSUME NEW w \in Weeks, w <= total'.time
        PROVE  total'.points[w] = Total(Added', sum', type_weight', w)
    <3>1. Total(Added \cup {n}, sum', type_weight', w) = Total(Added, sum', type_weight', w)
      <4> HIDE DEF tally, n
      <4> QED  BY <1>0, <1>1, <1>2, NewTypeAddsNothing
    <3> QED  BY <1>1, <1>2, <2>1, <3>1
  <2>2. Added' \subseteq Types
    BY <1>0, <1>1, AddedIsFinite
  <2> QED  BY <1>4, <2>1, <2>2 DEF SumsAddUp, Total, OfType
<1>7. KeepsPast
  BY <1>0, <1>1, <1>2 DEF KeepsPast
<1> QED  BY <1>2, <1>4, <1>5, <1>6, <1>7 DEF ControllerIInv

-----------------------------------------------------------------------------
(* Gauges *)

\* A tally of one that has no votes yet.
LEMMA NothingButInitial ==
    ASSUME ControllerIInv, NEW g \in Gauges, gauge_type[g] = NoType
    PROVE  /\ weight[g] = NoHistory /\ IsHistoryOf(weight[g], TallyOf(g), NextWeek)
           /\ \A w \in Weeks : Continued(weight[g])[w] = NoPoint
           /\ \A u \in Users : vote[u][g] \in UserVote
           /\ LET s == SumTally(Users, [u \in Users |-> VoteTally(vote[u][g])])
              IN  IsTally(s) /\ Nothing(s)
<1> DEFINE s == SumTally(Users, [u \in Users |-> VoteTally(vote[u][g])])
<1>1. weight[g].time = 0 /\ IsHistoryOf(weight[g], TallyOf(g), NextWeek) /\ ControllerTypes
  BY DEF ControllerIInv, GaugesAreTallied
<1>2. Nothing(TallyOf(g)) /\ weight[g] = NoHistory /\ Continued(weight[g]) = weight[g].points
  BY <1>1, HistoryContinues
<1>3. \A u \in Users : vote[u][g] \in UserVote
  BY <1>1 DEF ControllerTypes
<1>4. IsTally(s)
  <2> DEFINE votes == [u \in Users |-> VoteTally(vote[u][g])]
  <2>1. \A u \in Users : IsTally(votes[u])
    BY <1>3, VoteDecays
  <2> HIDE DEF votes
  <2>2. IsTally(SumTally(Users, votes))
    BY <2>1, SumDecays, ControllerAssumption, MiningAssumption
  <2> QED  BY <2>2 DEF votes
<1>5. TallyOf(g) = Raised(initial_weight[g], s) /\ initial_weight[g] \in Nat
  BY <1>1 DEF TallyOf, ControllerTypes
<1> HIDE DEF s
<1>6. Nothing(s)
  <2>1. ASSUME NEW w \in Weeks PROVE s.bias[w] = 0 /\ s.slope[w] = 0 /\ s.ending[w] = 0
    <3>1. s.bias[w] \in Nat
      BY <1>4 DEF IsTally
    <3>2. initial_weight[g] + s.bias[w] = 0 /\ s.slope[w] = 0 /\ s.ending[w] = 0
      BY <1>2, <1>5 DEF Nothing, Raised
    <3> QED  BY <1>5, <3>1, <3>2
  <2> QED  BY <2>1 DEF Nothing
<1>7. \A w \in Weeks : Continued(weight[g])[w] = NoPoint
  BY <1>2 DEF NoHistory
<1> QED  BY <1>1, <1>2, <1>3, <1>4, <1>6, <1>7 DEF s

LEMMA SumTallySame ==
    ASSUME NEW S, NEW t, NEW t2, \A x \in S : t2[x] = t[x]
    PROVE  SumTally(S, t2) = SumTally(S, t)
<1>1. \A w : [x \in S |-> t2[x].bias[w]] = [x \in S |-> t[x].bias[w]]
  OBVIOUS
<1>2. \A w : [x \in S |-> t2[x].slope[w]] = [x \in S |-> t[x].slope[w]]
  OBVIOUS
<1>3. \A w : [x \in S |-> t2[x].ending[w]] = [x \in S |-> t[x].ending[w]]
  OBVIOUS
<1> QED  BY <1>1, <1>2, <1>3 DEF SumTally

\* What AddGauge makes of the gauge and of the tallies.
LEMMA AddedGauge ==
    ASSUME ControllerIInv, NEW g \in Gauges, NEW k \in Types, NEW initial \in GaugeWeights, AddGauge(g, k, initial)
    PROVE  /\ \A h \in Gauges : /\ IsHistoryOf(weight'[h], TallyOf(h)', NextWeek)
                                /\ \A w \in Weeks : w < NextWeek => Continued(weight'[h])[w] = Continued(weight[h])[w]
                                /\ gauge_type'[h] # NoType <=> weight'[h].time # 0
           /\ weight' \in [Gauges -> History]
           /\ \A w \in Weeks : w < NextWeek => Continued(weight'[g])[w].bias = 0
           /\ OfType(k)' = OfType(k) \cup {g} /\ g \notin OfType(k)
           /\ \A h \in OfType(k)' : IsTally(Tallies[h]')
           /\ IsTally(TallyOfType(k)')
           /\ \A w \in Weeks : /\ TallyOfType(k)'.bias[w] = TallyOfType(k).bias[w] + initial
                               /\ TallyOfType(k)'.slope[w] = TallyOfType(k).slope[w]
                               /\ TallyOfType(k)'.ending[w] = TallyOfType(k).ending[w]
           /\ \A j \in Types : j # k => OfType(j)' = OfType(j) /\ TallyOfType(j)' = TallyOfType(j)
<1>0. /\ ControllerTypes /\ now \in Start..Horizon /\ NextWeek \in Nat /\ NextWeek # 0
      /\ NextWeek \in Weeks /\ \A w \in Weeks : w \in Nat
      /\ k \in Added /\ gauge_type[g] = NoType /\ initial \in Nat
      /\ gauge_type' = [gauge_type EXCEPT ![g] = k]
      /\ initial_weight' = [initial_weight EXCEPT ![g] = initial]
      /\ weight' = [weight EXCEPT ![g].points[NextWeek].bias = initial, ![g].time = NextWeek]
      /\ UNCHANGED vote
      /\ gauge_type \in [Gauges -> Types \cup {NoType}] /\ weight \in [Gauges -> History]
      /\ initial_weight \in [Gauges -> Nat] /\ NoType \notin Types
  BY InvariantTypes, ControllerAssumption, MiningAssumption DEF AddGauge, ControllerTypes, voteVars, NoType
<1>1. /\ OfType(k)' = OfType(k) \cup {g} /\ g \notin OfType(k)
      /\ \A j \in Types : j # k => OfType(j)' = OfType(j)
  <2>1. \A j \in Types : j # NoType
    BY <1>0
  <2>2. \A h \in Gauges : gauge_type'[h] = IF h = g THEN k ELSE gauge_type[h]
    BY <1>0
  <2>3. \A j : OfType(j)' = {h \in Gauges : gauge_type'[h] = j}
    BY DEF OfType
  <2> QED  BY <1>0, <2>1, <2>2, <2>3 DEF OfType
<1> DEFINE s == SumTally(Users, [u \in Users |-> VoteTally(vote[u][g])])
           t2 == Raised(initial, s)
<1>2. /\ weight[g] = NoHistory /\ IsHistoryOf(weight[g], TallyOf(g), NextWeek)
      /\ \A w \in Weeks : Continued(weight[g])[w] = NoPoint
      /\ IsTally(s) /\ Nothing(s)
  BY <1>0, NothingButInitial
<1>3. TallyOf(g)' = t2 /\ \A h \in Gauges \ {g} : TallyOf(h)' = TallyOf(h)
  <2>1. initial_weight'[g] = initial /\ \A h \in Gauges \ {g} : initial_weight'[h] = initial_weight[h]
    BY <1>0
  <2>2. \A h \in Gauges : TallyOf(h)' = Raised(initial_weight'[h], SumTally(Users, [u \in Users |-> VoteTally(vote[u][h])]))
    BY <1>0 DEF TallyOf
  <2> QED  BY <2>1, <2>2 DEF TallyOf
<1>4. /\ IsTally(t2)
      /\ \A w \in Weeks : t2.bias[w] = initial /\ t2.slope[w] = 0 /\ t2.ending[w] = 0
  <2> HIDE DEF s
  <2>1. IsTally(t2)
    BY <1>0, <1>2, RaisedDecays
  <2>2. \A w \in Weeks : t2.bias[w] = initial + s.bias[w] /\ t2.slope[w] = s.slope[w] /\ t2.ending[w] = s.ending[w]
    BY DEF Raised
  <2> QED  BY <1>0, <1>2, <2>1, <2>2 DEF Nothing
<1> HIDE DEF t2, s
<1>5. /\ IsHistoryOf(weight'[g], t2, NextWeek)
      /\ weight'[g] \in History /\ weight'[g].time = NextWeek
      /\ \A w \in Weeks : w < NextWeek => Continued(weight'[g])[w] = NoPoint
  <2> DEFINE h2 == weight'[g]
             points == [NoHistory.points EXCEPT ![NextWeek].bias = initial]
  <2>1. h2 = [NoHistory EXCEPT !.points = points, !.time = NextWeek]
    BY <1>0, <1>2
  <2>2. NoHistory \in History /\ NoHistory.changes = [w \in Weeks |-> 0] /\ NoHistory.points = [w \in Weeks |-> NoPoint]
    BY <1>0, <1>2 DEF NoHistory
  <2>3. /\ points \in [Weeks -> Point]
        /\ points[NextWeek] = [bias |-> initial, slope |-> 0]
        /\ \A w \in Weeks : w # NextWeek => points[w] = NoPoint
    BY <1>0, <2>2 DEF NoPoint, Point
  <2> HIDE DEF points, h2
  <2>4. /\ h2 \in History /\ h2.time = NextWeek /\ h2.points = points
        /\ \A w \in Weeks : h2.changes[w] = 0
    BY <1>0, <2>1, <2>2, <2>3 DEF History
  <2>5. h2.points[NextWeek] = TallyPoint(t2, NextWeek)
    BY <1>0, <1>4, <2>3, <2>4 DEF TallyPoint
  <2>6. \A w \in Weeks : w < NextWeek => h2.points[w] = Continued(weight[g])[w]
    BY <1>0, <1>2, <2>3, <2>4
  <2>7. \A w \in Weeks : w > NextWeek => h2.changes[w] = t2.ending[w]
    BY <1>4, <2>4
  <2>8. /\ IsHistoryOf(h2, t2, NextWeek)
        /\ \A w \in Weeks : w < NextWeek => Continued(h2)[w] = Continued(weight[g])[w]
    <3>1. now \in Start..Horizon /\ IsHistoryOf(weight[g], TallyOf(g), NextWeek) /\ IsTally(t2)
      BY <1>0, <1>2, <1>4
    <3>2. h2 \in History /\ h2.time = NextWeek
      BY <2>4
    <3> QED  BY <2>5, <2>6, <2>7, <3>1, <3>2, NewPoint
  <2> QED  BY <1>2, <2>4, <2>8 DEF h2
<1>6. ASSUME NEW h \in Gauges, h # g
      PROVE  /\ weight'[h] = weight[h] /\ gauge_type'[h] = gauge_type[h]
             /\ IsHistoryOf(weight[h], TallyOf(h), NextWeek)
             /\ gauge_type[h] # NoType <=> weight[h].time # 0
  BY <1>0, <1>6 DEF ControllerIInv, GaugesAreTallied
<1>7. \A h \in Gauges : /\ IsHistoryOf(weight'[h], TallyOf(h)', NextWeek)
                        /\ \A w \in Weeks : w < NextWeek => Continued(weight'[h])[w] = Continued(weight[h])[w]
                        /\ gauge_type'[h] # NoType <=> weight'[h].time # 0
  <2>1. gauge_type'[g] = k /\ k # NoType
    BY <1>0
  <2> QED  BY <1>0, <1>2, <1>3, <1>5, <1>6, <2>1
<1>8. weight' \in [Gauges -> History]
  <2>1. weight' = [h \in Gauges |-> weight'[h]]
    BY <1>0
  <2> QED  BY <1>0, <1>5, <1>6, <2>1
<1>9. \A w \in Weeks : w < NextWeek => Continued(weight'[g])[w].bias = 0
  BY <1>5 DEF NoPoint
<1>10. /\ \A h \in Gauges : Tallies[h] = TallyOf(h) /\ Tallies[h]' = TallyOf(h)'
       /\ Tallies' = [h \in Gauges |-> TallyOf(h)']
  BY DEF Tallies
<1>11. \A h \in Gauges : IsTally(TallyOf(h)) /\ IsTally(TallyOf(h)')
  BY <1>0, <1>3, <1>4, TalliesAreVotes
<1>12. \A j \in Types : j # k => TallyOfType(j)' = TallyOfType(j)
  <2> SUFFICES ASSUME NEW j \in Types, j # k PROVE TallyOfType(j)' = TallyOfType(j)
    OBVIOUS
  <2>1. OfType(j) \subseteq Gauges \ {g} /\ OfType(j)' = OfType(j)
    BY <1>0, <1>1 DEF OfType
  <2> DEFINE ts == Tallies'
  <2>2. \A h \in OfType(j) : ts[h] = Tallies[h]
    BY <1>3, <1>10, <2>1
  <2>3. TallyOfType(j)' = SumTally(OfType(j), ts)
    BY <2>1 DEF TallyOfType
  <2> HIDE DEF ts
  <2> QED  BY <2>2, <2>3, SumTallySame DEF TallyOfType
<1>13. /\ IsTally(TallyOfType(k)')
       /\ Adding(TallyOfType(k)', TallyOfType(k), t2)
  <2> DEFINE ts == Tallies'
             S == OfType(k)
  <2>1. IsFiniteSet(S) /\ S \subseteq Gauges /\ IsFiniteSet(S \cup {g})
    BY <1>0, TypesAreTallies, FS_AddElement
  <2>2. /\ \A h \in S : IsTally(Tallies[h]) /\ ts[h] = Tallies[h]
        /\ \A h \in S \cup {g} : IsTally(ts[h])
        /\ ts[g] = t2
    BY <1>1, <1>3, <1>10, <1>11, <2>1
  <2>3. TallyOfType(k)' = SumTally(S \cup {g}, ts)
    BY <1>1 DEF TallyOfType
  <2> HIDE DEF ts, S
  <2>4. IsTally(SumTally(S \cup {g}, ts))
    BY <2>1, <2>2, SumDecays
  <2>5. Adding(SumTally(S \cup {g}, ts), SumTally(S, Tallies), ts[g])
    <3>1. g \notin S
      BY <1>1 DEF S
    <3> QED  BY <2>1, <2>2, <3>1, SumTallyGrows
  <2> QED  BY <2>2, <2>3, <2>4, <2>5 DEF TallyOfType, S
<1>14. \A w \in Weeks : /\ TallyOfType(k)'.bias[w] = TallyOfType(k).bias[w] + initial
                        /\ TallyOfType(k)'.slope[w] = TallyOfType(k).slope[w]
                        /\ TallyOfType(k)'.ending[w] = TallyOfType(k).ending[w]
  <2>1. IsTally(TallyOfType(k))
    BY <1>0, TypesAreTallies
  <2>2. \A w \in Weeks : TallyOfType(k).slope[w] \in Nat /\ TallyOfType(k).ending[w] \in Nat
    BY <2>1 DEF IsTally
  <2> QED  BY <1>4, <1>13, <2>2 DEF Adding
<1>15. \A h \in OfType(k)' : IsTally(Tallies[h]')
  BY <1>10, <1>11 DEF OfType
<1> QED  BY <1>1, <1>7, <1>8, <1>9, <1>12, <1>13, <1>14, <1>15

\* The type weights that are filled in are timely, and the past is as it was.
LEMMA TypeWeightsFilled ==
    ASSUME ControllerIInv
    PROVE  /\ FilledTypeWeights \in [Types -> TypeHistory]
           /\ \A j \in Types : /\ FilledTypeWeights[j].time = 0 => \A w \in Weeks : FilledTypeWeights[j].points[w] = 0
                               /\ FilledTypeWeights[j].time # 0 => FilledTypeWeights[j].time = NextWeek /\ j \in Added
           /\ \A j \in Types, w \in Weeks : w < NextWeek =>
                  TypeWeightAt(FilledTypeWeights[j], w) = TypeWeightAt(type_weight[j], w)
<1>0. now \in Start..Horizon /\ NextWeek \in Nat /\ NextWeek # 0
  BY InvariantTypes
<1>1. /\ FilledTypeWeights \in [Types -> TypeHistory]
      /\ \A j \in Types : /\ FilledTypeWeights[j] = FilledTypeWeight(type_weight[j])
                          /\ type_weight[j].time <= NextWeek /\ type_weight[j] \in TypeHistory
  BY RecordedAreNew, FilledSumsAndWeights
<1>2. ASSUME NEW j \in Types
      PROVE  /\ FilledTypeWeights[j].time = IF type_weight[j].time = 0 THEN 0 ELSE NextWeek
             /\ type_weight[j].time = 0 => FilledTypeWeights[j] = type_weight[j]
             /\ type_weight[j].time = 0 => \A w \in Weeks : type_weight[j].points[w] = 0
             /\ type_weight[j].time # 0 => j \in Added
             /\ \A w \in Weeks : w < NextWeek => TypeWeightAt(FilledTypeWeights[j], w) = TypeWeightAt(type_weight[j], w)
  BY <1>0, <1>1, FilledType DEF ControllerIInv, TypeWeightsAreTimely
<1> QED  BY <1>0, <1>1, <1>2

\* What AddGauge makes of the sum of the gauge's type and of the total, with an initial weight.
LEMMA AddedSumWithWeight ==
    ASSUME ControllerIInv, NEW g \in Gauges, NEW k \in Types, NEW initial \in GaugeWeights,
           AddGauge(g, k, initial), initial > 0
    PROVE  /\ sum' \in [Types -> History] /\ type_weight' \in [Types -> TypeHistory]
           /\ total' \in [points : [Weeks -> Int], time : Weeks]
           /\ AreNew(sum', [j \in Types |-> TallyOfType(j)'])
           /\ \A j \in Types : sum[j].time # 0 => sum'[j].time # 0
           /\ sum'[k].time # 0
           /\ TypeWeightsAreTimely'
           /\ \A j \in Types, w \in Weeks : w < NextWeek =>
                  TypeWeightAt(type_weight'[j], w) = TypeWeightAt(type_weight[j], w)
           /\ \A w \in Weeks : w <= total'.time => total'.points[w] = Total(Added, sum', type_weight', w)
<1> DEFINE tally == [j \in Types |-> TallyOfType(j)]
           tally2 == [j \in Types |-> TallyOfType(j)']
           F == FilledSums(sum)
           T == FilledTypeWeights
           R == FilledTotal(sum)
           G == sum'
<1>0. /\ ControllerTypes /\ now \in Start..Horizon /\ NextWeek \in Nat /\ NextWeek # 0
      /\ NextWeek \in Weeks /\ \A w \in Weeks : w \in Nat
      /\ k \in Added /\ initial \in Nat /\ NextWeek >= NextWeek
  BY InvariantTypes, ControllerAssumption, MiningAssumption DEF AddGauge
<1>0a. /\ UNCHANGED <<now, n_gauge_types>>
      /\ G = [F EXCEPT ![k].points[NextWeek].bias = @ + initial, ![k].time = NextWeek]
      /\ type_weight' = T
      /\ total' = [R EXCEPT !.points[NextWeek] = @ + T[k].points[NextWeek] * initial]
  BY DEF AddGauge, lockVars
<1>1. AreNew(sum, tally)
  BY RecordedAreNew
<1>2. /\ F \in [Types -> History]
      /\ AreNew(F, tally)
      /\ \A j \in Types : /\ Continued(F[j]) = Continued(sum[j])
                          /\ F[j].time = IF sum[j].time = 0 THEN 0 ELSE NextWeek
                          /\ \A w \in Weeks : w <= NextWeek => F[j].points[w] = Continued(sum[j])[w]
  <2> HIDE DEF tally
  <2> QED  BY <1>1, FilledSumsAndWeights
<1>3. /\ R \in [points : [Weeks -> Int], time : Weeks]
      /\ R.time = NextWeek
      /\ \A w \in Weeks : w <= NextWeek => R.points[w] = Total(Added, F, T, w)
  <2> HIDE DEF tally
  <2> QED  BY <1>1, FilledTotalIs
<1>4. /\ T \in [Types -> TypeHistory]
      /\ \A j \in Types : /\ T[j].time = 0 => \A w \in Weeks : T[j].points[w] = 0
                          /\ T[j].time # 0 => T[j].time = NextWeek /\ j \in Added
      /\ \A j \in Types, w \in Weeks : w < NextWeek => TypeWeightAt(T[j], w) = TypeWeightAt(type_weight[j], w)
  BY TypeWeightsFilled
<1>5. NextWeek' = NextWeek /\ Added' = Added
  BY <1>0a DEF NextWeek, Added
<1>6. /\ IsTally(TallyOfType(k)')
      /\ \A w \in Weeks : /\ TallyOfType(k)'.bias[w] = TallyOfType(k).bias[w] + initial
                          /\ TallyOfType(k)'.slope[w] = TallyOfType(k).slope[w]
                          /\ TallyOfType(k)'.ending[w] = TallyOfType(k).ending[w]
      /\ \A j \in Types : j # k => TallyOfType(j)' = TallyOfType(j)
  BY AddedGauge
<1> DEFINE t == TallyOfType(k)
           t2 == TallyOfType(k)'
<1>7. IsHistoryOf(sum[k], t, NextWeek) /\ IsHistoryOf(F[k], t, NextWeek)
  BY <1>1, <1>2 DEF AreNew
<1> HIDE DEF F, T, R, G, t, t2
<1>8. /\ \A j \in Types : j # k => G[j] = F[j]
      /\ G[k] \in History /\ G[k].time = NextWeek /\ G[k].changes = F[k].changes
      /\ G[k].points[NextWeek] = [bias |-> F[k].points[NextWeek].bias + initial, slope |-> F[k].points[NextWeek].slope]
      /\ \A w \in Weeks : w # NextWeek => G[k].points[w] = F[k].points[w]
      /\ G \in [Types -> History]
  <2> DEFINE f == F[k]
             p == f.points[NextWeek]
             p2 == [p EXCEPT !.bias = @ + initial]
             points == [f.points EXCEPT ![NextWeek] = p2]
  <2>1. f \in History /\ f.points \in [Weeks -> Point] /\ f.changes \in [Weeks -> Int] /\ p \in Point
    BY <1>0, <1>2 DEF History
  <2>2. G[k] = [f EXCEPT !.points = points, !.time = NextWeek]
    BY <1>0a, <1>2
  <2> HIDE DEF f, p
  <2>3. p2 = [bias |-> p.bias + initial, slope |-> p.slope] /\ p2 \in Point
    BY <1>0, <2>1 DEF Point
  <2> HIDE DEF p2
  <2>4. points \in [Weeks -> Point] /\ points[NextWeek] = p2 /\ \A w \in Weeks : w # NextWeek => points[w] = f.points[w]
    BY <1>0, <2>1, <2>3
  <2> HIDE DEF points
  <2>5. G[k] \in History /\ G[k].time = NextWeek /\ G[k].changes = f.changes /\ G[k].points = points
    <3>1. NextWeek \in Weeks
      BY <1>0
    <3>2. G[k] = [points |-> points, changes |-> f.changes, time |-> NextWeek]
      BY <2>1, <2>2 DEF History
    <3> QED  BY <2>1, <2>4, <3>1, <3>2 DEF History
  <2>6. \A j \in Types : j # k => G[j] = F[j]
    BY <1>0a, <1>2
  <2>7. G \in [Types -> History]
    <3>1. G = [j \in Types |-> G[j]]
      BY <1>0a, <1>2
    <3>2. \A j \in Types : G[j] \in History
      BY <1>2, <2>5, <2>6
    <3> QED  BY <3>1, <3>2
  <2> QED  BY <2>3, <2>4, <2>5, <2>6, <2>7 DEF f, p
<1>9. /\ F[k].points[NextWeek] = TallyPoint(t, NextWeek)
      /\ Continued(F[k])[NextWeek] = TallyPoint(t, NextWeek)
  <2>1. sum[k].time <= NextWeek
    BY <1>7 DEF IsHistoryOf
  <2>2. Continued(sum[k])[NextWeek] = TallyPoint(t, NextWeek)
    BY <1>0, <1>7, <2>1, HistoryContinues
  <2> QED  BY <1>0, <1>2, <2>2
<1>10. /\ IsHistoryOf(G[k], t2, NextWeek)
       /\ \A w \in Weeks : w < NextWeek => Continued(G[k])[w] = Continued(sum[k])[w]
       /\ \A w \in Weeks : w >= NextWeek => Continued(G[k])[w] = TallyPoint(t2, w)
  <2>1. G[k].points[NextWeek] = TallyPoint(t2, NextWeek)
    BY <1>0, <1>6, <1>8, <1>9 DEF TallyPoint, t, t2
  <2>2. ASSUME NEW w \in Weeks, w < NextWeek PROVE G[k].points[w] = Continued(sum[k])[w]
    <3>1. w # NextWeek /\ w <= NextWeek
      BY <1>0, <2>2
    <3>2. G[k].points[w] = F[k].points[w]
      BY <1>8, <3>1
    <3>3. F[k].points[w] = Continued(sum[k])[w]
      BY <1>2, <3>1
    <3> QED  BY <3>2, <3>3
  <2>3. ASSUME NEW w \in Weeks, w > NextWeek PROVE G[k].changes[w] = t2.ending[w]
    <3>1. t2.ending[w] = t.ending[w]
      BY <1>6 DEF t, t2
    <3>2. F[k].changes[w] = t.ending[w]
      <4>1. CASE F[k].time = 0
        <5>1. F[k] = NoHistory /\ Nothing(t)
          BY <1>7, <4>1, HistoryContinues
        <5> QED  BY <5>1 DEF NoHistory, Nothing
      <4>2. CASE F[k].time # 0
        <5>1. F[k].time = NextWeek /\ Matches(F[k], t)
          BY <1>0, <1>2, <1>7, <4>2, HistoryContinues
        <5> QED  BY <2>3, <5>1 DEF Matches
      <4> QED  BY <4>1, <4>2
    <3> QED  BY <1>8, <3>1, <3>2
  <2>4. IsTally(t2)
    BY <1>6 DEF t2
  <2> DEFINE h == sum[k]
             h2 == G[k]
  <2>5. now \in Start..Horizon /\ h2 \in History /\ h2.time = NextWeek /\ IsHistoryOf(h, t, NextWeek)
    BY <1>0, <1>7, <1>8
  <2>6. /\ h2.points[NextWeek] = TallyPoint(t2, NextWeek)
        /\ \A w \in Weeks : w < NextWeek => h2.points[w] = Continued(h)[w]
        /\ \A w \in Weeks : w > NextWeek => h2.changes[w] = t2.ending[w]
    BY <2>1, <2>2, <2>3
  <2> HIDE DEF h, h2
  <2>7. /\ IsHistoryOf(h2, t2, NextWeek)
        /\ \A w \in Weeks : w < NextWeek => Continued(h2)[w] = Continued(h)[w]
        /\ \A w \in Weeks : w >= NextWeek => Continued(h2)[w] = TallyPoint(t2, w)
    BY <2>4, <2>5, <2>6, NewPoint
  <2> QED  BY <2>7 DEF h, h2
<1>11. AreNew(G, tally2)
  <2>1. ASSUME NEW j \in Types
        PROVE  /\ IsHistoryOf(G[j], tally2[j], NextWeek)
               /\ \A w \in Weeks : w < NextWeek => Continued(G[j])[w] = Continued(sum[j])[w]
               /\ j \notin Added => G[j].time = 0
    <3>1. CASE j = k
      BY <1>0, <1>10, <3>1 DEF t2
    <3>2. CASE j # k
      <4>1. tally2[j] = tally[j] /\ G[j] = F[j]
        BY <1>6, <1>8, <3>2
      <4> QED  BY <1>2, <4>1 DEF AreNew
    <3> QED  BY <3>1, <3>2
  <2> QED  BY <2>1 DEF AreNew
<1>12. \A j \in Types : sum[j].time # 0 => G[j].time # 0
  BY <1>0, <1>2, <1>8
<1>13. /\ total'.time = NextWeek /\ total' \in [points : [Weeks -> Int], time : Weeks]
       /\ total'.points[NextWeek] = R.points[NextWeek] + T[k].points[NextWeek] * initial
       /\ \A w \in Weeks : w # NextWeek => total'.points[w] = R.points[w]
  <2> DEFINE n == R.points[NextWeek] + T[k].points[NextWeek] * initial
             points == [R.points EXCEPT ![NextWeek] = n]
  <2>1. R.points \in [Weeks -> Int] /\ R.points[NextWeek] \in Int
    BY <1>0, <1>3
  <2>2. n \in Int
    <3>1. T[k].points[NextWeek] \in Nat
      BY <1>0, <1>4 DEF TypeHistory
    <3> QED  BY <1>0, <2>1, <3>1
  <2>3. total' = [R EXCEPT !.points = points]
    BY <1>0a, <1>3
  <2> HIDE DEF n
  <2>4. /\ points \in [Weeks -> Int] /\ points[NextWeek] = n
        /\ \A w \in Weeks : w # NextWeek => points[w] = R.points[w]
    BY <1>0, <2>1, <2>2
  <2> HIDE DEF points
  <2>5. total'.points = points /\ total'.time = NextWeek /\ total' \in [points : [Weeks -> Int], time : Weeks]
    BY <1>0, <1>3, <2>3, <2>4
  <2> QED  BY <2>4, <2>5 DEF n
<1>14. TypeWeightsAreTimely'
  BY <1>0, <1>0a, <1>4, <1>5, <1>13 DEF TypeWeightsAreTimely
<1>15. ASSUME NEW w \in Weeks, w <= NextWeek PROVE total'.points[w] = Total(Added, G, T, w)
  <2> DEFINE f == [j \in Added |-> Continued(F[j])[w].bias * T[j].points[w]]
             f2 == [j \in Added |-> Continued(G[j])[w].bias * T[j].points[w]]
  <2>1. /\ f \in [Added -> Int] /\ f2 \in [Added -> Int]
        /\ Total(Added, F, T, w) = SumFunction(f) /\ Total(Added, G, T, w) = SumFunction(f2)
    <3>1. /\ \A j \in Added : Continued(F[j])[w].bias * T[j].points[w] \in Nat
          /\ \A j \in Added : Continued(G[j])[w].bias * T[j].points[w] \in Nat
      <4> HIDE DEF tally, tally2
      <4> QED  BY <1>0, <1>2, <1>4, <1>11, TotalType
    <3> QED  BY <3>1 DEF Total
  <2>3. IsFiniteSet(Added) /\ Added \subseteq Types
    BY AddedIsFinite
  <2>4. R.points[w] = SumFunction(f) /\ SumFunction(f) \in Int
    BY <1>3, <1>15, <2>1, <2>3, SumType
  <2>5. CASE w # NextWeek
    <3>1. ASSUME NEW j \in Added PROVE Continued(G[j])[w] = Continued(F[j])[w]
      <4>1. j \in Types /\ w < NextWeek
        BY <1>0, <1>15, <2>3, <2>5
      <4> QED  BY <1>2, <1>11, <4>1 DEF AreNew
    <3>2. f2 = f
      BY <3>1
    <3> HIDE DEF f, f2
    <3> QED  BY <1>13, <2>1, <2>4, <2>5, <3>2
  <2>6. CASE w = NextWeek
    <3> DEFINE x == Continued(F[k])[w].bias
               y == T[k].points[w]
    <3>1. Continued(G[k])[w] = TallyPoint(t2, w)
      BY <1>0, <1>10, <2>6
    <3>2. Continued(G[k])[w].bias = x + initial
      BY <1>6, <1>9, <2>6, <3>1 DEF TallyPoint, t, t2
    <3>3. x \in Nat /\ y \in Nat
      <4>1. x = t.bias[w] /\ IsTally(t)
        BY <1>7, <1>9, <2>6 DEF TallyPoint, IsHistoryOf
      <4> QED  BY <1>4, <4>1 DEF IsTally, TypeHistory
    <3>4. f[k] = x * y /\ f2[k] = (x + initial) * y
      BY <1>0, <3>2
    <3>5. \A j \in Added \ {k} : f2[j] = f[j]
      BY <1>8, <2>3
    <3> HIDE DEF f, f2, x
    <3>6. SumFunction(f2) = SumFunction(f) + f2[k] - f[k]
      BY <1>0, <2>1, <2>3, <3>5, SumOneChanged
    <3>7. total'.points[w] = SumFunction(f) + y * initial
      BY <1>13, <2>4, <2>6
    <3> HIDE DEF y
    <3>8. (x + initial) * y = x * y + y * initial /\ x * y \in Nat /\ y * initial \in Nat
      BY <1>0, <3>3
    <3> QED  BY <2>1, <2>4, <3>4, <3>6, <3>7, <3>8
  <2> QED  BY <2>5, <2>6
<1>16. \A w \in Weeks : w <= total'.time => total'.points[w] = Total(Added, G, T, w)
  BY <1>13, <1>15
<1>17. G[k].time # 0
  BY <1>0, <1>8
<1>18. /\ type_weight' \in [Types -> TypeHistory]
       /\ \A j \in Types, w \in Weeks : w < NextWeek =>
              TypeWeightAt(type_weight'[j], w) = TypeWeightAt(type_weight[j], w)
       /\ \A w \in Weeks : w <= total'.time => total'.points[w] = Total(Added, G, type_weight', w)
  BY <1>0a, <1>4, <1>16
<1> QED  BY <1>8, <1>11, <1>12, <1>13, <1>14, <1>17, <1>18 DEF G

\* The same without an initial weight: the sum only starts, if the gauge is the first of its type.
LEMMA AddedSumWithoutWeight ==
    ASSUME ControllerIInv, NEW g \in Gauges, NEW k \in Types, NEW initial \in GaugeWeights,
           AddGauge(g, k, initial), ~(initial > 0)
    PROVE  /\ sum' \in [Types -> History] /\ type_weight' \in [Types -> TypeHistory]
           /\ total' \in [points : [Weeks -> Int], time : Weeks]
           /\ AreNew(sum', [j \in Types |-> TallyOfType(j)'])
           /\ \A j \in Types : sum[j].time # 0 => sum'[j].time # 0
           /\ sum'[k].time # 0
           /\ TypeWeightsAreTimely'
           /\ \A j \in Types, w \in Weeks : w < NextWeek =>
                  TypeWeightAt(type_weight'[j], w) = TypeWeightAt(type_weight[j], w)
           /\ \A w \in Weeks : w <= total'.time => total'.points[w] = Total(Added, sum', type_weight', w)
<1> DEFINE tally2 == [j \in Types |-> TallyOfType(j)']
           t == TallyOfType(k)
           t2 == TallyOfType(k)'
           h == sum[k]
           h2 == sum'[k]
<1>0. /\ ControllerTypes /\ now \in Start..Horizon /\ NextWeek \in Nat /\ NextWeek # 0
      /\ NextWeek \in Weeks /\ \A w \in Weeks : w \in Nat
      /\ k \in Added /\ initial = 0 /\ sum \in [Types -> History]
  BY InvariantTypes, ControllerAssumption, MiningAssumption DEF AddGauge, ControllerTypes
<1>1. /\ sum' = [sum EXCEPT ![k].time = IF @ = 0 THEN NextWeek ELSE @]
      /\ UNCHANGED <<now, n_gauge_types, type_weight, total>>
  BY <1>0 DEF AddGauge, lockVars
<1>2. NextWeek' = NextWeek /\ Added' = Added
  BY <1>1 DEF NextWeek, Added
<1>3. /\ IsTally(t2)
      /\ \A w \in Weeks : t2.bias[w] = t.bias[w] + initial /\ t2.slope[w] = t.slope[w] /\ t2.ending[w] = t.ending[w]
      /\ \A j \in Types : j # k => TallyOfType(j)' = TallyOfType(j)
  BY AddedGauge
<1>4. \A j \in Types : IsHistoryOf(sum[j], TallyOfType(j), NextWeek) /\ (j \notin Added => sum[j].time = 0)
  BY DEF ControllerIInv, TypesAreTallied
<1>5. h \in History /\ IsHistoryOf(h, t, NextWeek) /\ IsTally(t) /\ \A j \in Types : j # k => sum'[j] = sum[j]
  BY <1>0, <1>1, <1>4 DEF IsHistoryOf
<1>6. \A w \in Weeks : t2.bias[w] = t.bias[w] /\ t2.slope[w] = t.slope[w] /\ t2.ending[w] = t.ending[w]
  <2> HIDE DEF t, t2
  <2>1. \A w \in Weeks : t.bias[w] \in Nat
    BY <1>5 DEF IsTally
  <2> QED  BY <1>0, <1>3, <2>1
<1> HIDE DEF t, t2
<1>7. h2 \in History /\ h2.time # 0 /\ IsHistoryOf(h2, t2, NextWeek) /\ Continued(h2) = Continued(h)
  <2>1. CASE h.time # 0
    <3>1. h2 = h
      <4>1. h2 = [h EXCEPT !.time = h.time]
        BY <1>0, <1>1, <2>1
      <4> HIDE DEF h, h2
      <4> QED  BY <1>5, <4>1 DEF History
    <3>2. NextWeek <= NextWeek
      BY <1>0
    <3> HIDE DEF h, h2
    <3>3. IsHistoryOf(h, t2, NextWeek)
      BY <1>0, <1>3, <1>5, <1>6, <3>2, SameHistory DEF t2
    <3> QED  BY <1>5, <2>1, <3>1, <3>3
  <2>2. CASE h.time = 0
    <3>1. h = NoHistory /\ Nothing(t) /\ Continued(h) = h.points
      <4> HIDE DEF h
      <4> QED  BY <1>5, <2>2, HistoryContinues
    <3>2. h2 = [h EXCEPT !.time = NextWeek]
      BY <1>0, <1>1, <2>2
    <3> HIDE DEF h, h2
    <3>3. h2.points = h.points /\ h2.changes = h.changes /\ h2.time = NextWeek /\ h2 \in History
      BY <1>0, <1>5, <3>2 DEF History
    <3>4. /\ \A w \in Weeks : h.points[w] = NoPoint /\ h.changes[w] = 0
          /\ \A w \in Weeks : TallyPoint(t2, w) = NoPoint /\ t2.ending[w] = 0
      BY <1>6, <3>1 DEF NoHistory, TallyPoint, NoPoint, Nothing
    <3>5. /\ h2.points[NextWeek] = TallyPoint(t2, NextWeek)
          /\ \A w \in Weeks : w < NextWeek => h2.points[w] = Continued(h)[w]
          /\ \A w \in Weeks : w > NextWeek => h2.changes[w] = t2.ending[w]
      BY <1>0, <3>1, <3>3, <3>4
    <3>6. IsTally(t2)
      BY <1>3 DEF t2
    <3>7. /\ IsHistoryOf(h2, t2, NextWeek)
          /\ \A w \in Weeks : w < NextWeek => Continued(h2)[w] = Continued(h)[w]
          /\ \A w \in Weeks : w >= NextWeek => Continued(h2)[w] = TallyPoint(t2, w)
      <4>1. now \in Start..Horizon /\ IsHistoryOf(h, t, NextWeek)
        BY <1>0, <1>5
      <4>2. h2 \in History /\ h2.time = NextWeek
        BY <3>3
      <4> QED  BY <3>5, <3>6, <4>1, <4>2, NewPoint
    <3>8. Continued(h2) \in [Weeks -> Point] /\ Continued(h) \in [Weeks -> Point]
      BY <1>5, <3>7, HistoryContinues
    <3>9. \A w \in Weeks : Continued(h2)[w] = Continued(h)[w]
      <4>1. \A w \in Weeks : w < NextWeek \/ w >= NextWeek
        BY <1>0
      <4> QED  BY <3>1, <3>4, <3>7, <4>1
    <3>10. Continued(h2) = Continued(h)
      BY <3>8, <3>9
    <3> QED  BY <1>0, <3>3, <3>7, <3>10
  <2> QED  BY <2>1, <2>2
<1>8. \A j \in Types : /\ Continued(sum'[j]) = Continued(sum[j])
                       /\ sum[j].time # 0 => sum'[j].time # 0
  BY <1>5, <1>7
<1>9. sum' \in [Types -> History]
  <2>1. sum' = [j \in Types |-> sum'[j]]
    BY <1>0, <1>1
  <2>2. \A j \in Types : sum'[j] \in History
    BY <1>0, <1>5, <1>7
  <2> QED  BY <2>1, <2>2
<1>10. AreNew(sum', tally2)
  <2>1. ASSUME NEW j \in Types
        PROVE  IsHistoryOf(sum'[j], tally2[j], NextWeek) /\ (j \notin Added => sum'[j].time = 0)
    <3>1. CASE j = k
      BY <1>0, <1>7, <3>1 DEF t2
    <3>2. CASE j # k
      BY <1>3, <1>4, <1>5, <3>2
    <3> QED  BY <3>1, <3>2
  <2> QED  BY <1>8, <2>1 DEF AreNew
<1>11. type_weight' \in [Types -> TypeHistory] /\ total' \in [points : [Weeks -> Int], time : Weeks]
  BY <1>0, <1>1 DEF ControllerTypes
<1>12. TypeWeightsAreTimely'
  BY <1>1, <1>2 DEF ControllerIInv, TypeWeightsAreTimely
<1>13. ASSUME NEW w \in Weeks, w <= total'.time PROVE total'.points[w] = Total(Added, sum', type_weight', w)
  <2>1. total'.points[w] = SumFunction([j \in Added |-> Continued(sum[j])[w].bias * type_weight[j].points[w]])
    BY <1>1, <1>13 DEF ControllerIInv, SumsAddUp
  <2>2. [j \in Added |-> Continued(sum[j])[w].bias * type_weight[j].points[w]]
          = [j \in Added |-> Continued(sum'[j])[w].bias * type_weight'[j].points[w]]
    BY <1>1, <1>8, AddedIsFinite
  <2> QED  BY <2>1, <2>2 DEF Total
<1> QED  BY <1>1, <1>7, <1>8, <1>9, <1>10, <1>11, <1>12, <1>13

LEMMA StepAddGauge ==
    ASSUME ControllerIInv, NEW g \in Gauges, NEW k \in Types, NEW initial \in GaugeWeights, AddGauge(g, k, initial)
    PROVE  ControllerIInv' /\ KeepsPast
<1> DEFINE tally2 == [j \in Types |-> TallyOfType(j)']
<1>0. /\ ControllerTypes /\ NextWeek \in Nat /\ \A w \in Weeks : w \in Nat
      /\ k \in Added /\ gauge_type[g] = NoType /\ initial \in Nat
      /\ gauge_type' = [gauge_type EXCEPT ![g] = k]
      /\ initial_weight' = [initial_weight EXCEPT ![g] = initial]
      /\ UNCHANGED <<now, lock, vote, vote_user_power, n_gauge_types>>
  BY InvariantTypes, ControllerAssumption, MiningAssumption DEF AddGauge, lockVars, voteVars
<1>1. NextWeek' = NextWeek /\ Added' = Added
  BY <1>0 DEF NextWeek, Added
<1>2. /\ \A h \in Gauges : /\ IsHistoryOf(weight'[h], TallyOf(h)', NextWeek)
                           /\ \A w \in Weeks : w < NextWeek => Continued(weight'[h])[w] = Continued(weight[h])[w]
                           /\ gauge_type'[h] # NoType <=> weight'[h].time # 0
      /\ weight' \in [Gauges -> History]
      /\ \A w \in Weeks : w < NextWeek => Continued(weight'[g])[w].bias = 0
      /\ OfType(k)' = OfType(k) \cup {g} /\ g \notin OfType(k)
      /\ \A j \in Types : j # k => OfType(j)' = OfType(j)
  BY AddedGauge
<1>3. /\ sum' \in [Types -> History] /\ type_weight' \in [Types -> TypeHistory]
      /\ total' \in [points : [Weeks -> Int], time : Weeks]
      /\ AreNew(sum', tally2)
      /\ \A j \in Types : sum[j].time # 0 => sum'[j].time # 0
      /\ sum'[k].time # 0
      /\ TypeWeightsAreTimely'
      /\ \A j \in Types, w \in Weeks : w < NextWeek =>
             TypeWeightAt(type_weight'[j], w) = TypeWeightAt(type_weight[j], w)
      /\ \A w \in Weeks : w <= total'.time => total'.points[w] = Total(Added, sum', type_weight', w)
  <2>1. CASE initial > 0
    BY <2>1, AddedSumWithWeight
  <2>2. CASE ~(initial > 0)
    BY <2>2, AddedSumWithoutWeight
  <2> QED  BY <2>1, <2>2
<1>4. ControllerTypes'
  <2>1. gauge_type' \in [Gauges -> Types \cup {NoType}] /\ initial_weight' \in [Gauges -> Nat]
    BY <1>0 DEF ControllerTypes
  <2> QED  BY <1>0, <1>2, <1>3, <2>1 DEF ControllerTypes
<1>5. GaugesAreTallied'
  BY <1>1, <1>2 DEF GaugesAreTallied
<1>6. ASSUME NEW j \in Types
      PROVE  /\ IsHistoryOf(sum'[j], TallyOfType(j)', NextWeek)
             /\ OfType(j)' # {} => sum'[j].time # 0
             /\ j \notin Added => sum'[j].time = 0
             /\ \A w \in Weeks : w < NextWeek => Continued(sum'[j])[w] = Continued(sum[j])[w]
  <2>1. IsHistoryOf(sum'[j], TallyOfType(j)', NextWeek) /\ (j \notin Added => sum'[j].time = 0)
    BY <1>3 DEF AreNew
  <2>2. \A w \in Weeks : w < NextWeek => Continued(sum'[j])[w] = Continued(sum[j])[w]
    BY <1>3 DEF AreNew
  <2>3. OfType(j) # {} => sum[j].time # 0
    BY DEF ControllerIInv, TypesAreTallied
  <2>4. OfType(j)' # {} => sum'[j].time # 0
    BY <1>2, <1>3, <2>3
  <2> QED  BY <2>1, <2>2, <2>4
<1>7. TypesAreTallied'
  BY <1>1, <1>6 DEF TypesAreTallied
<1>8. ASSUME NEW j \in Added, NEW w \in Weeks
      PROVE  Continued(sum'[j])[w].bias = SumFunction([h \in OfType(j)' |-> Continued(weight'[h])[w].bias])
  <2>0. j \in Types
    BY AddedIsFinite
  <2>1. CASE j # k
    <3>1. OfType(j)' = OfType(j)
      BY <1>2, <2>0, <2>1
    <3> QED  BY <1>0, <1>2, <1>6, <2>0, <3>1, TypesAddUp
  <2>2. CASE j = k
    <3> DEFINE S == OfType(k)
               R == OfType(k)'
               ts == Tallies'
               hs == weight'
    <3>1. IsFiniteSet(S) /\ S \subseteq Gauges /\ R = S \cup {g} /\ g \notin S
      BY <1>0, <1>2, TypesAreTallies
    <3>2. IsFiniteSet(R) /\ R \subseteq Gauges /\ g \in R /\ R \ {g} = S
      BY <3>1, FS_AddElement
    <3>3. CASE w >= NextWeek
      <4>1. \A h \in R : IsHistoryOf(hs[h], ts[h], NextWeek)
        BY <1>2, <3>2 DEF Tallies
      <4>2. IsHistoryOf(sum'[k], SumTally(R, ts), NextWeek)
        BY <1>6 DEF TallyOfType
      <4> HIDE DEF R, ts, hs
      <4>3. Continued(sum'[k])[w].bias = SumFunction([h \in R |-> Continued(hs[h])[w].bias])
        BY <1>0, <3>2, <3>3, <4>1, <4>2, TalliesAddUp
      <4> QED  BY <2>2, <4>3 DEF R, hs
    <3>4. CASE ~(w >= NextWeek)
      <4>1. w < NextWeek
        BY <1>0, <3>4
      <4> DEFINE f == [h \in S |-> Continued(weight[h])[w].bias]
                 f2 == [h \in R |-> Continued(hs[h])[w].bias]
      <4>2. Continued(sum[k])[w].bias = SumFunction(f)
        BY <1>0 DEF ControllerIInv, SumsAddUp, OfType
      <4>3. ASSUME NEW h \in R PROVE Continued(hs[h])[w].bias \in Int
        <5>1. Continued(hs[h]) \in [Weeks -> Point]
          BY <1>2, <3>2, HistoryContinues
        <5> HIDE DEF hs
        <5> QED  BY <5>1 DEF Point
      <4>4. \A h \in S : Continued(hs[h])[w] = Continued(weight[h])[w]
        BY <1>2, <3>1, <4>1
      <4>5. Continued(hs[g])[w].bias = 0
        BY <1>2, <4>1
      <4> HIDE DEF S, R, hs
      <4>6. f \in [S -> Int] /\ f2 \in [R -> Int] /\ (\A h \in S : f2[h] = f[h]) /\ f2[g] = 0
        BY <3>2, <4>3, <4>4, <4>5
      <4> HIDE DEF f, f2
      <4>7. SumFunction(f2) = SumFunction(f) + f2[g]
        BY <3>1, <3>2, <4>6, SumOneMore
      <4>8. SumFunction(f) \in Int
        BY <3>1, <4>6, SumType
      <4>9. Continued(sum'[k])[w].bias = SumFunction(f2)
        BY <1>6, <4>1, <4>2, <4>6, <4>7, <4>8
      <4> QED  BY <2>2, <4>9 DEF f2, R, hs
    <3> QED  BY <3>3, <3>4
  <2> QED  BY <2>1, <2>2
<1>9. SumsAddUp'
  BY <1>1, <1>3, <1>8 DEF SumsAddUp, Total, OfType
<1>10. PowersAddUp'
  BY <1>0 DEF ControllerIInv, PowersAddUp
<1>11. KeepsPast
  <2>1. \A h \in Gauges : gauge_type'[h] # gauge_type[h] => gauge_type[h] = NoType /\ gauge_type'[h] \in Added'
    BY <1>0, <1>1 DEF ControllerTypes
  <2> QED  BY <1>1, <1>2, <1>3, <1>6, <2>1 DEF KeepsPast
<1> QED  BY <1>3, <1>4, <1>5, <1>7, <1>9, <1>10, <1>11 DEF ControllerIInv

-----------------------------------------------------------------------------
(* Votes *)

\* A vote in the place of another changes the history like the tally.
LEMMA RecordedVote ==
    ASSUME now \in Start..Horizon, NEW h, NEW t, IsHistoryOf(h, t, NextWeek), h.time # 0,
           NEW old \in UserVote, NEW new \in UserVote, new.end > NextWeek,
           NEW t2, IsTally(t2), ChangedBy(t2, t, VoteTally(new), VoteTally(old))
    PROVE  /\ RecordVote(h, old, new) \in History
           /\ RecordVote(h, old, new).time = NextWeek
           /\ IsHistoryOf(RecordVote(h, old, new), t2, NextWeek)
           /\ \A w \in Weeks : w < NextWeek => Continued(RecordVote(h, old, new))[w] = Continued(h)[w]
<1> DEFINE f == Filled(h)
           h2 == RecordVote(h, old, new)
           point == Voted(f.points[NextWeek], old, new)
           points == [f.points EXCEPT ![NextWeek] = point]
           change(w) == f.changes[w] - (IF w = old.end /\ w > now THEN old.slope ELSE 0)
                                     + (IF w = new.end THEN new.slope ELSE 0)
           changes == [w \in Weeks |-> change(w)]
<1>0. /\ NextWeek \in Nat /\ NextWeek \in Weeks /\ NextWeek > now /\ now \in Nat
      /\ \A w \in Weeks : w \in Nat
  BY NextWeekIsNext, WeekSteps, ControllerAssumption, MiningAssumption
<1>1. /\ old.slope \in Nat /\ old.end \in Nat /\ new.slope \in Nat /\ new.end \in Nat
  BY <1>0 DEF UserVote
<1>2. /\ IsHistoryOf(f, t, NextWeek)
      /\ f.time = NextWeek
      /\ \A w \in Weeks : w <= NextWeek => f.points[w] = Continued(h)[w]
  BY FilledHistory
<1>3. f \in History /\ IsTally(t) /\ Matches(f, t)
  <2>1. f.time # 0
    BY <1>2, NextWeekIsNext
  <2> HIDE DEF f
  <2> QED  BY <1>2, <2>1, HistoryContinues DEF IsHistoryOf
<1>4. h2 = [f EXCEPT !.points = points, !.changes = changes]
  BY DEF RecordVote
<1> HIDE DEF f, h2
<1>5. f.points \in [Weeks -> Point] /\ f.changes \in [Weeks -> Int] /\ f.time \in Weeks
  BY <1>3 DEF History
<1>6. point = TallyPoint(t2, NextWeek) /\ point \in Point
  <2> DEFINE p == TallyPoint(t, NextWeek)
             nb == new.slope * AtLeastZero(new.end - NextWeek)
             ob == old.slope * AtLeastZero(old.end - NextWeek)
             os == IF old.end > NextWeek THEN old.slope ELSE 0
  <2>1. f.points[NextWeek] = p
    BY <1>2, <1>3 DEF Matches
  <2>2. point = [bias |-> AtLeastZero(p.bias + nb - ob), slope |-> AtLeastZero(p.slope + new.slope - os)]
    BY <2>1 DEF Voted
  <2>3. /\ VoteTally(new).bias[NextWeek] = nb /\ VoteTally(old).bias[NextWeek] = ob
        /\ VoteTally(new).slope[NextWeek] = new.slope /\ VoteTally(old).slope[NextWeek] = os
    BY <1>0 DEF VoteTally
  <2> HIDE DEF nb, ob, os, point
  <2>4. t2.bias[NextWeek] = p.bias + nb - ob /\ t2.slope[NextWeek] = p.slope + new.slope - os
    BY <1>0, <2>3 DEF ChangedBy, TallyPoint
  <2>5. t2.bias[NextWeek] \in Nat /\ t2.slope[NextWeek] \in Nat
    BY <1>0 DEF IsTally
  <2>6. AtLeastZero(t2.bias[NextWeek]) = t2.bias[NextWeek] /\ AtLeastZero(t2.slope[NextWeek]) = t2.slope[NextWeek]
    BY <2>5 DEF AtLeastZero
  <2> HIDE DEF p
  <2> QED  BY <2>2, <2>4, <2>5, <2>6 DEF TallyPoint, Point
<1> HIDE DEF point
<1>7. /\ points \in [Weeks -> Point] /\ points[NextWeek] = point
      /\ \A w \in Weeks : w # NextWeek => points[w] = f.points[w]
  BY <1>0, <1>5, <1>6
<1>8. changes \in [Weeks -> Int] /\ \A w \in Weeks : changes[w] = change(w)
  <2>1. \A w \in Weeks : change(w) \in Int
    BY <1>1, <1>5
  <2> HIDE DEF change
  <2> QED  BY <2>1
<1> HIDE DEF points, changes
<1>9. h2 \in History /\ h2.time = NextWeek /\ h2.points = points /\ h2.changes = changes
  BY <1>2, <1>3, <1>4, <1>5, <1>7, <1>8 DEF History
<1>10. ASSUME NEW w \in Weeks, w > NextWeek PROVE h2.changes[w] = t2.ending[w]
  <2>1. f.changes[w] = t.ending[w]
    BY <1>2, <1>3, <1>10 DEF Matches
  <2>2. /\ VoteTally(new).ending[w] = (IF w = new.end THEN new.slope ELSE 0)
        /\ VoteTally(old).ending[w] = (IF w = old.end /\ w > now THEN old.slope ELSE 0)
    BY <1>0, <1>10 DEF VoteTally
  <2>3. t2.ending[w] = t.ending[w] + VoteTally(new).ending[w] - VoteTally(old).ending[w]
    BY DEF ChangedBy
  <2>4. t.ending[w] \in Int
    BY <1>3 DEF IsTally
  <2> QED  BY <1>1, <1>8, <1>9, <2>1, <2>2, <2>3, <2>4
<1>11. ASSUME NEW w \in Weeks, w < NextWeek PROVE h2.points[w] = Continued(h)[w]
  <2>1. w # NextWeek /\ w <= NextWeek
    BY <1>0, <1>11
  <2> QED  BY <1>2, <1>7, <1>9, <2>1
<1>12. h2.points[NextWeek] = TallyPoint(t2, NextWeek)
  BY <1>6, <1>7, <1>9
<1>13. /\ IsHistoryOf(h2, t2, NextWeek)
       /\ \A w \in Weeks : w < NextWeek => Continued(h2)[w] = Continued(h)[w]
  BY <1>9, <1>10, <1>11, <1>12, NewPoint
<1> QED  BY <1>9, <1>13 DEF h2

\* What Vote makes of the votes and of the tallies.
LEMMA Voting ==
    ASSUME ControllerIInv, NEW u \in Users, NEW g \in Gauges, NEW power \in Powers, Vote(u, g, power),
           NEW k, k = gauge_type[g]
    PROVE  LET old == vote[u][g]
               new == [slope |-> (lock[u].slope * power) \div MaxPower, power |-> power, end |-> lock[u].end, at |-> now]
           IN  /\ old \in UserVote /\ new \in UserVote /\ new.end > NextWeek /\ new.power = power
               /\ k \in Types /\ k # NoType /\ g \in OfType(k)
               /\ vote' = [vote EXCEPT ![u][g] = new] /\ vote' \in [Users -> [Gauges -> UserVote]]
               /\ \A j \in Types : OfType(j)' = OfType(j)
               /\ \A h \in Gauges : IsTally(TallyOf(h)') /\ (h # g => TallyOf(h)' = TallyOf(h))
               /\ ChangedBy(TallyOf(g)', TallyOf(g), VoteTally(new), VoteTally(old))
               /\ IsTally(TallyOfType(k)')
               /\ ChangedBy(TallyOfType(k)', TallyOfType(k), VoteTally(new), VoteTally(old))
               /\ \A j \in Types : j # k => TallyOfType(j)' = TallyOfType(j)
<1> DEFINE old == vote[u][g]
           new == [slope |-> (lock[u].slope * power) \div MaxPower, power |-> power, end |-> lock[u].end, at |-> now]
<1>0. /\ ControllerTypes /\ k # NoType /\ lock[u].end > NextWeek
      /\ vote' = [vote EXCEPT ![u][g] = new]
      /\ UNCHANGED <<gauge_type, initial_weight>>
  BY InvariantTypes DEF Vote
<1>1. /\ vote \in [Users -> [Gauges -> UserVote]] /\ k \in Types /\ lock[u].slope \in Nat /\ lock[u].end \in Weeks
      /\ now \in Int /\ power \in Nat /\ MaxPower \in Nat \ {0} /\ initial_weight \in [Gauges -> Nat]
  BY <1>0, ControllerAssumption, MiningAssumption DEF ControllerTypes
<1>2. old \in UserVote
  BY <1>1
<1>3. new \in UserVote /\ new.end = lock[u].end /\ new.power = power
  <2> DEFINE n == lock[u].slope * power
  <2>1. n \in Nat
    BY <1>1
  <2> HIDE DEF n
  <2>2. n \div MaxPower \in Nat
    <3> DEFINE q == n \div MaxPower
    <3>1. q \in Int /\ n % MaxPower \in 0..(MaxPower - 1) /\ n = q * MaxPower + (n % MaxPower)
      BY <1>1, <2>1
    <3> HIDE DEF q
    <3>2. ~(q < 0)
      <4>1. SUFFICES ASSUME q <= -1 PROVE FALSE
        BY <3>1
      <4> DEFINE m == MaxPower
      <4>0. m \in Nat \ {0}
        BY <1>1
      <4> HIDE DEF m
      <4>2. q * m <= (-1) * m
        <5>1. q \in Int /\ q <= -1
          BY <3>1, <4>1
        <5> QED  BY <4>0, <5>1
      <4> QED  BY <1>1, <2>1, <3>1, <4>2 DEF m
    <3> QED  BY <3>1, <3>2 DEF q
  <2>3. (lock[u].slope * power) \div MaxPower \in Nat
    BY <2>2 DEF n
  <2> QED  BY <1>1, <2>3 DEF UserVote
<1> HIDE DEF new
<1>4. /\ vote' \in [Users -> [Gauges -> UserVote]]
      /\ vote'[u][g] = new
      /\ \A x \in Users, h \in Gauges : ~(x = u /\ h = g) => vote'[x][h] = vote[x][h]
  BY <1>0, <1>1, <1>3
<1>5. /\ \A j : OfType(j)' = OfType(j)
      /\ g \in OfType(k)
  BY <1>0 DEF OfType
<1>6. \A h \in Gauges \ {g} : TallyOf(h)' = TallyOf(h)
  <2> SUFFICES ASSUME NEW h \in Gauges \ {g} PROVE TallyOf(h)' = TallyOf(h)
    OBVIOUS
  <2>1. [x \in Users |-> VoteTally(vote'[x][h])] = [x \in Users |-> VoteTally(vote[x][h])]
    BY <1>4
  <2> QED  BY <1>0, <2>1 DEF TallyOf
<1> DEFINE i == initial_weight[g]
           votes == [x \in Users |-> VoteTally(vote[x][g])]
           votes2 == [x \in Users |-> VoteTally(vote'[x][g])]
           s == SumTally(Users, votes)
           s2 == SumTally(Users, votes2)
<1>7. TallyOf(g) = Raised(i, s) /\ TallyOf(g)' = Raised(i, s2)
  BY <1>0 DEF TallyOf
<1>8. /\ IsTally(s) /\ IsTally(s2)
      /\ ChangedBy(s2, s, VoteTally(new), VoteTally(old))
  <2>1. /\ \A x \in Users : votes[x] = VoteTally(vote[x][g]) /\ votes2[x] = VoteTally(vote'[x][g])
        /\ \A x \in Users : vote[x][g] \in UserVote /\ vote'[x][g] \in UserVote
    BY <1>1, <1>4
  <2>2. \A x \in Users \ {u} : votes2[x] = votes[x]
    BY <1>4
  <2>3. votes2[u] = VoteTally(new) /\ votes[u] = VoteTally(old)
    BY <1>4
  <2> HIDE DEF votes, votes2, old
  <2>4. \A x \in Users : IsTally(votes[x]) /\ IsTally(votes2[x])
    BY <2>1, VoteDecays
  <2>5. ChangedBy(SumTally(Users, votes2), SumTally(Users, votes), votes2[u], votes[u])
    BY <2>2, <2>4, SumTallyChanges, ControllerAssumption, MiningAssumption
  <2> QED  BY <2>3, <2>4, <2>5, SumDecays, ControllerAssumption, MiningAssumption
<1>9. i \in Nat
  BY <1>1
<1> HIDE DEF s, s2, i, old
<1>10. IsTally(TallyOf(g)') /\ IsTally(TallyOf(g))
  BY <1>7, <1>8, <1>9, RaisedDecays
<1>11. ChangedBy(TallyOf(g)', TallyOf(g), VoteTally(new), VoteTally(old))
  <2> DEFINE n == VoteTally(new)
             o == VoteTally(old)
             t == TallyOf(g)
             t2 == TallyOf(g)'
  <2>0. IsTally(n) /\ IsTally(o)
    BY <1>2, <1>3, VoteDecays
  <2> SUFFICES ASSUME NEW w \in Weeks
               PROVE  /\ t2.bias[w] = t.bias[w] + n.bias[w] - o.bias[w]
                      /\ t2.slope[w] = t.slope[w] + n.slope[w] - o.slope[w]
                      /\ t2.ending[w] = t.ending[w] + n.ending[w] - o.ending[w]
    BY DEF ChangedBy
  <2>1. /\ t2.bias[w] = i + s2.bias[w] /\ t2.slope[w] = s2.slope[w] /\ t2.ending[w] = s2.ending[w]
        /\ t.bias[w] = i + s.bias[w] /\ t.slope[w] = s.slope[w] /\ t.ending[w] = s.ending[w]
    BY <1>7 DEF Raised
  <2>2. /\ s2.bias[w] = s.bias[w] + n.bias[w] - o.bias[w]
        /\ s2.slope[w] = s.slope[w] + n.slope[w] - o.slope[w]
        /\ s2.ending[w] = s.ending[w] + n.ending[w] - o.ending[w]
    BY <1>8 DEF ChangedBy
  <2>3. s.bias[w] \in Int /\ n.bias[w] \in Int /\ o.bias[w] \in Int
    BY <1>8, <2>0 DEF IsTally
  <2> HIDE DEF n, o, t, t2
  <2> QED  BY <1>9, <2>1, <2>2, <2>3
<1>12. \A h \in Gauges : IsTally(TallyOf(h)') /\ IsTally(TallyOf(h)) /\ (h # g => TallyOf(h)' = TallyOf(h))
  BY <1>0, <1>6, <1>10, TalliesAreVotes
<1> DEFINE ts == Tallies'
<1>13. \A h \in Gauges : Tallies[h] = TallyOf(h) /\ ts[h] = TallyOf(h)'
  BY DEF Tallies
<1>14. \A j \in Types : TallyOfType(j)' = SumTally(OfType(j), ts)
  BY <1>5 DEF TallyOfType
<1> HIDE DEF ts
<1>15. \A j \in Types : j # k => TallyOfType(j)' = TallyOfType(j)
  <2> SUFFICES ASSUME NEW j \in Types, j # k PROVE TallyOfType(j)' = TallyOfType(j)
    OBVIOUS
  <2>1. \A h \in OfType(j) : ts[h] = Tallies[h]
    BY <1>12, <1>13 DEF OfType
  <2>2. SumTally(OfType(j), ts) = SumTally(OfType(j), Tallies)
    BY <2>1, SumTallySame
  <2> QED  BY <1>14, <2>2 DEF TallyOfType
<1>16. /\ IsTally(TallyOfType(k)')
       /\ ChangedBy(TallyOfType(k)', TallyOfType(k), TallyOf(g)', TallyOf(g))
  <2> DEFINE S == OfType(k)
  <2>1. IsFiniteSet(S) /\ S \subseteq Gauges /\ g \in S
    BY <1>0, <1>5, TypesAreTallies
  <2>2. /\ \A h \in S : IsTally(Tallies[h]) /\ IsTally(ts[h])
        /\ \A h \in S \ {g} : ts[h] = Tallies[h]
        /\ ts[g] = TallyOf(g)' /\ Tallies[g] = TallyOf(g)
    BY <1>12, <1>13, <2>1
  <2> HIDE DEF S
  <2>3. ChangedBy(SumTally(S, ts), SumTally(S, Tallies), ts[g], Tallies[g])
    BY <2>1, <2>2, SumTallyChanges
  <2>4. IsTally(SumTally(S, ts))
    BY <2>1, <2>2, SumDecays
  <2>5. TallyOfType(k)' = SumTally(S, ts) /\ TallyOfType(k) = SumTally(S, Tallies)
    BY <1>1, <1>14 DEF TallyOfType, S
  <2> QED  BY <2>2, <2>3, <2>4, <2>5
<1>17. ChangedBy(TallyOfType(k)', TallyOfType(k), VoteTally(new), VoteTally(old))
  <2> DEFINE n == VoteTally(new)
             o == VoteTally(old)
             t == TallyOf(g)
             t2 == TallyOf(g)'
             T == TallyOfType(k)
             T2 == TallyOfType(k)'
  <2>0. IsTally(n) /\ IsTally(o) /\ IsTally(t) /\ IsTally(t2) /\ IsTally(T)
    BY <1>0, <1>2, <1>3, <1>10, VoteDecays, TypesAreTallies
  <2> SUFFICES ASSUME NEW w \in Weeks
               PROVE  /\ T2.bias[w] = T.bias[w] + n.bias[w] - o.bias[w]
                      /\ T2.slope[w] = T.slope[w] + n.slope[w] - o.slope[w]
                      /\ T2.ending[w] = T.ending[w] + n.ending[w] - o.ending[w]
    BY DEF ChangedBy
  <2>1. /\ T2.bias[w] = T.bias[w] + t2.bias[w] - t.bias[w]
        /\ T2.slope[w] = T.slope[w] + t2.slope[w] - t.slope[w]
        /\ T2.ending[w] = T.ending[w] + t2.ending[w] - t.ending[w]
    BY <1>16 DEF ChangedBy
  <2>2. /\ t2.bias[w] = t.bias[w] + n.bias[w] - o.bias[w]
        /\ t2.slope[w] = t.slope[w] + n.slope[w] - o.slope[w]
        /\ t2.ending[w] = t.ending[w] + n.ending[w] - o.ending[w]
    BY <1>11 DEF ChangedBy
  <2> HIDE DEF n, o, t, t2, T, T2
  <2>3. \A x \in {n, o, t, t2, T} : x.bias[w] \in Int /\ x.slope[w] \in Int /\ x.ending[w] \in Int
    BY <2>0 DEF IsTally
  <2>4. /\ n.bias[w] \in Int /\ o.bias[w] \in Int /\ t.bias[w] \in Int /\ T.bias[w] \in Int
        /\ n.slope[w] \in Int /\ o.slope[w] \in Int /\ t.slope[w] \in Int /\ T.slope[w] \in Int
        /\ n.ending[w] \in Int /\ o.ending[w] \in Int /\ t.ending[w] \in Int /\ T.ending[w] \in Int
    BY <2>3
  <2> QED  BY <2>1, <2>2, <2>4
<1> QED  BY <1>0, <1>1, <1>2, <1>3, <1>4, <1>5, <1>11, <1>12, <1>15, <1>16, <1>17 DEF new, old

LEMMA StepVote ==
    ASSUME ControllerIInv, NEW u \in Users, NEW g \in Gauges, NEW power \in Powers, Vote(u, g, power)
    PROVE  ControllerIInv' /\ KeepsPast
<1>k. PICK k : k = gauge_type[g]
  OBVIOUS
<1> DEFINE old == vote[u][g]
           new == [slope |-> (lock[u].slope * power) \div MaxPower, power |-> power, end |-> lock[u].end, at |-> now]
           sums == [sum EXCEPT ![k] = RecordVote(sum[k], old, new)]
           tally2 == [j \in Types |-> TallyOfType(j)']
           used == vote_user_power[u] + power - old.power
<1>0. /\ ControllerTypes /\ now \in Start..Horizon /\ NextWeek \in Nat /\ \A w \in Weeks : w \in Nat
      /\ vote_user_power' = [vote_user_power EXCEPT ![u] = used]
      /\ weight' = [weight EXCEPT ![g] = RecordVote(weight[g], old, new)]
      /\ GetTotal(sums)
      /\ UNCHANGED <<now, lock, n_gauge_types, gauge_type, initial_weight>>
  BY <1>k, InvariantTypes DEF Vote, lockVars
<1>1. NextWeek' = NextWeek /\ Added' = Added
  BY <1>0 DEF NextWeek, Added
<1>2. /\ old \in UserVote /\ new \in UserVote /\ new.end > NextWeek /\ new.power = power
      /\ k \in Types /\ k # NoType /\ g \in OfType(k)
      /\ vote' = [vote EXCEPT ![u][g] = new] /\ vote' \in [Users -> [Gauges -> UserVote]]
      /\ \A j \in Types : OfType(j)' = OfType(j)
      /\ \A h \in Gauges : IsTally(TallyOf(h)') /\ (h # g => TallyOf(h)' = TallyOf(h))
      /\ ChangedBy(TallyOf(g)', TallyOf(g), VoteTally(new), VoteTally(old))
      /\ IsTally(TallyOfType(k)')
      /\ ChangedBy(TallyOfType(k)', TallyOfType(k), VoteTally(new), VoteTally(old))
      /\ \A j \in Types : j # k => TallyOfType(j)' = TallyOfType(j)
  BY <1>k, Voting
<1> HIDE DEF old, new
<1>3. ASSUME NEW h \in Gauges
      PROVE  /\ IsHistoryOf(weight'[h], TallyOf(h)', NextWeek)
             /\ weight'[h] \in History
             /\ gauge_type'[h] # NoType <=> weight'[h].time # 0
             /\ \A w \in Weeks : w < NextWeek => Continued(weight'[h])[w] = Continued(weight[h])[w]
  <2>1. /\ IsHistoryOf(weight[h], TallyOf(h), NextWeek) /\ (gauge_type[h] # NoType <=> weight[h].time # 0)
        /\ weight \in [Gauges -> History]
    BY <1>0 DEF ControllerIInv, GaugesAreTallied, ControllerTypes
  <2>2. CASE h # g
    <3>1. weight'[h] = weight[h] /\ TallyOf(h)' = TallyOf(h)
      BY <1>0, <1>2, <2>1, <2>2
    <3> QED  BY <1>0, <2>1, <3>1
  <2>3. CASE h = g
    <3>1. weight'[g] = RecordVote(weight[g], old, new) /\ weight[g].time # 0
      BY <1>k, <1>0, <1>2, <2>1, <2>3
    <3> DEFINE t2 == TallyOf(g)'
    <3>2. IsTally(t2) /\ ChangedBy(t2, TallyOf(g), VoteTally(new), VoteTally(old))
      BY <1>2
    <3> HIDE DEF t2
    <3>3. /\ RecordVote(weight[g], old, new) \in History
          /\ RecordVote(weight[g], old, new).time = NextWeek
          /\ IsHistoryOf(RecordVote(weight[g], old, new), t2, NextWeek)
          /\ \A w \in Weeks : w < NextWeek => Continued(RecordVote(weight[g], old, new))[w] = Continued(weight[g])[w]
      BY <1>0, <1>2, <2>1, <2>3, <3>1, <3>2, RecordedVote
    <3>4. NextWeek # 0
      BY InvariantTypes
    <3> QED  BY <1>k, <1>0, <1>2, <2>3, <3>1, <3>3, <3>4 DEF t2
  <2> QED  BY <2>2, <2>3
<1>4. AreNew(sums, tally2) /\ \A j \in Types : sum[j].time # 0 => sums[j].time # 0
  <2>0. sum \in [Types -> History] /\ NextWeek # 0
    BY <1>0, InvariantTypes DEF ControllerTypes
  <2>1. ASSUME NEW j \in Types
        PROVE  /\ IsHistoryOf(sum[j], TallyOfType(j), NextWeek)
               /\ OfType(j) # {} => sum[j].time # 0
               /\ j \notin Added => sum[j].time = 0
    BY DEF ControllerIInv, TypesAreTallied
  <2>2. ASSUME NEW j \in Types
        PROVE  /\ IsHistoryOf(sums[j], TallyOfType(j)', NextWeek)
               /\ \A w \in Weeks : w < NextWeek => Continued(sums[j])[w] = Continued(sum[j])[w]
               /\ j \notin Added => sums[j].time = 0
               /\ sum[j].time # 0 => sums[j].time # 0
    <3>1. CASE j # k
      <4>1. sums[j] = sum[j]
        BY <2>0, <3>1
      <4> HIDE DEF sums
      <4> QED  BY <1>2, <2>1, <3>1, <4>1
    <3>2. CASE j = k
      <4>1. sum[k].time # 0 /\ k \in Added
        BY <1>2, <2>1
      <4>2. sums[k] = RecordVote(sum[k], old, new)
        BY <1>2, <2>0
      <4> DEFINE t2 == TallyOfType(k)'
      <4>3. IsTally(t2) /\ ChangedBy(t2, TallyOfType(k), VoteTally(new), VoteTally(old))
        BY <1>2
      <4> HIDE DEF t2, sums
      <4>4. /\ RecordVote(sum[k], old, new).time = NextWeek
            /\ IsHistoryOf(RecordVote(sum[k], old, new), t2, NextWeek)
            /\ \A w \in Weeks : w < NextWeek => Continued(RecordVote(sum[k], old, new))[w] = Continued(sum[k])[w]
        BY <1>0, <1>2, <2>1, <4>1, <4>3, RecordedVote
      <4> QED  BY <2>0, <3>2, <4>1, <4>2, <4>4 DEF t2
    <3> QED  BY <3>1, <3>2
  <2>3. \A j \in Types : tally2[j] = TallyOfType(j)'
    OBVIOUS
  <2> HIDE DEF sums, tally2
  <2> QED  BY <2>2, <2>3 DEF AreNew
<1>5. \A j \in Types : tally2[j] = TallyOfType(j)'
  OBVIOUS
<1> HIDE DEF sums, tally2
<1>6. /\ sum' \in [Types -> History] /\ type_weight' \in [Types -> TypeHistory]
      /\ total' \in [points : [Weeks -> Int], time : Weeks]
      /\ AreNew(sum', tally2)
      /\ \A j \in Types : sums[j].time # 0 => sum'[j].time # 0
      /\ TypeWeightsAreTimely'
      /\ \A j \in Types, w \in Weeks : w < NextWeek =>
             TypeWeightAt(type_weight'[j], w) = TypeWeightAt(type_weight[j], w)
      /\ \A w \in Weeks : w <= total'.time => total'.points[w] = Total(Added, sum', type_weight', w)
  BY <1>0, <1>4, GetTotalKeeps
<1>7. vote_user_power \in [Users -> Int] /\ power \in Int /\ old.power \in Int
  BY <1>0, <1>2 DEF ControllerTypes, UserVote
<1>8. ControllerTypes'
  <2>1. weight' \in [Gauges -> History]
    BY <1>0, <1>3 DEF ControllerTypes
  <2>2. vote_user_power' \in [Users -> Int]
    BY <1>0, <1>7
  <2> QED  BY <1>0, <1>2, <1>6, <2>1, <2>2 DEF ControllerTypes
<1>9. GaugesAreTallied'
  BY <1>1, <1>3 DEF GaugesAreTallied
<1>10. ASSUME NEW j \in Types
       PROVE  /\ IsHistoryOf(sum'[j], TallyOfType(j)', NextWeek)
              /\ OfType(j)' = OfType(j)
              /\ OfType(j)' # {} => sum'[j].time # 0
              /\ j \notin Added => sum'[j].time = 0
              /\ \A w \in Weeks : w < NextWeek => Continued(sum'[j])[w] = Continued(sum[j])[w]
  <2>1. OfType(j) # {} => sum[j].time # 0
    BY DEF ControllerIInv, TypesAreTallied
  <2>2. /\ IsHistoryOf(sum'[j], TallyOfType(j)', NextWeek)
        /\ \A w \in Weeks : w < NextWeek => Continued(sum'[j])[w] = Continued(sum[j])[w]
        /\ j \notin Added => sum'[j].time = 0
    BY <1>5, <1>6 DEF AreNew
  <2> QED  BY <1>2, <1>4, <1>6, <2>1, <2>2
<1>11. TypesAreTallied'
  BY <1>1, <1>10 DEF TypesAreTallied
<1>12. SumsAddUp'
  <2>1. ASSUME NEW j \in Added, NEW w \in Weeks
        PROVE  Continued(sum'[j])[w].bias = SumFunction([h \in OfType(j)' |-> Continued(weight'[h])[w].bias])
    <3>1. j \in Types
      BY AddedIsFinite
    <3> QED  BY <1>0, <1>3, <1>10, <3>1, TypesAddUp
  <2> QED  BY <1>1, <1>6, <2>1 DEF SumsAddUp, Total, OfType
<1>13. PowersAddUp'
  <2> SUFFICES ASSUME NEW x \in Users
               PROVE  SumFunction([h \in Gauges |-> vote'[x][h].power]) = vote_user_power'[x]
    BY DEF PowersAddUp
  <2> DEFINE f == [h \in Gauges |-> vote[x][h].power]
             f2 == [h \in Gauges |-> vote'[x][h].power]
  <2>0. SumFunction(f) = vote_user_power[x]
    BY DEF ControllerIInv, PowersAddUp
  <2>1. vote \in [Users -> [Gauges -> UserVote]]
    BY <1>0 DEF ControllerTypes
  <2>2. f \in [Gauges -> Int] /\ f2 \in [Gauges -> Int]
    BY <1>2, <2>1 DEF UserVote
  <2>3. CASE x # u
    <3>1. \A h \in Gauges : f2[h] = f[h]
      BY <1>2, <2>1, <2>3
    <3>2. f2 = f
      BY <3>1
    <3>3. vote_user_power'[x] = vote_user_power[x]
      BY <1>0, <1>7, <2>3
    <3> QED  BY <2>0, <3>2, <3>3
  <2>4. CASE x = u
    <3>1. (\A h \in Gauges \ {g} : f2[h] = f[h]) /\ f2[g] = power /\ f[g] = old.power
      BY <1>2, <2>1, <2>4 DEF old
    <3>2. vote_user_power'[x] = vote_user_power[x] + power - old.power
      BY <1>0, <1>7, <2>4
    <3> HIDE DEF f, f2
    <3>3. SumFunction(f2) = SumFunction(f) + f2[g] - f[g]
      BY <2>2, <3>1, SumOneChanged, ControllerAssumption, MiningAssumption
    <3>4. SumFunction(f2) = vote_user_power'[x]
      BY <2>0, <3>1, <3>2, <3>3
    <3> QED  BY <3>4 DEF f2
  <2> QED  BY <2>3, <2>4
<1>14. KeepsPast
  BY <1>0, <1>1, <1>3, <1>6, <1>10 DEF KeepsPast
<1> QED  BY <1>6, <1>8, <1>9, <1>11, <1>12, <1>13, <1>14 DEF ControllerIInv

-----------------------------------------------------------------------------
(* The rest of the steps, and the initial state *)

\* What leaves the histories and the votes alone keeps the invariant, as time passes.
LEMMA StepOutside ==
    ASSUME ControllerIInv, ControllerTypes',
           UNCHANGED <<weight, sum, total, type_weight, vote, vote_user_power, n_gauge_types, gauge_type, initial_weight>>,
           NextWeek <= NextWeek'
    PROVE  ControllerIInv' /\ KeepsPast
<1> DEFINE later == NextWeek'
<1>0. /\ ControllerTypes /\ NextWeek \in Nat /\ NextWeek \in Weeks
      /\ total.time \in Nat /\ total.time <= NextWeek
  BY InvariantTypes, WeekSteps DEF ControllerIInv, TypeWeightsAreTimely, ControllerTypes
<1>1. Added' = Added /\ later \in Nat /\ NextWeek <= later
  <2>1. now' \in Start..Horizon
    BY DEF ControllerTypes
  <2>2. later = ((now' + Week) \div Week) * Week
    BY DEF NextWeek
  <2>3. later \in Nat
    <3> DEFINE x == now' + Week
    <3>1. x \in Nat /\ Week \in Nat \ {0}
      <4>1. Week \in Nat \ {0}
        BY MiningAssumption
      <4>2. Start \in Nat
        BY ControllerAssumption
      <4>3. now' \in Nat
        BY <2>1, <4>2
      <4>4. \A a, b \in Nat : a + b \in Nat
        OBVIOUS
      <4>5. now' + Week \in Nat
        BY <4>1, <4>3, <4>4
      <4> QED  BY <4>1, <4>5
    <3>2. later = (x \div Week) * Week
      BY <2>2
    <3> HIDE DEF x, later
    <3>3. x \div Week \in Int /\ x % Week \in 0..(Week - 1) /\ x = (x \div Week) * Week + (x % Week)
      BY <3>1
    <3> DEFINE q == x \div Week
    <3> HIDE DEF q
    <3>4. q \in Int /\ later = q * Week /\ later \in Int
      BY <3>1, <3>2, <3>3 DEF q
    <3> QED  BY <1>0, <3>4 DEF later
  <2> QED  BY <2>3 DEF Added
<1> HIDE DEF later
<1>2. /\ \A g \in Gauges : TallyOf(g)' = TallyOf(g)
      /\ \A k \in Types : OfType(k)' = OfType(k) /\ TallyOfType(k)' = TallyOfType(k)
  BY SameTallies, SameTypeTallies
<1>3. ASSUME NEW h, NEW t, IsHistoryOf(h, t, NextWeek) PROVE IsHistoryOf(h, t, later)
  BY <1>0, <1>1, <1>3, SameHistory DEF IsHistoryOf
<1>4. GaugesAreTallied'
  <2> SUFFICES ASSUME NEW g \in Gauges
               PROVE  /\ IsHistoryOf(weight'[g], TallyOf(g)', later)
                      /\ gauge_type'[g] # NoType <=> weight'[g].time # 0
    BY DEF GaugesAreTallied, later
  <2>1. IsHistoryOf(weight[g], TallyOf(g), NextWeek) /\ (gauge_type[g] # NoType <=> weight[g].time # 0)
    BY DEF ControllerIInv, GaugesAreTallied
  <2>2. IsHistoryOf(weight[g], TallyOf(g), later)
    BY <1>3, <2>1
  <2> QED  BY <1>2, <2>1, <2>2
<1>5. TypesAreTallied'
  <2> SUFFICES ASSUME NEW k \in Types
               PROVE  /\ IsHistoryOf(sum'[k], TallyOfType(k)', later)
                      /\ OfType(k)' # {} => sum'[k].time # 0
                      /\ k \notin Added => sum'[k].time = 0
    BY <1>1 DEF TypesAreTallied, later
  <2>1. /\ IsHistoryOf(sum[k], TallyOfType(k), NextWeek)
        /\ OfType(k) # {} => sum[k].time # 0
        /\ k \notin Added => sum[k].time = 0
    BY DEF ControllerIInv, TypesAreTallied
  <2>2. IsHistoryOf(sum[k], TallyOfType(k), later)
    BY <1>3, <2>1
  <2> QED  BY <1>2, <2>1, <2>2
<1>6. TypeWeightsAreTimely'
  <2>1. total'.time <= later
    BY <1>0, <1>1
  <2> QED  BY <1>1, <2>1 DEF ControllerIInv, TypeWeightsAreTimely, later
<1>7. SumsAddUp'
  BY <1>1 DEF ControllerIInv, SumsAddUp
<1>8. PowersAddUp'
  BY DEF ControllerIInv, PowersAddUp
<1>9. KeepsPast
  BY <1>1 DEF KeepsPast
<1> QED  BY <1>4, <1>5, <1>6, <1>7, <1>8, <1>9 DEF ControllerIInv

LEMMA StepChangeLock ==
    ASSUME ControllerIInv, NEW u \in Users, NEW new \in Locks, ChangeLock(u, new)
    PROVE  ControllerIInv' /\ KeepsPast
<1>1. /\ lock' = [lock EXCEPT ![u] = new]
      /\ UNCHANGED <<now, weight, sum, total, type_weight, vote, vote_user_power,
                     n_gauge_types, gauge_type, initial_weight>>
  BY DEF ChangeLock, historyVars, voteVars
<1>2. ControllerTypes /\ NextWeek \in Nat
  BY InvariantTypes
<1>3. new.slope \in Nat /\ new.end \in Weeks
  BY ControllerAssumption, MiningAssumption, LastWeekIsLast
<1>4. \A x \in Users : lock'[x] = lock[x] \/ lock'[x] = new
  BY <1>1
<1>5. ControllerTypes'
  BY <1>1, <1>2, <1>3, <1>4 DEF ControllerTypes
<1>6. NextWeek' = NextWeek
  BY <1>1 DEF NextWeek
<1> QED  BY <1>1, <1>2, <1>5, <1>6, StepOutside

LEMMA StepTick ==
    ASSUME ControllerIInv, Tick
    PROVE  ControllerIInv' /\ KeepsPast
<1>1. /\ now < Horizon /\ now' = now + 1
      /\ UNCHANGED <<lock, weight, sum, total, type_weight, vote, vote_user_power,
                     n_gauge_types, gauge_type, initial_weight>>
  BY DEF Tick, historyVars, voteVars
<1>2. ControllerTypes /\ now \in Start..Horizon
  BY InvariantTypes
<1>3. ControllerTypes'
  <2>1. now' \in Start..Horizon
    BY <1>1, <1>2, ControllerAssumption, MiningAssumption
  <2> QED  BY <1>1, <1>2, <2>1 DEF ControllerTypes
<1>4. NextWeek <= NextWeek'
  <2> DEFINE x == now + Week
             d == x \div Week
             m == x % Week
             y == now' + Week
             e == y \div Week
             n == y % Week
  <2>1. x \in Nat /\ y = x + 1 /\ Week \in Nat \ {0}
    BY <1>1, <1>2, ControllerAssumption, MiningAssumption
  <2> HIDE DEF x, y
  <2>2. d \in Int /\ m \in 0..(Week - 1) /\ x = d * Week + m
    BY <2>1
  <2>3. e \in Int /\ n \in 0..(Week - 1) /\ y = e * Week + n
    BY <2>1
  <2>4. NextWeek = d * Week /\ NextWeek' = e * Week
    BY DEF NextWeek, x, y
  <2> HIDE DEF d, m, e, n
  <2>5. ~(e < d)
    <3>1. SUFFICES ASSUME e + 1 <= d PROVE FALSE
      BY <2>2, <2>3
    <3>2. (e + 1) * Week <= d * Week /\ (e + 1) * Week = e * Week + Week
      BY <2>1, <2>2, <2>3, <3>1
    <3> QED  BY <2>1, <2>2, <2>3, <3>2
  <2>6. d * Week <= e * Week
    BY <2>1, <2>2, <2>3, <2>5
  <2> QED  BY <2>4, <2>6
<1> QED  BY <1>1, <1>3, <1>4, StepOutside

LEMMA InitInvariant == ControllerInit => ControllerIInv
<1> SUFFICES ASSUME ControllerInit PROVE ControllerIInv
  OBVIOUS
<1> DEFINE d == Start \div Week
           m == Start % Week
<1>0. /\ now = Start /\ lock = [u \in Users |-> [slope |-> 0, end |-> 0]]
      /\ n_gauge_types = 0 /\ gauge_type = [g \in Gauges |-> NoType]
      /\ weight = [g \in Gauges |-> NoHistory] /\ sum = [k \in Types |-> NoHistory]
      /\ total = [points |-> [w \in Weeks |-> 0], time |-> d * Week]
      /\ type_weight = [k \in Types |-> [points |-> [w \in Weeks |-> 0], time |-> 0]]
      /\ vote = [u \in Users |-> [g \in Gauges |-> [slope |-> 0, power |-> 0, end |-> 0, at |-> -WeightVoteDelay]]]
      /\ vote_user_power = [u \in Users |-> 0] /\ initial_weight = [g \in Gauges |-> 0]
  BY DEF ControllerInit
<1>1. /\ Start \in Nat /\ Horizon \in Nat /\ Start <= Horizon /\ Week \in Nat \ {0} /\ 2 * Week <= Start
      /\ WeightVoteDelay \in Nat /\ IsFiniteSet(Users) /\ IsFiniteSet(Gauges) /\ Types \subseteq Nat
  BY ControllerAssumption, MiningAssumption
<1>2. 0 \in Weeks /\ \A w \in Weeks : w \in Nat
  BY WeekSteps
<1>3. now \in Start..Horizon /\ NextWeek \in Weeks /\ NextWeek \in Nat
  <2>1. now \in Start..Horizon
    BY <1>0, <1>1
  <2> QED  BY <1>2, <2>1, NextWeekIsNext
<1>4. d * Week \in Weeks /\ d * Week <= NextWeek
  <2>1. d \in Int /\ m \in 0..(Week - 1) /\ Start = d * Week + m
    BY <1>1
  <2> HIDE DEF d, m
  <2>2. d * Week \in Int /\ d * Week <= now /\ now - Week < d * Week
    BY <1>0, <1>1, <2>1
  <2>3. d \in Nat
    <3>1. SUFFICES ASSUME d <= -1 PROVE FALSE
      BY <2>1
    <3>2. d * Week <= (-1) * Week
      BY <1>1, <2>1, <3>1
    <3> QED  BY <1>0, <1>1, <2>2, <3>2
  <2>4. d * Week \in Nat /\ (d * Week) % Week = 0
    <3> DEFINE y == d * Week
    <3>1. y \in Nat
      BY <1>0, <1>1, <2>2
    <3>2. y = d * Week
      OBVIOUS
    <3> HIDE DEF y
    <3>3. y % Week = 0
      BY <2>3, <3>1, <3>2, Multiples
    <3> QED  BY <3>1, <3>3 DEF y
  <2>5. NextWeek > now
    BY <1>3, NextWeekIsNext
  <2>6. d * Week <= LastWeek
    BY <1>0, <1>1, <2>2, LastWeekIsLast
  <2> QED  BY <1>0, <1>1, <1>3, <2>2, <2>4, <2>5, <2>6, LastWeekIsLast DEF Weeks
<1> HIDE DEF d
<1>5. NoHistory \in History /\ NoHistory.time = 0 /\ \A w \in Weeks : NoHistory.points[w] = NoPoint
  BY <1>2 DEF NoHistory, History, NoPoint, Point
<1>6. \A u \in Users, g \in Gauges : vote[u][g] \in UserVote /\ vote[u][g].slope = 0 /\ vote[u][g].power = 0
  BY <1>0, <1>1, <1>2 DEF UserVote
<1>7. ControllerTypes
  <2>1. vote \in [Users -> [Gauges -> UserVote]]
    BY <1>0, <1>1, <1>2 DEF UserVote
  <2>2. total \in [points : [Weeks -> Int], time : Weeks]
    BY <1>0, <1>4
  <2>3. type_weight \in [Types -> TypeHistory]
    BY <1>0, <1>2 DEF TypeHistory
  <2>4. weight \in [Gauges -> History] /\ sum \in [Types -> History]
    BY <1>0, <1>5
  <2> QED  BY <1>0, <1>2, <1>3, <2>1, <2>2, <2>3, <2>4 DEF ControllerTypes
<1>8. Added = {}
  <2>1. \A k \in Types : ~(k < n_gauge_types)
    <3> SUFFICES ASSUME NEW k \in Types PROVE ~(k < n_gauge_types)
      OBVIOUS
    <3>1. k \in Nat /\ n_gauge_types = 0
      BY <1>0, <1>1
    <3> QED  BY <3>1
  <2> QED  BY <2>1 DEF Added
<1>9. ASSUME NEW g \in Gauges PROVE IsTally(TallyOf(g)) /\ Nothing(TallyOf(g))
  <2> DEFINE t == [u \in Users |-> VoteTally(vote[u][g])]
             s == SumTally(Users, t)
  <2>1. ASSUME NEW u \in Users, NEW w \in Weeks
        PROVE  t[u].bias[w] = 0 /\ t[u].slope[w] = 0 /\ t[u].ending[w] = 0
    <3>1. vote[u][g].slope = 0 /\ vote[u][g].end \in Int /\ w \in Int
      BY <1>2, <1>6 DEF UserVote
    <3>2. AtLeastZero(vote[u][g].end - w) \in Int
      BY <3>1 DEF AtLeastZero
    <3>3. t[u] = VoteTally(vote[u][g])
      OBVIOUS
    <3> HIDE DEF t
    <3> QED  BY <3>1, <3>2, <3>3 DEF VoteTally
  <2> HIDE DEF t
  <2>2. Nothing(s)
    <3> SUFFICES ASSUME NEW w \in Weeks PROVE s.bias[w] = 0 /\ s.slope[w] = 0 /\ s.ending[w] = 0
      BY DEF Nothing
    <3>1. /\ s.bias[w] = SumFunction([u \in Users |-> t[u].bias[w]])
          /\ s.slope[w] = SumFunction([u \in Users |-> t[u].slope[w]])
          /\ s.ending[w] = SumFunction([u \in Users |-> t[u].ending[w]])
      BY DEF SumTally
    <3> DEFINE z == [u \in Users |-> 0]
    <3>2. /\ [u \in Users |-> t[u].bias[w]] = z /\ [u \in Users |-> t[u].slope[w]] = z
          /\ [u \in Users |-> t[u].ending[w]] = z
      BY <2>1
    <3>3. z \in [Users -> Int] /\ \A u \in Users : z[u] = 0
      OBVIOUS
    <3> HIDE DEF z
    <3>4. SumFunction(z) = 0
      BY <1>1, <3>3, SumOfNone
    <3> QED  BY <3>1, <3>2, <3>4
  <2>3. TallyOf(g) = Raised(0, s)
    BY <1>0 DEF TallyOf, t
  <2> HIDE DEF s
  <2>4. Nothing(TallyOf(g))
    BY <2>2, <2>3 DEF Nothing, Raised
  <2> QED  BY <1>7, <2>4, TalliesAreVotes
<1>10. GaugesAreTallied
  <2> SUFFICES ASSUME NEW g \in Gauges
               PROVE  /\ IsHistoryOf(weight[g], TallyOf(g), NextWeek)
                      /\ gauge_type[g] # NoType <=> weight[g].time # 0
    BY DEF GaugesAreTallied
  <2>1. weight[g] = NoHistory /\ gauge_type[g] = NoType
    BY <1>0
  <2>2. 0 <= NextWeek
    BY <1>3
  <2> QED  BY <1>5, <1>9, <2>1, <2>2 DEF IsHistoryOf
<1>11. TypesAreTallied
  <2> SUFFICES ASSUME NEW k \in Types
               PROVE  /\ IsHistoryOf(sum[k], TallyOfType(k), NextWeek)
                      /\ OfType(k) # {} => sum[k].time # 0
                      /\ k \notin Added => sum[k].time = 0
    BY DEF TypesAreTallied
  <2>1. sum[k] = NoHistory
    BY <1>0
  <2>2. OfType(k) = {}
    BY <1>0, <1>1 DEF OfType, NoType
  <2>3. IsTally(TallyOfType(k))
    BY <1>7, TypesAreTallies
  <2>4. Nothing(TallyOfType(k))
    <3> SUFFICES ASSUME NEW w \in Weeks
                 PROVE  TallyOfType(k).bias[w] = 0 /\ TallyOfType(k).slope[w] = 0 /\ TallyOfType(k).ending[w] = 0
      BY DEF Nothing
    <3> DEFINE none == [x \in {} |-> 0]
    <3>1. /\ [g \in {} |-> Tallies[g].bias[w]] = none /\ [g \in {} |-> Tallies[g].slope[w]] = none
          /\ [g \in {} |-> Tallies[g].ending[w]] = none
      OBVIOUS
    <3>2. none \in [{} -> Int] /\ IsFiniteSet({})
      BY FS_EmptySet
    <3> HIDE DEF none
    <3>3. SumFunction(none) = 0
      BY <3>2, SumOfNone
    <3>4. TallyOfType(k) = SumTally({}, Tallies)
      BY <2>2 DEF TallyOfType
    <3> QED  BY <3>1, <3>3, <3>4 DEF SumTally
  <2>5. 0 <= NextWeek
    BY <1>3
  <2> QED  BY <1>5, <2>1, <2>2, <2>3, <2>4, <2>5 DEF IsHistoryOf
<1>12. TypeWeightsAreTimely
  BY <1>0, <1>4 DEF TypeWeightsAreTimely
<1>13. SumsAddUp
  <2>1. ASSUME NEW w \in Weeks
        PROVE  total.points[w] = SumFunction([k \in Added |-> Continued(sum[k])[w].bias * type_weight[k].points[w]])
    <3> DEFINE f == [k \in Added |-> Continued(sum[k])[w].bias * type_weight[k].points[w]]
    <3>1. f \in [Added -> Int] /\ \A k \in Added : f[k] = 0
      BY <1>8
    <3> HIDE DEF f
    <3>2. SumFunction(f) = 0
      BY <3>1, AddedIsFinite, SumOfNone
    <3> QED  BY <1>0, <3>2 DEF f
  <2> QED  BY <1>8, <2>1 DEF SumsAddUp
<1>14. PowersAddUp
  <2> SUFFICES ASSUME NEW u \in Users PROVE SumFunction([g \in Gauges |-> vote[u][g].power]) = vote_user_power[u]
    BY DEF PowersAddUp
  <2> DEFINE f == [g \in Gauges |-> vote[u][g].power]
  <2>1. f \in [Gauges -> Int] /\ \A g \in Gauges : f[g] = 0
    BY <1>6
  <2> HIDE DEF f
  <2>2. SumFunction(f) = 0
    BY <1>1, <2>1, SumOfNone
  <2> QED  BY <1>0, <2>2 DEF f
<1> QED  BY <1>7, <1>10, <1>11, <1>12, <1>13, <1>14 DEF ControllerIInv

-----------------------------------------------------------------------------
(* The weeks that have begun *)

LEMMA NothingShared ==
    ASSUME NEW n \in Nat \ {0}
    PROVE  0 \div n = 0
<1> DEFINE q == 0 \div n
           r == 0 % n
<1>1. q \in Int /\ r \in 0..(n - 1) /\ 0 = q * n + r
  OBVIOUS
<1> HIDE DEF q, r
<1>2. ~(q <= -1)
  <2>1. SUFFICES ASSUME q <= -1 PROVE FALSE
    OBVIOUS
  <2>2. q * n <= (-1) * n
    BY <1>1, <2>1
  <2> QED  BY <1>1, <2>2
<1>3. ~(q >= 1)
  <2>1. SUFFICES ASSUME q >= 1 PROVE FALSE
    OBVIOUS
  <2>2. q * n >= 1 * n
    BY <1>1, <2>1
  <2> QED  BY <1>1, <2>2
<1> QED  BY <1>1, <1>2, <1>3 DEF q

\* What a week's shares are computed from, when all is filled in.
OfAllTypes(w) == SumFunction([k \in Added |-> Continued(sum[k])[w].bias * TypeWeightAt(type_weight[k], w)])
FinalShare(g, w) ==
    IF OfAllTypes(w) = 0 \/ gauge_type[g] = NoType THEN 0
    ELSE (Multiplier * TypeWeightAt(type_weight[gauge_type[g]], w) * Continued(weight[g])[w].bias)
             \div OfAllTypes(w)

\* Gauges have the types that were added.
LEMMA TypesOfGauges ==
    ASSUME ControllerIInv, NEW g \in Gauges, gauge_type[g] # NoType
    PROVE  gauge_type[g] \in Added
<1>1. gauge_type[g] \in Types /\ g \in OfType(gauge_type[g])
  BY DEF ControllerIInv, ControllerTypes, OfType
<1> QED  BY <1>1 DEF ControllerIInv, TypesAreTallied

\* What was never recorded has no weight.
LEMMA UnrecordedIsNothing ==
    ASSUME NEW h, NEW t, NEW last, IsHistoryOf(h, t, last), h.time = 0, NEW w \in Weeks
    PROVE  Continued(h)[w].bias = 0
<1>1. Continued(h) = h.points /\ h = NoHistory
  BY HistoryContinues
<1> QED  BY <1>1 DEF NoHistory, NoPoint

LEMMA TypeWeightIsNat ==
    ASSUME NEW h \in TypeHistory, NEW w \in Weeks
    PROVE  TypeWeightAt(h, w) \in Nat
<1>1. h.time \in Weeks /\ h.time \in Nat /\ w \in Nat
  BY WeekSteps DEF TypeHistory
<1>2. Min({w, h.time}) \in Weeks
  BY <1>1, MinOfTwo
<1> QED  BY <1>2 DEF TypeWeightAt, TypeHistory

LEMMA SharesAreKept ==
    ASSUME ControllerIInv, ControllerIInv', KeepsPast, NEW w \in Weeks, w < NextWeek
    PROVE  /\ OfAllTypes(w)' = OfAllTypes(w)
           /\ \A g \in Gauges : FinalShare(g, w)' = FinalShare(g, w)
<1> DEFINE Term(k) == Continued(sum[k])[w].bias * TypeWeightAt(type_weight[k], w)
           Term2(k) == Continued(sum'[k])[w].bias * TypeWeightAt(type_weight'[k], w)
           f == [k \in Added |-> Term(k)]
           f2 == [k \in Added' |-> Term2(k)]
<1>0. IsFiniteSet(Added) /\ Added \subseteq Types /\ Added' \subseteq Types
  BY AddedIsFinite DEF Added
<1>1. ASSUME NEW k \in Types
      PROVE  /\ Continued(sum'[k])[w].bias = Continued(sum[k])[w].bias
             /\ TypeWeightAt(type_weight'[k], w) = TypeWeightAt(type_weight[k], w)
             /\ Continued(sum[k])[w].bias \in Nat /\ TypeWeightAt(type_weight[k], w) \in Nat
             /\ k \notin Added => Continued(sum[k])[w].bias = 0
  <2>1. IsHistoryOf(sum[k], TallyOfType(k), NextWeek) /\ (k \notin Added => sum[k].time = 0)
    BY DEF ControllerIInv, TypesAreTallied
  <2>2. Continued(sum[k]) \in [Weeks -> Point]
    BY <2>1, HistoryContinues
  <2>3. Continued(sum[k])[w].bias \in Nat
    BY <2>2 DEF Point
  <2>4. type_weight[k] \in TypeHistory
    BY DEF ControllerIInv, ControllerTypes
  <2>5. TypeWeightAt(type_weight[k], w) \in Nat
    BY <2>4, TypeWeightIsNat
  <2>6. k \notin Added => Continued(sum[k])[w].bias = 0
    BY <2>1, UnrecordedIsNothing
  <2>7. /\ Continued(sum'[k])[w] = Continued(sum[k])[w]
        /\ TypeWeightAt(type_weight'[k], w) = TypeWeightAt(type_weight[k], w)
    BY DEF KeepsPast
  <2> QED  BY <2>3, <2>5, <2>6, <2>7
<1>2. ASSUME NEW k \in Types
      PROVE  Term2(k) = Term(k) /\ Term(k) \in Nat /\ (k \notin Added => Term(k) = 0)
  BY <1>1
<1>3. OfAllTypes(w) = SumFunction(f) /\ OfAllTypes(w)' = SumFunction(f2)
  BY DEF OfAllTypes
<1> HIDE DEF Term, Term2
<1>4. f \in [Added -> Nat] /\ f2 \in [Added' -> Nat]
  BY <1>0, <1>2
<1>5. SumFunction(f) \in Nat
  BY <1>0, <1>4, SumOfNats
<1>6. SumFunction(f2) = SumFunction(f)
  <2>1. CASE Added' = Added
    <3>1. f2 = f
      BY <1>0, <1>2, <2>1
    <3> QED  BY <3>1
  <2>2. ASSUME NEW k \in Types \ Added, Added' = Added \cup {k} PROVE SumFunction(f2) = SumFunction(f)
    <3> DEFINE R == Added \cup {k}
               e == [j \in R |-> Term2(j)]
    <3>1. f2 = e
      BY <2>2
    <3>2. /\ f \in [Added -> Int] /\ e \in [R -> Int] /\ \A j \in Added : e[j] = f[j]
          /\ e[k] = 0
      BY <1>0, <1>2
    <3>3. k \notin Added /\ k \in R /\ R \ {k} = Added
      OBVIOUS
    <3> HIDE DEF R, e, f, f2
    <3>4. SumFunction(e) = SumFunction(f) + e[k]
      BY <1>0, <3>2, <3>3, SumOneMore
    <3> QED  BY <1>5, <3>1, <3>2, <3>4
  <2> QED  BY <2>1, <2>2 DEF KeepsPast
<1> HIDE DEF f, f2
<1>7. OfAllTypes(w)' = OfAllTypes(w) /\ OfAllTypes(w) \in Nat
  BY <1>3, <1>5, <1>6
<1>8. ASSUME NEW g \in Gauges PROVE FinalShare(g, w)' = FinalShare(g, w)
  <2> DEFINE n == OfAllTypes(w)
             k == gauge_type[g]
             k2 == gauge_type'[g]
             b == Continued(weight[g])[w].bias
             b2 == Continued(weight'[g])[w].bias
             a == TypeWeightAt(type_weight[k], w)
             a2 == TypeWeightAt(type_weight'[k2], w)
  <2>1. /\ FinalShare(g, w) = IF n = 0 \/ k = NoType THEN 0 ELSE (Multiplier * a * b) \div n
        /\ FinalShare(g, w)' = IF n = 0 \/ k2 = NoType THEN 0 ELSE (Multiplier * a2 * b2) \div n
    BY <1>7 DEF FinalShare
  <2>2. b2 = b
    BY DEF KeepsPast
  <2>3. CASE k2 = k
    <3>1. CASE k = NoType
      BY <2>1, <2>3, <3>1
    <3>2. CASE k # NoType
      <4>1. k \in Types
        BY <3>2 DEF ControllerIInv, ControllerTypes
      <4>2. a2 = a
        BY <1>1, <2>3, <4>1
      <4> HIDE DEF n, k, k2, a, a2, b, b2
      <4> QED  BY <2>1, <2>2, <2>3, <4>2
    <3> QED  BY <3>1, <3>2
  <2>4. CASE k2 # k
    <3>1. k = NoType /\ k2 \in Added'
      BY <2>4 DEF KeepsPast
    <3>2. k2 \in Types
      BY <1>0, <3>1
    <3>3. a2 \in Nat
      BY <1>1, <3>2
    <3>4. b2 = 0
      <4>1. IsHistoryOf(weight[g], TallyOf(g), NextWeek) /\ weight[g].time = 0
        BY <3>1 DEF ControllerIInv, GaugesAreTallied
      <4> QED  BY <2>2, <4>1, UnrecordedIsNothing
    <3>5. n \in Nat /\ Multiplier \in Nat
      BY <1>7, ControllerAssumption, MiningAssumption
    <3> HIDE DEF n, k, k2, a, a2, b, b2
    <3>6. Multiplier * a2 * b2 = 0
      BY <3>3, <3>4, <3>5
    <3>7. n # 0 => (Multiplier * a2 * b2) \div n = 0
      BY <3>5, <3>6, NothingShared
    <3> QED  BY <2>1, <3>1, <3>7
  <2> QED  BY <2>3, <2>4
<1> QED  BY <1>7, <1>8

LEMMA PastIsKept ==
    ASSUME ControllerIInv, ControllerIInv', KeepsPast, NEW weeks, weeks \subseteq Weeks,
           \A w \in weeks : w < NextWeek
    PROVE  FinalWeights(weeks)' = FinalWeights(weeks)
<1>1. /\ \A g \in Gauges : gauge_type[g] # NoType => gauge_type[g] \in Added
      /\ \A g \in Gauges : gauge_type'[g] # NoType => gauge_type'[g] \in Added'
  <2>1. ASSUME NEW g \in Gauges, gauge_type'[g] # NoType PROVE gauge_type'[g] \in Added'
    <3>1. gauge_type'[g] \in Types /\ g \in OfType(gauge_type[g])'
      BY <2>1 DEF ControllerIInv, ControllerTypes, OfType
    <3> QED  BY <3>1 DEF ControllerIInv, TypesAreTallied
  <2> QED  BY <2>1, TypesOfGauges
<1> DEFINE a == [k \in Added |-> [w \in weeks |-> TypeWeightAt(type_weight[k], w)]]
           s == [k \in Added |-> Continued(sum[k])]
           all == [w \in weeks |-> SumFunction([k \in Added |-> s[k][w].bias * a[k][w]])]
<1>2. \A w \in weeks : all[w] = OfAllTypes(w) /\ all'[w] = OfAllTypes(w)'
  BY DEF OfAllTypes
<1>3. /\ FinalWeights(weeks) = [g \in Gauges |-> [w \in weeks |->
             IF all[w] = 0 \/ gauge_type[g] = NoType THEN 0
             ELSE (Multiplier * a[gauge_type[g]][w] * Continued(weight[g])[w].bias) \div all[w]]]
      /\ FinalWeights(weeks)' = [g \in Gauges |-> [w \in weeks |->
             IF all'[w] = 0 \/ gauge_type'[g] = NoType THEN 0
             ELSE (Multiplier * a'[gauge_type'[g]][w] * Continued(weight'[g])[w].bias) \div all'[w]]]
  BY DEF FinalWeights, TypeWeightAt
<1>4. /\ \A k \in Added, w \in weeks : a[k][w] = TypeWeightAt(type_weight[k], w)
      /\ \A k \in Added', w \in weeks : a'[k][w] = TypeWeightAt(type_weight'[k], w)
  OBVIOUS
<1> HIDE DEF a, s, all
<1>5. ASSUME NEW g \in Gauges, NEW w \in weeks
      PROVE  (IF all[w] = 0 \/ gauge_type[g] = NoType THEN 0
              ELSE (Multiplier * a[gauge_type[g]][w] * Continued(weight[g])[w].bias) \div all[w]) = FinalShare(g, w)
  <2>1. CASE gauge_type[g] = NoType
    BY <2>1 DEF FinalShare
  <2>2. CASE gauge_type[g] # NoType
    <3>1. a[gauge_type[g]][w] = TypeWeightAt(type_weight[gauge_type[g]], w) /\ all[w] = OfAllTypes(w)
      BY <1>1, <1>2, <1>4, <2>2
    <3> QED  BY <2>2, <3>1 DEF FinalShare
  <2> QED  BY <2>1, <2>2
<1>6. ASSUME NEW g \in Gauges, NEW w \in weeks
      PROVE  (IF all'[w] = 0 \/ gauge_type'[g] = NoType THEN 0
              ELSE (Multiplier * a'[gauge_type'[g]][w] * Continued(weight'[g])[w].bias) \div all'[w]) = FinalShare(g, w)'
  <2>1. CASE gauge_type'[g] = NoType
    BY <2>1 DEF FinalShare
  <2>2. CASE gauge_type'[g] # NoType
    <3>1. a'[gauge_type'[g]][w] = TypeWeightAt(type_weight'[gauge_type'[g]], w) /\ all'[w] = OfAllTypes(w)'
      BY <1>1, <1>2, <1>4, <2>2
    <3> QED  BY <2>2, <3>1 DEF FinalShare
  <2> QED  BY <2>1, <2>2
<1>7. \A g \in Gauges, w \in weeks : FinalShare(g, w)' = FinalShare(g, w)
  BY SharesAreKept
<1> QED  BY <1>3, <1>5, <1>6, <1>7

-----------------------------------------------------------------------------
(* Theorems *)

LEMMA StepKeeps ==
    ASSUME ControllerIInv, ControllerNext
    PROVE  ControllerIInv' /\ KeepsPast
<1>1. ASSUME NEW initial \in TypeWeights, AddType(initial) PROVE ControllerIInv' /\ KeepsPast
  BY <1>1, StepAddType
<1>2. ASSUME NEW k \in Types, NEW new \in TypeWeights, ChangeWeightOfType(k, new) PROVE ControllerIInv' /\ KeepsPast
  BY <1>2, StepChangeWeightOfType
<1>3. ASSUME NEW g \in Gauges, NEW k \in Types, NEW initial \in GaugeWeights, AddGauge(g, k, initial)
      PROVE  ControllerIInv' /\ KeepsPast
  BY <1>3, StepAddGauge
<1>4. ASSUME NEW gauges, CheckpointController(gauges) PROVE ControllerIInv' /\ KeepsPast
  BY <1>4, StepCheckpoint
<1>5. ASSUME NEW u \in Users, NEW g \in Gauges, NEW power \in Powers, Vote(u, g, power)
      PROVE  ControllerIInv' /\ KeepsPast
  BY <1>5, StepVote
<1>6. ASSUME NEW u \in Users, NEW new \in Locks, ChangeLock(u, new) PROVE ControllerIInv' /\ KeepsPast
  BY <1>6, StepChangeLock
<1>7. CASE Tick
  BY <1>7, StepTick
<1> QED  BY <1>1, <1>2, <1>3, <1>4, <1>5, <1>6, <1>7 DEF ControllerNext

LEMMA StutterKeeps ==
    ASSUME ControllerIInv, UNCHANGED controllerVars
    PROVE  ControllerIInv' /\ KeepsPast
<1>1. /\ UNCHANGED <<now, lock>>
      /\ UNCHANGED <<weight, sum, total, type_weight, vote, vote_user_power, n_gauge_types, gauge_type, initial_weight>>
  BY DEF controllerVars, lockVars, historyVars, voteVars
<1>2. ControllerTypes /\ NextWeek \in Nat
  BY InvariantTypes
<1>3. ControllerTypes' /\ NextWeek' = NextWeek
  BY <1>1, <1>2 DEF ControllerTypes, NextWeek
<1> QED  BY <1>1, <1>2, <1>3, StepOutside

\* At all times, every recorded history is that of the votes cast, whenever it was last
\* filled in, and no step changes a week that has begun.
THEOREM ControllerInvariance == ControllerSpec => []ControllerIInv
<1>1. ControllerIInv /\ [ControllerNext]_controllerVars => ControllerIInv'
  BY StepKeeps, StutterKeeps
<1> QED  BY <1>1, InitInvariant, PTL DEF ControllerSpec

\* A gauge's weight is that of the votes cast for it, however votes are changed, locks
\* lapse and weeks are missed, and the powers that a user has voted with add up to what
\* the contract holds against further votes.
THEOREM WeightsAreTheVotes == ControllerSpec => []WeightsAreVotes
BY ControllerInvariance, TalliedIsVoted, PTL

\* The sum of a type is that of its gauges at every week, and the total that of the
\* types, although each is filled in by another call.
THEOREM WeightsAddUp == ControllerSpec => []SumsAddUp
<1>1. ControllerIInv => SumsAddUp
  BY DEF ControllerIInv
<1> QED  BY <1>1, ControllerInvariance, PTL

\* The relative weights of the weeks that have begun are final: no vote, no new gauge and
\* no new weight of a type changes what the emissions of those weeks are computed from.
THEOREM PastWeightsAreFinal == ControllerSpec => PastIsFinal
<1>1. ASSUME ControllerIInv, ControllerIInv', [ControllerNext]_controllerVars
      PROVE  [\A begun \in {Begun} : FinalWeights(begun)' = FinalWeights(begun)]_controllerVars
  <2>1. KeepsPast
    BY <1>1, StepKeeps, StutterKeeps
  <2>2. ASSUME NEW begun, begun = Begun PROVE FinalWeights(begun)' = FinalWeights(begun)
    <3>1. now \in Start..Horizon /\ NextWeek \in Nat /\ \A w \in Weeks : w \in Nat
      BY <1>1, InvariantTypes
    <3>2. begun \subseteq Weeks /\ \A w \in begun : w < NextWeek
      <4>1. NextWeek > now /\ now \in Nat
        BY <3>1, NextWeekIsNext, ControllerAssumption, MiningAssumption
      <4> QED  BY <2>2, <3>1, <4>1 DEF Begun
    <3> QED  BY <1>1, <2>1, <3>2, PastIsKept
  <2> QED  BY <2>2
<1> QED  BY <1>1, ControllerInvariance, PTL DEF ControllerSpec, PastIsFinal

-----------------------------------------------------------------------------
(* What the checkpointer of stakeless gauges reads *)

\* A gauge is filled in with the total, unless it has no weight, and the total of what
\* is not filled in is zero.
TotalIsTimely ==
    /\ \A g \in Gauges : weight[g].time <= total.time \/ \A w \in Weeks : weight[g].points[w].bias = 0
    /\ \A w \in Weeks : w > total.time => total.points[w] = 0

\* Gauges are checkpointed for weeks that are over.
PeriodsAreOver ==
    /\ listed \subseteq Gauges
    /\ gauge = [g \in Gauges |-> gauge[g]]
    /\ \A g \in Gauges : "period" \in DOMAIN gauge[g] /\ gauge[g].period \in Int /\ gauge[g].period <= CurrentPeriod

EmissionsIInv == ControllerIInv /\ TotalIsTimely /\ PeriodsAreOver

\* The week for which the checkpointer asks.
LEMMA LastWeekOverIsOver ==
    ASSUME now \in Start..Horizon
    PROVE  /\ LastWeekOver \in Weeks /\ LastWeekOver < NextWeek
           /\ (LastWeekOver \div Week) * Week = LastWeekOver
           /\ CurrentPeriod \in Nat /\ CurrentPeriod >= 1
<1> DEFINE d == now \div Week
           m == now % Week
           x == (d - 1) * Week
<1>0. /\ Week \in Nat \ {0} /\ now \in Nat /\ 2 * Week <= now /\ now <= Horizon /\ Horizon \in Nat
      /\ NextWeek \in Nat /\ NextWeek > now
  BY NextWeekIsNext, WeekSteps, ControllerAssumption, MiningAssumption
<1>1. d \in Int /\ m \in 0..(Week - 1) /\ now = d * Week + m
  BY <1>0
<1>2. LastWeekOver = x /\ CurrentPeriod = d - 1
  BY DEF LastWeekOver, CurrentPeriod
<1> HIDE DEF d, m
<1>3. d >= 2
  <2>1. SUFFICES ASSUME d <= 1 PROVE FALSE
    BY <1>1
  <2>2. d * Week <= 1 * Week
    BY <1>0, <1>1, <2>1
  <2> QED  BY <1>0, <1>1, <2>2
<1>4. x = d * Week - Week /\ d * Week \in Int
  BY <1>0, <1>1
<1>5. d * Week >= 2 * Week
  BY <1>0, <1>1, <1>3
<1>6. x \in Nat /\ x <= now /\ x < NextWeek /\ x <= Horizon + Week
  BY <1>0, <1>1, <1>4, <1>5
<1>7. x % Week = 0
  <2> DEFINE p == d - 1
  <2>1. p \in Nat /\ x = p * Week
    BY <1>1, <1>3
  <2> HIDE DEF x, p
  <2> QED  BY <1>6, <2>1, Multiples
<1> HIDE DEF x
<1>8. (x \div Week) * Week = x
  <2> DEFINE e == x \div Week
  <2>1. e \in Int /\ x = e * Week + (x % Week)
    BY <1>0, <1>6
  <2> HIDE DEF e
  <2>2. e * Week = x
    BY <1>0, <1>6, <1>7, <2>1
  <2> QED  BY <2>2 DEF e
<1>9. x \in Weeks
  <2>1. x <= LastWeek /\ LastWeek \in Nat
    BY <1>0, <1>6, LastWeekIsLast
  <2> QED  BY <1>6, <1>7, <2>1 DEF Weeks
<1> QED  BY <1>1, <1>2, <1>3, <1>6, <1>8, <1>9

\* The weights of types are read as they will be filled in.
LEMMA TypeWeightsRead ==
    ASSUME ControllerIInv, NEW k \in Types, NEW w \in Weeks, w < NextWeek
    PROVE  /\ FilledTypeWeights[k].points[w] = TypeWeightAt(type_weight[k], w)
           /\ w <= total.time => type_weight[k].points[w] = TypeWeightAt(type_weight[k], w)
           /\ TypeWeightAt(type_weight[k], w) \in Nat
<1>0. /\ now \in Start..Horizon /\ w \in Nat /\ 0 \in Weeks
      /\ type_weight[k] \in TypeHistory /\ type_weight[k].time <= NextWeek
      /\ FilledTypeWeights[k] = FilledTypeWeight(type_weight[k])
      /\ type_weight[k].time = 0 => \A v \in Weeks : type_weight[k].points[v] = 0
      /\ type_weight[k].time # 0 => type_weight[k].time = total.time
  BY InvariantTypes, RecordedAreNew, FilledSumsAndWeights, WeekSteps DEF ControllerIInv, TypeWeightsAreTimely
<1>1. type_weight[k].time \in Nat /\ type_weight[k].time \in Weeks
  BY <1>0, WeekSteps DEF TypeHistory
<1>2. Min({w, type_weight[k].time}) = IF w <= type_weight[k].time THEN w ELSE type_weight[k].time
  BY <1>0, <1>1, MinOfTwo
<1>3. TypeWeightAt(type_weight[k], w) \in Nat
  BY <1>0, TypeWeightIsNat
<1>4. CASE type_weight[k].time = 0
  <2>1. FilledTypeWeight(type_weight[k]) = type_weight[k]
    BY <1>4 DEF FilledTypeWeight
  <2>2. TypeWeightAt(type_weight[k], w) = 0
    BY <1>0, <1>2, <1>4 DEF TypeWeightAt
  <2> QED  BY <1>0, <1>3, <1>4, <2>1, <2>2
<1>5. CASE type_weight[k].time # 0
  <2>1. FilledTypeWeight(type_weight[k]).points[w] = TypeWeightAt(type_weight[k], w)
    BY <1>0, <1>5, FilledType
  <2>2. w <= total.time => type_weight[k].points[w] = TypeWeightAt(type_weight[k], w)
    BY <1>0, <1>2, <1>5 DEF TypeWeightAt
  <2> QED  BY <1>0, <1>3, <2>1, <2>2
<1> QED  BY <1>4, <1>5

\* So is the total.
LEMMA TotalsRead ==
    ASSUME ControllerIInv, NEW w \in Weeks, w < NextWeek
    PROVE  /\ FilledTotal(sum).points[w] = OfAllTypes(w)
           /\ w <= total.time => total.points[w] = OfAllTypes(w)
           /\ OfAllTypes(w) \in Nat
<1> DEFINE tally == [k \in Types |-> TallyOfType(k)]
           F == FilledSums(sum)
           T == FilledTypeWeights
           term(k) == Continued(sum[k])[w].bias * TypeWeightAt(type_weight[k], w)
<1>0. /\ AreNew(sum, tally) /\ w \in Nat /\ NextWeek \in Nat /\ w <= NextWeek
  BY RecordedAreNew, InvariantTypes
<1>1. /\ FilledTotal(sum).points[w] = Total(Added, F, T, w)
      /\ \A k \in Types : Continued(F[k]) = Continued(sum[k])
  BY <1>0, FilledTotalIs, FilledSumsAndWeights
<1>2. ASSUME NEW k \in Added
      PROVE  /\ Continued(F[k])[w].bias * T[k].points[w] = term(k)
             /\ w <= total.time => Continued(sum[k])[w].bias * type_weight[k].points[w] = term(k)
             /\ term(k) \in Nat
  <2>1. k \in Types
    BY AddedIsFinite
  <2>2. Continued(F[k]) = Continued(sum[k])
    BY <1>1, <2>1
  <2>3. /\ T[k].points[w] = TypeWeightAt(type_weight[k], w)
        /\ w <= total.time => type_weight[k].points[w] = TypeWeightAt(type_weight[k], w)
        /\ TypeWeightAt(type_weight[k], w) \in Nat
    BY <2>1, TypeWeightsRead
  <2>4. Continued(sum[k])[w].bias \in Nat
    <3>1. Continued(sum[k]) \in [Weeks -> Point]
      BY <1>0, <2>1, HistoryContinues DEF AreNew
    <3> QED  BY <3>1 DEF Point
  <2> QED  BY <2>2, <2>3, <2>4
<1> DEFINE f == [k \in Added |-> term(k)]
<1>3. OfAllTypes(w) = SumFunction(f)
  BY DEF OfAllTypes
<1> HIDE DEF term, F, T
<1>4. [k \in Added |-> Continued(F[k])[w].bias * T[k].points[w]] = f
  BY <1>2
<1>5. w <= total.time => [k \in Added |-> Continued(sum[k])[w].bias * type_weight[k].points[w]] = f
  BY <1>2
<1>6. f \in [Added -> Nat]
  BY <1>2
<1> HIDE DEF f
<1>7. SumFunction(f) \in Nat
  BY <1>6, AddedIsFinite, SumOfNats
<1>8. w <= total.time => total.points[w] = SumFunction(f)
  BY <1>5 DEF ControllerIInv, SumsAddUp
<1> QED  BY <1>1, <1>3, <1>4, <1>7, <1>8 DEF Total

\* What the checkpointer reads is the share that it would read if all was filled in.
LEMMA ReadsAreShares ==
    ASSUME ControllerIInv, TotalIsTimely, NEW g \in Gauges
    PROVE  /\ FilledRelativeWeight(g, LastWeekOver) = FinalShare(g, LastWeekOver)
           /\ ~NeedsFilling(g) => RelativeWeight(g, LastWeekOver) = FinalShare(g, LastWeekOver)
<1> DEFINE w == LastWeekOver
           k == gauge_type[g]
           n == OfAllTypes(w)
           a == TypeWeightAt(type_weight[k], w)
           b == Continued(weight[g])[w].bias
<1>0. /\ ControllerTypes /\ now \in Start..Horizon /\ w \in Weeks /\ w < NextWeek /\ w \in Nat
      /\ (w \div Week) * Week = w /\ Multiplier \in Nat /\ NextWeek \in Nat /\ w <= NextWeek
  BY InvariantTypes, LastWeekOverIsOver, ControllerAssumption, MiningAssumption
<1>1. /\ FilledTotal(sum).points[w] = n
      /\ w <= total.time => total.points[w] = n
      /\ n \in Nat
  BY <1>0, TotalsRead
<1>2. /\ IsHistoryOf(weight[g], TallyOf(g), NextWeek)
      /\ weight \in [Gauges -> History]
  BY <1>0 DEF ControllerIInv, GaugesAreTallied, ControllerTypes
<1>3. /\ Filled(weight[g]).points[w] = Continued(weight[g])[w]
      /\ w <= weight[g].time => weight[g].points[w] = Continued(weight[g])[w]
      /\ b \in Nat
  <2>1. Filled(weight[g]).points[w] = Continued(weight[g])[w]
    BY <1>0, <1>2, FilledHistory
  <2>2. /\ w <= weight[g].time => weight[g].points[w] = Continued(weight[g])[w]
        /\ Continued(weight[g]) \in [Weeks -> Point]
    BY <1>0, <1>2, HistoryContinues
  <2> HIDE DEF w
  <2> QED  BY <1>0, <2>1, <2>2 DEF Point
<1>4. k # NoType => /\ FilledTypeWeights[k].points[w] = a
                    /\ w <= total.time => type_weight[k].points[w] = a
                    /\ a \in Nat /\ type_weight[k].points[w] \in Nat
  <2>1. SUFFICES ASSUME k # NoType
                 PROVE  /\ FilledTypeWeights[k].points[w] = a
                        /\ w <= total.time => type_weight[k].points[w] = a
                        /\ a \in Nat /\ type_weight[k].points[w] \in Nat
    OBVIOUS
  <2>2. k \in Types
    BY <1>0, <2>1 DEF ControllerTypes
  <2>3. type_weight[k].points[w] \in Nat
    BY <1>0, <2>2 DEF ControllerTypes, TypeHistory
  <2> QED  BY <1>0, <2>2, <2>3, TypeWeightsRead
<1>5. FinalShare(g, w) = IF n = 0 \/ k = NoType THEN 0 ELSE (Multiplier * a * b) \div n
  BY DEF FinalShare
<1>6. FilledRelativeWeight(g, w) =
          IF FilledTotal(sum).points[w] = 0 \/ k = NoType THEN 0
          ELSE (Multiplier * FilledTypeWeights[k].points[w] * Filled(weight[g]).points[w].bias)
                   \div FilledTotal(sum).points[w]
  <2> DEFINE filled == [weight EXCEPT ![g] = Filled(@)]
  <2>1. filled[g] = Filled(weight[g])
    BY <1>2
  <2> HIDE DEF filled
  <2>2. FilledRelativeWeight(g, w) = Relative(g, w, filled, FilledTotal(sum), FilledTypeWeights)
    BY DEF FilledRelativeWeight, filled
  <2> HIDE DEF w
  <2> QED  BY <1>0, <2>1, <2>2 DEF Relative
<1>7. RelativeWeight(g, w) =
          IF total.points[w] = 0 \/ k = NoType THEN 0
          ELSE (Multiplier * type_weight[k].points[w] * weight[g].points[w].bias) \div total.points[w]
  <2> HIDE DEF w
  <2> QED  BY <1>0 DEF RelativeWeight, Relative
<1>8. ~NeedsFilling(g) => w <= weight[g].time
  <2>1. weight[g].time \in Nat
    BY <1>2, WeekSteps DEF History
  <2> QED  BY <1>0, <2>1 DEF NeedsFilling
<1>9. total.time \in Nat /\ (w > total.time => total.points[w] = 0)
      /\ (weight[g].time <= total.time \/ weight[g].points[w].bias = 0)
  BY <1>0, WeekSteps DEF ControllerTypes, TotalIsTimely
<1> HIDE DEF w, k, n, a, b
<1>10. FilledRelativeWeight(g, w) = FinalShare(g, w)
  BY <1>1, <1>3, <1>4, <1>5, <1>6 DEF b
<1>11. ASSUME w <= weight[g].time PROVE RelativeWeight(g, w) = FinalShare(g, w)
  <2>1. weight[g].points[w].bias = b
    BY <1>3, <1>11 DEF b
  <2>2. CASE w <= total.time
    BY <1>1, <1>4, <1>5, <1>7, <2>1, <2>2
  <2>3. CASE ~(w <= total.time)
    <3>1. total.points[w] = 0
      BY <1>0, <1>9, <2>3
    <3>2. b = 0
      <4>1. weight[g].time \in Nat
        BY <1>2, WeekSteps DEF History
      <4> QED  BY <1>0, <1>9, <1>11, <2>1, <2>3, <4>1
    <3>3. k # NoType => Multiplier * a * b = 0
      BY <1>0, <1>4, <3>2
    <3>4. n # 0 => 0 \div n = 0
      BY <1>1, NothingShared
    <3> QED  BY <1>5, <1>7, <3>1, <3>3, <3>4
  <2> QED  BY <2>2, <2>3
<1> QED  BY <1>8, <1>10, <1>11 DEF w

\* The share that is final.
LEMMA FinalIsShare ==
    ASSUME ControllerIInv, NEW g \in Gauges, NEW w \in Weeks
    PROVE  FinalWeight(g, w) = FinalShare(g, w)
<1> DEFINE weeks == {w}
           a == [k \in Added |-> [v \in weeks |-> TypeWeightAt(type_weight[k], v)]]
           s == [k \in Added |-> Continued(sum[k])]
           all == [v \in weeks |-> SumFunction([k \in Added |-> s[k][v].bias * a[k][v]])]
<1>1. all[w] = OfAllTypes(w)
  BY DEF OfAllTypes
<1>2. FinalWeights(weeks) = [h \in Gauges |-> [v \in weeks |->
          IF all[v] = 0 \/ gauge_type[h] = NoType THEN 0
          ELSE (Multiplier * a[gauge_type[h]][v] * Continued(weight[h])[v].bias) \div all[v]]]
  BY DEF FinalWeights, TypeWeightAt
<1>3. \A k \in Added : a[k][w] = TypeWeightAt(type_weight[k], w)
  OBVIOUS
<1>4. w \in weeks
  OBVIOUS
<1> HIDE DEF a, s, all, weeks
<1>5. FinalWeights(weeks)[g][w] =
          IF all[w] = 0 \/ gauge_type[g] = NoType THEN 0
          ELSE (Multiplier * a[gauge_type[g]][w] * Continued(weight[g])[w].bias) \div all[w]
  BY <1>2, <1>4
<1>6. FinalWeight(g, w) = FinalWeights(weeks)[g][w]
  BY DEF FinalWeight, weeks
<1>7. gauge_type[g] # NoType => gauge_type[g] \in Added
  BY TypesOfGauges
<1> QED  BY <1>1, <1>3, <1>5, <1>6, <1>7 DEF FinalShare

\* Whatever the order in which the checkpointer goes through its list, and whatever it
\* has filled in by then, it chooses the gauges whose final share is large enough.
LEMMA ChosenAreAbove ==
    ASSUME EmissionsIInv, NEW n \in Nat, NEW order \in [1..n -> listed], NEW least
    PROVE  Chosen(order, least) = {order[i] : i \in {j \in 1..n : FinalShare(order[j], LastWeekOver) >= least}}
<1> DEFINE S == 1..n
           read(g, filled) == IF filled \/ NeedsFilling(g) THEN FilledRelativeWeight(g, LastWeekOver)
                              ELSE RelativeWeight(g, LastWeekOver)
           next(s, g) ==
               IF read(g, s.filled) >= least
               THEN [gauges |-> s.gauges \cup {g}, filled |-> s.filled \/ NeedsFilling(g) \/ g \in Due({g})]
               ELSE [s EXCEPT !.filled = @ \/ NeedsFilling(g)]
           none == [gauges |-> {}, filled |-> FALSE]
           iter[s \in SUBSET S] == IF s = {} THEN none ELSE next(iter[s \ {Max(s)}], order[Max(s)])
           above(g) == FinalShare(g, LastWeekOver) >= least
           fills(g) == NeedsFilling(g) \/ (above(g) /\ g \in Due({g}))
           Gs(s) == {order[i] : i \in {j \in s : above(order[j])}}
           filled(s) == \E i \in s : fills(order[i])
           result(s) == [gauges |-> Gs(s), filled |-> filled(s)]
<1>0. DOMAIN order = S /\ S \subseteq Int /\ IsFiniteSet(S)
  BY FS_Interval
<1>1. \A i \in S : \A b : read(order[i], b) = FinalShare(order[i], LastWeekOver)
  <2> SUFFICES ASSUME NEW i \in S, NEW b PROVE read(order[i], b) = FinalShare(order[i], LastWeekOver)
    OBVIOUS
  <2>1. order[i] \in Gauges
    BY DEF EmissionsIInv, PeriodsAreOver
  <2> QED  BY <2>1, ReadsAreShares DEF EmissionsIInv
<1>2. Chosen(order, least) = iter[S].gauges
  <2>1. Chosen(order, least) = iter[DOMAIN order].gauges
    BY DEF Chosen, FoldLeft, MapThenFoldSet
  <2> QED  BY <1>0, <2>1
<1>3. \A s \in SUBSET S : s # {} => Max(s) \in s
  <2> SUFFICES ASSUME NEW s \in SUBSET S, s # {} PROVE Max(s) \in s
    OBVIOUS
  <2>1. IsFiniteSet(s) /\ s \subseteq Int
    BY <1>0, FS_Subset
  <2> QED  BY <2>1, MaxIsLargest
<1>4. ASSUME NEW s \in SUBSET S, NEW x \in s PROVE result(s) = next(result(s \ {x}), order[x])
  <2> DEFINE r == s \ {x}
             g == order[x]
             b == filled(r)
  <2>1. read(g, result(r).filled) = FinalShare(g, LastWeekOver)
    BY <1>1
  <2>2. Gs(s) = IF above(g) THEN Gs(r) \cup {g} ELSE Gs(r)
    <3> HIDE DEF above
    <3>1. CASE above(g)
      BY <3>1
    <3>2. CASE ~above(g)
      BY <3>2
    <3> QED  BY <3>1, <3>2
  <2>3. filled(s) <=> b \/ fills(g)
    <3> HIDE DEF fills
    <3> QED  OBVIOUS
  <2>4. result(r).gauges = Gs(r) /\ result(r).filled = b
    OBVIOUS
  <2> HIDE DEF read, Gs
  <2>5. CASE above(g)
    <3>1. next(result(r), g) = [gauges |-> Gs(r) \cup {g}, filled |-> b \/ NeedsFilling(g) \/ g \in Due({g})]
      <4> HIDE DEF filled
      <4> QED  BY <2>1, <2>5
    <3>2. filled(s) = (b \/ NeedsFilling(g) \/ g \in Due({g}))
      <4>1. filled(s) <=> (b \/ NeedsFilling(g) \/ g \in Due({g}))
        BY <2>3, <2>5
      <4>2. filled(s) \in BOOLEAN
        OBVIOUS
      <4> HIDE DEF filled, b
      <4> QED  BY <4>1, <4>2, Zenon
    <3> HIDE DEF next
    <3> QED  BY <2>2, <2>5, <3>1, <3>2
  <2>6. CASE ~above(g)
    <3>1. next(result(r), g) = [result(r) EXCEPT !.filled = b \/ NeedsFilling(g)]
      <4> HIDE DEF filled
      <4> QED  BY <2>1, <2>6
    <3>2. next(result(r), g) = [gauges |-> Gs(r), filled |-> b \/ NeedsFilling(g)]
      <4> HIDE DEF filled, next
      <4> QED  BY <3>1
    <3>3. filled(s) = (b \/ NeedsFilling(g))
      <4>1. filled(s) <=> (b \/ NeedsFilling(g))
        BY <2>3, <2>6
      <4>2. filled(s) \in BOOLEAN
        OBVIOUS
      <4> HIDE DEF filled, b
      <4> QED  BY <4>1, <4>2, Zenon
    <3> HIDE DEF next
    <3> QED  BY <2>2, <2>6, <3>2, <3>3
  <2> QED  BY <2>5, <2>6
<1>5. result({}) = none
  OBVIOUS
<1> HIDE DEF read, next, none, result
<1>6. iter = [s \in SUBSET S |-> IF s = {} THEN none ELSE next(iter[s \ {Max(s)}], order[Max(s)])]
  <2> DEFINE i == [s \in SUBSET S |-> result(s)]
  <2>1. \A s \in SUBSET S : i[s] = IF s = {} THEN none ELSE next(i[s \ {Max(s)}], order[Max(s)])
    BY <1>3, <1>4, <1>5
  <2>2. i = [s \in SUBSET S |-> i[s]]
    OBVIOUS
  <2> HIDE DEF i
  <2>3. i = [s \in SUBSET S |-> IF s = {} THEN none ELSE next(i[s \ {Max(s)}], order[Max(s)])]
    BY <2>1, <2>2
  <2>4. \E j : j = [s \in SUBSET S |-> IF s = {} THEN none ELSE next(j[s \ {Max(s)}], order[Max(s)])]
    BY <2>3
  <2> QED  BY <2>4
<1> HIDE DEF iter
<1>7. iter[S] = result(S)
  <2> DEFINE P == {s \in SUBSET S : iter[s] = result(s)}
  <2>1. ASSUME NEW s \in SUBSET S, \A x \in s : s \ {x} \in P PROVE s \in P
    <3>1. iter[s] = IF s = {} THEN none ELSE next(iter[s \ {Max(s)}], order[Max(s)])
      BY <1>6
    <3> QED  BY <1>3, <1>4, <1>5, <2>1, <3>1
  <2> HIDE DEF P, S, above, fills, Gs, filled
  <2>4. IsFiniteSet(S) /\ \A s \in SUBSET S : (\A x \in s : s \ {x} \in P) => s \in P
    BY <1>0, <2>1
  <2>3. SUBSET S \subseteq P
    BY <2>4, SubsetInduction
  <2>2. S \in P
    BY <2>3
  <2> QED  BY <2>2 DEF P
<1> QED  BY <1>2, <1>7 DEF result

-----------------------------------------------------------------------------
(* Emissions *)

\* Who fills in the total up to the next week leaves nothing that is newer.
LEMMA TotalIsFilledAnew ==
    ASSUME ControllerIInv, ControllerIInv', TotalIsTimely, UNCHANGED now, total'.time = NextWeek,
           \A w \in Weeks : w > NextWeek => total'.points[w] = total.points[w]
    PROVE  TotalIsTimely'
<1>1. NextWeek' = NextWeek /\ NextWeek \in Nat /\ \A w \in Weeks : w \in Nat
  BY InvariantTypes DEF NextWeek
<1>2. \A g \in Gauges : weight'[g].time <= NextWeek'
  BY DEF ControllerIInv, GaugesAreTallied, IsHistoryOf
<1>3. total.time <= NextWeek /\ total.time \in Nat
  BY <1>1 DEF ControllerIInv, TypeWeightsAreTimely, ControllerTypes
<1>4. \A w \in Weeks : w > total'.time => total'.points[w] = 0
  BY <1>1, <1>3 DEF TotalIsTimely
<1> QED  BY <1>1, <1>2, <1>4 DEF TotalIsTimely

\* Filling in the total does so.
LEMMA TotalAfterGetTotal ==
    ASSUME NEW sums, NextWeek \in Nat, total.time \in Nat, \A w \in Weeks : w \in Nat
    PROVE  /\ FilledTotal(sums).time = NextWeek
           /\ FilledTotal(sums).points = [w \in Weeks |-> FilledTotal(sums).points[w]]
           /\ \A w \in Weeks : w > NextWeek => FilledTotal(sums).points[w] = total.points[w]
<1> DEFINE earlier == Min({total.time, NextWeek - Week})
           T(w) == SumFunction([k \in Added |-> FilledSums(sums)[k].points[w].bias * FilledTypeWeights[k].points[w]])
<1>1. FilledTotal(sums) =
          [points |-> [w \in Weeks |-> IF earlier < w /\ w <= NextWeek THEN T(w) ELSE total.points[w]],
           time |-> NextWeek]
  BY DEF FilledTotal
<1> HIDE DEF earlier, T
<1>2. \A w \in Weeks : w > NextWeek => ~(w <= NextWeek)
  OBVIOUS
<1> QED  BY <1>1, <1>2

\* No step of the controller lets the total lag behind a gauge with weight.
LEMMA StepKeepsTotal ==
    ASSUME ControllerIInv, ControllerIInv', TotalIsTimely, ControllerNext
    PROVE  TotalIsTimely'
<1>0. NextWeek \in Nat /\ total.time \in Nat /\ total.points \in [Weeks -> Int] /\ \A w \in Weeks : w \in Nat
  BY InvariantTypes DEF ControllerIInv, ControllerTypes
<1>1. ASSUME UNCHANGED historyVars PROVE TotalIsTimely'
  BY <1>1 DEF historyVars, TotalIsTimely
<1>2. ASSUME NEW sums, total' = FilledTotal(sums), UNCHANGED now PROVE TotalIsTimely'
  BY <1>0, <1>2, TotalAfterGetTotal, TotalIsFilledAnew
<1>3. ASSUME NEW k, NEW new, ChangeTypeWeight(k, new), UNCHANGED now PROVE TotalIsTimely'
  <2> DEFINE filled == FilledTotal(sum)
             old == FilledTypeWeights[k].points[NextWeek]
             ofType == FilledSums(sum)[k].points[NextWeek].bias
  <2>1. total' = [filled EXCEPT !.points[NextWeek] = filled.points[NextWeek] + ofType * new - ofType * old]
    BY <1>3 DEF ChangeTypeWeight
  <2>2. /\ filled = [points |-> filled.points, time |-> NextWeek]
        /\ filled.points = [w \in Weeks |-> filled.points[w]]
        /\ \A w \in Weeks : w > NextWeek => filled.points[w] = total.points[w]
    BY <1>0, TotalAfterGetTotal DEF FilledTotal
  <2> HIDE DEF filled, old, ofType
  <2>3. total'.time = NextWeek /\ \A w \in Weeks : w > NextWeek => total'.points[w] = total.points[w]
    BY <1>0, <2>1, <2>2
  <2> QED  BY <1>3, <2>3, TotalIsFilledAnew
<1>4. ASSUME NEW initial \in TypeWeights, AddType(initial) PROVE TotalIsTimely'
  BY <1>1, <1>3, <1>4 DEF AddType, lockVars
<1>5. ASSUME NEW k \in Types, NEW new \in TypeWeights, ChangeWeightOfType(k, new) PROVE TotalIsTimely'
  BY <1>3, <1>5 DEF ChangeWeightOfType, lockVars
<1>6. ASSUME NEW g \in Gauges, NEW k \in Types, NEW initial \in GaugeWeights, AddGauge(g, k, initial)
      PROVE  TotalIsTimely'
  <2>1. ASSUME initial > 0 PROVE TotalIsTimely'
    <3> DEFINE filled == FilledTotal(sum)
               plus == FilledTypeWeights[k].points[NextWeek] * initial
    <3>1. total' = [filled EXCEPT !.points[NextWeek] = filled.points[NextWeek] + plus] /\ UNCHANGED now
      <4>1. initial # 0
        BY <2>1
      <4> QED  BY <1>6, <4>1 DEF AddGauge, lockVars
    <3>2. /\ filled = [points |-> filled.points, time |-> NextWeek]
          /\ filled.points = [w \in Weeks |-> filled.points[w]]
          /\ \A w \in Weeks : w > NextWeek => filled.points[w] = total.points[w]
      BY <1>0, TotalAfterGetTotal DEF FilledTotal
    <3> HIDE DEF filled, plus
    <3>3. total'.time = NextWeek /\ \A w \in Weeks : w > NextWeek => total'.points[w] = total.points[w]
      BY <1>0, <3>1, <3>2
    <3> QED  BY <3>1, <3>3, TotalIsFilledAnew
  <2>2. ASSUME ~(initial > 0) PROVE TotalIsTimely'
    <3>1. initial = 0 /\ gauge_type[g] = NoType /\ UNCHANGED total
          /\ weight' = [weight EXCEPT ![g].points[NextWeek].bias = initial, ![g].time = NextWeek]
      BY <1>6, <2>2, ControllerAssumption, MiningAssumption DEF AddGauge
    <3>2. weight[g] = NoHistory
      <4>1. IsHistoryOf(weight[g], TallyOf(g), NextWeek) /\ weight[g].time = 0
        BY <3>1 DEF ControllerIInv, GaugesAreTallied
      <4> QED  BY <4>1, HistoryContinues
    <3>3. \A w \in Weeks : weight'[g].points[w].bias = 0
      <4>1. weight \in [Gauges -> History]
        BY DEF ControllerIInv, ControllerTypes
      <4>2. weight'[g] = [NoHistory EXCEPT !.points[NextWeek].bias = 0, !.time = NextWeek]
        BY <3>1, <3>2, <4>1
      <4>3. weight'[g].points = [NoHistory.points EXCEPT ![NextWeek].bias = 0]
        BY <4>2 DEF NoHistory
      <4> QED  BY <4>3 DEF NoHistory, NoPoint
    <3>4. \A h \in Gauges \ {g} : weight'[h] = weight[h]
      BY <3>1 DEF ControllerIInv, ControllerTypes
    <3> QED  BY <3>1, <3>3, <3>4 DEF TotalIsTimely
  <2> QED  BY <2>1, <2>2
<1>7. ASSUME NEW gauges, CheckpointController(gauges) PROVE TotalIsTimely'
  BY <1>2, <1>7 DEF CheckpointController, FillGauges, GetTotal, lockVars
<1>8. ASSUME NEW u \in Users, NEW g \in Gauges, NEW power \in Powers, Vote(u, g, power) PROVE TotalIsTimely'
  BY <1>2, <1>8 DEF Vote, GetTotal, lockVars
<1>9. ASSUME NEW u \in Users, NEW new \in Locks, ChangeLock(u, new) PROVE TotalIsTimely'
  BY <1>1, <1>9 DEF ChangeLock
<1>10. ASSUME Tick PROVE TotalIsTimely'
  BY <1>1, <1>10 DEF Tick
<1> QED  BY <1>4, <1>5, <1>6, <1>7, <1>8, <1>9, <1>10 DEF ControllerNext

\* More time is no fewer weeks.
LEMMA WeeksGrow ==
    ASSUME NEW x \in Nat, NEW y \in Nat, x <= y
    PROVE  x \div Week <= y \div Week /\ x \div Week \in Int /\ y \div Week \in Int
<1> DEFINE d == x \div Week
           e == y \div Week
           m == x % Week
           n == y % Week
<1>0. Week \in Nat \ {0}
  BY ControllerAssumption, MiningAssumption
<1>1. d \in Int /\ m \in 0..(Week - 1) /\ x = d * Week + m
  BY <1>0
<1>2. e \in Int /\ n \in 0..(Week - 1) /\ y = e * Week + n
  BY <1>0
<1> HIDE DEF d, e, m, n
<1>3. ~(e < d)
  <2>1. SUFFICES ASSUME e + 1 <= d PROVE FALSE
    BY <1>1, <1>2
  <2>2. (e + 1) * Week <= d * Week /\ (e + 1) * Week = e * Week + Week
    BY <1>0, <1>1, <1>2, <2>1
  <2> QED  BY <1>0, <1>1, <1>2, <2>2
<1>4. d <= e /\ d \in Int /\ e \in Int
  BY <1>1, <1>2, <1>3
<1> QED  BY <1>4 DEF d, e

\* Periods do not go back.
LEMMA PeriodsGoOn ==
    ASSUME now \in Start..Horizon, now' \in Start..Horizon, now <= now'
    PROVE  CurrentPeriod <= CurrentPeriod'
<1>1. now \in Nat /\ now' \in Nat
  BY ControllerAssumption, MiningAssumption
<1>2. PICK x \in Nat, y \in Nat : x = now /\ y = now'
  BY <1>1
<1>3. CurrentPeriod = x \div Week - 1 /\ CurrentPeriod' = y \div Week - 1 /\ x <= y
  BY <1>2 DEF CurrentPeriod
<1>4. x \div Week <= y \div Week /\ x \div Week \in Int /\ y \div Week \in Int
  BY <1>3, WeeksGrow
<1> QED  BY <1>3, <1>4

\* A checkpoint brings a gauge to the current period.
LEMMA CheckpointedIsCurrent ==
    ASSUME NEW g, NEW relative, "period" \in DOMAIN gauge[g]
    PROVE  "period" \in DOMAIN Checkpointed(g, relative) /\ Checkpointed(g, relative).period = CurrentPeriod
<1> DEFINE e == Emitted(g, relative)
           mints == e.sum > 0 /\ ~gauge[g].killed
           emissions == gauge[g].emissions + e.sum
           minted(m) == IF mints THEN emissions ELSE m
           kept(k) == IF mints THEN k + emissions - gauge[g].minted - e.sum ELSE k
<1>1. Checkpointed(g, relative) =
          [gauge[g] EXCEPT !.rate = e.rate, !.start = e.start, !.period = CurrentPeriod, !.emissions = emissions,
                           !.minted = minted(@), !.kept = kept(@)]
  BY DEF Checkpointed
<1> HIDE DEF e, mints, emissions, minted, kept
<1> QED  BY <1>1

\* A step that changes no gauge leaves all periods over.
LEMMA PeriodsStayOver ==
    ASSUME ControllerIInv, ControllerIInv', PeriodsAreOver, now <= now', UNCHANGED gauge, listed' \subseteq Gauges
    PROVE  PeriodsAreOver'
<1>1. now \in Start..Horizon /\ now' \in Start..Horizon
  BY DEF ControllerIInv, ControllerTypes
<1>2. CurrentPeriod <= CurrentPeriod' /\ CurrentPeriod \in Int /\ CurrentPeriod' \in Int
  <2>1. \A n \in Start..Horizon : n \div Week - 1 \in Int
    BY ControllerAssumption, MiningAssumption
  <2> QED  BY <1>1, <2>1, PeriodsGoOn DEF CurrentPeriod
<1>3. \A g \in Gauges : gauge[g].period <= CurrentPeriod'
  BY <1>2 DEF PeriodsAreOver
<1> QED  BY <1>3 DEF PeriodsAreOver

\* A gauge that is changed keeps its period, or is brought to the current one.
LEMMA PeriodsAreSet ==
    ASSUME ControllerIInv, PeriodsAreOver, UNCHANGED now, listed' \subseteq Gauges, NEW after,
           gauge' = [g \in Gauges |-> after[g]],
           \A g \in Gauges : /\ "period" \in DOMAIN after[g]
                             /\ after[g].period = CurrentPeriod \/ after[g].period = gauge[g].period
    PROVE  PeriodsAreOver'
<1>1. CurrentPeriod' = CurrentPeriod /\ CurrentPeriod \in Nat
  BY InvariantTypes, LastWeekOverIsOver DEF CurrentPeriod
<1>2. \A g \in Gauges : gauge'[g] = after[g]
  OBVIOUS
<1>3. gauge' = [g \in Gauges |-> gauge'[g]]
  OBVIOUS
<1> QED  BY <1>1, <1>2, <1>3 DEF PeriodsAreOver

\* A field of a gauge other than its period.
LEMMA GaugeIsChanged ==
    ASSUME ControllerIInv, PeriodsAreOver, UNCHANGED <<now, listed>>, NEW g \in Gauges, NEW after,
           gauge' = [gauge EXCEPT ![g] = after],
           "period" \in DOMAIN after, after.period = CurrentPeriod \/ after.period = gauge[g].period
    PROVE  PeriodsAreOver'
<1> DEFINE all == [h \in Gauges |-> IF h = g THEN after ELSE gauge[h]]
<1>1. gauge' = all
  BY DEF PeriodsAreOver
<1>2. gauge' = [h \in Gauges |-> all[h]]
  BY <1>1
<1>3. \A h \in Gauges : /\ "period" \in DOMAIN all[h]
                        /\ all[h].period = CurrentPeriod \/ all[h].period = gauge[h].period
  BY DEF PeriodsAreOver
<1>4. listed' \subseteq Gauges
  BY DEF PeriodsAreOver
<1> HIDE DEF all
<1> QED  BY <1>2, <1>3, <1>4, PeriodsAreSet

\* Checkpoints of any gauges.
LEMMA GaugesAreCheckpointed ==
    ASSUME ControllerIInv, PeriodsAreOver, UNCHANGED <<now, listed>>, NEW gauges, EmitAndMint(gauges)
    PROVE  /\ PeriodsAreOver'
           /\ \A g \in Gauges : g \in gauges => gauge'[g].period = CurrentPeriod
<1>1. PICK relative : gauge' = [g \in Gauges |-> IF g \in Due(gauges) THEN Checkpointed(g, relative[g]) ELSE gauge[g]]
  BY DEF EmitAndMint
<1> DEFINE all == [g \in Gauges |-> IF g \in Due(gauges) THEN Checkpointed(g, relative[g]) ELSE gauge[g]]
<1>2. \A g \in Gauges : /\ "period" \in DOMAIN all[g]
                        /\ all[g].period = CurrentPeriod \/ all[g].period = gauge[g].period
  BY CheckpointedIsCurrent DEF PeriodsAreOver
<1>3. gauge' = [g \in Gauges |-> all[g]]
  BY <1>1
<1>4. listed' \subseteq Gauges
  BY DEF PeriodsAreOver
<1>5. ASSUME NEW g \in Gauges, g \in gauges PROVE gauge'[g].period = CurrentPeriod
  <2>1. CASE g \in Due(gauges)
    BY <1>1, <2>1, CheckpointedIsCurrent DEF PeriodsAreOver
  <2>2. CASE g \notin Due(gauges)
    <3>1. gauge'[g] = gauge[g]
      BY <1>1, <2>2
    <3>2. gauge[g].period \in Int /\ gauge[g].period <= CurrentPeriod /\ ~(gauge[g].period < CurrentPeriod)
      BY <1>5, <2>2 DEF PeriodsAreOver, Due
    <3>3. CurrentPeriod \in Nat
      BY InvariantTypes, LastWeekOverIsOver
    <3> QED  BY <3>1, <3>2, <3>3
  <2> QED  BY <2>1, <2>2
<1> HIDE DEF all
<1> QED  BY <1>2, <1>3, <1>4, <1>5, PeriodsAreSet

\* A step of the controller is one of a clock.
LEMMA ClockTicks ==
    ASSUME ControllerNext
    PROVE  now' = now \/ now' = now + 1
<1>1. CASE Tick
  BY <1>1 DEF Tick
<1>2. CASE \E u \in Users, new \in Locks : ChangeLock(u, new)
  BY <1>2 DEF ChangeLock
<1>3. CASE UNCHANGED lockVars
  BY <1>3 DEF lockVars
<1>4. Tick \/ (\E u \in Users, new \in Locks : ChangeLock(u, new)) \/ UNCHANGED lockVars
  <2>1. ASSUME NEW initial, AddType(initial) PROVE UNCHANGED lockVars
    BY <2>1 DEF AddType
  <2>2. ASSUME NEW k, NEW new, ChangeWeightOfType(k, new) PROVE UNCHANGED lockVars
    BY <2>2 DEF ChangeWeightOfType
  <2>3. ASSUME NEW g, NEW k, NEW initial, AddGauge(g, k, initial) PROVE UNCHANGED lockVars
    BY <2>3 DEF AddGauge
  <2>4. ASSUME NEW gauges, CheckpointController(gauges) PROVE UNCHANGED lockVars
    BY <2>4 DEF CheckpointController
  <2>5. ASSUME NEW u, NEW g, NEW power, Vote(u, g, power) PROVE UNCHANGED lockVars
    BY <2>5 DEF Vote
  <2> QED  BY <2>1, <2>2, <2>3, <2>4, <2>5 DEF ControllerNext
<1> QED  BY <1>1, <1>2, <1>3, <1>4

\* A step of the composed system.
LEMMA StepEmissions ==
    ASSUME EmissionsIInv, Next
    PROVE  EmissionsIInv' /\ KeepsPast
<1>0. ControllerIInv /\ TotalIsTimely /\ PeriodsAreOver /\ now \in Nat
  BY InvariantTypes, ControllerAssumption, MiningAssumption DEF EmissionsIInv
<1>1. ASSUME UNCHANGED controllerVars
      PROVE  ControllerIInv' /\ KeepsPast /\ TotalIsTimely' /\ now' = now
  BY <1>0, <1>1, StutterKeeps DEF controllerVars, lockVars, historyVars, TotalIsTimely
<1>2. ASSUME NEW gauges, CheckpointController(gauges)
      PROVE  ControllerIInv' /\ KeepsPast /\ TotalIsTimely' /\ now' = now
  <2>1. ControllerIInv' /\ KeepsPast
    BY <1>0, <1>2, StepCheckpoint
  <2>2. now' = now /\ total' = FilledTotal(sum)
    BY <1>2 DEF CheckpointController, FillGauges, GetTotal, lockVars
  <2>3. NextWeek \in Nat /\ total.time \in Nat /\ \A w \in Weeks : w \in Nat
    BY <1>0, InvariantTypes DEF ControllerTypes
  <2>4. total'.time = NextWeek /\ \A w \in Weeks : w > NextWeek => total'.points[w] = total.points[w]
    BY <2>2, <2>3, TotalAfterGetTotal
  <2> QED  BY <1>0, <2>1, <2>2, <2>4, TotalIsFilledAnew
<1>3. ASSUME ControllerNext, UNCHANGED emissionVars PROVE EmissionsIInv' /\ KeepsPast
  <2>1. ControllerIInv' /\ KeepsPast
    BY <1>0, <1>3, StepKeeps
  <2>2. TotalIsTimely'
    BY <1>0, <1>3, <2>1, StepKeepsTotal
  <2>3. now <= now'
    <3>1. now' = now \/ now' = now + 1
      BY <1>3, ClockTicks
    <3> QED  BY <1>0, <3>1
  <2>4. PeriodsAreOver'
    <3>1. UNCHANGED gauge /\ listed' \subseteq Gauges
      BY <1>0, <1>3 DEF emissionVars, PeriodsAreOver
    <3> QED  BY <1>0, <2>1, <2>3, <3>1, PeriodsStayOver
  <2> QED  BY <2>1, <2>2, <2>4 DEF EmissionsIInv
<1>4. ASSUME UNCHANGED controllerVars, UNCHANGED gauge, listed' \subseteq Gauges PROVE EmissionsIInv' /\ KeepsPast
  <2>1. ControllerIInv' /\ KeepsPast /\ TotalIsTimely' /\ now <= now'
    BY <1>0, <1>1, <1>4
  <2> QED  BY <1>0, <1>4, <2>1, PeriodsStayOver DEF EmissionsIInv
<1>5. ASSUME UNCHANGED controllerVars, UNCHANGED listed, NEW g \in Gauges, NEW after, gauge' = [gauge EXCEPT ![g] = after],
             "period" \in DOMAIN after, after.period = CurrentPeriod \/ after.period = gauge[g].period
      PROVE  EmissionsIInv' /\ KeepsPast
  <2>1. ControllerIInv' /\ KeepsPast /\ TotalIsTimely' /\ now' = now
    BY <1>1, <1>5
  <2>2. PeriodsAreOver'
    BY <1>0, <1>5, <2>1, GaugeIsChanged
  <2> QED  BY <2>1, <2>2 DEF EmissionsIInv
<1>6. ASSUME NEW gauges, EmitAndMint(gauges), UNCHANGED listed,
             \/ UNCHANGED controllerVars
             \/ \E filled : CheckpointController(filled)
      PROVE  EmissionsIInv' /\ KeepsPast
  <2>1. ControllerIInv' /\ KeepsPast /\ TotalIsTimely' /\ now' = now
    BY <1>1, <1>2, <1>6
  <2>2. PeriodsAreOver'
    BY <1>0, <1>6, <2>1, GaugesAreCheckpointed
  <2> QED  BY <2>1, <2>2 DEF EmissionsIInv
<1>7. CASE UpdateMiningParameters
  BY <1>0, <1>4, <1>7 DEF UpdateMiningParameters, PeriodsAreOver
<1>8. ASSUME NEW g \in Gauges, NEW cap \in Caps, CreateGauge(g, cap) PROVE EmissionsIInv' /\ KeepsPast
  <2> DEFINE after == [gauge[g] EXCEPT !.rate = mining.rate, !.start = Updated(mining).start,
                                       !.period = CurrentPeriod, !.cap = cap, !.late = EpochIsOver(mining)]
  <2>1. "period" \in DOMAIN gauge[g]
    BY <1>0 DEF PeriodsAreOver
  <2>2. "period" \in DOMAIN after /\ after.period = CurrentPeriod
    BY <2>1
  <2>3. gauge' = [gauge EXCEPT ![g] = after] /\ UNCHANGED controllerVars /\ UNCHANGED listed
    BY <1>8 DEF CreateGauge
  <2> HIDE DEF after
  <2> QED  BY <1>5, <2>2, <2>3
<1>9. ASSUME NEW g \in Gauges, NEW cap \in Caps, SetRelativeWeightCap(g, cap) PROVE EmissionsIInv' /\ KeepsPast
  <2> DEFINE after == [gauge[g] EXCEPT !.cap = cap]
  <2>1. "period" \in DOMAIN gauge[g]
    BY <1>0 DEF PeriodsAreOver
  <2>2. "period" \in DOMAIN after /\ after.period = gauge[g].period
    BY <2>1
  <2>3. gauge' = [gauge EXCEPT ![g] = after] /\ UNCHANGED controllerVars /\ UNCHANGED listed
    BY <1>9 DEF SetRelativeWeightCap
  <2> HIDE DEF after
  <2> QED  BY <1>5, <2>2, <2>3
<1>10. ASSUME NEW g \in Gauges, NEW killed, SetKilled(g, killed) PROVE EmissionsIInv' /\ KeepsPast
  <2> DEFINE after == [gauge[g] EXCEPT !.killed = killed]
  <2>1. "period" \in DOMAIN gauge[g]
    BY <1>0 DEF PeriodsAreOver
  <2>2. "period" \in DOMAIN after /\ after.period = gauge[g].period
    BY <2>1
  <2>3. gauge' = [gauge EXCEPT ![g] = after] /\ UNCHANGED controllerVars /\ UNCHANGED listed
    BY <1>10 DEF SetKilled
  <2> HIDE DEF after
  <2> QED  BY <1>5, <2>2, <2>3
<1>11. ASSUME NEW g \in Gauges, Checkpoint(g) PROVE EmissionsIInv' /\ KeepsPast
  <2>1. EmitAndMint({g}) /\ UNCHANGED listed
    BY <1>11 DEF Checkpoint
  <2>2. UNCHANGED controllerVars \/ CheckpointController({g})
    BY <1>11 DEF Checkpoint, CheckpointController, controllerVars
  <2> QED  BY <1>6, <2>1, <2>2
<1>12. ASSUME NEW g \in Gauges, AddToCheckpointer(g) \/ RemoveFromCheckpointer(g) PROVE EmissionsIInv' /\ KeepsPast
  BY <1>0, <1>4, <1>12 DEF AddToCheckpointer, RemoveFromCheckpointer, PeriodsAreOver
<1>13. ASSUME NEW least \in Thresholds, CheckpointGauges(least) PROVE EmissionsIInv' /\ KeepsPast
  <2>1. PICK chosen : /\ EmitAndMint(chosen)
                      /\ \/ UNCHANGED historyVars
                         \/ \E filled : FillGauges(filled)
    BY <1>13 DEF CheckpointGauges
  <2>2. UNCHANGED <<lockVars, voteVars, n_gauge_types, gauge_type, initial_weight, listed>>
    BY <1>13 DEF CheckpointGauges
  <2>3. UNCHANGED controllerVars \/ \E filled : CheckpointController(filled)
    BY <2>1, <2>2 DEF CheckpointController, controllerVars
  <2> QED  BY <1>6, <2>1, <2>2, <2>3
<1>14. ASSUME NEW g \in Gauges, KillGauge(g) \/ UnkillGauge(g) PROVE EmissionsIInv' /\ KeepsPast
  BY <1>10, <1>14 DEF KillGauge, UnkillGauge
<1> QED  BY <1>3, <1>7, <1>8, <1>9, <1>11, <1>12, <1>13, <1>14 DEF Next

LEMMA StutterEmissions ==
    ASSUME EmissionsIInv, UNCHANGED vars
    PROVE  EmissionsIInv' /\ KeepsPast
<1>1. UNCHANGED controllerVars /\ UNCHANGED <<gauge, listed>> /\ now \in Nat
  BY InvariantTypes, ControllerAssumption, MiningAssumption DEF vars, emissionVars, EmissionsIInv
<1>2. ControllerIInv' /\ KeepsPast /\ now <= now'
  BY <1>1, StutterKeeps DEF EmissionsIInv, controllerVars, lockVars
<1>3. TotalIsTimely'
  BY <1>1 DEF EmissionsIInv, TotalIsTimely, controllerVars, historyVars
<1>4. PeriodsAreOver'
  BY <1>1, <1>2, PeriodsStayOver DEF EmissionsIInv, PeriodsAreOver
<1> QED  BY <1>2, <1>3, <1>4 DEF EmissionsIInv

LEMMA InitEmissions == Init => EmissionsIInv
<1> SUFFICES ASSUME Init PROVE EmissionsIInv
  OBVIOUS
<1>1. ControllerIInv /\ now \in Start..Horizon
  BY InitInvariant, InvariantTypes DEF Init
<1>2. TotalIsTimely
  <2>1. weight = [g \in Gauges |-> NoHistory] /\ total.points = [w \in Weeks |-> 0]
    BY DEF Init, ControllerInit
  <2> QED  BY <2>1 DEF TotalIsTimely, NoHistory, NoPoint
<1>3. PeriodsAreOver
  <2>1. CurrentPeriod \in Nat
    BY <1>1, LastWeekOverIsOver
  <2> QED  BY <2>1 DEF Init, PeriodsAreOver, NotCreated
<1> QED  BY <1>1, <1>2, <1>3 DEF EmissionsIInv

\* The same holds when gauges are created, killed, revived and checkpointed between the
\* steps of the controller, and the total never lags behind a gauge that has weight.
THEOREM EmissionsInvariance == Spec => []EmissionsIInv
<1>1. EmissionsIInv /\ [Next]_vars => EmissionsIInv'
  BY StepEmissions, StutterEmissions
<1> QED  BY <1>1, InitEmissions, PTL DEF Spec

\* So the weights from which gauges compute what they mint are those of the votes, and
\* they add up, whatever checkpoints of gauges are made between the votes.
THEOREM MintedByVotes == Spec => [](WeightsAreVotes /\ SumsAddUp)
<1>1. EmissionsIInv => WeightsAreVotes /\ SumsAddUp
  BY TalliedIsVoted DEF EmissionsIInv, ControllerIInv
<1> QED  BY <1>1, EmissionsInvariance, PTL

\* A list is gone through in an order that reaches all of it.
LEMMA OrdersReachAll ==
    ASSUME NEW S, IsFiniteSet(S), NEW order \in [1..Cardinality(S) -> S], IsInjective(order)
    PROVE  \A x \in S : \E i \in 1..Cardinality(S) : order[i] = x
<1> DEFINE n == Cardinality(S)
           T == 1..n
<1>1. n \in Nat /\ IsFiniteSet(T) /\ Cardinality(T) = n
  BY FS_CardinalityType, FS_Interval
<1>2. order \in Injection(T, S)
  BY DEF Injection
<1> HIDE DEF T
<1>3. order \in Surjection(T, S)
  BY <1>1, <1>2, FS_Injection
<1> QED  BY <1>3 DEF Surjection, T

\* A checkpoint of all listed gauges above a weight checkpoints each of them, in whatever
\* order it goes through the list and whatever had been filled in before.
THEOREM NoGaugeIsSkipped == Spec => NothingSkipped
<1>1. ASSUME EmissionsIInv, NEW least \in Thresholds, CheckpointGauges(least),
             NEW g \in listed, FinalWeight(g, LastWeekOver) >= least
      PROVE  gauge'[g].period = CurrentPeriod
  <2>0. ControllerIInv /\ PeriodsAreOver /\ UNCHANGED <<now, listed>> /\ g \in Gauges
    BY <1>1 DEF EmissionsIInv, PeriodsAreOver, CheckpointGauges, lockVars
  <2>1. PICK order \in {s \in [1..Cardinality(listed) -> listed] : IsInjective(s)} :
               EmitAndMint(Chosen(order, least))
    BY <1>1 DEF CheckpointGauges
  <2>2. IsFiniteSet(listed) /\ Cardinality(listed) \in Nat
    BY <2>0, FS_Subset, FS_CardinalityType, ControllerAssumption, MiningAssumption DEF PeriodsAreOver
  <2>3. PICK i \in 1..Cardinality(listed) : order[i] = g
    BY <2>1, <2>2, OrdersReachAll
  <2>4. FinalShare(g, LastWeekOver) >= least
    <3>1. LastWeekOver \in Weeks
      BY <2>0, InvariantTypes, LastWeekOverIsOver
    <3> QED  BY <1>1, <2>0, <3>1, FinalIsShare
  <2>5. g \in Chosen(order, least)
    <3>1. Chosen(order, least) =
            {order[k] : k \in {j \in 1..Cardinality(listed) : FinalShare(order[j], LastWeekOver) >= least}}
      BY <1>1, <2>1, <2>2, ChosenAreAbove
    <3> QED  BY <2>3, <2>4, <3>1
  <2> QED  BY <2>0, <2>1, <2>5, GaugesAreCheckpointed
<1>2. EmissionsIInv /\ [Next]_vars =>
        [\A least \in Thresholds, g \in listed :
            gauge'[g].period # CurrentPeriod /\ FinalWeight(g, LastWeekOver) >= least
            => ~CheckpointGauges(least)]_vars
  BY <1>1
<1> QED  BY <1>2, EmissionsInvariance, PTL DEF Spec, NothingSkipped

-----------------------------------------------------------------------------
(* Quotients, recursion and sums over intervals *)

\* The sum of the values from a up to b, which is left out.
Between(f, a, b) == SumFunction([t \in a..(b - 1) |-> f[t]])

LEMMA BetweenSteps ==
    ASSUME NEW a \in Int, NEW b \in Int, NEW f, \A t \in a..(b - 1) : f[t] \in Int
    PROVE  /\ Between(f, a, b) \in Int
           /\ b <= a => Between(f, a, b) = 0
           /\ a <= b /\ f[b] \in Int => Between(f, a, b + 1) = Between(f, a, b) + f[b]
<1> DEFINE S == a..(b - 1)
           F == [t \in S |-> f[t]]
           R == a..((b + 1) - 1)
           H == [t \in R |-> f[t]]
<1>1. IsFiniteSet(S) /\ (b <= a => S = {}) /\ F \in [S -> Int]
  BY FS_Interval
<1>2. Between(f, a, b) = SumFunction(F) /\ Between(f, a, b + 1) = SumFunction(H)
  BY DEF Between
<1>3. ASSUME a <= b, f[b] \in Int
      PROVE b \notin S /\ b \in R /\ R \ {b} = S /\ H \in [R -> Int] /\ H[b] = f[b] /\ \A t \in S : H[t] = F[t]
  BY <1>3
<1> HIDE DEF S, R, F, H
<1>4. SumFunction(F) \in Int /\ (b <= a => SumFunction(F) = 0)
  BY <1>1, SumType
<1>5. ASSUME a <= b, f[b] \in Int PROVE SumFunction(H) = SumFunction(F) + f[b]
  <2>1. SumFunction(H) = SumFunction(F) + H[b]
    BY <1>1, <1>3, <1>5, SumOneMore
  <2> QED  BY <1>3, <1>5, <2>1
<1> QED  BY <1>2, <1>4, <1>5

LEMMA BetweenAdds ==
    ASSUME NEW a \in Int, NEW b \in Int, NEW c \in Int, a <= b, b <= c, NEW f, \A t \in a..(c - 1) : f[t] \in Int
    PROVE  Between(f, a, c) = Between(f, a, b) + Between(f, b, c)
<1> DEFINE n == c - b
           P == {i \in 0..n : Between(f, a, b + i) = Between(f, a, b) + Between(f, b, b + i)}
<1>0. n \in Nat /\ b + n = c
  OBVIOUS
<1>1. 0 \in P
  <2>1. b + 0 = b /\ \A t \in a..(b - 1) : f[t] \in Int
    OBVIOUS
  <2>2. Between(f, b, b) = 0 /\ Between(f, a, b) \in Int
    BY <2>1, BetweenSteps
  <2> QED  BY <2>1, <2>2
<1>2. ASSUME NEW i \in 0..(n - 1), i \in P PROVE i + 1 \in P
  <2> DEFINE d == b + i
  <2>1. /\ d \in Int /\ a <= d /\ b <= d /\ f[d] \in Int /\ b + (i + 1) = d + 1
        /\ \A t \in a..(d - 1) : f[t] \in Int
        /\ \A t \in b..(d - 1) : f[t] \in Int
        /\ \A t \in a..(b - 1) : f[t] \in Int
    OBVIOUS
  <2>2. Between(f, a, d) = Between(f, a, b) + Between(f, b, d)
    BY <1>2
  <2> HIDE DEF d
  <2>3. Between(f, a, d + 1) = Between(f, a, d) + f[d] /\ Between(f, b, d + 1) = Between(f, b, d) + f[d]
    BY <2>1, BetweenSteps
  <2>4. Between(f, a, b) \in Int /\ Between(f, b, d) \in Int
    BY <2>1, BetweenSteps
  <2>5. Between(f, a, d + 1) = Between(f, a, b) + Between(f, b, d + 1)
    BY <2>1, <2>2, <2>3, <2>4
  <2> QED  BY <1>0, <2>1, <2>5
<1>3. n \in P
  <2> HIDE DEF P, n
  <2>1. 0..n \subseteq P
    BY <1>0, <1>1, <1>2, Induction
  <2> QED  BY <1>0, <2>1
<1> QED  BY <1>0, <1>3

LEMMA BetweenBounds ==
    ASSUME NEW a \in Int, NEW b \in Int, a <= b, NEW r \in Int, NEW f, \A t \in a..(b - 1) : f[t] \in Int
    PROVE  /\ (\A t \in a..(b - 1) : r <= f[t]) => r * (b - a) <= Between(f, a, b)
           /\ (\A t \in a..(b - 1) : f[t] <= r) => Between(f, a, b) <= r * (b - a)
<1> DEFINE n == b - a
           P == {i \in 0..n :
                   /\ (\A t \in a..(a + i - 1) : r <= f[t]) => r * i <= Between(f, a, a + i)
                   /\ (\A t \in a..(a + i - 1) : f[t] <= r) => Between(f, a, a + i) <= r * i}
<1>0. n \in Nat /\ a + n = b
  OBVIOUS
<1>1. 0 \in P
  <2>1. Between(f, a, a) = 0 /\ a + 0 = a /\ r * 0 = 0
    BY BetweenSteps
  <2> QED  BY <1>0, <2>1
<1>2. ASSUME NEW i \in 0..(n - 1), i \in P PROVE i + 1 \in P
  <2> DEFINE d == a + i
  <2>1. /\ d \in Int /\ a <= d /\ f[d] \in Int /\ a + (i + 1) = d + 1 /\ (d + 1) - 1 = d
        /\ \A t \in a..(d - 1) : f[t] \in Int
        /\ \A t \in a..(d - 1) : t \in a..d
        /\ d \in a..d
    OBVIOUS
  <2>2. /\ (\A t \in a..(d - 1) : r <= f[t]) => r * i <= Between(f, a, d)
        /\ (\A t \in a..(d - 1) : f[t] <= r) => Between(f, a, d) <= r * i
    BY <1>2
  <2> HIDE DEF d
  <2>3. Between(f, a, d + 1) = Between(f, a, d) + f[d] /\ Between(f, a, d) \in Int
    BY <2>1, BetweenSteps
  <2>4. r * (i + 1) = r * i + r /\ r * i \in Int
    OBVIOUS
  <2>5. (\A t \in a..d : r <= f[t]) => r * (i + 1) <= Between(f, a, d + 1)
    BY <2>1, <2>2, <2>3, <2>4
  <2>6. (\A t \in a..d : f[t] <= r) => Between(f, a, d + 1) <= r * (i + 1)
    BY <2>1, <2>2, <2>3, <2>4
  <2>7. a + (i + 1) - 1 = d
    BY <2>1
  <2> QED  BY <1>0, <2>1, <2>5, <2>6, <2>7
<1>3. n \in P
  <2> HIDE DEF P, n
  <2>1. 0..n \subseteq P
    BY <1>0, <1>1, <1>2, Induction
  <2> QED  BY <1>0, <2>1
<1>4. a + n - 1 = b - 1
  OBVIOUS
<1> QED  BY <1>0, <1>3, <1>4

-----------------------------------------------------------------------------
(* The schedule, if each epoch began on time *)

Epochs == 0..Horizon
Rates[k \in Epochs] == IF k = 0 THEN InitialRate ELSE Reduced(Rates[k - 1])
EpochStart(k) == Start + k * RateReductionTime
EpochOf(t) == (t - Start) \div RateReductionTime
RateAt == [t \in Start..Horizon |-> Rates[EpochOf(t)]]

\* What is emitted from a until b.
Emission(a, b) == Between(RateAt, a, b)

LEMMA ReducedIsLess ==
    ASSUME NEW r \in Nat
    PROVE  Reduced(r) \in Nat /\ Reduced(r) <= r
<1> DEFINE x == r * RateDenominator
           n == RateCoefficient
<1>0. RateDenominator \in Nat /\ n \in Nat \ {0} /\ RateDenominator <= n
  BY GaugesAssumption
<1>1. x \in Nat /\ x <= r * n
  BY <1>0
<1>2. Reduced(r) = x \div n
  BY DEF Reduced
<1> HIDE DEF x, n
<1> QED  BY <1>0, <1>1, <1>2, Quotients

LEMMA RatesFall ==
    /\ Rates \in [Epochs -> Nat]
    /\ Rates[0] = InitialRate
    /\ \A k \in Epochs : k # 0 => k - 1 \in Epochs /\ Rates[k] = Reduced(Rates[k - 1])
    /\ \A j, k \in Epochs : j <= k => Rates[k] <= Rates[j]
<1>0. Horizon \in Nat /\ InitialRate \in Nat
  BY ControllerAssumption, MiningAssumption, GaugesAssumption
<1> DEFINE next == [k \in Epochs |-> [r \in Nat |-> Reduced(r)]]
<1>1. \E f : f = [k \in Epochs |-> IF k = 0 THEN InitialRate ELSE Reduced(f[k - 1])]
  <2> DEFINE P == {k \in Epochs : \E f \in [0..k -> Nat] :
                      f = [i \in 0..k |-> IF i = 0 THEN InitialRate ELSE Reduced(f[i - 1])]}
  <2>1. 0 \in P
    <3> DEFINE f == [i \in 0..0 |-> InitialRate]
    <3>1. f \in [0..0 -> Nat] /\ \A i \in 0..0 : i = 0
      BY <1>0
    <3>2. f = [i \in 0..0 |-> IF i = 0 THEN InitialRate ELSE Reduced(f[i - 1])]
      BY <3>1
    <3> HIDE DEF f
    <3> QED  BY <1>0, <3>1, <3>2 DEF Epochs
  <2>2. ASSUME NEW k \in 0..(Horizon - 1), k \in P PROVE k + 1 \in P
    <3>1. PICK f \in [0..k -> Nat] : f = [i \in 0..k |-> IF i = 0 THEN InitialRate ELSE Reduced(f[i - 1])]
      BY <2>2
    <3> DEFINE g == [i \in 0..(k + 1) |-> IF i = k + 1 THEN Reduced(f[k]) ELSE f[i]]
    <3>2. k \in Nat /\ k \in 0..k /\ \A i \in 0..(k + 1) : i # k + 1 => i \in 0..k /\ (i # 0 => i - 1 \in 0..k)
      BY <1>0
    <3>3. g \in [0..(k + 1) -> Nat]
      BY <3>2, ReducedIsLess
    <3>4. \A i \in 0..k : g[i] = f[i] /\ f[i] = IF i = 0 THEN InitialRate ELSE Reduced(f[i - 1])
      BY <3>1, <3>2
    <3>5. ASSUME NEW i \in 0..(k + 1) PROVE g[i] = IF i = 0 THEN InitialRate ELSE Reduced(g[i - 1])
      <4>1. CASE i = k + 1
        <5>1. g[i] = Reduced(f[k]) /\ i # 0 /\ i - 1 = k
          BY <3>2, <4>1
        <5> HIDE DEF g
        <5> QED  BY <3>2, <3>4, <5>1
      <4>2. CASE i # k + 1
        <5>1. i \in 0..k /\ (i # 0 => i - 1 \in 0..k)
          BY <3>2, <4>2
        <5> HIDE DEF g
        <5> QED  BY <3>4, <5>1
      <4> QED  BY <4>1, <4>2
    <3>6. g = [i \in 0..(k + 1) |-> g[i]]
      OBVIOUS
    <3> HIDE DEF g
    <3>7. g = [i \in 0..(k + 1) |-> IF i = 0 THEN InitialRate ELSE Reduced(g[i - 1])]
      BY <3>5, <3>6
    <3>8. k + 1 \in Epochs
      BY <1>0 DEF Epochs
    <3> QED  BY <3>3, <3>7, <3>8
  <2>3. Horizon \in P
    <3> HIDE DEF P
    <3>1. 0..Horizon \subseteq P
      BY <1>0, <2>1, <2>2, Induction
    <3> QED  BY <1>0, <3>1
  <2> QED  BY <2>3 DEF Epochs
<1>2. Rates = [k \in Epochs |-> IF k = 0 THEN InitialRate ELSE Reduced(Rates[k - 1])]
  BY <1>1 DEF Rates
<1>3. \A k \in Epochs : Rates[k] = IF k = 0 THEN InitialRate ELSE Reduced(Rates[k - 1])
  BY <1>2
<1>4. ASSUME NEW k \in Epochs, k # 0 PROVE k - 1 \in Epochs
  BY <1>0, <1>4 DEF Epochs
<1> DEFINE Q == {k \in Epochs : Rates[k] \in Nat /\ \A j \in 0..k : Rates[k] <= Rates[j]}
<1>5. 0 \in Q
  <2>1. 0 \in Epochs /\ \A j \in 0..0 : j = 0
    BY <1>0 DEF Epochs
  <2> QED  BY <1>0, <1>3, <2>1
<1>6. ASSUME NEW k \in 0..(Horizon - 1), k \in Q PROVE k + 1 \in Q
  <2>1. k \in Nat /\ k + 1 \in Epochs /\ (k + 1) - 1 = k /\ k + 1 # 0 /\ k \in 0..k
        /\ \A j \in 0..(k + 1) : j = k + 1 \/ j \in 0..k
    BY <1>0 DEF Epochs
  <2>2. Rates[k + 1] = Reduced(Rates[k]) /\ Rates[k] \in Nat /\ \A j \in 0..k : Rates[k] <= Rates[j]
    BY <1>3, <1>6, <2>1
  <2>3. Rates[k + 1] \in Nat /\ Rates[k + 1] <= Rates[k]
    BY <2>2, ReducedIsLess
  <2>4. ASSUME NEW j \in 0..k PROVE Rates[k + 1] <= Rates[j]
    <3>1. Rates[j] \in Nat
      <4>1. j = 0 \/ j # 0
        OBVIOUS
      <4> QED
        <5> DEFINE N == {i \in Epochs : Rates[i] \in Nat}
        <5>1. 0 \in N
          BY <1>0, <1>3 DEF Epochs
        <5>2. ASSUME NEW i \in 0..(Horizon - 1), i \in N PROVE i + 1 \in N
          <6>1. i + 1 \in Epochs /\ i + 1 # 0 /\ (i + 1) - 1 = i
            BY <1>0 DEF Epochs
          <6> QED  BY <1>3, <5>2, <6>1, ReducedIsLess
        <5> HIDE DEF N
        <5>3. 0..Horizon \subseteq N
          BY <1>0, <5>1, <5>2, Induction
        <5>4. j \in 0..Horizon
          BY <1>0
        <5>5. j \in N
          BY <5>3, <5>4
        <5> QED  BY <5>5 DEF N
    <3> QED  BY <2>2, <2>3, <3>1
  <2> QED  BY <2>1, <2>3, <2>4
<1>7. Epochs \subseteq Q
  <2> HIDE DEF Q
  <2> QED  BY <1>0, <1>5, <1>6, Induction DEF Epochs
<1>8. \A k \in Epochs : Rates[k] \in Nat /\ \A j \in 0..k : Rates[k] <= Rates[j]
  BY <1>7
<1>9. \A j, k \in Epochs : j <= k => j \in 0..k
  BY <1>0 DEF Epochs
<1>10. Rates \in [Epochs -> Nat]
  BY <1>2, <1>8
<1>11. 0 \in Epochs
  BY <1>0 DEF Epochs
<1> QED  BY <1>3, <1>4, <1>8, <1>9, <1>10, <1>11

LEMMA EpochsOfTimes ==
    ASSUME NEW t \in Start..Horizon
    PROVE  /\ EpochOf(t) \in Epochs
           /\ \A k \in Nat : EpochStart(k) <= t => k <= EpochOf(t)
           /\ \A k \in Nat : t < EpochStart(k + 1) => EpochOf(t) <= k
<1> DEFINE x == t - Start
           q == x \div RateReductionTime
<1>0. RateReductionTime \in Nat \ {0} /\ Start \in Nat /\ Horizon \in Nat /\ t \in Nat
  BY ControllerAssumption, MiningAssumption, GaugesAssumption
<1>1. x \in Nat /\ x <= Horizon /\ EpochOf(t) = q
  BY <1>0 DEF EpochOf
<1> HIDE DEF x
<1>2. /\ q \in Nat /\ RateReductionTime * q <= x
      /\ \A m \in Nat : x <= m * RateReductionTime => q <= m
      /\ \A m \in Nat : m * RateReductionTime <= x => m <= q
  BY <1>0, <1>1, Quotients
<1> HIDE DEF q
<1>3. q <= x
  <2>1. x <= x * RateReductionTime
    BY <1>0, <1>1
  <2> QED  BY <1>1, <1>2, <2>1
<1>4. ASSUME NEW k \in Nat, EpochStart(k) <= t PROVE k <= q
  <2>1. k * RateReductionTime <= x
    BY <1>0, <1>4 DEF EpochStart, x
  <2> QED  BY <1>2, <2>1
<1>5. ASSUME NEW k \in Nat, t < EpochStart(k + 1) PROVE q <= k
  <2>1. x < (k + 1) * RateReductionTime
    BY <1>0, <1>5 DEF EpochStart, x
  <2>2. SUFFICES ASSUME k + 1 <= q PROVE FALSE
    BY <1>2
  <2>3. (k + 1) * RateReductionTime <= q * RateReductionTime
    BY <1>0, <1>2, <2>2
  <2> DEFINE y == (k + 1) * RateReductionTime
             z == q * RateReductionTime
  <2>4. y \in Nat /\ z \in Nat /\ z <= x /\ x < y /\ y <= z
    BY <1>0, <1>2, <2>1, <2>3
  <2> HIDE DEF y, z
  <2> QED  BY <1>1, <2>4
<1>6. q \in Epochs
  BY <1>0, <1>1, <1>2, <1>3 DEF Epochs
<1> QED  BY <1>1, <1>4, <1>5, <1>6

\* In an epoch, or later, no more is emitted than at its rate; until it ends, no less.
LEMMA EmissionAtRates ==
    ASSUME NEW a \in Nat, NEW b \in Nat, Start <= a, a <= b, b <= Horizon + 1
    PROVE  /\ Emission(a, b) \in Nat
           /\ \A k \in Epochs : EpochStart(k) <= a => Emission(a, b) <= Rates[k] * (b - a)
           /\ \A k \in Epochs : b <= EpochStart(k + 1) => Rates[k] * (b - a) <= Emission(a, b)
           /\ \A c \in Nat : b <= c /\ c <= Horizon + 1 => Emission(a, c) = Emission(a, b) + Emission(b, c)
<1>0. Start \in Nat /\ Horizon \in Nat
  BY ControllerAssumption, MiningAssumption
<1>1. ASSUME NEW t \in Start..Horizon
      PROVE  /\ RateAt[t] \in Nat
             /\ \A k \in Epochs : EpochStart(k) <= t => RateAt[t] <= Rates[k]
             /\ \A k \in Epochs : t < EpochStart(k + 1) => Rates[k] <= RateAt[t]
  <2>1. RateAt[t] = Rates[EpochOf(t)] /\ EpochOf(t) \in Epochs /\ \A k \in Epochs : k \in Nat
    BY EpochsOfTimes DEF RateAt, Epochs
  <2> QED  BY <2>1, EpochsOfTimes, RatesFall
<1>2. \A t \in a..(b - 1) : t \in Start..Horizon /\ a <= t /\ t < b
  BY <1>0
<1>3. ASSUME NEW c \in Nat, b <= c, c <= Horizon + 1
      PROVE  Emission(a, c) = Emission(a, b) + Emission(b, c)
  <2>1. \A t \in a..(c - 1) : RateAt[t] \in Int
    BY <1>0, <1>1, <1>3
  <2> QED  BY <1>3, <2>1, BetweenAdds DEF Emission
<1>4. \A t \in a..(b - 1) : RateAt[t] \in Int /\ 0 <= RateAt[t]
  BY <1>1, <1>2
<1>5. Emission(a, b) \in Nat
  <2>1. Between(RateAt, a, b) \in Int
    BY <1>4, BetweenSteps
  <2>2. 0 * (b - a) <= Between(RateAt, a, b) /\ 0 * (b - a) = 0
    BY <1>4, BetweenBounds
  <2> QED  BY <2>1, <2>2 DEF Emission
<1>6. ASSUME NEW k \in Epochs, EpochStart(k) <= a PROVE Emission(a, b) <= Rates[k] * (b - a)
  <2>1. EpochStart(k) \in Int /\ Rates[k] \in Int
    BY <1>0, RatesFall, GaugesAssumption DEF EpochStart, Epochs
  <2>2. \A t \in a..(b - 1) : EpochStart(k) <= t
    BY <1>6, <2>1
  <2>3. \A t \in a..(b - 1) : RateAt[t] <= Rates[k]
    BY <1>1, <1>2, <2>2
  <2>4. PICK r \in Int : r = Rates[k]
    BY <2>1
  <2>5. \A t \in a..(b - 1) : RateAt[t] <= r
    BY <2>3, <2>4
  <2>6. Between(RateAt, a, b) <= r * (b - a)
    BY <1>4, <2>5, BetweenBounds
  <2> QED  BY <2>4, <2>6 DEF Emission
<1>7. ASSUME NEW k \in Epochs, b <= EpochStart(k + 1) PROVE Rates[k] * (b - a) <= Emission(a, b)
  <2>1. EpochStart(k + 1) \in Int /\ Rates[k] \in Int
    BY <1>0, RatesFall, GaugesAssumption DEF EpochStart, Epochs
  <2>2. \A t \in a..(b - 1) : t < EpochStart(k + 1)
    BY <1>7, <2>1
  <2>3. \A t \in a..(b - 1) : Rates[k] <= RateAt[t]
    BY <1>1, <1>2, <2>2
  <2>4. PICK r \in Int : r = Rates[k]
    BY <2>1
  <2>5. \A t \in a..(b - 1) : r <= RateAt[t]
    BY <2>3, <2>4
  <2>6. r * (b - a) <= Between(RateAt, a, b)
    BY <1>4, <2>5, BetweenBounds
  <2> QED  BY <2>4, <2>6 DEF Emission
<1> QED  BY <1>3, <1>5, <1>6, <1>7

-----------------------------------------------------------------------------
(* Shares *)

\* The shares of all gauges are at most one.
LEMMA SharesAddUp ==
    ASSUME ControllerIInv, NEW w \in Weeks, w < NextWeek
    PROVE  /\ \A g \in Gauges : FinalShare(g, w) \in Nat
           /\ SumFunction([g \in Gauges |-> FinalShare(g, w)]) <= Multiplier
<1> DEFINE n == OfAllTypes(w)
           a(k) == TypeWeightAt(type_weight[k], w)
           b(g) == Continued(weight[g])[w].bias
           bs(k) == Continued(sum[k])[w].bias
           x == [g \in Gauges |-> IF gauge_type[g] = NoType THEN 0 ELSE a(gauge_type[g]) * b(g)]
           s == [g \in Gauges |-> FinalShare(g, w)]
           zero == [g \in Gauges |-> 0]
<1>0. /\ IsFiniteSet(Gauges) /\ Multiplier \in Nat /\ ControllerTypes /\ NextWeek \in Nat
      /\ IsFiniteSet(Added) /\ Added \subseteq Types /\ NoType \notin Added
  BY ControllerAssumption, MiningAssumption, InvariantTypes, AddedIsFinite DEF NoType
<1>1. n \in Nat
  BY TotalsRead
<1>2. \A k \in Added : a(k) \in Nat /\ bs(k) \in Nat
  <2> SUFFICES ASSUME NEW k \in Added PROVE a(k) \in Nat /\ bs(k) \in Nat
    OBVIOUS
  <2>1. k \in Types
    BY <1>0
  <2>2. Continued(sum[k]) \in [Weeks -> Point]
    BY <1>0, <2>1, HistoryContinues DEF ControllerIInv, TypesAreTallied
  <2> QED  BY <2>1, <2>2, TypeWeightsRead DEF Point
<1>3. \A g \in Gauges : b(g) \in Nat /\ (gauge_type[g] # NoType => gauge_type[g] \in Added)
  <2> SUFFICES ASSUME NEW g \in Gauges PROVE b(g) \in Nat /\ (gauge_type[g] # NoType => gauge_type[g] \in Added)
    OBVIOUS
  <2>1. Continued(weight[g]) \in [Weeks -> Point]
    BY <1>0, HistoryContinues DEF ControllerIInv, GaugesAreTallied
  <2> QED  BY <2>1, TypesOfGauges DEF Point
<1> HIDE DEF a, b, bs
<1>4. x \in [Gauges -> Nat]
  BY <1>2, <1>3
<1>5. ASSUME NEW k \in Added PROVE SumFunctionOnSet(x, {g \in Gauges : gauge_type[g] = k}) = bs(k) * a(k)
  <2> DEFINE G == {g \in Gauges : gauge_type[g] = k}
             y == [g \in G |-> b(g)]
             z == [g \in G |-> 0]
  <2>1. bs(k) = SumFunction(y)
    BY DEF bs, b, ControllerIInv, SumsAddUp
  <2>2. IsFiniteSet(G) /\ y \in [G -> Int] /\ z \in [G -> Int] /\ a(k) \in Int /\ bs(k) \in Int
    BY <1>0, <1>2, <1>3, FS_Subset
  <2>3. \A g \in G : x[g] = z[g] + a(k) * y[g]
    <3> SUFFICES ASSUME NEW g \in G PROVE x[g] = z[g] + a(k) * y[g]
      OBVIOUS
    <3>1. x[g] = a(k) * b(g) /\ a(k) \in Nat /\ b(g) \in Nat /\ z[g] = 0 /\ y[g] = b(g)
      BY <1>0, <1>2, <1>3
    <3> HIDE DEF x, y, z
    <3> QED  BY <3>1
  <2>4. \A g \in G : x[g] \in Int
    BY <1>4
  <2>5. \A g \in G : z[g] = 0
    OBVIOUS
  <2>6. SumFunctionOnSet(y, G) = SumFunction(y) /\ SumFunctionOnSet(z, G) = SumFunction(z)
    BY DEF SumFunction
  <2> HIDE DEF G, y, z, x
  <2>7. SumFunctionOnSet(x, G) = SumFunctionOnSet(z, G) + a(k) * SumFunctionOnSet(y, G)
    BY <2>2, <2>3, <2>4, SumOnLinear
  <2>8. SumFunction(z) = 0
    BY <2>2, <2>5, SumOfNone
  <2>9. SumFunctionOnSet(x, G) = a(k) * bs(k)
    BY <2>1, <2>2, <2>6, <2>7, <2>8
  <2> QED  BY <2>2, <2>9 DEF G
<1>6. SumFunction(x) = n
  <2>1. SumFunctionOnSet(x, Gauges) = SumFunction([k \in Added |-> SumFunctionOnSet(x, {g \in Gauges : gauge_type[g] = k})])
    <3>1. \A g \in Gauges : x[g] \in Int /\ (gauge_type[g] \in Added \/ x[g] = 0)
      BY <1>3, <1>4
    <3> HIDE DEF x
    <3> QED  BY <1>0, <3>1, SumByKind
  <2>2. [k \in Added |-> SumFunctionOnSet(x, {g \in Gauges : gauge_type[g] = k})] = [k \in Added |-> bs(k) * a(k)]
    BY <1>5
  <2>3. SumFunctionOnSet(x, Gauges) = SumFunction(x)
    BY DEF SumFunction
  <2>4. n = SumFunction([k \in Added |-> bs(k) * a(k)])
    BY DEF OfAllTypes, bs, a
  <2> QED  BY <2>1, <2>2, <2>3, <2>4
<1>7. ASSUME NEW g \in Gauges PROVE s[g] \in Nat /\ n * s[g] <= Multiplier * x[g]
  <2>1. s[g] = IF n = 0 \/ gauge_type[g] = NoType THEN 0 ELSE (Multiplier * a(gauge_type[g]) * b(g)) \div n
    BY DEF FinalShare, a, b
  <2>2. CASE n = 0 \/ gauge_type[g] = NoType
    <3>1. s[g] = 0 /\ x[g] \in Nat
      BY <1>4, <2>1, <2>2
    <3> HIDE DEF s, x, n
    <3> QED  BY <1>0, <1>1, <3>1
  <2>3. CASE ~(n = 0 \/ gauge_type[g] = NoType)
    <3> DEFINE p == a(gauge_type[g])
               m == Multiplier * p * b(g)
    <3>1. p \in Nat /\ b(g) \in Nat /\ x[g] = p * b(g) /\ s[g] = m \div n /\ n \in Nat \ {0}
      BY <1>1, <1>2, <1>3, <2>1, <2>3
    <3>2. m = Multiplier * (p * b(g)) /\ m \in Nat
      <4> HIDE DEF p, x, s, n
      <4> QED  BY <1>0, <3>1
    <3> HIDE DEF p, m, x, s, n
    <3>3. m \div n \in Nat /\ n * (m \div n) <= m
      BY <3>1, <3>2, Quotients
    <3> QED  BY <3>1, <3>2, <3>3
  <2> QED  BY <2>2, <2>3
<1>8. s \in [Gauges -> Nat] /\ \A g \in Gauges : s[g] = FinalShare(g, w)
  BY <1>7
<1> DEFINE ns == [g \in Gauges |-> n * s[g]]
           mx == [g \in Gauges |-> Multiplier * x[g]]
           S == SumFunction(s)
<1> HIDE DEF s, x, n
<1>9. /\ ns \in [Gauges -> Int] /\ mx \in [Gauges -> Int] /\ zero \in [Gauges -> Int]
      /\ s \in [Gauges -> Int] /\ x \in [Gauges -> Int] /\ n \in Int /\ Multiplier \in Int
      /\ \A g \in Gauges : /\ ns[g] = zero[g] + n * s[g]
                           /\ mx[g] = zero[g] + Multiplier * x[g]
                           /\ ns[g] <= mx[g] /\ zero[g] = 0
  BY <1>0, <1>1, <1>4, <1>7, <1>8
<1> HIDE DEF ns, mx, zero
<1>10. /\ SumFunction(ns) = SumFunction(zero) + n * SumFunction(s)
       /\ SumFunction(mx) = SumFunction(zero) + Multiplier * SumFunction(x)
       /\ SumFunction(ns) <= SumFunction(mx) /\ SumFunction(zero) = 0
  <2>1. SumFunction(ns) = SumFunction(zero) + n * SumFunction(s)
    BY <1>0, <1>9, SumLinear
  <2>2. SumFunction(mx) = SumFunction(zero) + Multiplier * SumFunction(x)
    BY <1>0, <1>9, SumLinear
  <2>3. SumFunction(ns) <= SumFunction(mx)
    BY <1>0, <1>9, SumMonotone
  <2>4. SumFunction(zero) = 0
    BY <1>0, <1>9, SumOfNone
  <2> QED  BY <2>1, <2>2, <2>3, <2>4
<1>11. S \in Nat
  BY <1>0, <1>8, SumOfNats
<1> HIDE DEF S
<1>12. n * S <= Multiplier * n
  <2>1. n * S \in Int /\ Multiplier * n \in Int
    BY <1>0, <1>1, <1>11
  <2>2. SumFunction(ns) = 0 + n * S /\ SumFunction(mx) = 0 + Multiplier * n
    BY <1>6, <1>10 DEF S
  <2> QED  BY <1>10, <2>1, <2>2
<1>13. S <= Multiplier
  <2>1. CASE n = 0
    <3>1. \A g \in Gauges : s[g] = 0
      BY <2>1, <1>8 DEF FinalShare, n
    <3>2. S = 0
      BY <1>0, <1>9, <3>1, SumOfNone DEF S
    <3> QED  BY <1>0, <3>2
  <2>2. CASE n # 0
    <3>1. SUFFICES ASSUME Multiplier + 1 <= S PROVE FALSE
      BY <1>0, <1>11
    <3>2. (Multiplier + 1) * n <= S * n /\ (Multiplier + 1) * n = Multiplier * n + n
      BY <1>0, <1>1, <1>11, <3>1
    <3> DEFINE p == Multiplier * n
               q == S * n
    <3>3. p \in Nat /\ q \in Nat /\ q <= p /\ p + n <= q /\ n \in Nat
      BY <1>0, <1>1, <1>11, <1>12, <3>2
    <3> HIDE DEF p, q
    <3> QED  BY <2>2, <3>3
  <2> QED  BY <2>1, <2>2
<1> QED  BY <1>8, <1>13 DEF S, s

\* A gauge that has computed the emissions until w has the rate of the epoch, although
\* the next one may begin in w.
OnSchedule(rate, start, w) ==
    \E k \in Epochs : rate = Rates[k] /\ start = EpochStart(k) /\ w <= EpochStart(k + 1)

\* What all gauges may be given of the week w, for a share.
Allotted(share, w) == IF share = 0 THEN 0 ELSE share * Emission(w, w + Week)

LEMMA AllottedIsNat ==
    ASSUME NEW share \in Nat, NEW w \in Nat, share = 0 \/ Start <= w, w + Week <= Horizon + 1
    PROVE  Allotted(share, w) \in Nat
<1>1. Week \in Nat
  BY ControllerAssumption, MiningAssumption
<1>2. CASE share = 0
  BY <1>2 DEF Allotted
<1>3. CASE share # 0
  <2>1. Emission(w, w + Week) \in Nat
    BY <1>1, <1>3, EmissionAtRates
  <2>2. PICK r \in Nat : r = Emission(w, w + Week)
    BY <2>1
  <2>3. Allotted(share, w) = share * r
    BY <1>3, <2>2 DEF Allotted
  <2> QED  BY <2>3
<1> QED  BY <1>2, <1>3

\* A quotient of a product, by the factor that bounds it.
LEMMA Scaled ==
    ASSUME NEW share \in Nat, NEW rate \in Nat, NEW time \in Nat, NEW limit \in Nat, rate * time <= limit
    PROVE  /\ (share * rate * time) \div Multiplier \in Nat
           /\ Multiplier * ((share * rate * time) \div Multiplier) <= share * limit
           /\ share = 0 => (share * rate * time) \div Multiplier = 0
<1> DEFINE x == rate * time
           p == share * rate * time
<1>0. Multiplier \in Nat \ {0}
  BY ControllerAssumption, MiningAssumption
<1>1. x \in Nat /\ p = share * x
  OBVIOUS
<1> HIDE DEF x
<1>2. share * x <= share * limit /\ share * x \in Nat
  BY <1>1 DEF x
<1>3. share = 0 => p = 0
  BY <1>1
<1>4. p \in Nat
  BY <1>1, <1>2
<1> HIDE DEF p
<1>5. /\ p \div Multiplier \in Nat /\ Multiplier * (p \div Multiplier) <= p
      /\ \A m \in Nat : p <= m * Multiplier => p \div Multiplier <= m
  BY <1>0, <1>4, Quotients
<1>6. ASSUME share = 0 PROVE p \div Multiplier = 0
  <2>1. p <= 0 * Multiplier
    BY <1>0, <1>3, <1>6
  <2>2. p \div Multiplier <= 0
    BY <1>5, <2>1
  <2> QED  BY <1>5, <2>2
<1>7. Multiplier * (p \div Multiplier) <= share * limit
  <2> DEFINE q == Multiplier * (p \div Multiplier)
             l == share * limit
             y == share * x
  <2>1. q \in Int /\ l \in Int /\ y \in Int /\ q <= p /\ p = y /\ y <= l
    BY <1>0, <1>1, <1>2, <1>5
  <2> HIDE DEF q, l, y
  <2>2. q <= l
    BY <2>1
  <2> QED  BY <2>2 DEF q, l
<1> QED  BY <1>5, <1>6, <1>7 DEF p

\* In a week a gauge emits no more than its share, although its rate changes when the
\* epoch does, and it keeps to the schedule.
LEMMA WeekIsAllotted ==
    ASSUME NEW e \in [rate : Nat, start : Nat, sum : Nat], NEW w \in Nat, OnSchedule(e.rate, e.start, w),
           NEW share \in Nat, share = 0 \/ Start <= w, w + Week <= Horizon + 1
    PROVE  LET e2 == WeekEmitted(e, w, share)
           IN /\ e2 \in [rate : Nat, start : Nat, sum : Nat]
              /\ OnSchedule(e2.rate, e2.start, w + Week)
              /\ Multiplier * e2.sum <= Multiplier * e.sum + Allotted(share, w)
<1> DEFINE e2 == WeekEmitted(e, w, share)
           next == e.start + RateReductionTime
           before == next - w
<1>0. /\ {Week, Multiplier} \subseteq Nat \ {0} /\ {RateReductionTime, Start, Horizon} \subseteq Nat
      /\ RateReductionTime > Week
  BY ControllerAssumption, MiningAssumption, GaugesAssumption
<1>1. PICK k \in Epochs : e.rate = Rates[k] /\ e.start = EpochStart(k) /\ w <= EpochStart(k + 1)
  BY DEF OnSchedule
<1>2. /\ k \in Nat /\ next \in Nat /\ next = EpochStart(k + 1) /\ EpochStart(k + 1 + 1) = next + RateReductionTime
      /\ w <= next
  <2>1. k \in Nat
    BY <1>0 DEF Epochs
  <2>2. /\ (k + 1) * RateReductionTime = k * RateReductionTime + RateReductionTime
        /\ (k + 1 + 1) * RateReductionTime = (k + 1) * RateReductionTime + RateReductionTime
    BY <1>0, <2>1
  <2> DEFINE x == k * RateReductionTime
             y == (k + 1) * RateReductionTime
             z == (k + 1 + 1) * RateReductionTime
  <2>3. x \in Nat /\ y = x + RateReductionTime /\ z = y + RateReductionTime
    BY <1>0, <2>1, <2>2
  <2>4. EpochStart(k) = Start + x /\ EpochStart(k + 1) = Start + y /\ EpochStart(k + 1 + 1) = Start + z
    BY DEF EpochStart
  <2> HIDE DEF x, y, z
  <2> QED  BY <1>0, <1>1, <2>1, <2>3, <2>4
<1>3. e.rate \in Nat /\ e.sum \in Nat
  OBVIOUS
<1>4. CASE next < w + Week
  <2> DEFINE rate == Reduced(e.rate)
             after == Week - before
             first == (share * e.rate * before) \div Multiplier
             second == (share * rate * after) \div Multiplier
  <2>1. e2 = [rate |-> rate, start |-> next, sum |-> e.sum + first + second]
    BY <1>2, <1>4 DEF WeekEmitted
  <2>2. k + 1 \in Epochs /\ (k + 1) - 1 = k /\ k + 1 # 0
    <3> DEFINE y == (k + 1) * RateReductionTime
    <3>1. y \in Nat /\ k + 1 <= y
      BY <1>0, <1>2
    <3>2. next = Start + y
      BY <1>2 DEF EpochStart
    <3> HIDE DEF y, next
    <3>3. k + 1 <= Horizon
      BY <1>0, <1>2, <1>4, <3>1, <3>2
    <3> QED  BY <1>0, <1>2, <3>3 DEF Epochs
  <2>3. rate = Rates[k + 1] /\ rate \in Nat
    BY <1>1, <2>2, RatesFall
  <2>4. before \in Nat /\ after \in Nat /\ next + after = w + Week /\ w + before = next
        /\ w + Week <= EpochStart(k + 1 + 1)
    BY <1>0, <1>2, <1>4
  <2>5. PICK later \in Nat : later = w + Week
    BY <1>0
  <2> HIDE DEF rate, e2
  <2>6. CASE share = 0
    <3>1. first = 0 /\ second = 0
      <4>1. ASSUME NEW r \in Nat, NEW t \in Nat PROVE (share * r * t) \div Multiplier = 0
        <5>1. r * t \in Nat /\ r * t <= r * t
          OBVIOUS
        <5> QED  BY <2>6, <5>1, Scaled
      <4> HIDE DEF before, after
      <4>3. first = 0
        BY <1>3, <2>4, <4>1
      <4>4. second = 0
        BY <2>3, <2>4, <4>1
      <4> QED  BY <4>3, <4>4
    <3> HIDE DEF first, second, next
    <3>2. e2.sum = e.sum
      BY <1>3, <2>1, <3>1
    <3>3. e2 \in [rate : Nat, start : Nat, sum : Nat]
      BY <1>2, <1>3, <2>1, <2>3, <3>1
    <3>4. OnSchedule(e2.rate, e2.start, w + Week)
      BY <1>2, <2>1, <2>2, <2>3, <2>4 DEF OnSchedule
    <3>5. Multiplier * e2.sum <= Multiplier * e.sum + Allotted(share, w)
      BY <1>0, <1>3, <2>6, <3>2 DEF Allotted
    <3> QED  BY <3>3, <3>4, <3>5 DEF e2
  <2>7. CASE share # 0
    <3> DEFINE a == Emission(w, next)
               b == Emission(next, later)
    <3>1. /\ a \in Nat /\ e.rate * before <= a
          /\ b \in Nat /\ rate * after <= b
          /\ Emission(w, later) = a + b
      <4>1. Start <= w /\ w <= next /\ next <= later /\ next <= Horizon + 1 /\ later <= Horizon + 1 /\ Start <= next
            /\ next - w = before /\ later - next = after
        BY <1>0, <1>2, <1>4, <2>4, <2>5, <2>7
      <4>2. next <= EpochStart(k + 1) /\ later <= EpochStart(k + 1 + 1)
        BY <1>2, <2>4, <2>5
      <4> HIDE DEF next, before, after
      <4>3. a \in Nat /\ Rates[k] * (next - w) <= a /\ Emission(w, later) = a + b
        BY <1>2, <4>1, <4>2, EmissionAtRates
      <4>4. b \in Nat /\ Rates[k + 1] * (later - next) <= b
        BY <1>2, <2>2, <4>1, <4>2, EmissionAtRates
      <4> QED  BY <1>1, <2>3, <4>1, <4>3, <4>4
    <3> HIDE DEF a, b, before, after, next
    <3>2. first \in Nat /\ Multiplier * first <= share * a
      BY <1>3, <2>4, <3>1, Scaled
    <3>3. second \in Nat /\ Multiplier * second <= share * b
      BY <2>3, <2>4, <3>1, Scaled
    <3>4. Allotted(share, w) = share * (a + b)
      BY <2>5, <2>7, <3>1 DEF Allotted
    <3> HIDE DEF first, second
    <3>5. e2 \in [rate : Nat, start : Nat, sum : Nat] /\ e2.sum = e.sum + first + second
      BY <1>2, <1>3, <2>1, <2>3, <3>2, <3>3
    <3>6. OnSchedule(e2.rate, e2.start, w + Week)
      BY <1>2, <2>1, <2>2, <2>3, <2>4 DEF OnSchedule
    <3>7. Multiplier * (e.sum + first + second) <= Multiplier * e.sum + share * (a + b)
      <4>1. Multiplier * (e.sum + first + second) = Multiplier * e.sum + Multiplier * first + Multiplier * second
        BY <1>0, <1>3, <3>2, <3>3
      <4>2. share * (a + b) = share * a + share * b
        BY <3>1
      <4>3. /\ Multiplier * e.sum \in Int /\ Multiplier * first \in Int /\ Multiplier * second \in Int
            /\ share * a \in Int /\ share * b \in Int
        BY <1>0, <1>3, <3>1, <3>2, <3>3
      <4> DEFINE m == Multiplier * e.sum
                 m1 == Multiplier * first
                 m2 == Multiplier * second
                 s1 == share * a
                 s2 == share * b
      <4>4. m1 <= s1 /\ m2 <= s2 /\ m \in Int /\ m1 \in Int /\ m2 \in Int /\ s1 \in Int /\ s2 \in Int
        BY <3>2, <3>3, <4>3
      <4>5. Multiplier * (e.sum + first + second) = m + m1 + m2 /\ share * (a + b) = s1 + s2
            /\ Multiplier * e.sum = m
        BY <4>1, <4>2
      <4> HIDE DEF m, m1, m2, s1, s2
      <4> QED  BY <4>4, <4>5
    <3> QED  BY <3>4, <3>5, <3>6, <3>7 DEF e2
  <2> QED  BY <2>6, <2>7
<1>5. CASE ~(next < w + Week)
  <2> DEFINE more == (share * e.rate * Week) \div Multiplier
  <2>1. e2 = [e EXCEPT !.sum = @ + more]
    BY <1>5 DEF WeekEmitted
  <2>2. w + Week <= EpochStart(k + 1)
    BY <1>0, <1>2, <1>5
  <2>3. more \in Nat /\ Multiplier * more <= Allotted(share, w)
    <3>1. CASE share = 0
      <4>1. e.rate * Week \in Nat
        BY <1>0, <1>3
      <4>2. more = 0
        BY <1>0, <1>3, <3>1, <4>1, Scaled
      <4> QED  BY <1>0, <3>1, <4>2 DEF Allotted
    <3>2. CASE share # 0
      <4>1. PICK later \in Nat : later = w + Week
        BY <1>0
      <4>2. Emission(w, later) \in Nat /\ Rates[k] * (later - w) <= Emission(w, later) /\ later - w = Week
        BY <1>0, <2>2, <3>2, <4>1, EmissionAtRates
      <4>3. PICK r \in Nat : r = Emission(w, later)
        BY <4>2
      <4>4. e.rate * Week <= r
        BY <1>1, <4>2, <4>3
      <4>5. more \in Nat /\ Multiplier * more <= share * r
        BY <1>0, <1>3, <4>4, Scaled
      <4> QED  BY <3>2, <4>1, <4>3, <4>5 DEF Allotted
    <3> QED  BY <3>1, <3>2
  <2> HIDE DEF more, e2
  <2>4. e2 \in [rate : Nat, start : Nat, sum : Nat] /\ e2.sum = e.sum + more /\ e2.rate = e.rate /\ e2.start = e.start
    BY <2>1, <2>3
  <2>5. OnSchedule(e2.rate, e2.start, w + Week)
    BY <1>1, <2>2, <2>4 DEF OnSchedule
  <2>6. Multiplier * (e.sum + more) <= Multiplier * e.sum + Allotted(share, w)
    <3>1. PICK c \in Int : c = Allotted(share, w)
      BY AllottedIsNat
    <3>2. Multiplier * (e.sum + more) = Multiplier * e.sum + Multiplier * more
      BY <1>0, <1>3, <2>3
    <3>3. Multiplier * e.sum \in Int /\ Multiplier * more \in Int
      BY <1>0, <1>3, <2>3
    <3> QED  BY <2>3, <3>1, <3>2, <3>3
  <2> QED  BY <2>4, <2>5, <2>6 DEF e2
<1> QED  BY <1>4, <1>5

\* The weeks that are over.
LEMMA WeeksThatAreOver ==
    ASSUME now \in Start..Horizon, NEW n \in Nat, n <= CurrentPeriod
    PROVE  /\ n * Week \in Weeks /\ n * Week \in Nat /\ n * Week < NextWeek /\ n * Week <= LastWeekOver
           /\ ((n * Week) \div Week) * Week = n * Week
           /\ (n + 1) * Week = n * Week + Week /\ (n + 1) * Week <= now /\ n * Week + Week <= Horizon + 1
<1> DEFINE p == CurrentPeriod
           d == now \div Week
           m == now % Week
           x == n * Week
           y == p * Week
<1>0. /\ Week \in Nat \ {0} /\ {Start, Horizon} \subseteq Nat /\ p \in Nat /\ LastWeekOver = y
      /\ LastWeekOver < NextWeek /\ NextWeek \in Nat
  BY LastWeekOverIsOver, NextWeekIsNext, WeekSteps, ControllerAssumption, MiningAssumption DEF LastWeekOver
<1>1. d \in Int /\ m \in 0..(Week - 1) /\ now = d * Week + m /\ p = d - 1
  <2>1. now \in Nat /\ p = d - 1
    BY <1>0 DEF CurrentPeriod
  <2> HIDE DEF p
  <2>2. d \in Int /\ m \in 0..(Week - 1) /\ now = d * Week + m
    BY <1>0, <2>1
  <2> QED  BY <2>1, <2>2
<1> HIDE DEF p, d, m
<1>2. d = p + 1 /\ d * Week = y + Week /\ y \in Nat
  BY <1>0, <1>1
<1>3. x <= y /\ x \in Nat /\ (n + 1) * Week = x + Week
  <2>1. n <= p
    BY DEF p
  <2> QED  BY <1>0, <2>1
<1>4. x % Week = 0
  BY <1>0, Multiples
<1>5. (x \div Week) * Week = x
  <2> DEFINE e == x \div Week
  <2> HIDE DEF x
  <2>1. e \in Int /\ x = e * Week + (x % Week)
    BY <1>0, <1>3
  <2> HIDE DEF e
  <2>2. e * Week = x
    BY <1>0, <1>3, <1>4, <2>1
  <2> QED  BY <2>2 DEF e
<1>6. x + Week <= now /\ now <= Horizon /\ now \in Nat
  <2> HIDE DEF x, y
  <2> QED  BY <1>0, <1>1, <1>2, <1>3
<1>7. x \in Weeks
  <2>1. x <= LastWeek /\ LastWeek \in Nat
    <3>1. LastWeek \in Nat /\ LastWeek >= Horizon + Week
      BY <1>0, LastWeekIsLast
    <3> HIDE DEF x
    <3> QED  BY <1>0, <1>3, <1>6, <3>1
  <2> QED  BY <1>3, <1>4, <2>1 DEF Weeks
<1> HIDE DEF x, y
<1>8. x < NextWeek /\ x <= LastWeekOver /\ x + Week <= Horizon + 1
  BY <1>0, <1>2, <1>3, <1>6
<1> QED  BY <1>3, <1>5, <1>6, <1>7, <1>8 DEF x

LEMMA AllottedGrows ==
    ASSUME NEW share \in Nat, NEW all \in Nat, share <= all, NEW w \in Nat, all = 0 \/ Start <= w,
           w + Week <= Horizon + 1
    PROVE  Allotted(share, w) <= Allotted(all, w)
<1>1. Week \in Nat
  BY ControllerAssumption, MiningAssumption
<1>2. CASE share = 0
  <2>1. Allotted(share, w) = 0 /\ Allotted(all, w) \in Nat
    BY <1>2, AllottedIsNat DEF Allotted
  <2> QED  BY <2>1
<1>3. CASE share # 0
  <2>1. Emission(w, w + Week) \in Nat
    BY <1>1, <1>3, EmissionAtRates
  <2>2. PICK r \in Nat : r = Emission(w, w + Week)
    BY <2>1
  <2>3. Allotted(share, w) = share * r /\ Allotted(all, w) = all * r
    BY <1>3, <2>2 DEF Allotted
  <2>4. share * r <= all * r
    BY <2>2
  <2> QED  BY <2>3, <2>4
<1> QED  BY <1>2, <1>3

EmittedSoFar == [rate : Nat, start : Nat, sum : Nat]

LEMMA WeekEmittedType ==
    ASSUME NEW e \in EmittedSoFar, NEW w \in Nat, NEW share \in Nat
    PROVE  WeekEmitted(e, w, share) \in EmittedSoFar
<1> DEFINE next == e.start + RateReductionTime
           before == next - w
           rate == Reduced(e.rate)
           after == Week - before
           first == (share * e.rate * before) \div Multiplier
           second == (share * rate * after) \div Multiplier
           more == (share * e.rate * Week) \div Multiplier
<1>0. {Week, RateReductionTime} \subseteq Nat
  BY ControllerAssumption, MiningAssumption, GaugesAssumption
<1>1. e.rate \in Nat /\ e.start \in Nat /\ e.sum \in Nat /\ next \in Nat /\ rate \in Nat
  BY <1>0, ReducedIsLess DEF EmittedSoFar
<1>2. ASSUME NEW r \in Nat, NEW t \in Nat PROVE (share * r * t) \div Multiplier \in Nat
  <2>1. r * t \in Nat /\ r * t <= r * t
    OBVIOUS
  <2> QED  BY <2>1, Scaled
<1>3. WeekEmitted(e, w, share) =
          IF w <= next /\ next < w + Week THEN [rate |-> rate, start |-> next, sum |-> e.sum + first + second]
          ELSE [e EXCEPT !.sum = @ + more]
  BY DEF WeekEmitted
<1>4. ASSUME w <= next, next < w + Week PROVE first \in Nat /\ second \in Nat
  <2>1. before \in Nat /\ after \in Nat
    BY <1>0, <1>1, <1>4
  <2> HIDE DEF before, after, rate
  <2> QED  BY <1>1, <1>2, <2>1
<1>5. more \in Nat
  BY <1>0, <1>1, <1>2
<1> HIDE DEF first, second, more, next, rate
<1>6. [e EXCEPT !.sum = @ + more] \in EmittedSoFar
  BY <1>1, <1>5 DEF EmittedSoFar
<1>7. ASSUME first \in Nat, second \in Nat
      PROVE  [rate |-> rate, start |-> next, sum |-> e.sum + first + second] \in EmittedSoFar
  BY <1>1, <1>7 DEF EmittedSoFar
<1> QED  BY <1>3, <1>4, <1>6, <1>7

\* What the gauge could have been given in each week, by its votes.
AllottedTo(g) == [n \in Nat |-> Allotted(FinalShare(g, n * Week), n * Week)]

\* No gauge has a share of the weeks before the schedule is activated.
NothingBeforeStart == \A g \in Gauges, w \in Weeks : w < Start => FinalShare(g, w) = 0

LEMMA AllottedToIsNat ==
    ASSUME ControllerIInv, NothingBeforeStart, NEW g \in Gauges, NEW n \in Nat, n <= CurrentPeriod
    PROVE  /\ AllottedTo(g)[n] \in Nat
           /\ FinalShare(g, n * Week) \in Nat
           /\ FinalShare(g, n * Week) = 0 \/ Start <= n * Week
<1>1. now \in Start..Horizon /\ Start \in Nat
  BY InvariantTypes, ControllerAssumption, MiningAssumption
<1>2. n * Week \in Weeks /\ n * Week \in Nat /\ n * Week < NextWeek /\ n * Week + Week <= Horizon + 1
  BY <1>1, WeeksThatAreOver
<1>3. PICK w \in Weeks : w = n * Week
  BY <1>2
<1>4. FinalShare(g, w) \in Nat /\ (FinalShare(g, w) = 0 \/ Start <= w)
  <2>1. FinalShare(g, w) \in Nat
    BY <1>2, <1>3, SharesAddUp
  <2> QED  BY <1>1, <1>2, <1>3, <2>1 DEF NothingBeforeStart
<1>5. Allotted(FinalShare(g, w), w) \in Nat
  BY <1>2, <1>3, <1>4, AllottedIsNat
<1>6. AllottedTo(g)[n] = Allotted(FinalShare(g, w), w)
  BY <1>3 DEF AllottedTo
<1> QED  BY <1>3, <1>4, <1>5, <1>6

\* A gauge, as its checkpoints find it.
KeepsToSchedule(g) ==
    /\ gauge[g].period \in Nat /\ gauge[g].period <= CurrentPeriod
    /\ {gauge[g].rate, gauge[g].start, gauge[g].cap} \subseteq Nat
    /\ OnSchedule(gauge[g].rate, gauge[g].start, (gauge[g].period + 1) * Week)

\* Until the current week, a gauge that reads its votes emits no more than it is allotted.
LEMMA EmittedIsAllotted ==
    ASSUME ControllerIInv, NothingBeforeStart, NEW g \in Gauges, KeepsToSchedule(g), NEW relative,
           \A n \in (gauge[g].period + 1)..CurrentPeriod : relative[n * Week] = FinalShare(g, n * Week)
    PROVE  /\ Emitted(g, relative) \in EmittedSoFar
           /\ OnSchedule(Emitted(g, relative).rate, Emitted(g, relative).start, (CurrentPeriod + 1) * Week)
           /\ Multiplier * Emitted(g, relative).sum <= Between(AllottedTo(g), gauge[g].period + 1, CurrentPeriod + 1)
<1> DEFINE first == gauge[g].period
           last == CurrentPeriod
           D == first..last
           a == [rate |-> gauge[g].rate, start |-> gauge[g].start, sum |-> 0]
           given(n) == Min({relative[n * Week], gauge[g].cap})
           until[n \in D] == IF n = first THEN a ELSE WeekEmitted(until[n - 1], n * Week, given(n))
           next == [n \in Nat |-> [e \in EmittedSoFar |-> WeekEmitted(e, n * Week, given(n))]]
           f == AllottedTo(g)
<1>0. /\ first \in Nat /\ last \in Nat /\ first <= last /\ now \in Start..Horizon /\ gauge[g].cap \in Nat
      /\ {Week, Multiplier} \subseteq Nat /\ last + 1 \in Nat
  BY InvariantTypes, LastWeekOverIsOver, ControllerAssumption, MiningAssumption DEF KeepsToSchedule
<1>1. Emitted(g, relative) = until[last]
  BY DEF Emitted
<1>2. a \in EmittedSoFar /\ OnSchedule(a.rate, a.start, (first + 1) * Week) /\ a.sum = 0
  BY DEF KeepsToSchedule, EmittedSoFar
<1>3. ASSUME NEW n \in (first + 1)..last
      PROVE  /\ n \in Nat /\ n * Week \in Nat /\ n <= last
             /\ FinalShare(g, n * Week) \in Nat /\ (FinalShare(g, n * Week) = 0 \/ Start <= n * Week)
             /\ given(n) \in Nat /\ given(n) <= FinalShare(g, n * Week)
             /\ n * Week + Week <= Horizon + 1 /\ (n + 1) * Week = n * Week + Week
             /\ f[n] = Allotted(FinalShare(g, n * Week), n * Week)
  <2>1. n \in Nat /\ n <= last
    BY <1>0
  <2>2. n * Week \in Nat /\ n * Week + Week <= Horizon + 1 /\ (n + 1) * Week = n * Week + Week
    BY <1>0, <2>1, WeeksThatAreOver
  <2>3. FinalShare(g, n * Week) \in Nat /\ (FinalShare(g, n * Week) = 0 \/ Start <= n * Week)
    BY <2>1, AllottedToIsNat
  <2>4. given(n) \in Nat /\ given(n) <= FinalShare(g, n * Week)
    <3> DEFINE s == relative[n * Week]
               c == gauge[g].cap
    <3>1. s = FinalShare(g, n * Week) /\ s \in Nat /\ c \in Nat
      BY <1>0, <2>3
    <3> HIDE DEF s, c
    <3>2. Min({s, c}) = IF s <= c THEN s ELSE c
      BY <3>1, MinOfTwo
    <3> QED  BY <3>1, <3>2 DEF s, c
  <2>5. f[n] = Allotted(FinalShare(g, n * Week), n * Week)
    BY <2>1 DEF AllottedTo
  <2> QED  BY <2>1, <2>2, <2>3, <2>4, <2>5
<1> HIDE DEF given, f
<1>4. ASSUME NEW n \in (first + 1)..last, NEW e \in EmittedSoFar
      PROVE  next[n][e] = WeekEmitted(e, n * Week, given(n)) /\ next[n][e] \in EmittedSoFar
  <2>1. next[n][e] = WeekEmitted(e, n * Week, given(n))
    BY <1>3
  <2>2. WeekEmitted(e, n * Week, given(n)) \in EmittedSoFar
    BY <1>3, WeekEmittedType
  <2> QED  BY <2>1, <2>2
<1>5. until = [n \in D |-> IF n = first THEN a ELSE WeekEmitted(until[n - 1], n * Week, given(n))]
  <2>1. \E u : u = [n \in D |-> IF n = first THEN a ELSE WeekEmitted(u[n - 1], n * Week, given(n))]
    <3> DEFINE m == last - first
    <3>1. m \in Nat /\ first + m = last /\ first \in Int
      BY <1>0
    <3> HIDE DEF next, a, m
    <3>2. \A n \in (first + 1)..(first + m), e \in EmittedSoFar : next[n][e] \in EmittedSoFar
      BY <1>4, <3>1
    <3>3. PICK u \in [first..(first + m) -> EmittedSoFar] : Recurs(u, first, first + m, a, next)
      BY <1>2, <3>1, <3>2, RecursionExists
    <3>4. u = [n \in D |-> IF n = first THEN a ELSE next[n][u[n - 1]]] /\ u \in [D -> EmittedSoFar]
      BY <3>1, <3>3 DEF Recurs
    <3>5. ASSUME NEW n \in D, n # first PROVE next[n][u[n - 1]] = WeekEmitted(u[n - 1], n * Week, given(n))
      <4>1. n - 1 \in D /\ n \in (first + 1)..last
        BY <1>0, <3>5
      <4> QED  BY <1>4, <3>4, <4>1
    <3>6. u = [n \in D |-> IF n = first THEN a ELSE WeekEmitted(u[n - 1], n * Week, given(n))]
      BY <3>4, <3>5
    <3> QED  BY <3>6
  <2> QED  BY <2>1
<1> HIDE DEF until, next, a
<1>6. \A n \in D : until[n] = IF n = first THEN a ELSE WeekEmitted(until[n - 1], n * Week, given(n))
  BY <1>5
<1> DEFINE Right(n) == /\ until[n] \in EmittedSoFar
                       /\ OnSchedule(until[n].rate, until[n].start, (n + 1) * Week)
                       /\ Multiplier * until[n].sum <= Between(f, first + 1, n + 1)
           P == {i \in 0..(last - first) : Right(first + i)}
<1>7. 0 \in P
  <2>1. until[first] = a /\ first + 0 = first /\ 0 \in 0..(last - first)
    BY <1>0, <1>6
  <2>2. Between(f, first + 1, first + 1) = 0
    <3>1. PICK t \in Int : t = first + 1
      BY <1>0
    <3>2. \A i \in t..(t - 1) : f[i] \in Int
      OBVIOUS
    <3>3. Between(f, t, t) = 0
      BY <3>2, BetweenSteps
    <3> QED  BY <3>1, <3>3
  <2>3. Multiplier * 0 = 0
    BY <1>0
  <2>4. Right(first)
    BY <1>2, <2>1, <2>2, <2>3
  <2> QED  BY <2>1, <2>4
<1>8. ASSUME NEW i \in 0..((last - first) - 1), i \in P PROVE i + 1 \in P
  <2> DEFINE n == first + (i + 1)
             e == until[n - 1]
             w == n * Week
             s == given(n)
             all == FinalShare(g, w)
  <2>1. n \in (first + 1)..last /\ n \in D /\ n # first /\ n - 1 = first + i /\ n \in Nat /\ i + 1 \in 0..(last - first)
        /\ (n - 1) + 1 = n
    BY <1>0
  <2>2. Right(n - 1)
    BY <1>8, <2>1
  <2>3. e \in EmittedSoFar /\ OnSchedule(e.rate, e.start, w) /\ Multiplier * e.sum <= Between(f, first + 1, n)
    BY <2>1, <2>2
  <2>4. until[n] = WeekEmitted(e, w, s)
    BY <1>6, <2>1
  <2> DEFINE e2 == until[n]
  <2>5. /\ w \in Nat /\ s \in Nat /\ all \in Nat /\ s <= all /\ (all = 0 \/ Start <= w)
        /\ w + Week <= Horizon + 1 /\ (n + 1) * Week = w + Week /\ f[n] = Allotted(all, w)
    BY <1>3, <2>1
  <2>6. /\ \A t \in (first + 1)..((n + 1) - 1) : f[t] \in Int
        /\ \A t \in (first + 1)..(n - 1) : f[t] \in Int
        /\ f[n] \in Int
    <3>1. \A t \in Nat : t <= last => f[t] \in Nat
      BY AllottedToIsNat DEF f
    <3> QED  BY <1>0, <2>1, <3>1
  <2> HIDE DEF n, e, w, s, all, e2, Right
  <2>7. /\ e2 \in EmittedSoFar
        /\ OnSchedule(e2.rate, e2.start, w + Week)
        /\ Multiplier * e2.sum <= Multiplier * e.sum + Allotted(s, w)
    <3>1. s = 0 \/ Start <= w
      BY <2>5
    <3> QED  BY <2>3, <2>4, <2>5, <3>1, WeekIsAllotted DEF EmittedSoFar, e2
  <2>8. Allotted(s, w) <= f[n] /\ Allotted(s, w) \in Int
    <3>1. s = 0 \/ Start <= w
      BY <2>5
    <3> QED  BY <2>5, <3>1, AllottedGrows, AllottedIsNat
  <2>9. Between(f, first + 1, n + 1) = Between(f, first + 1, n) + f[n] /\ Between(f, first + 1, n) \in Int
    <3>1. first + 1 \in Int /\ n \in Int /\ first + 1 <= n
      BY <1>0, <2>1
    <3> QED  BY <2>6, <3>1, BetweenSteps
  <2>10. Multiplier * e2.sum <= Between(f, first + 1, n + 1)
    <3>1. Multiplier * e.sum \in Int /\ Multiplier * e2.sum \in Int
      BY <1>0, <2>3, <2>7 DEF EmittedSoFar
    <3> QED  BY <2>3, <2>6, <2>7, <2>8, <2>9, <3>1
  <2>11. Right(n)
    BY <2>5, <2>7, <2>10 DEF Right, e2
  <2> QED  BY <2>1, <2>11 DEF n
<1>9. Right(last)
  <2> HIDE DEF P, Right
  <2>1. last - first \in Nat /\ first + (last - first) = last /\ last - first \in 0..(last - first)
    BY <1>0
  <2>2. 0..(last - first) \subseteq P
    BY <1>7, <1>8, <2>1, Induction
  <2>3. last - first \in P
    BY <2>1, <2>2
  <2> QED  BY <2>1, <2>3 DEF P
<1> QED  BY <1>1, <1>9 DEF f

-----------------------------------------------------------------------------
(* The invariant of the emissions *)

\* What a checkpoint reads once the gauge and the total are filled in.
FilledInIsShare ==
    \A g \in Gauges : ControllerIInv /\ total.time = NextWeek /\ weight[g].time \in {0, NextWeek} =>
        \A w \in Weeks : w < NextWeek /\ (w \div Week) * Week = w => RelativeWeight(g, w) = FinalShare(g, w)

LEMMA FilledInIsRead == FilledInIsShare
<1> SUFFICES ASSUME NEW g \in Gauges, ControllerIInv, total.time = NextWeek, weight[g].time \in {0, NextWeek},
                    NEW w \in Weeks, w < NextWeek, (w \div Week) * Week = w
             PROVE  RelativeWeight(g, w) = FinalShare(g, w)
  BY DEF FilledInIsShare
<1> DEFINE k == gauge_type[g]
           n == OfAllTypes(w)
           a == TypeWeightAt(type_weight[k], w)
           b == Continued(weight[g])[w].bias
<1>0. /\ ControllerTypes /\ now \in Start..Horizon /\ w \in Nat /\ NextWeek \in Nat /\ w <= NextWeek
  BY InvariantTypes
<1>1. total.points[w] = n
  BY <1>0, TotalsRead
<1>2. weight[g].points[w] = Continued(weight[g])[w]
  <2>1. IsHistoryOf(weight[g], TallyOf(g), NextWeek)
    BY DEF ControllerIInv, GaugesAreTallied
  <2>2. /\ w <= weight[g].time => weight[g].points[w] = Continued(weight[g])[w]
        /\ weight[g].time = 0 => Continued(weight[g]) = weight[g].points
    BY <2>1, HistoryContinues
  <2> QED  BY <1>0, <2>2
<1>3. k # NoType => type_weight[k].points[w] = a
  <2>1. SUFFICES ASSUME k # NoType PROVE type_weight[k].points[w] = a
    OBVIOUS
  <2>2. k \in Types
    BY <1>0, <2>1 DEF ControllerTypes
  <2>3. w <= total.time
    BY <1>0
  <2> QED  BY <2>2, <2>3, TypeWeightsRead
<1>4. FinalShare(g, w) = IF n = 0 \/ k = NoType THEN 0 ELSE (Multiplier * a * b) \div n
  BY DEF FinalShare
<1>5. RelativeWeight(g, w) =
          IF total.points[w] = 0 \/ k = NoType THEN 0
          ELSE (Multiplier * type_weight[k].points[w] * weight[g].points[w].bias) \div total.points[w]
  BY DEF RelativeWeight, Relative
<1> HIDE DEF k, n, a
<1> QED  BY <1>1, <1>2, <1>3, <1>4, <1>5

\* A gauge that is not late.
GaugeState == [period : Nat, rate : Nat, start : Nat, emissions : Nat, killed : BOOLEAN, cap : Nat,
               minted : Int, kept : Int, late : {FALSE}]

\* The epoch of the BalancerTokenAdmin has begun, and its supply includes all that was
\* emitted before.
MiningIsTimely ==
    /\ mining \in [start : Nat, supply : Nat, rate : Nat]
    /\ \E j \in Epochs : /\ mining.rate = Rates[j] /\ mining.start = EpochStart(j) /\ EpochStart(j) <= now
                         /\ Emission(Start, EpochStart(j)) <= mining.supply

\* A gauge has emitted no more than what it was allotted week by week.
GaugeIsAllotted(g) ==
    /\ gauge[g].period = NotCreated => gauge[g].emissions = 0
    /\ gauge[g].period # NotCreated =>
          /\ KeepsToSchedule(g)
          /\ Multiplier * gauge[g].emissions <= Between(AllottedTo(g), 0, gauge[g].period + 1)

\* A gauge that is the first to notice a new epoch: it may emit more than it is allotted.
IsLate(g) == {"period", "late"} \subseteq DOMAIN gauge[g] /\ gauge[g].late = TRUE /\ gauge[g].period # NotCreated

GaugeIsKnown(g) == IsLate(g) \/ (gauge[g] \in GaugeState /\ GaugeIsAllotted(g))

GaugesAreAllotted ==
    /\ gauge = [g \in Gauges |-> gauge[g]]
    /\ \A g \in Gauges : GaugeIsKnown(g)
    /\ listed \subseteq Created

ScheduleIInv == EmissionsIInv /\ NothingBeforeStart /\ MiningIsTimely /\ GaugesAreAllotted

\* Each epoch follows the one before it.
LEMMA EpochsFollow ==
    ASSUME NEW j \in Epochs
    PROVE  /\ j \in Nat /\ EpochStart(j) \in Nat /\ EpochStart(j) >= Start
           /\ EpochStart(j + 1) = EpochStart(j) + RateReductionTime
           /\ EpochStart(j + 1) <= Horizon => j + 1 \in Epochs /\ Rates[j + 1] = Reduced(Rates[j])
<1>0. {RateReductionTime, Start, Horizon} \subseteq Nat /\ RateReductionTime > 0
  BY ControllerAssumption, MiningAssumption, GaugesAssumption
<1>1. j \in Nat
  BY <1>0 DEF Epochs
<1> DEFINE x == j * RateReductionTime
           y == (j + 1) * RateReductionTime
<1>2. x \in Nat /\ y = x + RateReductionTime /\ j + 1 <= y
  BY <1>0, <1>1
<1>3. EpochStart(j) = Start + x /\ EpochStart(j + 1) = Start + y
  BY DEF EpochStart
<1> HIDE DEF x, y
<1>4. ASSUME EpochStart(j + 1) <= Horizon PROVE j + 1 \in Epochs /\ Rates[j + 1] = Reduced(Rates[j])
  <2>1. j + 1 <= Horizon
    BY <1>0, <1>1, <1>2, <1>3, <1>4
  <2>2. j + 1 \in Epochs /\ j + 1 # 0 /\ (j + 1) - 1 = j
    BY <1>0, <1>1, <2>1 DEF Epochs
  <2> QED  BY <2>2, RatesFall
<1> QED  BY <1>0, <1>1, <1>2, <1>3, <1>4

\* What the token may mint covers what was emitted until now.
LEMMA SupplyCovers ==
    ASSUME ControllerIInv, MiningIsTimely
    PROVE  /\ Updated(mining) \in [start : Nat, supply : Nat, rate : Nat]
           /\ \E j \in Epochs : /\ Updated(mining).rate = Rates[j] /\ Updated(mining).start = EpochStart(j)
                                /\ EpochStart(j) <= now /\ Emission(Start, EpochStart(j)) <= Updated(mining).supply
           /\ Emission(Start, now) <= AvailableSupply(Updated(mining))
<1>0. now \in Start..Horizon /\ now \in Nat /\ {Start, Horizon, RateReductionTime} \subseteq Nat /\ now <= Horizon
  BY InvariantTypes, ControllerAssumption, MiningAssumption, GaugesAssumption
<1> DEFINE m == Updated(mining)
           Timely(j, n) == /\ n.rate = Rates[j] /\ n.start = EpochStart(j)
                           /\ EpochStart(j) <= now /\ Emission(Start, EpochStart(j)) <= n.supply
           Mining == [start : Nat, supply : Nat, rate : Nat]
<1>1. PICK j \in Epochs : Timely(j, mining)
  BY DEF MiningIsTimely
<1>2. mining \in Mining
  BY DEF MiningIsTimely
<1>3. m \in Mining /\ \E i \in Epochs : Timely(i, m)
  <2>1. CASE ~EpochIsOver(mining)
    BY <1>1, <1>2, <2>1 DEF Updated
  <2>2. CASE EpochIsOver(mining)
    <3> DEFINE a == EpochStart(j)
               b == EpochStart(j + 1)
               e == Emission(Start, a)
               e2 == Emission(a, b)
    <3>1. m = [start |-> mining.start + RateReductionTime, supply |-> mining.supply + mining.rate * RateReductionTime,
               rate |-> Reduced(mining.rate)]
      BY <2>2 DEF Updated
    <3>2. b = a + RateReductionTime /\ b <= now /\ a \in Nat /\ b \in Nat /\ Start <= a
      BY <1>0, <1>1, <2>2, EpochsFollow DEF EpochIsOver
    <3>3. j + 1 \in Epochs /\ Rates[j + 1] = Reduced(Rates[j])
      BY <1>0, <3>2, EpochsFollow
    <3>4. mining.rate \in Nat /\ mining.supply \in Nat /\ mining.rate * RateReductionTime \in Nat
      BY <1>0, <1>2
    <3>5. e \in Nat /\ e2 \in Nat /\ Emission(Start, b) = e + e2 /\ e2 <= Rates[j] * RateReductionTime
      <4>1. /\ a <= b /\ b <= Horizon + 1 /\ a <= Horizon + 1 /\ Start <= Start /\ b - a = RateReductionTime
            /\ EpochStart(j) <= a
        BY <1>0, <3>2
      <4> HIDE DEF a, b
      <4>2. e \in Nat /\ Emission(Start, b) = e + e2
        BY <1>0, <3>2, <4>1, EmissionAtRates
      <4>3. e2 \in Nat /\ e2 <= Rates[j] * (b - a)
        BY <3>2, <4>1, EmissionAtRates
      <4> QED  BY <4>1, <4>2, <4>3
    <3> HIDE DEF m, e, e2
    <3>6. m \in Mining
      BY <1>0, <1>2, <3>1, <3>4, ReducedIsLess
    <3>7. m.rate = Rates[j + 1] /\ m.start = b
      BY <1>1, <3>1, <3>2, <3>3
    <3>8. Emission(Start, b) <= m.supply
      <4> DEFINE x == mining.rate * RateReductionTime
      <4>1. m.supply = mining.supply + x /\ x \in Nat /\ e2 <= x /\ e <= mining.supply
        BY <1>1, <3>1, <3>4, <3>5 DEF e
      <4> HIDE DEF x
      <4> QED  BY <3>4, <3>5, <4>1
    <3> QED  BY <3>2, <3>3, <3>6, <3>7, <3>8
  <2> QED  BY <2>1, <2>2
<1>4. PICK i \in Epochs : Timely(i, m)
  BY <1>3
<1> HIDE DEF m
<1>5. Emission(Start, now) <= AvailableSupply(m)
  <2> DEFINE a == EpochStart(i)
             x == Rates[i] * (now - a)
  <2>1. a \in Nat /\ Start <= a /\ a <= now /\ m.start = a /\ m.rate = Rates[i] /\ m.supply \in Nat
    BY <1>3, <1>4, EpochsFollow
  <2>2. now <= Horizon + 1 /\ a <= Horizon + 1
    BY <1>0, <2>1
  <2>3. EpochStart(i) <= a
    BY <2>1
  <2>4. Emission(Start, a) <= m.supply
    BY <1>4
  <2> HIDE DEF a
  <2>5. Emission(Start, now) = Emission(Start, a) + Emission(a, now) /\ Emission(Start, a) \in Nat
    <3>1. Start \in Nat /\ Start <= Start
      BY <1>0
    <3>2. /\ Emission(Start, a) \in Nat
          /\ \A c \in Nat : a <= c /\ c <= Horizon + 1 => Emission(Start, c) = Emission(Start, a) + Emission(a, c)
      <4> HIDE DEF Timely
      <4> QED  BY <2>1, <2>2, <3>1, EmissionAtRates
    <3> QED  BY <1>0, <2>1, <2>2, <3>2
  <2>6. Emission(a, now) \in Nat /\ Emission(a, now) <= x
    BY <1>0, <2>1, <2>2, <2>3, EmissionAtRates
  <2>7. AvailableSupply(m) = m.supply + x /\ x \in Int
    <3>1. Rates[i] \in Nat
      BY RatesFall
    <3>2. (now - a) * Rates[i] = x /\ x \in Int
      BY <1>0, <2>1, <3>1
    <3> QED  BY <2>1, <3>2 DEF AvailableSupply
  <2> HIDE DEF x
  <2> QED  BY <2>1, <2>4, <2>5, <2>6, <2>7
<1> QED  BY <1>3, <1>4, <1>5 DEF m

\* The schedule of the token goes on.
LEMMA MiningStaysTimely ==
    ASSUME ControllerIInv, ControllerIInv', MiningIsTimely, now <= now',
           mining' = mining \/ (mining' = Updated(mining) /\ now' = now)
    PROVE  MiningIsTimely'
<1>0. now \in Nat /\ now' \in Nat
  <2>1. now \in Start..Horizon /\ now' \in Start..Horizon
    BY DEF ControllerIInv, ControllerTypes
  <2> QED  BY <2>1, ControllerAssumption, MiningAssumption
<1>1. CASE mining' = mining
  <2>1. PICK j \in Epochs : /\ mining.rate = Rates[j] /\ mining.start = EpochStart(j) /\ EpochStart(j) <= now
                            /\ Emission(Start, EpochStart(j)) <= mining.supply
    BY DEF MiningIsTimely
  <2>2. EpochStart(j) <= now'
    BY <1>0, <2>1, EpochsFollow
  <2> QED  BY <1>1, <2>1, <2>2 DEF MiningIsTimely
<1>2. CASE mining' = Updated(mining) /\ now' = now
  BY <1>2, SupplyCovers DEF MiningIsTimely
<1> QED  BY <1>1, <1>2

LEMMA BetweenSame ==
    ASSUME NEW f, NEW h, NEW a, NEW b, \A t \in a..(b - 1) : f[t] = h[t]
    PROVE  Between(f, a, b) = Between(h, a, b)
<1>1. [t \in a..(b - 1) |-> f[t]] = [t \in a..(b - 1) |-> h[t]]
  OBVIOUS
<1> QED  BY <1>1 DEF Between

\* What was allotted in weeks that are over stays allotted.
LEMMA AllottedStays ==
    ASSUME ControllerIInv, ControllerIInv', KeepsPast, NothingBeforeStart
    PROVE  /\ NothingBeforeStart'
           /\ \A g \in Gauges, n \in Nat : n <= CurrentPeriod =>
                 /\ FinalShare(g, n * Week)' = FinalShare(g, n * Week)
                 /\ AllottedTo(g)'[n] = AllottedTo(g)[n]
<1>0. now \in Start..Horizon /\ NextWeek \in Nat /\ now < NextWeek /\ Start \in Nat
  BY InvariantTypes, NextWeekIsNext, ControllerAssumption, MiningAssumption
<1>1. ASSUME NEW g \in Gauges, NEW w \in Weeks, w < NextWeek PROVE FinalShare(g, w)' = FinalShare(g, w)
  BY <1>1, SharesAreKept
<1>2. NothingBeforeStart'
  <2>1. ASSUME NEW g \in Gauges, NEW w \in Weeks, w < Start PROVE FinalShare(g, w)' = 0
    <3>1. w < NextWeek
      BY <1>0, <2>1, WeekSteps
    <3> QED  BY <1>1, <2>1, <3>1 DEF NothingBeforeStart
  <2> QED  BY <2>1 DEF NothingBeforeStart
<1>3. ASSUME NEW g \in Gauges, NEW n \in Nat, n <= CurrentPeriod
      PROVE  FinalShare(g, n * Week)' = FinalShare(g, n * Week) /\ AllottedTo(g)'[n] = AllottedTo(g)[n]
  <2>1. n * Week \in Weeks /\ n * Week < NextWeek
    BY <1>0, <1>3, WeeksThatAreOver
  <2>2. PICK w \in Weeks : w = n * Week
    BY <2>1
  <2>3. FinalShare(g, w)' = FinalShare(g, w)
    BY <1>1, <2>1, <2>2
  <2>4. AllottedTo(g)[n] = Allotted(FinalShare(g, w), w)
    BY <2>2 DEF AllottedTo
  <2>5. AllottedTo(g)'[n] = Allotted(FinalShare(g, w)', w)
    BY <2>2 DEF AllottedTo
  <2> QED  BY <2>2, <2>3, <2>4, <2>5
<1> QED  BY <1>2, <1>3

\* A gauge that is not checkpointed.
LEMMA GaugeStaysAllotted ==
    ASSUME ControllerIInv, ControllerIInv', KeepsPast, NothingBeforeStart, now <= now', NEW g \in Gauges,
           GaugeIsAllotted(g), gauge[g] \in GaugeState, gauge'[g] \in GaugeState, gauge'[g].period = gauge[g].period,
           gauge'[g].rate = gauge[g].rate, gauge'[g].start = gauge[g].start, gauge'[g].emissions = gauge[g].emissions
    PROVE  GaugeIsAllotted(g)'
<1>0. now \in Start..Horizon /\ now' \in Start..Horizon /\ CurrentPeriod \in Nat /\ CurrentPeriod' \in Int
  <2>1. now \in Start..Horizon /\ now' \in Start..Horizon
    BY DEF ControllerIInv, ControllerTypes
  <2>2. \A n \in Start..Horizon : n \div Week - 1 \in Int
    BY ControllerAssumption, MiningAssumption
  <2> QED  BY <2>1, <2>2, LastWeekOverIsOver DEF CurrentPeriod
<1>1. CurrentPeriod <= CurrentPeriod'
  BY <1>0, PeriodsGoOn
<1> DEFINE p == gauge[g].period
<1>2. p \in Nat
  BY DEF GaugeState
<1>3. CASE p = NotCreated
  BY <1>3 DEF GaugeIsAllotted
<1>4. CASE p # NotCreated
  <2>1. KeepsToSchedule(g) /\ Multiplier * gauge[g].emissions <= Between(AllottedTo(g), 0, p + 1)
    BY <1>4 DEF GaugeIsAllotted
  <2>2. p <= CurrentPeriod /\ p <= CurrentPeriod' /\ OnSchedule(gauge[g].rate, gauge[g].start, (p + 1) * Week)
    BY <1>0, <1>1, <1>2, <2>1 DEF KeepsToSchedule
  <2>3. KeepsToSchedule(g)'
    <3>1. {gauge'[g].rate, gauge'[g].start, gauge'[g].cap} \subseteq Nat
      BY DEF GaugeState
    <3>2. OnSchedule(gauge'[g].rate, gauge'[g].start, (gauge'[g].period + 1) * Week)
      BY <2>2
    <3> QED  BY <1>2, <2>2, <3>1, <3>2 DEF KeepsToSchedule
  <2>4. Between(AllottedTo(g)', 0, p + 1) = Between(AllottedTo(g), 0, p + 1)
    <3>1. \A t \in 0..((p + 1) - 1) : AllottedTo(g)'[t] = AllottedTo(g)[t]
      <4>1. \A t \in 0..((p + 1) - 1) : t \in Nat /\ t <= CurrentPeriod
        BY <1>0, <1>2, <2>2
      <4> QED  BY <4>1, AllottedStays
    <3> HIDE DEF p
    <3> QED  BY <3>1, BetweenSame
  <2> QED  BY <1>4, <2>1, <2>3, <2>4 DEF GaugeIsAllotted
<1> QED  BY <1>3, <1>4

\* A gauge of which nothing changes that its emissions depend on.
LEMMA GaugeStaysKnown ==
    ASSUME ControllerIInv, ControllerIInv', KeepsPast, NothingBeforeStart, now <= now', NEW g \in Gauges,
           GaugeIsKnown(g), gauge'[g] = gauge[g]
    PROVE  GaugeIsKnown(g)'
<1>1. CASE IsLate(g)
  BY <1>1 DEF IsLate, GaugeIsKnown
<1>2. CASE gauge[g] \in GaugeState /\ GaugeIsAllotted(g)
  BY <1>2, GaugeStaysAllotted DEF GaugeIsKnown
<1> QED  BY <1>1, <1>2 DEF GaugeIsKnown

\* A gauge that is created when the epoch of the BalancerTokenAdmin is not over.
LEMMA CreatedIsAllotted ==
    ASSUME ControllerIInv, ControllerIInv', KeepsPast, NothingBeforeStart, MiningIsTimely, GaugesAreAllotted,
           ~EpochIsOver(mining), NEW g \in Gauges, NEW cap \in Caps, CreateGauge(g, cap)
    PROVE  gauge'[g] \in GaugeState /\ GaugeIsAllotted(g)' /\ gauge'[g].period # NotCreated
<1> DEFINE p == CurrentPeriod
           f == AllottedTo(g)
<1>0. /\ now \in Start..Horizon /\ p \in Nat /\ p # NotCreated /\ cap \in Nat /\ now' = now /\ CurrentPeriod' = p
      /\ now \in Nat /\ RateReductionTime \in Nat
  <2>1. now' = now
    BY DEF CreateGauge, controllerVars, lockVars
  <2>2. CurrentPeriod \in Nat /\ CurrentPeriod >= 1 /\ now \in Start..Horizon /\ CurrentPeriod' = CurrentPeriod
    BY <2>1, InvariantTypes, LastWeekOverIsOver DEF CurrentPeriod
  <2> QED  BY <2>1, <2>2, GaugesAssumption, ControllerAssumption, MiningAssumption DEF NotCreated
<1>1. ~EpochIsOver(mining) /\ gauge[g].period = NotCreated
  BY DEF CreateGauge
<1>2. PICK j \in Epochs : mining.rate = Rates[j] /\ mining.start = EpochStart(j)
  BY DEF MiningIsTimely
<1>3. gauge[g] \in GaugeState /\ gauge[g].emissions = 0 /\ mining.rate \in Nat /\ mining.start \in Nat
  BY <1>1 DEF GaugesAreAllotted, GaugeIsKnown, IsLate, GaugeIsAllotted, MiningIsTimely
<1>4. gauge'[g] = [gauge[g] EXCEPT !.rate = mining.rate, !.start = mining.start, !.period = p, !.cap = cap,
                                   !.late = FALSE]
  <2>1. Updated(mining) = mining
    BY <1>1 DEF Updated
  <2>2. gauge' = [gauge EXCEPT ![g] =
          [@ EXCEPT !.rate = mining.rate, !.start = Updated(mining).start, !.period = CurrentPeriod, !.cap = cap,
                    !.late = EpochIsOver(mining)]]
    BY DEF CreateGauge
  <2>3. g \in DOMAIN gauge /\ EpochIsOver(mining) = FALSE
    <3>1. gauge = [h \in Gauges |-> gauge[h]]
      BY DEF GaugesAreAllotted
    <3>2. g \in DOMAIN gauge
      BY <3>1
    <3> QED  BY <1>1, <3>2 DEF EpochIsOver
  <2> HIDE DEF p
  <2> QED  BY <2>1, <2>2, <2>3 DEF p
<1> HIDE DEF p
<1>5. /\ gauge'[g] \in GaugeState /\ gauge'[g].period = p /\ gauge'[g].emissions = 0
      /\ gauge'[g].rate = mining.rate /\ gauge'[g].start = mining.start /\ gauge'[g].cap = cap
  BY <1>0, <1>3, <1>4 DEF GaugeState
<1>6. OnSchedule(mining.rate, mining.start, (p + 1) * Week)
  <2>1. (p + 1) * Week <= now /\ (p + 1) * Week \in Nat
    <3>1. p \in Nat /\ p <= CurrentPeriod
      BY <1>0 DEF p
    <3>2. (p + 1) * Week <= now
      BY <1>0, <3>1, WeeksThatAreOver
    <3> QED  BY <1>0, <3>2, ControllerAssumption, MiningAssumption
  <2>2. now <= EpochStart(j + 1) /\ EpochStart(j + 1) \in Nat
    <3>1. EpochStart(j + 1) = mining.start + RateReductionTime
      BY <1>2, EpochsFollow
    <3> QED  BY <1>0, <1>1, <1>3, <3>1 DEF EpochIsOver
  <2> DEFINE w == (p + 1) * Week
  <2>3. w <= EpochStart(j + 1)
    <3>1. w \in Nat /\ w <= now
      BY <2>1
    <3> HIDE DEF w
    <3> QED  BY <1>0, <2>2, <3>1
  <2> QED  BY <1>2, <2>3 DEF OnSchedule
<1>7. KeepsToSchedule(g)'
  <2>1. OnSchedule(gauge'[g].rate, gauge'[g].start, (gauge'[g].period + 1) * Week)
    BY <1>5, <1>6
  <2> QED  BY <1>0, <1>3, <1>5, <2>1 DEF KeepsToSchedule
<1>8. Multiplier * gauge'[g].emissions <= Between(AllottedTo(g)', 0, p + 1)
  <2>1. \A t \in 0..((p + 1) - 1) : t \in Nat /\ t <= CurrentPeriod
    BY <1>0 DEF p
  <2>2. \A t \in 0..((p + 1) - 1) : f[t] \in Int /\ 0 <= f[t] /\ AllottedTo(g)'[t] = f[t]
    <3>1. \A t \in Nat : t <= CurrentPeriod => f[t] \in Nat
      BY AllottedToIsNat
    <3>2. \A t \in Nat : t <= CurrentPeriod => AllottedTo(g)'[t] = f[t]
      BY AllottedStays
    <3> HIDE DEF f
    <3> QED  BY <2>1, <3>1, <3>2
  <2> HIDE DEF f
  <2>3. Between(AllottedTo(g)', 0, p + 1) = Between(f, 0, p + 1)
    BY <2>2, BetweenSame
  <2>4. PICK b \in Int : b = p + 1 /\ 0 <= b
    BY <1>0
  <2>5. 0 * (b - 0) <= Between(f, 0, b)
    <3>1. PICK o \in Int : o = 0
      OBVIOUS
    <3>2. (\A t \in o..(b - 1) : f[t] \in Int) /\ (\A t \in o..(b - 1) : o <= f[t]) /\ o <= b
      BY <2>2, <2>4, <3>1
    <3>3. o * (b - o) <= Between(f, o, b)
      BY <3>2, BetweenBounds
    <3> QED  BY <3>1, <3>3
  <2>6. Multiplier * gauge'[g].emissions = 0 /\ 0 * (b - 0) = 0
    BY <1>5, <2>4, ControllerAssumption, MiningAssumption
  <2> QED  BY <2>3, <2>4, <2>5, <2>6
<1> QED  BY <1>0, <1>5, <1>7, <1>8 DEF GaugeIsAllotted

\* A gauge that is created.
LEMMA CreatedIsKnown ==
    ASSUME EmissionsIInv, EmissionsIInv', KeepsPast, NothingBeforeStart, MiningIsTimely, GaugesAreAllotted,
           NEW g \in Gauges, NEW cap \in Caps, CreateGauge(g, cap)
    PROVE  GaugeIsKnown(g)' /\ gauge'[g].period # NotCreated
<1>0. ControllerIInv /\ ControllerIInv'
  BY DEF EmissionsIInv
<1>1. CASE EpochIsOver(mining)
  <2> DEFINE after == [gauge[g] EXCEPT !.rate = mining.rate, !.start = Updated(mining).start,
                                       !.period = CurrentPeriod, !.cap = cap, !.late = EpochIsOver(mining)]
  <2>1. gauge' = [gauge EXCEPT ![g] = after] /\ gauge[g].period = NotCreated
    BY DEF CreateGauge
  <2>2. g \in DOMAIN gauge /\ {"period", "late"} \subseteq DOMAIN gauge[g]
    <3>1. gauge = [h \in Gauges |-> gauge[h]] /\ GaugeIsKnown(g)
      BY DEF GaugesAreAllotted
    <3>2. g \in DOMAIN gauge
      BY <3>1
    <3> QED  BY <3>1, <3>2 DEF GaugeIsKnown, IsLate, GaugeState
  <2>3. {"period", "late"} \subseteq DOMAIN after /\ after.late = TRUE /\ after.period = CurrentPeriod
    <3>1. EpochIsOver(mining) = TRUE
      BY <1>1 DEF EpochIsOver
    <3> QED  BY <2>2, <3>1
  <2>4. CurrentPeriod # NotCreated
    BY <1>0, InvariantTypes, LastWeekOverIsOver DEF NotCreated
  <2> HIDE DEF after
  <2>5. gauge'[g] = after
    BY <2>1, <2>2
  <2> QED  BY <2>3, <2>4, <2>5 DEF GaugeIsKnown, IsLate
<1>2. CASE ~EpochIsOver(mining)
  BY <1>0, <1>2, CreatedIsAllotted DEF GaugeIsKnown
<1> QED  BY <1>1, <1>2

\* A gauge that is checkpointed by its share of each week.
LEMMA CheckpointIsAllotted ==
    ASSUME ControllerIInv, ControllerIInv', KeepsPast, NothingBeforeStart, now' = now, NEW g \in Gauges,
           gauge[g] \in GaugeState, GaugeIsAllotted(g), gauge[g].period # NotCreated, NEW relative,
           \A n \in (gauge[g].period + 1)..CurrentPeriod : relative[n * Week] = FinalShare(g, n * Week),
           gauge'[g] = Checkpointed(g, relative)
    PROVE  gauge'[g] \in GaugeState /\ GaugeIsAllotted(g)' /\ gauge'[g].period # NotCreated
<1> DEFINE p == gauge[g].period
           q == CurrentPeriod
           f == AllottedTo(g)
           e == Emitted(g, relative)
           mints == e.sum > 0 /\ ~gauge[g].killed
           emissions == gauge[g].emissions + e.sum
           minted == IF mints THEN emissions ELSE gauge[g].minted
           kept == IF mints THEN gauge[g].kept + emissions - gauge[g].minted - e.sum ELSE gauge[g].kept
<1>0. /\ now \in Start..Horizon /\ q \in Nat /\ q # NotCreated /\ CurrentPeriod' = q /\ p \in Nat
      /\ Multiplier \in Nat
  <2>1. CurrentPeriod \in Nat /\ CurrentPeriod >= 1 /\ now \in Start..Horizon /\ CurrentPeriod' = CurrentPeriod
    BY InvariantTypes, LastWeekOverIsOver DEF CurrentPeriod
  <2>2. CurrentPeriod # NotCreated
    BY <2>1 DEF NotCreated
  <2>3. gauge[g].period \in Nat
    BY DEF GaugeState
  <2>4. Multiplier \in Nat
    BY ControllerAssumption, MiningAssumption
  <2> QED  BY <2>1, <2>2, <2>3, <2>4
<1>1. KeepsToSchedule(g) /\ Multiplier * gauge[g].emissions <= Between(f, 0, p + 1) /\ p <= q
  BY DEF GaugeIsAllotted, KeepsToSchedule
<1>2. /\ e \in EmittedSoFar /\ OnSchedule(e.rate, e.start, (q + 1) * Week)
      /\ Multiplier * e.sum <= Between(f, p + 1, q + 1)
  BY <1>1, EmittedIsAllotted
<1>3. gauge'[g] = [gauge[g] EXCEPT !.rate = e.rate, !.start = e.start, !.period = q, !.emissions = emissions,
                                   !.minted = minted, !.kept = kept]
  BY DEF Checkpointed
<1> HIDE DEF p, q, e, f
<1>4. e.rate \in Nat /\ e.start \in Nat /\ e.sum \in Nat /\ gauge[g].emissions \in Nat /\ gauge[g].cap \in Nat
      /\ gauge[g].minted \in Int /\ gauge[g].kept \in Int
  BY <1>2 DEF EmittedSoFar, GaugeState
<1>5. emissions \in Nat /\ minted \in Int /\ kept \in Int
  BY <1>4
<1> HIDE DEF emissions, minted, kept
<1>6. /\ gauge'[g] \in GaugeState /\ gauge'[g].period = q /\ gauge'[g].emissions = emissions
      /\ gauge'[g].rate = e.rate /\ gauge'[g].start = e.start /\ gauge'[g].cap = gauge[g].cap
  BY <1>0, <1>3, <1>4, <1>5 DEF GaugeState
<1>7. KeepsToSchedule(g)'
  <2>1. OnSchedule(gauge'[g].rate, gauge'[g].start, (gauge'[g].period + 1) * Week)
    BY <1>2, <1>6
  <2> QED  BY <1>0, <1>4, <1>6, <2>1 DEF KeepsToSchedule
<1>8. Multiplier * emissions <= Between(AllottedTo(g)', 0, q + 1)
  <2>1. \A t \in 0..((q + 1) - 1) : t \in Nat /\ t <= CurrentPeriod
    BY <1>0 DEF q
  <2>2. \A t \in 0..((q + 1) - 1) : f[t] \in Int /\ AllottedTo(g)'[t] = f[t]
    <3>1. \A t \in Nat : t <= CurrentPeriod => f[t] \in Nat
      BY AllottedToIsNat DEF f
    <3>2. \A t \in Nat : t <= CurrentPeriod => AllottedTo(g)'[t] = f[t]
      BY AllottedStays DEF f
    <3> QED  BY <2>1, <3>1, <3>2
  <2>3. Between(AllottedTo(g)', 0, q + 1) = Between(f, 0, q + 1)
    BY <2>2, BetweenSame
  <2>4. PICK a \in Int, b \in Int : a = p + 1 /\ b = q + 1 /\ 0 <= a /\ a <= b
    BY <1>0, <1>1
  <2>5. Between(f, 0, b) = Between(f, 0, a) + Between(f, a, b)
    <3>1. PICK o \in Int : o = 0
      OBVIOUS
    <3>2. (\A t \in o..(b - 1) : f[t] \in Int) /\ o <= a /\ a <= b
      BY <2>2, <2>4, <3>1
    <3>3. Between(f, o, b) = Between(f, o, a) + Between(f, a, b)
      BY <3>2, BetweenAdds
    <3> QED  BY <3>1, <3>3
  <2>6. Between(f, 0, a) \in Int /\ Between(f, a, b) \in Int
    <3>1. (\A t \in 0..(a - 1) : f[t] \in Int) /\ \A t \in a..(b - 1) : f[t] \in Int
      BY <2>2, <2>4
    <3> QED  BY <3>1, BetweenSteps
  <2>7. Multiplier * emissions = Multiplier * gauge[g].emissions + Multiplier * e.sum
        /\ Multiplier * gauge[g].emissions \in Int /\ Multiplier * e.sum \in Int
    BY <1>0, <1>4 DEF emissions
  <2> QED  BY <1>1, <1>2, <2>3, <2>4, <2>5, <2>6, <2>7
<1> QED  BY <1>0, <1>6, <1>7, <1>8 DEF GaugeIsAllotted

\* What checkpoints read of a week that is over.
LEMMA CheckpointsReadShares ==
    ASSUME ControllerIInv, ControllerIInv', KeepsPast, NEW filled, CheckpointController(filled),
           NEW g \in Gauges, g \in filled, NEW n \in Nat, n <= CurrentPeriod
    PROVE  n * Week \in Weeks /\ RelativeWeight(g, n * Week)' = FinalShare(g, n * Week)
<1>0. /\ now' = now /\ NextWeek' = NextWeek /\ now \in Start..Horizon /\ NextWeek \in Nat /\ total.time \in Nat
      /\ \A w \in Weeks : w \in Nat
  <2>1. now' = now
    BY DEF CheckpointController, lockVars
  <2>2. NextWeek' = NextWeek
    BY <2>1 DEF NextWeek
  <2> QED  BY <2>1, <2>2, InvariantTypes DEF ControllerTypes
<1>1. n * Week \in Weeks /\ n * Week < NextWeek /\ ((n * Week) \div Week) * Week = n * Week
  BY <1>0, WeeksThatAreOver
<1>2. PICK w \in Weeks : w = n * Week
  BY <1>1
<1>3. total'.time = NextWeek
  <2>1. total' = FilledTotal(sum)
    BY DEF CheckpointController, FillGauges, GetTotal
  <2> QED  BY <2>1 DEF FilledTotal
<1>4. weight'[g].time \in {0, NextWeek}
  <2>1. weight'[g] = Filled(weight[g])
    BY DEF CheckpointController, FillGauges
  <2>2. IsHistoryOf(weight[g], TallyOf(g), NextWeek)
    BY DEF ControllerIInv, GaugesAreTallied
  <2>3. Filled(weight[g]).time = IF weight[g].time = 0 THEN 0 ELSE NextWeek
    BY <1>0, <2>2, FilledHistory
  <2> QED  BY <2>1, <2>3
<1>5. FilledInIsShare'
  BY FilledInIsRead, PTL
<1>6. RelativeWeight(g, w)' = FinalShare(g, w)'
  BY <1>0, <1>1, <1>2, <1>3, <1>4, <1>5 DEF FilledInIsShare
<1>7. FinalShare(g, w)' = FinalShare(g, w)
  BY <1>1, <1>2, SharesAreKept
<1> QED  BY <1>1, <1>2, <1>6, <1>7

\* Checkpoints of gauges that were created, once those that are due are filled in.
LEMMA MintedIsAllotted ==
    ASSUME EmissionsIInv, EmissionsIInv', KeepsPast, NothingBeforeStart, MiningIsTimely, GaugesAreAllotted,
           UNCHANGED <<now, listed>>, NEW gauges, gauges \subseteq Created, EmitAndMint(gauges),
           \/ Due(gauges) = {}
           \/ \E filled : Due(gauges) \subseteq filled /\ CheckpointController(filled)
    PROVE  MiningIsTimely' /\ GaugesAreAllotted'
<1>0. /\ ControllerIInv /\ ControllerIInv' /\ now \in Nat /\ now' = now
  BY InvariantTypes, ControllerAssumption, MiningAssumption DEF EmissionsIInv
<1>1. MiningIsTimely'
  <2>1. mining' = mining \/ mining' = Updated(mining)
    BY DEF EmitAndMint
  <2> QED  BY <1>0, <2>1, MiningStaysTimely
<1>2. PICK relative \in {[g \in Due(gauges) |-> [w \in Weeks |-> RelativeWeight(g, w)']]} :
         gauge' = [g \in Gauges |-> IF g \in Due(gauges) THEN Checkpointed(g, relative[g]) ELSE gauge[g]]
  BY DEF EmitAndMint
<1>3. \A g \in Gauges : GaugeIsKnown(g)
  BY DEF GaugesAreAllotted
<1>4. ASSUME NEW g \in Gauges, g \in Due(gauges) PROVE GaugeIsKnown(g)' /\ gauge'[g].period # NotCreated
  <2>0. CASE IsLate(g)
    <3>1. PICK r : gauge'[g] = Checkpointed(g, r)
      BY <1>2, <1>4
    <3>2. DOMAIN gauge'[g] = DOMAIN gauge[g] /\ gauge'[g].period = CurrentPeriod /\ gauge'[g].late = TRUE
      BY <2>0, <3>1 DEF Checkpointed, IsLate
    <3>3. CurrentPeriod # NotCreated
      BY <1>0, InvariantTypes, LastWeekOverIsOver DEF NotCreated
    <3> QED  BY <2>0, <3>2, <3>3 DEF IsLate, GaugeIsKnown
  <2> SUFFICES ASSUME gauge[g] \in GaugeState, GaugeIsAllotted(g)
               PROVE  GaugeIsKnown(g)' /\ gauge'[g].period # NotCreated
    BY <1>3, <2>0 DEF GaugeIsKnown
  <2>1. PICK filled : Due(gauges) \subseteq filled /\ CheckpointController(filled)
    BY <1>4
  <2>2. gauge[g].period \in Nat /\ gauge[g].period # NotCreated
    BY <1>4 DEF GaugeState, Created, Due
  <2>3. ASSUME NEW n \in (gauge[g].period + 1)..CurrentPeriod PROVE relative[g][n * Week] = FinalShare(g, n * Week)
    <3>1. n \in Nat /\ n <= CurrentPeriod
      <4>1. CurrentPeriod \in Nat
        BY <1>0, InvariantTypes, LastWeekOverIsOver
      <4> QED  BY <2>2, <4>1
    <3>2. n * Week \in Weeks /\ RelativeWeight(g, n * Week)' = FinalShare(g, n * Week)
      BY <1>0, <1>4, <2>1, <3>1, CheckpointsReadShares
    <3>3. relative[g] = [w \in Weeks |-> RelativeWeight(g, w)']
      BY <1>2, <1>4
    <3>4. relative[g][n * Week] = RelativeWeight(g, n * Week)'
      BY <3>2, <3>3
    <3> QED  BY <3>2, <3>4
  <2>4. PICK r : r = relative[g]
    OBVIOUS
  <2>5. gauge'[g] = Checkpointed(g, r)
    BY <1>2, <1>4, <2>4
  <2>6. \A n \in (gauge[g].period + 1)..CurrentPeriod : r[n * Week] = FinalShare(g, n * Week)
    BY <2>3, <2>4
  <2> QED  BY <1>0, <2>2, <2>5, <2>6, CheckpointIsAllotted DEF GaugeIsKnown
<1>5. ASSUME NEW g \in Gauges, g \notin Due(gauges) PROVE GaugeIsKnown(g)' /\ gauge'[g].period = gauge[g].period
  <2>1. gauge'[g] = gauge[g]
    BY <1>2, <1>5
  <2>2. now <= now'
    BY <1>0
  <2> QED  BY <1>0, <1>3, <2>1, <2>2, GaugeStaysKnown
<1>6. gauge' = [g \in Gauges |-> gauge'[g]]
  BY <1>2
<1>7. listed' \subseteq Created'
  <2>1. \A g \in Gauges : gauge[g].period # NotCreated => gauge'[g].period # NotCreated
    BY <1>4, <1>5
  <2> QED  BY <2>1 DEF GaugesAreAllotted, Created
<1> QED  BY <1>1, <1>4, <1>5, <1>6, <1>7 DEF GaugesAreAllotted

\* A step, whoever notices a new epoch.
LEMMA StepSchedule ==
    ASSUME ScheduleIInv, Next
    PROVE  ScheduleIInv'
<1>0. /\ EmissionsIInv /\ NothingBeforeStart /\ MiningIsTimely /\ GaugesAreAllotted
      /\ ControllerIInv /\ PeriodsAreOver
  BY DEF ScheduleIInv, EmissionsIInv
<1>1. EmissionsIInv' /\ KeepsPast /\ ControllerIInv'
  BY <1>0, StepEmissions DEF EmissionsIInv
<1>2. now \in Nat /\ now' \in Nat
  <2>1. now \in Start..Horizon /\ now' \in Start..Horizon
    BY <1>0, <1>1 DEF ControllerIInv, ControllerTypes
  <2> QED  BY <2>1, ControllerAssumption, MiningAssumption
<1>3. NothingBeforeStart'
  BY <1>0, <1>1, AllottedStays
<1>4. gauge = [g \in Gauges |-> gauge[g]] /\ \A g \in Gauges : GaugeIsKnown(g)
  BY <1>0 DEF GaugesAreAllotted
<1>5. ASSUME MiningIsTimely', GaugesAreAllotted' PROVE ScheduleIInv'
  BY <1>1, <1>3, <1>5 DEF ScheduleIInv
<1>6. ASSUME now <= now', NEW g \in Gauges, gauge'[g] = gauge[g] PROVE GaugeIsKnown(g)'
  BY <1>0, <1>1, <1>4, <1>6, GaugeStaysKnown
<1>7. ASSUME now <= now', mining' = mining \/ (mining' = Updated(mining) /\ now' = now),
             gauge' = gauge, listed' \subseteq Created
      PROVE  ScheduleIInv'
  <2>1. MiningIsTimely'
    BY <1>0, <1>1, <1>7, MiningStaysTimely
  <2>2. \A g \in Gauges : GaugeIsKnown(g)'
    BY <1>6, <1>7
  <2>3. Created' = Created
    BY <1>7 DEF Created
  <2>4. GaugesAreAllotted'
    BY <1>0, <1>7, <2>2, <2>3 DEF GaugesAreAllotted
  <2> QED  BY <1>5, <2>1, <2>4
<1>8. ASSUME now' = now, mining' = mining \/ mining' = Updated(mining), NEW g \in Gauges, NEW after,
             gauge' = [gauge EXCEPT ![g] = after], listed' = listed, GaugeIsKnown(g)',
             gauge[g].period # NotCreated => gauge'[g].period # NotCreated
      PROVE  ScheduleIInv'
  <2>1. now <= now'
    BY <1>2, <1>8
  <2>2. MiningIsTimely'
    BY <1>0, <1>1, <1>8, <2>1, MiningStaysTimely
  <2>3. gauge' = [h \in Gauges |-> gauge'[h]] /\ \A h \in Gauges : h # g => gauge'[h] = gauge[h]
    BY <1>4, <1>8
  <2>4. \A h \in Gauges : GaugeIsKnown(h)'
    BY <1>6, <1>8, <2>1, <2>3
  <2>6. listed' \subseteq Created'
    <3>1. \A h \in Gauges : gauge[h].period # NotCreated => gauge'[h].period # NotCreated
      BY <1>8, <2>3
    <3> QED  BY <1>0, <1>8, <3>1 DEF GaugesAreAllotted, Created
  <2>7. GaugesAreAllotted'
    BY <2>3, <2>4, <2>6 DEF GaugesAreAllotted
  <2> QED  BY <1>5, <2>2, <2>7
<1>9. ASSUME NEW g \in Gauges, NEW after, gauge' = [gauge EXCEPT ![g] = after], UNCHANGED <<now, mining, listed>>,
             gauge[g] \in GaugeState => after \in GaugeState, DOMAIN after = DOMAIN gauge[g],
             \A field \in (DOMAIN after) \ {"cap", "killed"} : after[field] = gauge[g][field]
      PROVE  ScheduleIInv'
  <2>1. gauge'[g] = after /\ now <= now'
    BY <1>2, <1>4, <1>9
  <2>2. GaugeIsKnown(g)' /\ gauge'[g].period = gauge[g].period
    <3>1. CASE IsLate(g)
      <4>1. gauge'[g].period = gauge[g].period /\ gauge'[g].late = gauge[g].late
        BY <1>9, <2>1, <3>1 DEF IsLate
      <4> QED  BY <1>9, <2>1, <3>1, <4>1 DEF IsLate, GaugeIsKnown
    <3>2. CASE gauge[g] \in GaugeState /\ GaugeIsAllotted(g)
      <4>1. /\ after.period = gauge[g].period /\ after.rate = gauge[g].rate
            /\ after.start = gauge[g].start /\ after.emissions = gauge[g].emissions
        BY <1>9, <3>2 DEF GaugeState
      <4>2. GaugeIsAllotted(g)'
        BY <1>0, <1>1, <1>9, <2>1, <3>2, <4>1, GaugeStaysAllotted
      <4> QED  BY <1>9, <2>1, <3>2, <4>1, <4>2 DEF GaugeIsKnown
    <3> QED  BY <1>4, <3>1, <3>2 DEF GaugeIsKnown
  <2> QED  BY <1>8, <1>9, <2>1, <2>2
<1>10. ASSUME ControllerNext, UNCHANGED emissionVars PROVE ScheduleIInv'
  <2>1. now' = now \/ now' = now + 1
    BY <1>10, ClockTicks
  <2>2. now <= now'
    BY <1>2, <2>1
  <2> QED  BY <1>0, <1>7, <1>10, <2>2 DEF emissionVars, GaugesAreAllotted
<1>11. CASE UpdateMiningParameters
  <2>1. now' = now /\ now <= now' /\ mining' = Updated(mining) /\ gauge' = gauge /\ listed' = listed
    BY <1>2, <1>11 DEF UpdateMiningParameters, controllerVars, lockVars
  <2> QED  BY <1>0, <1>7, <2>1 DEF GaugesAreAllotted
<1>12. ASSUME NEW g \in Gauges, NEW cap \in Caps, CreateGauge(g, cap) PROVE ScheduleIInv'
  <2>1. GaugeIsKnown(g)' /\ gauge'[g].period # NotCreated
    BY <1>0, <1>1, <1>12, CreatedIsKnown
  <2>2. now' = now /\ listed' = listed
    BY <1>12 DEF CreateGauge, controllerVars, lockVars
  <2>3. mining' = Updated(mining)
    BY <1>12 DEF CreateGauge
  <2>4. PICK after : gauge' = [gauge EXCEPT ![g] = after]
    BY <1>12 DEF CreateGauge
  <2> QED  BY <1>8, <2>1, <2>2, <2>3, <2>4
<1>13. ASSUME NEW g \in Gauges, NEW cap \in Caps, SetRelativeWeightCap(g, cap) PROVE ScheduleIInv'
  <2> DEFINE after == [gauge[g] EXCEPT !.cap = cap]
  <2>1. cap \in Nat
    BY GaugesAssumption, ControllerAssumption, MiningAssumption
  <2>2. /\ gauge[g] \in GaugeState => after \in GaugeState
        /\ DOMAIN after = DOMAIN gauge[g]
        /\ \A field \in (DOMAIN after) \ {"cap", "killed"} : after[field] = gauge[g][field]
    BY <2>1 DEF GaugeState
  <2>3. gauge' = [gauge EXCEPT ![g] = after] /\ UNCHANGED <<now, mining, listed>>
    BY <1>13 DEF SetRelativeWeightCap, controllerVars, lockVars
  <2> HIDE DEF after
  <2> QED  BY <1>9, <2>2, <2>3
<1>14. ASSUME NEW g \in Gauges, KillGauge(g) \/ UnkillGauge(g) PROVE ScheduleIInv'
  <2>1. PICK killed \in BOOLEAN : SetKilled(g, killed)
    BY <1>14 DEF KillGauge, UnkillGauge
  <2> DEFINE after == [gauge[g] EXCEPT !.killed = killed]
  <2>2. /\ gauge[g] \in GaugeState => after \in GaugeState
        /\ DOMAIN after = DOMAIN gauge[g]
        /\ \A field \in (DOMAIN after) \ {"cap", "killed"} : after[field] = gauge[g][field]
    BY DEF GaugeState
  <2>3. gauge' = [gauge EXCEPT ![g] = after] /\ UNCHANGED <<now, mining, listed>>
    BY <2>1 DEF SetKilled, controllerVars, lockVars
  <2> HIDE DEF after
  <2> QED  BY <1>9, <2>2, <2>3
<1>15. ASSUME NEW g \in Gauges, AddToCheckpointer(g) \/ RemoveFromCheckpointer(g) PROVE ScheduleIInv'
  <2>1. now' = now /\ now <= now' /\ mining' = mining /\ gauge' = gauge
    BY <1>2, <1>15 DEF AddToCheckpointer, RemoveFromCheckpointer, controllerVars, lockVars
  <2>2. listed' \subseteq Created
    BY <1>0, <1>15 DEF AddToCheckpointer, RemoveFromCheckpointer, GaugesAreAllotted
  <2> QED  BY <1>7, <2>1, <2>2
<1>16. ASSUME NEW gauges, gauges \subseteq Created, EmitAndMint(gauges), UNCHANGED <<now, listed>>,
              \/ Due(gauges) = {}
              \/ \E filled : Due(gauges) \subseteq filled /\ CheckpointController(filled)
       PROVE  ScheduleIInv'
  BY <1>0, <1>1, <1>5, <1>16, MintedIsAllotted
<1>17. ASSUME NEW g \in Gauges, Checkpoint(g) PROVE ScheduleIInv'
  <2>1. {g} \subseteq Created /\ EmitAndMint({g}) /\ UNCHANGED <<now, listed>>
    BY <1>17 DEF Checkpoint, lockVars
  <2>2. CASE g \in Due({g})
    <3>1. CheckpointController({g}) /\ Due({g}) \subseteq {g}
      BY <1>17, <2>2 DEF Checkpoint, CheckpointController, Due
    <3> QED  BY <1>16, <2>1, <3>1
  <2>3. CASE g \notin Due({g})
    <3>1. Due({g}) = {}
      BY <2>3 DEF Due
    <3> QED  BY <1>16, <2>1, <3>1
  <2> QED  BY <2>2, <2>3
<1>18. ASSUME NEW least \in Thresholds, CheckpointGauges(least) PROVE ScheduleIInv'
  <2>1. UNCHANGED <<lockVars, voteVars, n_gauge_types, gauge_type, initial_weight, listed>>
    BY <1>18 DEF CheckpointGauges
  <2>2. PICK order \in {s \in [1..Cardinality(listed) -> listed] : IsInjective(s)} :
           \E chosen \in {Chosen(order, least)} :
              LET filled == Due(chosen) \cup {g \in listed : NeedsFilling(g)}
              IN /\ IF filled # {} THEN FillGauges(filled) ELSE UNCHANGED historyVars
                 /\ EmitAndMint(chosen)
    BY <1>18 DEF CheckpointGauges
  <2> DEFINE chosen == Chosen(order, least)
             filled == Due(chosen) \cup {g \in listed : NeedsFilling(g)}
  <2>3. (IF filled # {} THEN FillGauges(filled) ELSE UNCHANGED historyVars) /\ EmitAndMint(chosen)
    BY <2>2
  <2>4. chosen \subseteq Created
    <3>1. IsFiniteSet(listed) /\ Cardinality(listed) \in Nat
      BY <1>0, FS_Subset, FS_CardinalityType, ControllerAssumption, MiningAssumption DEF PeriodsAreOver
    <3>2. chosen = {order[k] : k \in {j \in 1..Cardinality(listed) : FinalShare(order[j], LastWeekOver) >= least}}
      BY <1>0, <2>2, <3>1, ChosenAreAbove
    <3>3. \A k \in 1..Cardinality(listed) : order[k] \in listed
      BY <2>2
    <3> HIDE DEF chosen
    <3>4. chosen \subseteq listed
      BY <3>2, <3>3
    <3> QED  BY <1>0, <3>4 DEF GaugesAreAllotted
  <2>5. Due(chosen) \subseteq filled
    OBVIOUS
  <2> HIDE DEF chosen, filled
  <2>6. Due(chosen) = {} \/ CheckpointController(filled)
    <3>1. CASE filled = {}
      BY <2>5, <3>1
    <3>2. CASE filled # {}
      BY <2>1, <2>3, <3>2 DEF CheckpointController
    <3> QED  BY <3>1, <3>2
  <2>7. UNCHANGED <<now, listed>>
    BY <2>1 DEF lockVars
  <2> QED  BY <1>16, <2>3, <2>4, <2>5, <2>6, <2>7
<1> QED  BY <1>10, <1>11, <1>12, <1>13, <1>14, <1>15, <1>17, <1>18 DEF Next

LEMMA StutterSchedule ==
    ASSUME ScheduleIInv, UNCHANGED vars
    PROVE  ScheduleIInv'
<1>1. EmissionsIInv' /\ KeepsPast
  BY StutterEmissions DEF ScheduleIInv
<1>2. ControllerIInv /\ ControllerIInv' /\ now' = now /\ mining' = mining /\ gauge' = gauge /\ listed' = listed
  BY <1>1 DEF ScheduleIInv, EmissionsIInv, vars, controllerVars, lockVars, emissionVars
<1>3. now <= now'
  BY <1>2, InvariantTypes, ControllerAssumption, MiningAssumption
<1>4. NothingBeforeStart' /\ MiningIsTimely'
  BY <1>1, <1>2, <1>3, AllottedStays, MiningStaysTimely DEF ScheduleIInv
<1>5. \A g \in Gauges : GaugeIsKnown(g)'
  <2> SUFFICES ASSUME NEW g \in Gauges PROVE GaugeIsKnown(g)'
    OBVIOUS
  <2>1. GaugeIsKnown(g) /\ NothingBeforeStart
    BY DEF ScheduleIInv, GaugesAreAllotted
  <2> QED  BY <1>1, <1>2, <1>3, <2>1, GaugeStaysKnown
<1>6. GaugesAreAllotted'
  BY <1>2, <1>5 DEF ScheduleIInv, GaugesAreAllotted, Created
<1> QED  BY <1>1, <1>4, <1>6 DEF ScheduleIInv

LEMMA InitSchedule == Init => ScheduleIInv
<1> SUFFICES ASSUME Init PROVE ScheduleIInv
  OBVIOUS
<1>1. EmissionsIInv
  BY InitEmissions
<1>2. NothingBeforeStart
  <2>1. \A g \in Gauges : gauge_type[g] = NoType
    BY DEF Init, ControllerInit
  <2> QED  BY <2>1 DEF NothingBeforeStart, FinalShare
<1>3. MiningIsTimely
  <2>1. mining = [start |-> Start, supply |-> 0, rate |-> InitialRate] /\ now = Start
    BY DEF Init, ControllerInit
  <2>2. {InitialRate, Start, Horizon} \subseteq Nat /\ RateReductionTime \in Nat
    BY GaugesAssumption, ControllerAssumption, MiningAssumption
  <2>3. 0 \in Epochs /\ Rates[0] = InitialRate /\ EpochStart(0) = Start
    BY <2>2, RatesFall DEF Epochs, EpochStart
  <2>4. Emission(Start, Start) = 0
    <3>1. PICK a \in Int : a = Start
      BY <2>2
    <3>2. \A t \in a..(a - 1) : RateAt[t] \in Int
      OBVIOUS
    <3>3. Between(RateAt, a, a) = 0
      BY <3>2, BetweenSteps
    <3> QED  BY <3>1, <3>3 DEF Emission
  <2> QED  BY <2>1, <2>2, <2>3, <2>4 DEF MiningIsTimely
<1>4. GaugesAreAllotted
  <2>1. /\ gauge = [g \in Gauges |-> [period |-> NotCreated, rate |-> 0, start |-> 0, emissions |-> 0,
                                      killed |-> FALSE, cap |-> 0, minted |-> 0, kept |-> 0, late |-> FALSE]]
        /\ listed = {}
    BY DEF Init
  <2>2. ASSUME NEW g \in Gauges PROVE gauge[g] \in GaugeState /\ GaugeIsAllotted(g)
    BY <2>1 DEF GaugeIsAllotted, GaugeState, NotCreated
  <2> QED  BY <2>1, <2>2 DEF GaugesAreAllotted, GaugeIsKnown
<1> QED  BY <1>1, <1>2, <1>3, <1>4 DEF ScheduleIInv

-----------------------------------------------------------------------------
(* The supply covers the emissions *)

LEMMA SumOfPart ==
    ASSUME NEW S, IsFiniteSet(S), NEW T, T \subseteq S, NEW f \in [S -> Nat]
    PROVE  SumFunctionOnSet(f, T) <= SumFunctionOnSet(f, S)
<1> DEFINE A(U) == SumFunctionOnSet(f, U)
           P == {U \in SUBSET S : A(U \cap T) <= A(U)}
<1>1. ASSUME NEW U \in SUBSET S
      PROVE  A(U) \in Int /\ A({}) = 0 /\ \A x \in U : A(U) = f[x] + A(U \ {x})
  <2>1. IsFiniteSet(U) /\ \A y \in U : f[y] \in Int
    BY FS_Subset
  <2> QED  BY <2>1, SumOn
<1> HIDE DEF A
<1>2. ASSUME NEW U \in SUBSET S, \A x \in U : U \ {x} \in P PROVE U \in P
  <2>1. CASE U = {}
    <3>1. U \cap T = U /\ A(U) \in Int
      BY <1>1, <2>1
    <3> QED  BY <3>1
  <2>2. CASE U # {}
    <3>1. PICK x \in U : TRUE
      BY <2>2
    <3> DEFINE V == U \ {x}
    <3>2. V \in SUBSET S /\ A(V \cap T) <= A(V) /\ f[x] \in Nat
      BY <1>2, <3>1
    <3>3. A(U) = f[x] + A(V) /\ A(U) \in Int /\ A(V) \in Int /\ A(V \cap T) \in Int /\ A(U \cap T) \in Int
      <4>1. U \cap T \in SUBSET S /\ V \cap T \in SUBSET S
        OBVIOUS
      <4> QED  BY <1>1, <3>1, <3>2, <4>1
    <3>4. CASE x \in T
      <4>1. x \in U \cap T /\ (U \cap T) \ {x} = V \cap T /\ U \cap T \in SUBSET S
        BY <3>1, <3>4
      <4>2. A(U \cap T) = f[x] + A(V \cap T)
        BY <1>1, <4>1
      <4> HIDE DEF V
      <4>3. A(U \cap T) <= A(U)
        BY <3>2, <3>3, <4>2
      <4> QED  BY <4>3
    <3>5. CASE x \notin T
      <4>1. U \cap T = V \cap T
        BY <3>5
      <4>2. A(U \cap T) = A(V \cap T)
        BY <4>1
      <4> HIDE DEF V
      <4>3. A(U \cap T) <= A(U)
        BY <3>2, <3>3, <4>2
      <4> QED  BY <4>3
    <3> QED  BY <3>4, <3>5
  <2> QED  BY <2>1, <2>2
<1>3. SUBSET S \subseteq P
  <2> HIDE DEF P
  <2>1. \A U \in SUBSET S : (\A x \in U : U \ {x} \in P) => U \in P
    BY <1>2
  <2> QED  BY <2>1, SubsetInduction
<1>4. S \in SUBSET S /\ S \cap T = T
  OBVIOUS
<1>5. A(S \cap T) <= A(S)
  BY <1>3, <1>4
<1> QED  BY <1>4, <1>5 DEF A

\* What is emitted until a week begins.
EmittedBy(n) == IF n * Week < Start THEN 0 ELSE Emission(Start, n * Week)

\* All gauges together are allotted no more than the emission of a week.
LEMMA WeekIsShared ==
    ASSUME ControllerIInv, NothingBeforeStart, NEW n \in Nat, n <= CurrentPeriod
    PROVE  /\ [g \in Gauges |-> AllottedTo(g)[n]] \in [Gauges -> Nat]
           /\ EmittedBy(n) \in Nat /\ EmittedBy(n + 1) \in Nat
           /\ SumFunction([g \in Gauges |-> AllottedTo(g)[n]])
                <= Multiplier * EmittedBy(n + 1) - Multiplier * EmittedBy(n)
<1> DEFINE f == [g \in Gauges |-> AllottedTo(g)[n]]
           w == n * Week
           v == (n + 1) * Week
           s == [g \in Gauges |-> FinalShare(g, n * Week)]
           zero == [g \in Gauges |-> 0]
<1>0. /\ now \in Start..Horizon /\ {Start, Horizon} \subseteq Nat /\ {Week, Multiplier} \subseteq Nat \ {0}
      /\ IsFiniteSet(Gauges)
  BY InvariantTypes, ControllerAssumption, MiningAssumption
<1>1. /\ w \in Weeks /\ w \in Nat /\ w < NextWeek /\ v = w + Week /\ v <= now /\ w + Week <= Horizon + 1
  BY <1>0, WeeksThatAreOver
<1>2. \A g \in Gauges : /\ AllottedTo(g)[n] \in Nat /\ FinalShare(g, w) \in Nat /\ (FinalShare(g, w) = 0 \/ Start <= w)
                        /\ AllottedTo(g)[n] = Allotted(FinalShare(g, w), w)
  BY AllottedToIsNat DEF AllottedTo
<1>3. SumFunction(s) \in Nat /\ SumFunction(s) <= Multiplier
  <2>1. PICK u \in Weeks : u = n * Week /\ u < NextWeek
    BY <1>1
  <2>2. SumFunction([g \in Gauges |-> FinalShare(g, u)]) <= Multiplier /\ \A g \in Gauges : FinalShare(g, u) \in Nat
    BY <2>1, SharesAddUp
  <2>3. s = [g \in Gauges |-> FinalShare(g, u)] /\ s \in [Gauges -> Nat]
    BY <2>1, <2>2
  <2> HIDE DEF s
  <2>4. SumFunction(s) \in Nat
    BY <1>0, <2>3, SumOfNats
  <2> QED  BY <2>2, <2>3, <2>4
<1>4. f \in [Gauges -> Nat]
  BY <1>2
<1>5. CASE w < Start
  <2>1. \A g \in Gauges : f[g] = 0
    BY <1>0, <1>1, <1>2, <1>5 DEF Allotted
  <2>2. SumFunction(f) = 0
    <3>1. f \in [Gauges -> Int]
      BY <1>4
    <3> HIDE DEF f
    <3> QED  BY <1>0, <2>1, <3>1, SumOfNone
  <2>3. EmittedBy(n) = 0
    BY <1>5 DEF EmittedBy
  <2>4. EmittedBy(n + 1) \in Nat
    <3>1. CASE v < Start
      BY <3>1 DEF EmittedBy
    <3>2. CASE ~(v < Start)
      <4>1. PICK a \in Nat, b \in Nat : a = Start /\ b = v
        BY <1>0, <1>1
      <4>2. Start <= a /\ a <= b /\ b <= Horizon + 1
        BY <1>0, <1>1, <3>2, <4>1
      <4>3. Emission(a, b) \in Nat
        BY <4>2, EmissionAtRates
      <4> QED  BY <3>2, <4>1, <4>3 DEF EmittedBy
    <3> QED  BY <3>1, <3>2
  <2>5. 0 <= Multiplier * EmittedBy(n + 1) - Multiplier * EmittedBy(n)
    <3>1. PICK e \in Nat : e = EmittedBy(n + 1)
      BY <2>4
    <3>2. Multiplier * e \in Nat /\ Multiplier * 0 = 0
      BY <1>0
    <3> QED  BY <2>3, <3>1, <3>2
  <2> QED  BY <1>4, <2>2, <2>3, <2>4, <2>5
<1>6. CASE ~(w < Start)
  <2>1. PICK a \in Nat, b \in Nat, c \in Nat : a = Start /\ b = w /\ c = v
    BY <1>0, <1>1
  <2>2. Start <= a /\ a <= b /\ b <= c /\ b <= Horizon + 1 /\ c <= Horizon + 1 /\ Start <= b /\ c = w + Week
        /\ ~(v < Start)
    BY <1>0, <1>1, <1>6, <2>1
  <2> DEFINE r == Emission(b, c)
             e == Emission(a, b)
  <2>3. e \in Nat /\ r \in Nat /\ Emission(a, c) = e + r
    BY <2>1, <2>2, EmissionAtRates
  <2>4. EmittedBy(n) = e /\ EmittedBy(n + 1) = e + r
    BY <1>6, <2>1, <2>2, <2>3 DEF EmittedBy
  <2>5. \A g \in Gauges : f[g] = zero[g] + r * s[g]
    <3> SUFFICES ASSUME NEW g \in Gauges PROVE f[g] = zero[g] + r * s[g]
      OBVIOUS
    <3>1. PICK x \in Nat : x = FinalShare(g, w)
      BY <1>2
    <3>2. f[g] = Allotted(x, w) /\ s[g] = x /\ zero[g] = 0
      BY <1>2, <3>1
    <3>3. Allotted(x, w) = IF x = 0 THEN 0 ELSE x * r
      BY <2>1, <2>2 DEF Allotted
    <3> HIDE DEF f, s, zero, r, w
    <3>4. x * r = r * x /\ (x = 0 => r * x = 0) /\ r * x \in Int
      BY <2>3
    <3> QED  BY <3>2, <3>3, <3>4
  <2>6. f \in [Gauges -> Int] /\ s \in [Gauges -> Int] /\ zero \in [Gauges -> Int] /\ \A g \in Gauges : zero[g] = 0
    BY <1>2, <1>4
  <2> HIDE DEF f, s, zero, r, e, w, v
  <2>7. SumFunction(f) = SumFunction(zero) + r * SumFunction(s)
    BY <1>0, <2>3, <2>5, <2>6, SumLinear
  <2>8. SumFunction(zero) = 0
    BY <1>0, <2>6, SumOfNone
  <2>9. r * SumFunction(s) <= r * Multiplier
    BY <1>0, <1>3, <2>3
  <2>10. Multiplier * (e + r) - Multiplier * e = r * Multiplier /\ r * SumFunction(s) \in Int /\ r * Multiplier \in Int
    BY <1>0, <1>3, <2>3
  <2>11. SumFunction(f) <= Multiplier * (e + r) - Multiplier * e
    BY <2>7, <2>8, <2>9, <2>10
  <2>12. e + r \in Nat
    BY <2>3
  <2> QED  BY <1>4, <2>3, <2>4, <2>11, <2>12 DEF f
<1> QED  BY <1>5, <1>6

\* Week by week, they are allotted no more than what is emitted.
LEMMA WeeksAreShared ==
    ASSUME ControllerIInv, NothingBeforeStart
    PROVE  LET n == CurrentPeriod + 1
           IN /\ [g \in Gauges |-> Between(AllottedTo(g), 0, n)] \in [Gauges -> Nat]
              /\ SumFunction([g \in Gauges |-> Between(AllottedTo(g), 0, n)]) <= Multiplier * EmittedBy(n)
<1> DEFINE last == CurrentPeriod + 1
           f(n) == [g \in Gauges |-> Between(AllottedTo(g), 0, n)]
           Right(n) == /\ f(n) \in [Gauges -> Nat] /\ EmittedBy(n) \in Nat
                       /\ SumFunction(f(n)) <= Multiplier * EmittedBy(n)
           P == {n \in 0..last : Right(n)}
           zero == [g \in Gauges |-> 0]
<1>0. /\ CurrentPeriod \in Nat /\ last \in Nat /\ IsFiniteSet(Gauges) /\ {Week, Start} \subseteq Nat
      /\ Multiplier \in Nat \ {0}
  BY InvariantTypes, LastWeekOverIsOver, ControllerAssumption, MiningAssumption
<1>1. ASSUME NEW g \in Gauges, NEW n \in Nat, n <= CurrentPeriod PROVE AllottedTo(g)[n] \in Nat
  BY <1>1, AllottedToIsNat
<1>2. 0 \in P
  <2>1. \A g \in Gauges : Between(AllottedTo(g), 0, 0) = 0
    <3> SUFFICES ASSUME NEW g \in Gauges PROVE Between(AllottedTo(g), 0, 0) = 0
      OBVIOUS
    <3>1. \A t \in 0..(0 - 1) : AllottedTo(g)[t] \in Int
      OBVIOUS
    <3> QED  BY <3>1, BetweenSteps
  <2>2. f(0) \in [Gauges -> Nat] /\ f(0) \in [Gauges -> Int] /\ \A g \in Gauges : f(0)[g] = 0
    BY <2>1
  <2> HIDE DEF f
  <2>3. SumFunction(f(0)) = 0
    BY <1>0, <2>2, SumOfNone
  <2>4. EmittedBy(0) \in Nat
    <3>1. 0 <= CurrentPeriod
      BY <1>0
    <3> QED  BY <3>1, WeekIsShared
  <2>5. Multiplier * EmittedBy(0) \in Nat
    BY <1>0, <2>4
  <2> QED  BY <1>0, <2>2, <2>3, <2>4, <2>5
<1>3. ASSUME NEW n \in 0..(last - 1), n \in P PROVE n + 1 \in P
  <2> DEFINE h == [g \in Gauges |-> AllottedTo(g)[n]]
  <2>1. n \in Nat /\ n <= CurrentPeriod /\ n + 1 \in 0..last
    BY <1>0
  <2>2. Right(n)
    BY <1>3
  <2>3. /\ h \in [Gauges -> Nat] /\ EmittedBy(n) \in Nat /\ EmittedBy(n + 1) \in Nat
        /\ SumFunction(h) <= Multiplier * EmittedBy(n + 1) - Multiplier * EmittedBy(n)
    BY <2>1, WeekIsShared
  <2>4. \A g \in Gauges : f(n + 1)[g] = f(n)[g] + 1 * h[g]
    <3> SUFFICES ASSUME NEW g \in Gauges PROVE f(n + 1)[g] = f(n)[g] + 1 * h[g]
      OBVIOUS
    <3> DEFINE t == AllottedTo(g)
    <3>1. (\A i \in 0..(n - 1) : t[i] \in Int) /\ t[n] \in Int
      <4>1. \A i \in 0..(n - 1) : i \in Nat /\ i <= CurrentPeriod
        BY <1>0, <2>1
      <4> QED  BY <1>1, <2>1, <4>1
    <3> HIDE DEF t
    <3>2. Between(t, 0, n + 1) = Between(t, 0, n) + t[n] /\ Between(t, 0, n) \in Int
      BY <2>1, <3>1, BetweenSteps
    <3>3. f(n + 1)[g] = Between(t, 0, n + 1) /\ f(n)[g] = Between(t, 0, n) /\ h[g] = t[n]
      BY DEF t
    <3> HIDE DEF f, h
    <3> QED  BY <3>1, <3>2, <3>3
  <2> DEFINE e == Multiplier * EmittedBy(n)
             e2 == Multiplier * EmittedBy(n + 1)
  <2>5. e \in Int /\ e2 \in Int
    BY <1>0, <2>3
  <2>6. f(n) \in [Gauges -> Nat] /\ SumFunction(f(n)) <= e
    BY <2>2
  <2>7. f(n + 1) = [g \in Gauges |-> f(n + 1)[g]]
    OBVIOUS
  <2> HIDE DEF f, h
  <2>8. f(n + 1) \in [Gauges -> Nat]
    BY <2>3, <2>4, <2>6, <2>7
  <2>9. f(n + 1) \in [Gauges -> Int] /\ f(n) \in [Gauges -> Int] /\ h \in [Gauges -> Int]
    BY <2>3, <2>6, <2>8
  <2>10. SumFunction(f(n + 1)) = SumFunction(f(n)) + 1 * SumFunction(h)
    BY <1>0, <2>4, <2>9, SumLinear
  <2>11. SumFunction(f(n)) \in Int /\ SumFunction(h) \in Int
    BY <1>0, <2>9, SumType
  <2>12. SumFunction(f(n + 1)) <= e2
    <3>1. SumFunction(h) <= e2 - e
      BY <2>3
    <3> HIDE DEF e, e2
    <3> QED  BY <2>5, <2>6, <2>10, <2>11, <3>1
  <2> QED  BY <2>1, <2>3, <2>8, <2>12
<1>4. Right(last)
  <2> HIDE DEF P, last
  <2>1. 0..last \subseteq P
    BY <1>0, <1>2, <1>3, Induction
  <2>2. last \in P
    BY <1>0, <2>1
  <2> QED  BY <2>2 DEF P
<1> QED  BY <1>4

LEMMA ScheduledIsCovered ==
    ASSUME ScheduleIInv
    PROVE  ScheduleCoversEmissions
<1> DEFINE last == CurrentPeriod + 1
           OnTime == {h \in Created : ~gauge[h].late}
           final(g) == [w \in Weeks |-> FinalWeight(g, w)]
           x == [g \in OnTime |-> EmittedInAll(g)]
           f == [g \in Gauges |-> Between(AllottedTo(g), 0, last)]
           fc == [g \in OnTime |-> f[g]]
           mx == [g \in OnTime |-> Multiplier * x[g]]
           zero == [g \in OnTime |-> 0]
           supply == AvailableSupply(Updated(mining))
<1>0. /\ ControllerIInv /\ NothingBeforeStart /\ MiningIsTimely /\ GaugesAreAllotted
      /\ CurrentPeriod \in Nat /\ last \in Nat /\ Multiplier \in Nat \ {0} /\ now \in Nat /\ now <= Horizon
      /\ Start <= now /\ now \in Start..Horizon
      /\ {Week, Start, Horizon} \subseteq Nat
      /\ IsFiniteSet(Gauges) /\ OnTime \subseteq Gauges /\ IsFiniteSet(OnTime)
  <2>1. ControllerIInv /\ NothingBeforeStart /\ MiningIsTimely /\ GaugesAreAllotted
    BY DEF ScheduleIInv, EmissionsIInv
  <2>2. CurrentPeriod \in Nat /\ now \in Start..Horizon
    BY <2>1, InvariantTypes, LastWeekOverIsOver
  <2>3. IsFiniteSet(Gauges) /\ OnTime \subseteq Gauges
    BY ControllerAssumption, MiningAssumption DEF Created
  <2>4. IsFiniteSet(OnTime)
    BY <2>3, FS_Subset
  <2> QED  BY <2>1, <2>2, <2>3, <2>4, ControllerAssumption, MiningAssumption
<1>1. f \in [Gauges -> Nat] /\ SumFunction(f) <= Multiplier * EmittedBy(last)
  BY <1>0, WeeksAreShared
<1>2. ASSUME NEW g \in OnTime PROVE x[g] \in Nat /\ Multiplier * x[g] <= f[g]
  <2> DEFINE p == gauge[g].period
             e == Emitted(g, final(g))
             t == AllottedTo(g)
  <2>1. g \in Gauges /\ p # NotCreated /\ gauge[g] \in GaugeState /\ GaugeIsAllotted(g)
    BY <1>0, <1>2 DEF Created, GaugesAreAllotted, GaugeIsKnown, IsLate
  <2>2. KeepsToSchedule(g) /\ Multiplier * gauge[g].emissions <= Between(t, 0, p + 1)
    BY <2>1 DEF GaugeIsAllotted
  <2>3. p \in Nat /\ gauge[g].emissions \in Nat /\ p <= CurrentPeriod
    BY <2>1, <2>2 DEF GaugeState, KeepsToSchedule
  <2>4. ASSUME NEW n \in (p + 1)..CurrentPeriod PROVE final(g)[n * Week] = FinalShare(g, n * Week)
    <3>1. n \in Nat /\ n <= CurrentPeriod
      BY <1>0, <2>3
    <3>2. n * Week \in Weeks
      BY <1>0, <3>1, WeeksThatAreOver
    <3>3. PICK w \in Weeks : w = n * Week
      BY <3>2
    <3> QED  BY <1>0, <2>1, <3>3, FinalIsShare
  <2>5. PICK r : r = final(g)
    OBVIOUS
  <2>6. e \in EmittedSoFar /\ Multiplier * e.sum <= Between(t, p + 1, CurrentPeriod + 1)
    <3>1. \A n \in (p + 1)..CurrentPeriod : r[n * Week] = FinalShare(g, n * Week)
      BY <2>4, <2>5
    <3>2. /\ Emitted(g, r) \in EmittedSoFar
          /\ Multiplier * Emitted(g, r).sum <= Between(AllottedTo(g), gauge[g].period + 1, CurrentPeriod + 1)
      BY <1>0, <2>1, <2>2, <3>1, EmittedIsAllotted
    <3> QED  BY <2>5, <3>2
  <2>7. x[g] = gauge[g].emissions + e.sum /\ f[g] = Between(t, 0, last) /\ e.sum \in Nat
    BY <2>1, <2>6 DEF EmittedSoFar, EmittedInAll
  <2>8. \A i \in 0..(last - 1) : t[i] \in Int
    <3>1. \A i \in 0..(last - 1) : i \in Nat /\ i <= CurrentPeriod
      BY <1>0
    <3> QED  BY <1>0, <2>1, <3>1, AllottedToIsNat
  <2>9. PICK a \in Int, b \in Int : a = p + 1 /\ b = last /\ 0 <= a /\ a <= b
    BY <1>0, <2>3
  <2> HIDE DEF e, t, p, x, f
  <2>10. /\ Between(t, 0, b) = Between(t, 0, a) + Between(t, a, b)
         /\ Between(t, 0, a) \in Int /\ Between(t, a, b) \in Int
    <3>1. PICK o \in Int : o = 0
      OBVIOUS
    <3>2. /\ \A i \in o..(b - 1) : t[i] \in Int
          /\ \A i \in o..(a - 1) : t[i] \in Int
          /\ \A i \in a..(b - 1) : t[i] \in Int
          /\ o <= a /\ a <= b
      BY <2>8, <2>9, <3>1
    <3>3. Between(t, o, b) = Between(t, o, a) + Between(t, a, b)
      BY <3>2, BetweenAdds
    <3>4. Between(t, o, a) \in Int /\ Between(t, a, b) \in Int
      BY <3>2, BetweenSteps
    <3> QED  BY <3>1, <3>3, <3>4
  <2>11. /\ Multiplier * (gauge[g].emissions + e.sum) = Multiplier * gauge[g].emissions + Multiplier * e.sum
         /\ Multiplier * gauge[g].emissions \in Int /\ Multiplier * e.sum \in Int
    BY <1>0, <2>3, <2>7
  <2>12. Multiplier * x[g] <= f[g]
    BY <2>2, <2>6, <2>7, <2>9, <2>10, <2>11
  <2> QED  BY <2>3, <2>7, <2>12
<1> HIDE DEF OnTime
<1>3. /\ x \in [OnTime -> Int] /\ mx \in [OnTime -> Int] /\ zero \in [OnTime -> Int] /\ fc \in [OnTime -> Int]
      /\ Multiplier \in Int
      /\ \A g \in OnTime : mx[g] = zero[g] + Multiplier * x[g] /\ mx[g] <= fc[g] /\ zero[g] = 0
  <2>1. x = [g \in OnTime |-> x[g]]
    OBVIOUS
  <2> HIDE DEF x, f
  <2>2. \A g \in OnTime : Multiplier * x[g] \in Int /\ f[g] \in Nat
    <3>1. \A g \in OnTime : x[g] \in Nat
      BY <1>2
    <3>2. \A i \in Nat : Multiplier * i \in Int
      BY <1>0
    <3>3. \A g \in OnTime : g \in Gauges
      BY <1>0
    <3> QED  BY <1>1, <3>1, <3>2, <3>3
  <2>3. x \in [OnTime -> Int]
    BY <1>2, <2>1
  <2>4. \A g \in OnTime : mx[g] = Multiplier * x[g] /\ fc[g] = f[g] /\ zero[g] = 0
    OBVIOUS
  <2>5. mx \in [OnTime -> Int] /\ zero \in [OnTime -> Int] /\ fc \in [OnTime -> Int]
    BY <2>2
  <2> HIDE DEF mx, fc, zero
  <2> QED  BY <1>0, <1>2, <2>2, <2>3, <2>4, <2>5
<1>4. SumFunction(fc) <= SumFunction(f)
  <2>1. SumFunctionOnSet(f, OnTime) <= SumFunctionOnSet(f, Gauges)
    <3> HIDE DEF f
    <3> QED  BY <1>0, <1>1, SumOfPart
  <2>2. \A g \in OnTime : fc[g] \in Int /\ fc[g] = f[g]
    BY <1>3
  <2>3. SumFunctionOnSet(fc, OnTime) = SumFunctionOnSet(f, OnTime)
    <3> HIDE DEF f, fc
    <3> QED  BY <1>0, <2>2, SumOnSame
  <2>4. SumFunction(fc) = SumFunctionOnSet(fc, OnTime) /\ SumFunction(f) = SumFunctionOnSet(f, Gauges)
    BY DEF SumFunction
  <2> QED  BY <2>1, <2>3, <2>4
<1> HIDE DEF x, f, fc, mx, zero
<1>5. /\ SumFunction(mx) = SumFunction(zero) + Multiplier * SumFunction(x)
      /\ SumFunction(zero) = 0 /\ SumFunction(mx) <= SumFunction(fc)
      /\ SumFunction(x) \in Int /\ SumFunction(fc) \in Int /\ SumFunction(f) \in Int
  <2>1. SumFunction(mx) = SumFunction(zero) + Multiplier * SumFunction(x)
    BY <1>0, <1>3, SumLinear
  <2>2. SumFunction(zero) = 0
    BY <1>0, <1>3, SumOfNone
  <2>3. SumFunction(mx) <= SumFunction(fc)
    BY <1>0, <1>3, SumMonotone
  <2>4. SumFunction(x) \in Int /\ SumFunction(fc) \in Int
    BY <1>0, <1>3, SumType
  <2>5. SumFunction(f) \in Int
    BY <1>0, <1>1, SumOfNats
  <2> QED  BY <2>1, <2>2, <2>3, <2>4, <2>5
<1>6. EmittedBy(last) \in Nat /\ EmittedBy(last) <= Emission(Start, now) /\ Emission(Start, now) \in Nat
  <2>1. PICK a \in Nat, b \in Nat, c \in Nat : a = Start /\ b = last * Week /\ c = now
    BY <1>0
  <2>2. b <= c /\ Start <= a /\ a <= c /\ c <= Horizon + 1
    <3>1. CurrentPeriod <= CurrentPeriod
      BY <1>0
    <3>2. last * Week <= now
      BY <1>0, <3>1, WeeksThatAreOver
    <3> QED  BY <1>0, <2>1, <3>2
  <2>3. Emission(a, c) \in Nat
    BY <2>2, EmissionAtRates
  <2>4. CASE b < Start
    <3>1. EmittedBy(last) = 0
      BY <2>1, <2>4 DEF EmittedBy
    <3> QED  BY <2>1, <2>3, <3>1
  <2>5. CASE ~(b < Start)
    <3>1. EmittedBy(last) = Emission(a, b)
      BY <2>1, <2>5 DEF EmittedBy
    <3>2. a <= b /\ Start <= b /\ b <= Horizon + 1
      BY <1>0, <2>1, <2>2, <2>5
    <3>3. Emission(a, b) \in Nat /\ Emission(a, c) = Emission(a, b) + Emission(b, c)
      BY <2>2, <3>2, EmissionAtRates
    <3>4. Emission(b, c) \in Nat
      BY <2>2, <3>2, EmissionAtRates
    <3> QED  BY <2>1, <2>3, <3>1, <3>3, <3>4
  <2> QED  BY <2>4, <2>5
<1>7. Emission(Start, now) <= supply /\ supply \in Int
  <2>1. /\ Emission(Start, now) <= AvailableSupply(Updated(mining))
        /\ Updated(mining) \in [start : Nat, supply : Nat, rate : Nat]
    BY <1>0, SupplyCovers
  <2>2. AvailableSupply(Updated(mining)) \in Int
    BY <1>0, <2>1 DEF AvailableSupply
  <2> QED  BY <2>1, <2>2
<1>8. SumFunction(x) <= supply
  <2> HIDE DEF supply, last
  <2>1. PICK e \in Nat, s \in Int, y \in Int : e = EmittedBy(last) /\ s = supply /\ y = SumFunction(x)
    BY <1>5, <1>6, <1>7
  <2>2. e <= s
    BY <1>6, <1>7, <2>1
  <2>3. Multiplier * y <= Multiplier * e
    <3>1. Multiplier * y \in Int /\ Multiplier * e \in Int
      BY <1>0, <2>1
    <3> QED  BY <1>1, <1>4, <1>5, <2>1, <3>1
  <2>4. y <= e
    <3>1. SUFFICES ASSUME e + 1 <= y PROVE FALSE
      BY <2>1
    <3>2. Multiplier * (e + 1) <= Multiplier * y /\ Multiplier * (e + 1) = Multiplier * e + Multiplier
      BY <1>0, <2>1, <3>1
    <3> DEFINE k == Multiplier * e
               l == Multiplier * y
    <3>3. k \in Int /\ l \in Int /\ l <= k /\ k + Multiplier <= l
      BY <1>0, <2>1, <2>3, <3>2
    <3> HIDE DEF k, l
    <3> QED  BY <1>0, <3>3
  <2> QED  BY <2>1, <2>2, <2>4
<1> QED  BY <1>8 DEF ScheduleCoversEmissions, x, supply, OnTime

\* In every state, the BAL of all weeks that are over can be minted by all gauges that
\* were created in an epoch that had begun, whether or not others are late: what makes
\* checkpoints revert because the schedule of the token is behind are late gauges only.
THEOREM EmissionsAreCovered == Spec => []ScheduleCoversEmissions
<1>1. ScheduleIInv /\ [Next]_vars => ScheduleIInv'
  BY StepSchedule, StutterSchedule
<1>2. ScheduleIInv => ScheduleCoversEmissions
  BY ScheduledIsCovered
<1> QED  BY <1>1, <1>2, InitSchedule, PTL DEF Spec
=============================================================================
