------------------------ MODULE LiquidityMining_proofs ------------------------
(***************************************************************************)
(* What the proofs about locks, fees and gauges share: induction over      *)
(* numbers and over subsets, sums of functions over finite sets, weeks and *)
(* quotients.                                                              *)
(***************************************************************************)
EXTENDS LiquidityMining, FiniteSetTheorems, WellFoundedInduction, TLAPS

-----------------------------------------------------------------------------
(* Induction *)

\* A set of naturals has a least element.
LEMMA LeastNatural ==
    ASSUME NEW T, T \subseteq Nat, T # {}
    PROVE  \E m \in T : \A k \in T : m <= k
<1> DEFINE R == {p \in Nat \X Nat : p[1] < p[2]}
<1>1. IsWellFoundedOn(R, Nat)
  BY NatLessThanWellFounded DEF OpToRel
<1> HIDE DEF R
<1>2. PICK m \in T : \A k \in T : ~(<<k, m>> \in R)
  BY <1>1, WFMin
<1>3. ASSUME NEW k \in T PROVE m <= k
  <2>1. k \in Nat /\ m \in Nat /\ ~(<<k, m>> \in R)
    BY <1>2
  <2>2. ~(k < m)
    BY <2>1 DEF R
  <2> QED  BY <2>1, <2>2
<1> QED  BY <1>3

\* What holds of a set when it holds of those with one element less holds of every finite set.
LEMMA SubsetInduction ==
    ASSUME NEW S, IsFiniteSet(S), NEW P,
           \A T \in SUBSET S : (\A x \in T : T \ {x} \in P) => T \in P
    PROVE  SUBSET S \subseteq P
<1> DEFINE Bad == {T \in SUBSET S : T \notin P}
           Sizes == {Cardinality(T) : T \in Bad}
<1> SUFFICES ASSUME Bad # {} PROVE FALSE
  OBVIOUS
<1>1. \A T \in SUBSET S : IsFiniteSet(T) /\ Cardinality(T) \in Nat
  BY FS_Subset, FS_CardinalityType
<1>2. Sizes \subseteq Nat /\ Sizes # {}
  BY <1>1
<1>3. PICK n \in Sizes : \A k \in Sizes : n <= k
  BY <1>2, LeastNatural
<1>4. PICK T \in Bad : Cardinality(T) = n
  OBVIOUS
<1>5. ASSUME NEW x \in T PROVE T \ {x} \in P
  <2>1. Cardinality(T \ {x}) = Cardinality(T) - 1 /\ Cardinality(T) \in Nat
    BY <1>1, FS_RemoveElement
  <2>2. SUFFICES ASSUME T \ {x} \notin P PROVE FALSE
    OBVIOUS
  <2>3. T \ {x} \in Bad
    BY <2>2
  <2>4. Cardinality(T \ {x}) \in Sizes
    BY <2>3
  <2>5. n <= Cardinality(T \ {x})
    BY <2>4, <1>3
  <2> HIDE DEF Sizes, Bad
  <2> QED  BY <2>1, <2>5, <1>4
<1> QED  BY <1>4, <1>5

\* What holds at first and is kept by each turn holds after each.
LEMMA Induction ==
    ASSUME NEW n \in Nat, NEW S, 0 \in S, \A i \in 0..(n - 1) : i \in S => i + 1 \in S
    PROVE  0..n \subseteq S
<1> DEFINE T == {i \in 0..n : i \notin S}
<1> SUFFICES ASSUME T # {} PROVE FALSE
  OBVIOUS
<1>1. T \subseteq Nat
  OBVIOUS
<1>2. PICK m \in T : \A k \in T : m <= k
  BY <1>1, LeastNatural
<1>3. m # 0 /\ m - 1 \in 0..(n - 1) /\ m = (m - 1) + 1 /\ m - 1 \in 0..n
  OBVIOUS
<1>4. m - 1 \in S
  BY <1>1, <1>2, <1>3
<1> QED  BY <1>3, <1>4

-----------------------------------------------------------------------------
(* Sums *)

Picked(s) == CHOOSE x \in s : TRUE
Small(S, n) == {s \in SUBSET S : Cardinality(s) <= n}

\* The function by which SumFunctionOnSet is defined, on some of the sets.
Adds(i, f, D) == i = [s \in D |-> IF s = {} THEN 0 ELSE f[Picked(s)] + i[s \ {Picked(s)}]]

LEMMA PickedIsIn == ASSUME NEW s, s # {} PROVE Picked(s) \in s
BY DEF Picked

\* The sets without the element that is chosen are smaller.
LEMMA Smaller ==
    ASSUME NEW S, IsFiniteSet(S), NEW n \in Nat, NEW s \in Small(S, n), s # {}
    PROVE  n # 0 /\ s \ {Picked(s)} \in Small(S, n - 1)
<1>1. IsFiniteSet(s) /\ Cardinality(s) \in Nat /\ Cardinality(s) <= n
  BY FS_Subset, FS_CardinalityType DEF Small
<1>2. Cardinality(s \ {Picked(s)}) = Cardinality(s) - 1 /\ Cardinality(s) # 0
  BY <1>1, PickedIsIn, FS_RemoveElement, FS_EmptySet
<1> QED  BY <1>1, <1>2 DEF Small

\* There is such a function.
LEMMA AddsExists ==
    ASSUME NEW S, IsFiniteSet(S), NEW f
    PROVE  \E i : Adds(i, f, SUBSET S)
<1> DEFINE n == Cardinality(S)
           P == {k \in 0..n : \E i : Adds(i, f, Small(S, k))}
<1>0. n \in Nat
  BY FS_CardinalityType
<1>1. 0 \in P
  <2> DEFINE i == [s \in Small(S, 0) |-> 0]
  <2>1. \A s \in Small(S, 0) : s = {}
    BY Smaller
  <2>2. Adds(i, f, Small(S, 0))
    BY <2>1 DEF Adds
  <2> HIDE DEF i
  <2>3. \E j : Adds(j, f, Small(S, 0))
    BY <2>2
  <2> QED  BY <1>0, <2>3
<1>2. ASSUME NEW k \in 0..(n - 1), k \in P PROVE k + 1 \in P
  <2>1. PICK i : Adds(i, f, Small(S, k))
    BY <1>2
  <2> DEFINE j == [s \in Small(S, k + 1) |-> IF s = {} THEN 0 ELSE f[Picked(s)] + i[s \ {Picked(s)}]]
  <2>2. ASSUME NEW s \in Small(S, k + 1), s # {}
        PROVE  j[s \ {Picked(s)}] = i[s \ {Picked(s)}]
    <3> DEFINE r == s \ {Picked(s)}
    <3>1. r \in Small(S, k)
      <4>1. k + 1 \in Nat /\ (k + 1) - 1 = k
        BY <1>0
      <4> QED  BY <2>2, <4>1, Smaller
    <3>2. r \in Small(S, k + 1)
      <4>1. Cardinality(r) \in Nat /\ k \in Nat
        BY <3>1, <1>0, FS_Subset, FS_CardinalityType DEF Small
      <4> HIDE DEF r
      <4> QED  BY <3>1, <4>1 DEF Small
    <3> HIDE DEF r
    <3>3. i[r] = IF r = {} THEN 0 ELSE f[Picked(r)] + i[r \ {Picked(r)}]
      BY <2>1, <3>1 DEF Adds
    <3>4. j[r] = IF r = {} THEN 0 ELSE f[Picked(r)] + i[r \ {Picked(r)}]
      BY <3>2
    <3>5. j[r] = i[r]
      BY <3>3, <3>4
    <3> QED  BY <3>5 DEF r
  <2>3. Adds(j, f, Small(S, k + 1))
    <3> DEFINE value(s) == IF s = {} THEN 0 ELSE f[Picked(s)] + i[s \ {Picked(s)}]
               again(s) == IF s = {} THEN 0 ELSE f[Picked(s)] + j[s \ {Picked(s)}]
    <3>1. \A s \in Small(S, k + 1) : value(s) = again(s)
      BY <2>2
    <3>2. j = [s \in Small(S, k + 1) |-> value(s)]
      OBVIOUS
    <3> HIDE DEF j, value
    <3>3. j = [s \in Small(S, k + 1) |-> again(s)]
      BY <3>1, <3>2
    <3> QED  BY <3>3 DEF Adds
  <2> HIDE DEF j
  <2>4. \E i2 : Adds(i2, f, Small(S, k + 1))
    BY <2>3
  <2> QED  BY <1>0, <2>4
<1>3. n \in P
  <2> HIDE DEF P, n
  <2> QED  BY <1>0, <1>1, <1>2, Induction
<1>4. Small(S, n) = SUBSET S
  <2>1. \A s \in SUBSET S : Cardinality(s) <= n
    BY FS_Subset
  <2> QED  BY <2>1 DEF Small
<1> QED  BY <1>3, <1>4

Follows(i, f, T) == \A s \in SUBSET T : i[s] = IF s = {} THEN 0 ELSE f[Picked(s)] + i[s \ {Picked(s)}]

\* It is the only one: on what both are defined, two agree.
LEMMA AddsIsUnique ==
    ASSUME NEW T, IsFiniteSet(T), NEW f, NEW i, NEW j, Follows(i, f, T), Follows(j, f, T)
    PROVE  i[T] = j[T]
<1> DEFINE P == {s \in SUBSET T : i[s] = j[s]}
<1>2. ASSUME NEW s \in SUBSET T, \A x \in s : s \ {x} \in P PROVE s \in P
  <2>1. /\ i[s] = IF s = {} THEN 0 ELSE f[Picked(s)] + i[s \ {Picked(s)}]
        /\ j[s] = IF s = {} THEN 0 ELSE f[Picked(s)] + j[s \ {Picked(s)}]
    BY DEF Follows
  <2>2. s # {} => i[s \ {Picked(s)}] = j[s \ {Picked(s)}]
    BY <1>2, PickedIsIn
  <2> QED  BY <2>1, <2>2
<1> HIDE DEF P
<1>3. SUBSET T \subseteq P
  BY <1>2, SubsetInduction
<1> QED  BY <1>3 DEF P

\* What SumFunctionOnSet computes.
LEMMA SumIsAdds ==
    ASSUME NEW S, IsFiniteSet(S), NEW f
    PROVE  \E i : Adds(i, f, SUBSET S) /\ SumFunctionOnSet(f, S) = i[S]
<1> DEFINE iter[s \in SUBSET S] == IF s = {} THEN 0 ELSE f[Picked(s)] + iter[s \ {Picked(s)}]
<1>1. iter = [s \in SUBSET S |-> IF s = {} THEN 0 ELSE f[Picked(s)] + iter[s \ {Picked(s)}]]
  <2>1. \E i : i = [s \in SUBSET S |-> IF s = {} THEN 0 ELSE f[Picked(s)] + i[s \ {Picked(s)}]]
    <3>1. PICK i : Adds(i, f, SUBSET S)
      BY AddsExists
    <3> QED  BY <3>1 DEF Adds
  <2> QED  BY <2>1
<1>2. SumFunctionOnSet(f, S) = iter[S]
  BY DEF SumFunctionOnSet, FoldFunctionOnSet, MapThenFoldSet, Picked
<1> HIDE DEF iter
<1> QED  BY <1>1, <1>2 DEF Adds

\* A sum is any element's value and the sum of the others.
LEMMA SumOn ==
    ASSUME NEW S, IsFiniteSet(S), NEW f, \A x \in S : f[x] \in Int
    PROVE  /\ SumFunctionOnSet(f, {}) = 0
           /\ SumFunctionOnSet(f, S) \in Int
           /\ \A x \in S : SumFunctionOnSet(f, S) = f[x] + SumFunctionOnSet(f, S \ {x})
<1>1. PICK i : Adds(i, f, SUBSET S) /\ SumFunctionOnSet(f, S) = i[S]
  BY SumIsAdds
<1>2. ASSUME NEW T \in SUBSET S PROVE SumFunctionOnSet(f, T) = i[T]
  <2>1. IsFiniteSet(T)
    BY FS_Subset
  <2>2. PICK j : Adds(j, f, SUBSET T) /\ SumFunctionOnSet(f, T) = j[T]
    BY <2>1, SumIsAdds
  <2>3. Follows(i, f, T) /\ Follows(j, f, T)
    BY <1>1, <2>2 DEF Adds, Follows
  <2>4. i[T] = j[T]
    BY <2>1, <2>3, AddsIsUnique
  <2> QED  BY <2>2, <2>4
<1> DEFINE Right(T) == /\ i[T] \in Int
                       /\ \A x \in T : i[T \ {x}] \in Int /\ i[T] = f[x] + i[T \ {x}]
           P == {T \in SUBSET S : Right(T)}
<1>3. \A s \in SUBSET S : i[s] = IF s = {} THEN 0 ELSE f[Picked(s)] + i[s \ {Picked(s)}]
  BY <1>1 DEF Adds
<1>4. ASSUME NEW T \in SUBSET S, \A x \in T : T \ {x} \in P PROVE T \in P
  <2> SUFFICES Right(T)
    OBVIOUS
  <2>1. CASE T = {}
    <3>1. i[T] = 0
      BY <2>1, <1>3
    <3> QED  BY <2>1, <3>1
  <2>2. CASE T # {}
    <3> DEFINE c == Picked(T)
    <3>1. c \in T /\ i[T] = f[c] + i[T \ {c}]
      BY <2>2, <1>3, PickedIsIn
    <3> HIDE DEF c
    <3>2. f[c] \in Int /\ \A x \in T : f[x] \in Int /\ Right(T \ {x})
      BY <3>1, <1>4
    <3> HIDE DEF P
    <3>3. ASSUME NEW x \in T, x # c PROVE i[T] = f[x] + i[T \ {x}]
      <4> DEFINE r == (T \ {x}) \ {c}
      <4>1. i[T \ {c}] = f[x] + i[(T \ {c}) \ {x}]
        BY <3>1, <3>2, <3>3
      <4>2. i[T \ {x}] = f[c] + i[r] /\ i[r] \in Int
        BY <3>1, <3>2, <3>3
      <4>3. (T \ {c}) \ {x} = r
        OBVIOUS
      <4> HIDE DEF r
      <4>4. i[T \ {c}] = f[x] + i[r] /\ f[x] \in Int
        BY <4>1, <4>3, <3>2
      <4> QED  BY <4>2, <4>4, <3>1, <3>2
    <3>4. i[T] \in Int
      <4>1. Right(T \ {c})
        BY <3>1, <3>2
      <4> DEFINE rest == i[T \ {c}]
      <4>2. rest \in Int
        BY <4>1
      <4>3. i[T] = f[c] + rest
        BY <3>1
      <4> HIDE DEF rest
      <4> QED  BY <4>2, <4>3, <3>2
    <3> QED  BY <3>1, <3>2, <3>3, <3>4
  <2> QED  BY <2>1, <2>2
<1> HIDE DEF P
<1>5. SUBSET S \subseteq P
  BY <1>4, SubsetInduction
<1> QED
  <2>1. S \in P
    BY <1>5
  <2>2. i[{}] = 0
    BY <1>3
  <2> QED  BY <1>2, <2>1, <2>2 DEF P

\* Sums are linear.
LEMMA SumOnLinear ==
    ASSUME NEW S, IsFiniteSet(S), NEW a, NEW b, NEW c, NEW n \in Int,
           \A x \in S : a[x] \in Int /\ b[x] \in Int /\ c[x] \in Int /\ a[x] = b[x] + n * c[x]
    PROVE  SumFunctionOnSet(a, S) = SumFunctionOnSet(b, S) + n * SumFunctionOnSet(c, S)
<1> DEFINE A(T) == SumFunctionOnSet(a, T)
           B(T) == SumFunctionOnSet(b, T)
           C(T) == SumFunctionOnSet(c, T)
           Right(T) == A(T) = B(T) + n * C(T)
           P == {T \in SUBSET S : Right(T)}
<1>1. ASSUME NEW T \in SUBSET S, \A x \in T : T \ {x} \in P PROVE T \in P
  <2>1. IsFiniteSet(T)
    BY FS_Subset
  <2>2. \A x \in T : a[x] \in Int /\ b[x] \in Int /\ c[x] \in Int
    OBVIOUS
  <2>3. CASE T = {}
    <3>1. A(T) = 0 /\ B(T) = 0 /\ C(T) = 0
      BY <2>1, <2>2, <2>3, SumOn
    <3> HIDE DEF A, B, C
    <3> QED  BY <3>1
  <2>4. CASE T # {}
    <3>1. PICK x \in T : TRUE
      BY <2>4
    <3>2. A(T) = a[x] + A(T \ {x}) /\ B(T) = b[x] + B(T \ {x}) /\ C(T) = c[x] + C(T \ {x})
      BY <2>1, <2>2, SumOn
    <3>3. IsFiniteSet(T \ {x})
      BY <2>1, FS_RemoveElement
    <3>4. A(T \ {x}) \in Int /\ B(T \ {x}) \in Int /\ C(T \ {x}) \in Int
      BY <2>2, <3>3, SumOn
    <3> HIDE DEF A, B, C
    <3>5. A(T \ {x}) = B(T \ {x}) + n * C(T \ {x})
      BY <1>1
    <3>6. a[x] = b[x] + n * c[x] /\ a[x] \in Int /\ b[x] \in Int /\ c[x] \in Int
      OBVIOUS
    <3>7. \A p, q, r, s \in Int : (p + n * q) + (r + n * s) = (p + r) + n * (q + s)
      OBVIOUS
    <3>8. (b[x] + n * c[x]) + (B(T \ {x}) + n * C(T \ {x})) = (b[x] + B(T \ {x})) + n * (c[x] + C(T \ {x}))
      BY <3>4, <3>6, <3>7
    <3>9. Right(T)
      BY <3>2, <3>5, <3>6, <3>8
    <3> QED  BY <3>9
  <2> QED  BY <2>3, <2>4
<1> HIDE DEF P
<1>2. SUBSET S \subseteq P
  BY <1>1, SubsetInduction
<1> QED  BY <1>2 DEF P

\* Sums of more are more.
LEMMA SumOnMonotone ==
    ASSUME NEW S, IsFiniteSet(S), NEW a, NEW b,
           \A x \in S : a[x] \in Int /\ b[x] \in Int /\ a[x] <= b[x]
    PROVE  SumFunctionOnSet(a, S) <= SumFunctionOnSet(b, S)
<1> DEFINE A(T) == SumFunctionOnSet(a, T)
           B(T) == SumFunctionOnSet(b, T)
           Right(T) == A(T) <= B(T)
           P == {T \in SUBSET S : Right(T)}
<1>1. ASSUME NEW T \in SUBSET S, \A x \in T : T \ {x} \in P PROVE T \in P
  <2>1. IsFiniteSet(T)
    BY FS_Subset
  <2>2. \A x \in T : a[x] \in Int /\ b[x] \in Int
    OBVIOUS
  <2>3. CASE T = {}
    <3>1. A(T) = 0 /\ B(T) = 0
      BY <2>1, <2>2, <2>3, SumOn
    <3> HIDE DEF A, B
    <3> QED  BY <3>1
  <2>4. CASE T # {}
    <3>1. PICK x \in T : TRUE
      BY <2>4
    <3>2. A(T) = a[x] + A(T \ {x}) /\ B(T) = b[x] + B(T \ {x})
      BY <2>1, <2>2, SumOn
    <3>3. IsFiniteSet(T \ {x})
      BY <2>1, FS_RemoveElement
    <3>4. A(T \ {x}) \in Int /\ B(T \ {x}) \in Int
      BY <2>2, <3>3, SumOn
    <3> HIDE DEF A, B
    <3>5. A(T \ {x}) <= B(T \ {x})
      BY <1>1
    <3>6. a[x] <= b[x] /\ a[x] \in Int /\ b[x] \in Int
      OBVIOUS
    <3>7. Right(T)
      BY <3>2, <3>4, <3>5, <3>6
    <3> QED  BY <3>7
  <2> QED  BY <2>3, <2>4
<1> HIDE DEF P
<1>2. SUBSET S \subseteq P
  BY <1>1, SubsetInduction
<1> QED  BY <1>2 DEF P

LEMMA SumOnSame ==
    ASSUME NEW S, IsFiniteSet(S), NEW a, NEW b, \A x \in S : a[x] \in Int /\ a[x] = b[x]
    PROVE  SumFunctionOnSet(a, S) = SumFunctionOnSet(b, S)
<1>1. SumFunctionOnSet(a, S) <= SumFunctionOnSet(b, S) /\ SumFunctionOnSet(b, S) <= SumFunctionOnSet(a, S)
  BY SumOnMonotone
<1>2. SumFunctionOnSet(a, S) \in Int /\ SumFunctionOnSet(b, S) \in Int
  BY SumOn
<1> QED  BY <1>1, <1>2

\* The same of functions on a finite set. The sum of integers is one.
LEMMA SumType ==
    ASSUME NEW S, IsFiniteSet(S), NEW f \in [S -> Int]
    PROVE  SumFunction(f) \in Int /\ (S = {} => SumFunction(f) = 0)
BY SumOn DEF SumFunction

LEMMA SumLinear ==
    ASSUME NEW S, IsFiniteSet(S), NEW a \in [S -> Int], NEW b \in [S -> Int], NEW c \in [S -> Int],
           NEW n \in Int, \A x \in S : a[x] = b[x] + n * c[x]
    PROVE  SumFunction(a) = SumFunction(b) + n * SumFunction(c)
BY SumOnLinear DEF SumFunction

LEMMA SumMonotone ==
    ASSUME NEW S, IsFiniteSet(S), NEW a \in [S -> Int], NEW b \in [S -> Int], \A x \in S : a[x] <= b[x]
    PROVE  SumFunction(a) <= SumFunction(b)
BY SumOnMonotone DEF SumFunction

LEMMA SumOfNone ==
    ASSUME NEW S, IsFiniteSet(S), NEW f \in [S -> Int], \A x \in S : f[x] = 0
    PROVE  SumFunction(f) = 0
<1>1. SumFunction(f) = SumFunction(f) + 1 * SumFunction(f)
  BY SumLinear
<1> QED  BY <1>1, SumType

LEMMA SumOfNats ==
    ASSUME NEW S, IsFiniteSet(S), NEW f \in [S -> Nat]
    PROVE  SumFunction(f) \in Nat
<1> DEFINE z == [x \in S |-> 0]
<1>1. z \in [S -> Int] /\ f \in [S -> Int] /\ \A x \in S : z[x] <= f[x] /\ z[x] = 0
  OBVIOUS
<1> HIDE DEF z
<1>2. SumFunction(z) = 0 /\ SumFunction(z) <= SumFunction(f) /\ SumFunction(f) \in Int
  BY <1>1, SumOfNone, SumMonotone, SumType
<1> QED  BY <1>2

\* Changing one value changes the sum by the difference.
LEMMA SumOneChanged ==
    ASSUME NEW S, IsFiniteSet(S), NEW f \in [S -> Int], NEW g \in [S -> Int], NEW x \in S,
           \A y \in S \ {x} : g[y] = f[y]
    PROVE  SumFunction(g) = SumFunction(f) + g[x] - f[x]
<1> DEFINE rest == SumFunctionOnSet(f, S \ {x})
<1>1. IsFiniteSet(S \ {x})
  BY FS_RemoveElement
<1>2. SumFunctionOnSet(g, S \ {x}) = rest /\ rest \in Int
  BY <1>1, SumOnSame, SumOn
<1>3. SumFunction(f) = f[x] + rest /\ SumFunction(g) = g[x] + SumFunctionOnSet(g, S \ {x})
  BY SumOn DEF SumFunction
<1> HIDE DEF rest
<1> QED  BY <1>2, <1>3

\* So does one more.
LEMMA SumOneMore ==
    ASSUME NEW S, IsFiniteSet(S), NEW x, x \notin S, NEW R, x \in R, R \ {x} = S,
           NEW f \in [S -> Int], NEW g \in [R -> Int], \A y \in S : g[y] = f[y]
    PROVE  SumFunction(g) = SumFunction(f) + g[x]
<1>1. IsFiniteSet(R)
  <2>1. R = S \cup {x}
    OBVIOUS
  <2> QED  BY <2>1, FS_AddElement
<1>2. SumFunctionOnSet(g, S) = SumFunctionOnSet(f, S) /\ SumFunctionOnSet(f, S) \in Int
  BY SumOnSame, SumOn
<1>3. SumFunction(f) = SumFunctionOnSet(f, S) /\ SumFunction(g) = g[x] + SumFunctionOnSet(g, S)
  BY <1>1, SumOn DEF SumFunction
<1> QED  BY <1>2, <1>3

\* A sum, by what its elements have in common.
LEMMA SumByKind ==
    ASSUME NEW S, IsFiniteSet(S), NEW T, IsFiniteSet(T), NEW kind, NEW f,
           \A x \in S : f[x] \in Int /\ (kind[x] \in T \/ f[x] = 0)
    PROVE  /\ \A k \in T : SumFunctionOnSet(f, {x \in S : kind[x] = k}) \in Int
           /\ SumFunctionOnSet(f, S) = SumFunction([k \in T |-> SumFunctionOnSet(f, {x \in S : kind[x] = k})])
<1> DEFINE A(U) == SumFunctionOnSet(f, U)
           Of(U, k) == {x \in U : kind[x] = k}
           F(U) == [k \in T |-> A(Of(U, k))]
           Right(U) == A(U) = SumFunction(F(U))
           P == {U \in SUBSET S : Right(U)}
<1>1. ASSUME NEW U \in SUBSET S PROVE IsFiniteSet(U) /\ A(U) \in Int
  <2>1. IsFiniteSet(U)
    BY FS_Subset
  <2> QED  BY <2>1, SumOn
<1>2. ASSUME NEW U \in SUBSET S, NEW x \in U PROVE A(U) = f[x] + A(U \ {x})
  <2>1. IsFiniteSet(U) /\ \A y \in U : f[y] \in Int
    BY <1>1
  <2> QED  BY <2>1, SumOn
<1>3. A({}) = 0
  <2>1. IsFiniteSet({}) /\ \A y \in {} : f[y] \in Int
    BY FS_EmptySet
  <2> QED  BY <2>1, SumOn
<1>4. \A U \in SUBSET S : \A k : Of(U, k) \in SUBSET S
  OBVIOUS
<1>5. \A U \in SUBSET S : \A k : \A x \in U :
         /\ kind[x] = k => x \in Of(U, k)
         /\ Of(U \ {x}, k) = IF kind[x] = k THEN Of(U, k) \ {x} ELSE Of(U, k)
  OBVIOUS
<1>6. \A U : Of({}, U) = {}
  OBVIOUS
<1> HIDE DEF A, Of
<1>7. \A U \in SUBSET S : F(U) \in [T -> Int] /\ \A k \in T : F(U)[k] = A(Of(U, k))
  BY <1>1, <1>4
<1>8. ASSUME NEW U \in SUBSET S, \A x \in U : U \ {x} \in P PROVE U \in P
  <2>1. CASE U = {}
    <3>1. \A k \in T : F(U)[k] = 0
      BY <1>3, <1>6, <1>7, <2>1
    <3>2. SumFunction(F(U)) = 0
      <4> HIDE DEF F
      <4> QED  BY <1>7, <3>1, SumOfNone
    <3> QED  BY <1>3, <2>1, <3>2
  <2>2. CASE U # {}
    <3>1. PICK x \in U : TRUE
      BY <2>2
    <3> DEFINE V == U \ {x}
               c == kind[x]
    <3>2. V \in SUBSET S /\ A(V) = SumFunction(F(V)) /\ A(U) = f[x] + A(V)
      BY <1>2, <1>8
    <3>3. F(U) \in [T -> Int] /\ F(V) \in [T -> Int] /\ f[x] \in Int /\ A(V) \in Int
      BY <1>1, <1>7, <3>2
    <3>4. \A k \in T : k # c => F(U)[k] = F(V)[k]
      <4>1. \A k \in T : k # c => Of(V, k) = Of(U, k)
        BY <1>5
      <4>2. \A k \in T : F(U)[k] = A(Of(U, k)) /\ F(V)[k] = A(Of(V, k))
        BY <1>7, <3>2
      <4> HIDE DEF F, V, c
      <4> QED  BY <4>1, <4>2
    <3>5. CASE c \in T
      <4>1. F(U)[c] = f[x] + F(V)[c]
        <5>1. x \in Of(U, c) /\ Of(V, c) = Of(U, c) \ {x} /\ Of(U, c) \in SUBSET S
          BY <1>4, <1>5
        <5>2. A(Of(U, c)) = f[x] + A(Of(V, c))
          BY <1>2, <5>1
        <5> QED  BY <1>7, <3>2, <3>5, <5>2
      <4> HIDE DEF F, V, c
      <4>2. SumFunction(F(U)) = SumFunction(F(V)) + F(U)[c] - F(V)[c]
        BY <3>3, <3>4, <3>5, SumOneChanged
      <4>3. F(U)[c] \in Int /\ F(V)[c] \in Int /\ SumFunction(F(V)) \in Int
        BY <3>2, <3>3, <3>5
      <4>4. A(U) = SumFunction(F(U))
        BY <3>2, <3>3, <4>1, <4>2, <4>3
      <4> QED  BY <4>4
    <3>6. CASE c \notin T
      <4>1. f[x] = 0
        BY <3>6
      <4>2. F(U) = F(V)
        BY <3>4, <3>6
      <4> HIDE DEF F, V, c
      <4>3. A(U) = SumFunction(F(U))
        BY <3>2, <3>3, <4>1, <4>2
      <4> QED  BY <4>3
    <3> QED  BY <3>5, <3>6
  <2> QED  BY <2>1, <2>2
<1>9. SUBSET S \subseteq P
  <2> HIDE DEF P
  <2>1. \A U \in SUBSET S : (\A x \in U : U \ {x} \in P) => U \in P
    BY <1>8
  <2> QED  BY <2>1, SubsetInduction
<1>10. S \in SUBSET S
  OBVIOUS
<1>11. A(S) = SumFunction(F(S)) /\ \A k \in T : A(Of(S, k)) \in Int
  BY <1>1, <1>4, <1>9, <1>10
<1> QED  BY <1>11 DEF A, Of

-----------------------------------------------------------------------------
(* The largest, the smaller, and quotients *)

\* A finite set of numbers has a largest.
LEMMA MaxIsLargest ==
    ASSUME NEW S, IsFiniteSet(S), S # {}, S \subseteq Int
    PROVE  Max(S) \in S /\ \A y \in S : Max(S) >= y
<1> DEFINE P == {T \in SUBSET S : T # {} => \E m \in T : \A y \in T : m >= y}
<1>1. ASSUME NEW T \in SUBSET S, \A x \in T : T \ {x} \in P PROVE T \in P
  <2>1. SUFFICES ASSUME T # {} PROVE \E m \in T : \A y \in T : m >= y
    OBVIOUS
  <2>2. PICK x \in T : TRUE
    BY <2>1
  <2>3. CASE T \ {x} = {}
    BY <2>2, <2>3
  <2>4. CASE T \ {x} # {}
    <3>1. PICK m \in T \ {x} : \A y \in T \ {x} : m >= y
      BY <1>1, <2>4
    <3>2. CASE m >= x
      BY <3>1, <3>2
    <3>3. CASE m < x
      <4>1. \A y \in T : x >= y
        BY <3>1, <3>3
      <4> QED  BY <4>1
    <3> QED  BY <3>2, <3>3
  <2> QED  BY <2>3, <2>4
<1> HIDE DEF P
<1>2. S \in P
  BY <1>1, SubsetInduction
<1>3. \E m \in S : \A y \in S : m >= y
  BY <1>2 DEF P
<1> QED  BY <1>3 DEF Max

\* The smaller of two numbers.
LEMMA MinOfTwo ==
    ASSUME NEW a \in Int, NEW b \in Int
    PROVE  Min({a, b}) = IF a <= b THEN a ELSE b
<1> DEFINE m == IF a <= b THEN a ELSE b
<1>1. m \in {a, b} /\ \A y \in {a, b} : m <= y
  OBVIOUS
<1>2. \A x \in {a, b} : (\A y \in {a, b} : x <= y) => x = m
  OBVIOUS
<1> QED  BY <1>1, <1>2 DEF Min

\* A quotient is rounded down.
LEMMA Quotients ==
    ASSUME NEW n \in Nat \ {0}, NEW x \in Nat
    PROVE  /\ x \div n \in Nat
           /\ n * (x \div n) <= x
           /\ \A m \in Nat : x <= m * n => x \div n <= m
           /\ \A m \in Nat : m * n <= x => m <= x \div n
<1> DEFINE q == x \div n
           r == x % n
<1>1. q \in Int /\ r \in 0..(n - 1) /\ x = q * n + r
  OBVIOUS
<1> HIDE DEF q, r
<1>2. ~(q <= -1)
  <2>1. SUFFICES ASSUME q <= -1 PROVE FALSE
    OBVIOUS
  <2>2. q * n <= (-1) * n
    BY <1>1, <2>1
  <2> QED  BY <1>1, <2>2
<1>3. ASSUME NEW m \in Nat, x <= m * n PROVE q <= m
  <2>1. SUFFICES ASSUME m + 1 <= q PROVE FALSE
    BY <1>1
  <2>2. (m + 1) * n <= q * n /\ (m + 1) * n = m * n + n
    BY <1>1, <2>1
  <2> QED  BY <1>1, <1>3, <2>2
<1>4. ASSUME NEW m \in Nat, m * n <= x PROVE m <= q
  <2>1. SUFFICES ASSUME q + 1 <= m PROVE FALSE
    BY <1>1
  <2>2. (q + 1) * n <= m * n /\ (q + 1) * n = q * n + n
    BY <1>1, <2>1
  <2> QED  BY <1>1, <1>4, <2>2
<1>5. q \in Nat /\ n * q <= x
  BY <1>1, <1>2
<1> QED  BY <1>3, <1>4, <1>5 DEF q

-----------------------------------------------------------------------------
(* Weeks *)

\* Weeks are multiples of a week.
LEMMA Multiples ==
    ASSUME NEW w \in Nat
    PROVE  /\ w % Week = 0 => \E q \in Nat : w = q * Week
           /\ \A q \in Nat : w = q * Week => w % Week = 0
<1> DEFINE d == w \div Week
           m == w % Week
<1>0. Week \in Nat \ {0}
  BY MiningAssumption
<1>1. d \in Int /\ m \in 0..(Week - 1) /\ w = d * Week + m
  BY <1>0
<1>2. ~(d < 0)
  <2>1. SUFFICES ASSUME d <= -1 PROVE FALSE
    BY <1>1
  <2>2. d * Week <= (-1) * Week
    BY <1>0, <1>1, <2>1
  <2> QED  BY <1>0, <1>1, <2>2
<1>3. ASSUME NEW q \in Nat, w = q * Week PROVE m = 0
  <2>1. ~(q >= d + 1)
    <3>1. SUFFICES ASSUME q >= d + 1 PROVE FALSE
      OBVIOUS
    <3>2. q * Week >= (d + 1) * Week
      BY <1>0, <1>1, <3>1
    <3>3. (d + 1) * Week = d * Week + Week
      BY <1>0, <1>1
    <3> QED  BY <1>0, <1>1, <1>3, <3>2, <3>3
  <2>2. ~(d >= q + 1)
    <3>1. SUFFICES ASSUME d >= q + 1 PROVE FALSE
      OBVIOUS
    <3>2. d * Week >= (q + 1) * Week
      BY <1>0, <1>1, <3>1
    <3>3. (q + 1) * Week = q * Week + Week
      BY <1>0
    <3> QED  BY <1>0, <1>1, <1>3, <3>2, <3>3
  <2>3. q = d
    BY <1>1, <2>1, <2>2
  <2> HIDE DEF d, m
  <2> QED  BY <1>0, <1>1, <1>3, <2>3
<1> HIDE DEF d
<1>4. w % Week = 0 => w = d * Week /\ d \in Nat
  BY <1>0, <1>1, <1>2
<1> QED  BY <1>3, <1>4

\* Of two weeks, the later begins at least a week later; weeks before and after are weeks.
LEMMA WeeksApart ==
    ASSUME NEW v \in Nat, NEW w \in Nat, v % Week = 0, w % Week = 0
    PROVE  /\ v < w => v + Week <= w
           /\ (w + Week) % Week = 0
           /\ w >= Week => (w - Week) % Week = 0
<1>0. Week \in Nat \ {0}
  BY MiningAssumption
<1>1. PICK p \in Nat : v = p * Week
  BY Multiples
<1>2. PICK q \in Nat : w = q * Week
  BY Multiples
<1>3. ASSUME v < w PROVE v + Week <= w
  <2>1. p < q
    <3>1. SUFFICES ASSUME q <= p PROVE FALSE
      OBVIOUS
    <3>2. q * Week <= p * Week
      BY <1>0, <3>1
    <3> QED  BY <1>1, <1>2, <1>3, <3>2
  <2>2. (p + 1) * Week <= q * Week
    BY <1>0, <2>1
  <2>3. (p + 1) * Week = p * Week + Week
    BY <1>0
  <2> QED  BY <1>1, <1>2, <2>2, <2>3
<1>4. (w + Week) % Week = 0
  <2>1. w + Week = (q + 1) * Week /\ q + 1 \in Nat /\ w + Week \in Nat
    BY <1>0, <1>2
  <2> QED  BY <2>1, Multiples
<1>5. ASSUME w >= Week PROVE (w - Week) % Week = 0
  <2>1. q # 0
    BY <1>0, <1>2, <1>5
  <2>2. w - Week = (q - 1) * Week /\ q - 1 \in Nat /\ w - Week \in Nat
    BY <1>0, <1>2, <1>5, <2>1
  <2> QED  BY <2>2, Multiples
<1> QED  BY <1>3, <1>4, <1>5

-----------------------------------------------------------------------------
(* Recursion *)

\* A function that is computed one after the other.
Recurs(f, first, last, a, next) ==
    f = [j \in first..last |-> IF j = first THEN a ELSE next[j][f[j - 1]]]

\* There is one.
LEMMA RecursionExists ==
    ASSUME NEW E, NEW a \in E, NEW first \in Int, NEW n \in Nat,
           NEW next, \A j \in (first + 1)..(first + n), e \in E : next[j][e] \in E
    PROVE  \E f \in [first..(first + n) -> E] : Recurs(f, first, first + n, a, next)
<1> DEFINE P == {i \in 0..n : \E f \in [first..(first + i) -> E] : Recurs(f, first, first + i, a, next)}
<1>1. 0 \in P
  <2> DEFINE f == [j \in first..(first + 0) |-> a]
  <2>1. f \in [first..(first + 0) -> E] /\ \A j \in first..(first + 0) : j = first
    OBVIOUS
  <2>2. Recurs(f, first, first + 0, a, next)
    BY <2>1 DEF Recurs
  <2> HIDE DEF f
  <2> QED  BY <2>1, <2>2
<1>2. ASSUME NEW i \in 0..(n - 1), i \in P PROVE i + 1 \in P
  <2> DEFINE last == first + i
             D == first..last
             D2 == first..(first + (i + 1))
  <2>1. PICK f \in [D -> E] : Recurs(f, first, last, a, next)
    BY <1>2
  <2> DEFINE g == [j \in D2 |-> IF j = last + 1 THEN next[j][f[last]] ELSE f[j]]
  <2>2. last \in D /\ last \in Int /\ D2 = D \cup {last + 1} /\ last + 1 \notin D /\ first \in D
        /\ last + 1 \in (first + 1)..(first + n) /\ \A j \in D : j \in Int /\ j <= last /\ (j # first => j - 1 \in D)
    OBVIOUS
  <2> HIDE DEF D, D2, last
  <2>3. \A j \in D : f[j] = IF j = first THEN a ELSE next[j][f[j - 1]]
    BY <2>1 DEF Recurs, D
  <2>4. g \in [D2 -> E]
    BY <2>2
  <2>5. \A j \in D : g[j] = f[j]
    BY <2>2
  <2>6. ASSUME NEW j \in D2 PROVE g[j] = IF j = first THEN a ELSE next[j][g[j - 1]]
    <3>1. CASE j = last + 1
      <4>1. g[j] = next[j][f[last]] /\ j # first /\ j - 1 = last
        BY <2>2, <3>1
      <4> QED  BY <2>2, <2>5, <4>1
    <3>2. CASE j # last + 1
      <4>1. j \in D /\ (j # first => j - 1 \in D)
        BY <2>2, <3>2
      <4> HIDE DEF g
      <4> QED  BY <2>3, <2>5, <4>1
    <3> QED  BY <3>1, <3>2
  <2>7. g = [j \in D2 |-> g[j]]
    BY <2>4
  <2> HIDE DEF g
  <2>8. g = [j \in D2 |-> IF j = first THEN a ELSE next[j][g[j - 1]]]
    BY <2>6, <2>7
  <2>9. Recurs(g, first, first + (i + 1), a, next)
    BY <2>8 DEF Recurs, D2
  <2> QED  BY <2>4, <2>9 DEF D2
<1>3. n \in P
  <2> HIDE DEF P
  <2>1. 0..n \subseteq P
    BY <1>1, <1>2, Induction
  <2> QED  BY <2>1
<1> QED  BY <1>3
===============================================================================
