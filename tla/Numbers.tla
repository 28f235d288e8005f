------------------------------- MODULE Numbers -------------------------------
(***************************************************************************)
(* numbers.ts: the BigNumbers of contracts, which count wei, and the         *)
(* Decimals that tests compute with, which are finer. Both are integers:     *)
(* a BigNumber counts 1/WAD, a Decimal 1/(WAD * FINER), a square. The digits *)
(* are few, so that products of three or four amounts fit in TLC's 32 bits.  *)
(***************************************************************************)
EXTENDS Integers, Sequences, SequencesExt

CONSTANTS
    ROOT,       \* a Decimal is a multiple of 1/ROOT^2
    FINER       \* Decimals to a wei

ASSUME NumbersAssumption ==
    ROOT \in Nat \ {0} /\ FINER \in Nat \ {0} /\ (ROOT * ROOT) % FINER = 0

ONE == ROOT * ROOT          \* decimal(1)
WAD == ONE \div FINER       \* fp(1)

FromFp(wei) == wei * FINER

\* bn keeps the digits before the point: it truncates, below zero too. toFp only moves
\* the point.
Fp(d) == IF d >= 0 THEN d \div FINER ELSE -((-d) \div FINER)

-----------------------------------------------------------------------------
(* Decimals. The quotients are rounded down in their last digit.             *)

Mul(a, b) ==
    LET rest == a % ONE
    IN (a \div ONE) * b + ((rest \div ROOT) * b + ((rest % ROOT) * b) \div ROOT) \div ROOT

Div(a, b) ==
    LET digits(first) == (first \div b) * ROOT + ((first % b) * ROOT) \div b
    IN (a \div b) * ONE + digits((a % b) * ROOT)

AtLeastZero(d) == IF d > 0 THEN d ELSE 0

Sum(ds) == FoldLeft(LAMBDA a, b : a + b, 0, ds)

\* Bit by bit, up to a root of a hundred.
SquareRoot(d) ==
    FoldLeft(LAMBDA root, bit : IF Mul(root + bit, root + bit) <= d THEN root + bit ELSE root,
             0, [k \in 1..20 |-> 2 ^ (20 - k)])

PowNat(d, n) == FoldLeft(LAMBDA p, k : Mul(p, d), ONE, [k \in 1..n |-> k])

\* Exponents are multiples of a fourth.
Pow(d, exponent) ==
    LET fourths == (4 * exponent) \div ONE
        root == SquareRoot(d)
    IN Mul(PowNat(d, fourths \div 4),
           Mul(IF (fourths \div 2) % 2 = 1 THEN root ELSE ONE,
               IF fourths % 2 = 1 THEN SquareRoot(root) ELSE ONE))

-----------------------------------------------------------------------------
(* BigNumbers *)

FpMul(a, b) == (a * b) \div WAD
FpDiv(a, b) == (a * WAD) \div b
DivCeil(x, y) == (x + y - 1) \div y
ArrayAdd(as, bs) == [i \in DOMAIN as |-> as[i] + bs[i]]
ArraySub(as, bs) == [i \in DOMAIN as |-> as[i] - bs[i]]
===============================================================================
