------------------------------ MODULE CometNum ------------------------------
(***************************************************************************)
(* contracts/src/c_num.rs: checked subtraction and the power function the  *)
(* pool prices everything with.                                            *)
(*                                                                         *)
(* A Rust function that may panic is an operator that returns a set: {v}   *)
(* when the function returns v and {} when it panics.  A caller that       *)
(* quantifies over the set is therefore disabled when the callee panics,   *)
(* which is what the host's rollback of a failed invocation amounts to.    *)
(***************************************************************************)
EXTENDS FixedPoint

CONSTANTS
  BONE,            \* the number 1 of the pool's fixed-point arithmetic
  CPOW_PRECISION   \* a series term at or below this ends the approximation

ASSUME NumAssumption ==
  /\ BONE \in Nat \ {0}
  /\ CPOW_PRECISION \in Nat

MIN_CPOW_BASE == 1
MAX_CPOW_BASE == 2 * BONE - 1

\* The cap on the number of series terms (the loop is `for i in 1..51`).
SeriesCap == 50

SubNoNegative(a, b) == IF a >= b THEN {a - b} ELSE {}

RoundedMul(x, y, roundUp) ==
  IF roundUp THEN FixedMulCeil(x, y, BONE) ELSE FixedMulFloor(x, y, BONE)

(***************************************************************************)
(* base^n for an integer n by repeated squaring, every product rounded.    *)
(* `loop` is the while loop: a is squared once per remaining binary digit  *)
(* of n, and multiplied into z where that digit is 1.                      *)
(***************************************************************************)
PowiState == [a : Int, z : Int, n : Nat]

PowiStep(s, roundUp) ==
  LET square == RoundedMul(s.a, s.a, roundUp)
  IN [a |-> square,
      z |-> IF s.n % 2 # 0 THEN RoundedMul(s.z, square, roundUp) ELSE s.z,
      n |-> s.n \div 2]

CPowi(base, n, roundUp) ==
  LET loop[s \in PowiState] == IF s.n = 0 THEN s.z ELSE loop[PowiStep(s, roundUp)]
  IN loop[[a |-> base, z |-> IF n % 2 # 0 THEN base ELSE BONE, n |-> n \div 2]]

Abs(x) == IF x < 0 THEN -x ELSE x

(***************************************************************************)
(* The binomial series of (1 + x)^exp, x = base - 1, cut at the first term *)
(* that is small enough.  Every term is computed from its predecessor and  *)
(* floored twice or thrice on the way.                                     *)
(***************************************************************************)
NextTerm(term, i, x, exp) ==
  LET c == exp - (i - 1) * BONE
      scaled == FixedMulFloor(term, FixedMulFloor(c, x, BONE), BONE)
  IN FixedDivFloor(scaled, i * BONE, BONE)

SeriesState == [iters : 0 .. SeriesCap, term : Int, sum : Int]

SeriesEnds(s, precision) ==
  s.iters = SeriesCap \/ (s.iters > 0 /\ Abs(s.term) <= precision)

SeriesStep(s, x, exp) ==
  LET new == NextTerm(s.term, s.iters + 1, x, exp)
  IN [iters |-> s.iters + 1, term |-> new, sum |-> s.sum + new]

PowSeries(base, exp, precision) ==
  LET loop[s \in SeriesState] ==
        IF SeriesEnds(s, precision) THEN s ELSE loop[SeriesStep(s, base - BONE, exp)]
  IN loop[[iters |-> 0, term |-> BONE, sum |-> BONE]]

\* Mutant of Correction: the guard x != zero is lost.
CorrectionNudgesOne(x, series, roundUp) ==
  IF series.iters = 1 THEN IF roundUp THEN 1 ELSE 0 ELSE 0

\* Mutant of Correction: the last term of an oscillating series is kept.
CorrectionKeepsLastTerm(x, series, roundUp) ==
  IF series.iters = 1 THEN IF x # 0 /\ roundUp THEN 1 ELSE 0
  ELSE IF x > 0 \/ roundUp THEN 0 ELSE series.term

\* Mutant of Correction: the last term of a falling series is added twice,
\* whatever the direction of the rounding.
CorrectionIgnoresDirection(x, series, roundUp) ==
  IF series.iters = 1 THEN 0 ELSE IF x > 0 THEN 0 ELSE series.term

\* Mutant of Correction: a series of one term is corrected by that term.
CorrectionByFirstTerm(x, series, roundUp) ==
  IF x > 0 THEN IF series.term > 0 /\ ~roundUp THEN -series.term ELSE 0
           ELSE IF roundUp THEN 0 ELSE series.term

(***************************************************************************)
(* The correction that turns the partial sum into a bound of the requested *)
(* direction.  A series that ended on its first term is moved by one unit  *)
(* and never across BONE; a longer one by its last term.                   *)
(***************************************************************************)
Correction(x, series, roundUp) ==
  IF series.iters = 1
    THEN IF x = 0 THEN 0
         ELSE IF roundUp THEN 1
         ELSE IF series.term # 0 THEN -1 ELSE 0
    ELSE IF x > 0
           THEN IF \/ series.term > 0 /\ ~roundUp
                   \/ series.term < 0 /\ roundUp
                  THEN -series.term ELSE 0
           ELSE IF roundUp THEN 0 ELSE series.term

CPowApprox(base, exp, precision, roundUp) ==
  LET series == PowSeries(base, exp, precision)
  IN series.sum + Correction(base - BONE, series, roundUp)

\* base^exp, the integer part of the exponent exactly and the rest by series.
CPowValue(base, exp, roundUp) ==
  LET int    == exp \div BONE
      remain == exp - int * BONE
      whole  == CPowi(base, int, roundUp)
  IN IF remain = 0 THEN whole
     ELSE RoundedMul(whole, CPowApprox(base, remain, CPOW_PRECISION, roundUp), roundUp)

CPow(base, exp, roundUp) ==
  IF base \in MIN_CPOW_BASE .. MAX_CPOW_BASE
    THEN {CPowValue(base, exp, roundUp)}
    ELSE {}
=============================================================================
