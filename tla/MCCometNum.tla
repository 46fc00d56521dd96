----------------------------- MODULE MCCometNum -----------------------------
(***************************************************************************)
(* Exhaustive check of the power function of CometNum against the real     *)
(* power, over every base of a range and a set of rational exponents.  An  *)
(* exponent is num/den, so that comparing an integer p with                *)
(* BONE * (base/BONE)^(num/den) is comparing p^den * BONE^num with         *)
(* base^num * BONE^den: no real number is needed.                          *)
(***************************************************************************)
EXTENDS CometNum, Powers

CONSTANTS
  MinBase, MaxBase,  \* the bases that are tried
  Exponents          \* the exponents that are tried, as [num, den]

\* An exponent of c_pow is a fixed-point number, so its fraction has one over
\* BONE as a multiple of its denominator: num/den is that number exactly.
ASSUME RangeAssumption ==
  /\ MinBase \in MIN_CPOW_BASE .. MAX_CPOW_BASE /\ MaxBase \in MIN_CPOW_BASE .. MAX_CPOW_BASE
  /\ \A e \in Exponents : e.num \in Nat /\ e.den \in Nat \ {0} /\ (e.num * BONE) % e.den = 0

\* One of each kind: below 1, between 1 and 2 (an integer part and a series)
TradingExponents ==
  {[num |-> e[1], den |-> e[2]] : e \in
    {<<1, 2>>, <<1, 3>>, <<2, 3>>, <<1, 4>>, <<3, 4>>, <<3, 2>>, <<4, 3>>, <<2, 1>>}}

\* The weights of a pool just off the middle, 0.5005 to 0.4995: one and a bit
ExponentsNearOne == {[num |-> 501, den |-> 500]}

VARIABLES base, exponent

vars == <<base, exponent>>

Exp(e) == (e.num * BONE) \div e.den

\* sign of p - BONE * (b/BONE)^(num/den), the common power of BONE cancelled
AtLeastPower(p, b, e) ==
  IF e.num <= e.den
    THEN Pow(p, e.den) >= Pow(b, e.num) * Pow(BONE, e.den - e.num)
    ELSE Pow(p, e.den) * Pow(BONE, e.num - e.den) >= Pow(b, e.num)

AtMostPower(p, b, e) ==
  IF e.num <= e.den
    THEN Pow(p, e.den) <= Pow(b, e.num) * Pow(BONE, e.den - e.num)
    ELSE Pow(p, e.den) * Pow(BONE, e.num - e.den) <= Pow(b, e.num)

\* The part of the exponent that goes to the series is at least some hundredth:
\* for the code's BONE = 10^18 and CPOW_PRECISION = 10^8, no less than 1/101.
FractionIsNotTiny ==
  LET r == Exp(exponent) % BONE
  IN r = 0 \/ (BONE - r) * ((CPOW_PRECISION + 1) * (CPOW_PRECISION + 1)) <= r * BONE

Terms == PowSeries(base, Exp(exponent) % BONE, CPOW_PRECISION).iters

RoundedUp   == CPowValue(base, Exp(exponent), TRUE)
RoundedDown == CPowValue(base, Exp(exponent), FALSE)

Init == base = MinBase /\ exponent \in Exponents

NextBase == base < MaxBase /\ base' = base + 1 /\ UNCHANGED exponent

Spec == Init /\ [][NextBase]_vars
-----------------------------------------------------------------------------
(***************************************************************************)
(* Properties                                                              *)
(***************************************************************************)

\* A power of a number above 1 is never below 1, and of a number below 1
\* never above 1, in either rounding direction.  Every caller of c_pow
\* subtracts the result from BONE or BONE from the result and panics on a
\* negative difference (c_math.rs sub_no_negative), and "Never adjust across
\* BONE" (c_num.rs:128) is the promise.
NeverCrossesOne ==
  /\ base >= BONE => RoundedDown >= BONE /\ RoundedUp >= BONE
  /\ base <= BONE => RoundedDown <= BONE /\ RoundedUp <= BONE

\* A power that is rounded down never exceeds the real power, although it is
\* computed from a truncated series whose terms are themselves rounded: what
\* the pool mints for a deposit and leaves in the pool after a withdrawal is
\* never an overestimate.
RoundDownIsALowerBound == AtMostPower(RoundedDown, base, exponent)

\* A power that is rounded up falls short of the real one by no more than
\* one unit per term of the series (each term is floored, and the correction does
\* not give that back).  This is the "(almost)" of c_num.rs:118 made exact.
RoundUpShortByLessThanTerms ==
  AtLeastPower(RoundedUp + Terms, base, exponent)

\* When the series ends on its first term, the one-unit nudge of c_num.rs:120
\* makes both directions true bounds, with no slack: rounded up always, and
\* rounded down unless the fraction is tiny.
FirstTermBoundsAreExact ==
  Terms = 1 => /\ AtLeastPower(RoundedUp, base, exponent)
               /\ FractionIsNotTiny => AtMostPower(RoundedDown, base, exponent)

\* "The omitted tail is below one unit" (c_num.rs:122).  Between 1 and 3/2 the
\* omitted terms alternate and fall so fast that together they are at least two
\* thirds of the first of them, which is term * (BONE - r) * x / (2 * BONE^2).
OmittedTailIsBelowOneUnit ==
  LET x      == base - BONE
      r      == Exp(exponent) % BONE
      series == PowSeries(base, r, CPOW_PRECISION)
  IN x \in 0 .. BONE \div 2 /\ series.iters = 1 =>
       series.term * x * (BONE - r) <= 3 * BONE * BONE
=============================================================================
