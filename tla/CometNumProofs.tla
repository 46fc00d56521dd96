--------------------------- MODULE CometNumProofs ---------------------------
(***************************************************************************)
(* What MCCometNum checks at one scale for some bases and exponents, for   *)
(* every scale, for all bases that c_pow accepts and for all rational      *)
(* exponents.  The argument about the series is in CometMathProofs.        *)
(***************************************************************************)
EXTENDS MCCometNum, CometMathProofs

InRange == base \in MIN_CPOW_BASE .. MAX_CPOW_BASE /\ exponent \in Exponents

LEMMA StaysInRange == Spec => []InRange
<1>1. Init => InRange
  BY RangeAssumption DEF Init, InRange
<1>2. InRange /\ [NextBase]_vars => InRange'
  <2>1. MIN_CPOW_BASE \in Int /\ MAX_CPOW_BASE \in Int
    BY NumAssumption DEF MIN_CPOW_BASE, MAX_CPOW_BASE
  <2> QED
    BY <2>1, RangeAssumption DEF InRange, NextBase, vars
<1> QED
  BY <1>1, <1>2, PTL DEF Spec

\* NeverCrossesOne: for every scale BONE, every precision, every base that
\* cpow accepts and every rational exponent, in both rounding directions, a
\* power is on the same side of one as its base.  No caller's subtraction of
\* a power from BONE, or of BONE from a power, can fail, and c_num.rs:128 is
\* right that the correction never adjusts across BONE.
THEOREM PowersNeverCrossOne == Spec => []NeverCrossesOne
<1>1. InRange => NeverCrossesOne
  <2> SUFFICES ASSUME InRange PROVE NeverCrossesOne
    OBVIOUS
  <2> DEFINE exp == Exp(exponent)
  <2>1. exponent.num \in Nat /\ exponent.den \in Nat \ {0} /\ BONE \in Nat
    BY NumAssumption, RangeAssumption DEF InRange
  <2>2. exponent.num * BONE \in Nat
    BY <2>1
  <2>3. exp \in Nat
    BY <2>1, <2>2 DEF Exp
  <2> HIDE DEF exp
  <2>4. /\ base >= BONE => CPowValue(base, exp, TRUE) >= BONE /\ CPowValue(base, exp, FALSE) >= BONE
        /\ base <= BONE => CPowValue(base, exp, TRUE) <= BONE /\ CPowValue(base, exp, FALSE) <= BONE
    BY <2>3, PowersKeepTheirSide DEF InRange
  <2> QED
    BY <2>4 DEF NeverCrossesOne, RoundedUp, RoundedDown, exp
<1> QED
  BY <1>1, StaysInRange, PTL

\* The two sides of a bound with the common power of one cancelled.
LEMMA CommonPowers ==
  ASSUME NEW p \in Nat, NEW b \in Nat, NEW e, e.num \in Nat, e.den \in Nat \ {0}
  PROVE  /\ Pow(b, e.num) * Pow(BONE, e.den) <= Pow(p, e.den) * Pow(BONE, e.num) => AtLeastPower(p, b, e)
         /\ Pow(p, e.den) * Pow(BONE, e.num) <= Pow(b, e.num) * Pow(BONE, e.den) => AtMostPower(p, b, e)
<1>1. BONE \in Nat \ {0} /\ BONE \in Int /\ BONE \in Nat
  BY NumAssumption
<1>2. PICK num \in Nat, den \in Nat \ {0} : num = e.num /\ den = e.den
  OBVIOUS
<1>3. PICK bn \in Nat \ {0}, bd \in Nat \ {0}, an \in Nat, pd \in Nat :
        bn = Pow(BONE, num) /\ bd = Pow(BONE, den) /\ an = Pow(b, num) /\ pd = Pow(p, den)
  <2>1. Pow(BONE, num) \in Nat \ {0} /\ Pow(BONE, den) \in Nat \ {0} /\ Pow(b, num) \in Nat /\ Pow(p, den) \in Nat
    BY <1>1, PowIsPositive, PowIsNatural
  <2> QED
    BY <2>1
<1>4. CASE num <= den
  <2>1. PICK m \in Nat, bm \in Nat : m = den - num /\ bm = Pow(BONE, m)
    <3>1. den - num \in Nat
      BY <1>4
    <3> QED
      BY <1>1, <3>1, PowIsNatural
  <2>2. bd = bn * bm
    <3>1. Pow(BONE, num + m) = Pow(BONE, num) * Pow(BONE, m) /\ num + m = den
      BY <1>1, <2>1, PowOfSum
    <3> QED
      BY <1>3, <2>1, <3>1
  <2>3. an * bd = (an * bm) * bn
    BY <2>2
  <2>4. an * bm \in Int /\ pd \in Int
    OBVIOUS
  <2>5. /\ an * bd <= pd * bn => an * bm <= pd
        /\ pd * bn <= an * bd => pd <= an * bm
    BY <2>3, <2>4, TimesReflectsOrder
  <2>6. /\ AtLeastPower(p, b, e) <=> pd >= an * bm
        /\ AtMostPower(p, b, e) <=> pd <= an * bm
    BY <1>2, <1>3, <1>4, <2>1 DEF AtLeastPower, AtMostPower
  <2> QED
    BY <1>2, <1>3, <2>4, <2>5, <2>6
<1>5. CASE num > den
  <2>1. PICK m \in Nat, bm \in Nat : m = num - den /\ bm = Pow(BONE, m)
    <3>1. num - den \in Nat
      BY <1>5
    <3> QED
      BY <1>1, <3>1, PowIsNatural
  <2>2. bn = bd * bm
    <3>1. Pow(BONE, den + m) = Pow(BONE, den) * Pow(BONE, m) /\ den + m = num
      BY <1>1, <2>1, PowOfSum
    <3> QED
      BY <1>3, <2>1, <3>1
  <2>3. pd * bn = (pd * bm) * bd
    BY <2>2
  <2>4. an \in Int /\ pd * bm \in Int
    OBVIOUS
  <2>5. /\ an * bd <= pd * bn => an <= pd * bm
        /\ pd * bn <= an * bd => pd * bm <= an
    BY <2>3, <2>4, TimesReflectsOrder
  <2>6. ~(num <= den)
    BY <1>5
  <2>7. /\ AtLeastPower(p, b, e) <=> pd * bm >= an
        /\ AtMostPower(p, b, e) <=> pd * bm <= an
    BY <1>2, <1>3, <2>1, <2>6 DEF AtLeastPower, AtMostPower
  <2> QED
    BY <1>2, <1>3, <2>4, <2>5, <2>7
<1> QED
  BY <1>4, <1>5

\* FirstTermBoundsAreExact: for every scale, every precision, every base that
\* c_pow accepts and every exponent, a power whose series ends on its first
\* term is a true bound of the real power in the direction of its rounding,
\* upwards always and downwards unless the fraction is tiny.  The squarings of
\* c_powi, the floored term and the last product are all in it.
THEOREM OneTermIsExact == Spec => []FirstTermBoundsAreExact
<1>1. InRange => FirstTermBoundsAreExact
  <2> SUFFICES ASSUME InRange, Terms = 1
               PROVE  /\ AtLeastPower(RoundedUp, base, exponent)
                      /\ FractionIsNotTiny => AtMostPower(RoundedDown, base, exponent)
    BY DEF FirstTermBoundsAreExact
  <2> DEFINE exp == (exponent.num * BONE) \div exponent.den
             up == TRUE
             down == FALSE
             high == CPowValue(base, exp, up)
             low == CPowValue(base, exp, down)
  <2>1. /\ base \in Nat \ {0} /\ base \in Nat
        /\ exponent.num \in Nat /\ exponent.den \in Nat \ {0}
        /\ (exponent.num * BONE) % exponent.den = 0
    BY NumAssumption, RangeAssumption DEF InRange, MIN_CPOW_BASE, MAX_CPOW_BASE
  <2>2. Exp(exponent) = exp /\ RoundedUp = high /\ RoundedDown = low
    BY DEF Exp, RoundedUp, RoundedDown
  <2>3. PowSeries(base, exp % BONE, CPOW_PRECISION).iters = 1
    BY <2>2 DEF Terms
  <2>4. FractionIsNotTiny =>
          \/ exp % BONE = 0
          \/ (BONE - (exp % BONE)) * ((CPOW_PRECISION + 1) * (CPOW_PRECISION + 1)) <= (exp % BONE) * BONE
    BY <2>2 DEF FractionIsNotTiny
  <2>5. up \in BOOLEAN /\ up /\ down \in BOOLEAN /\ ~down
    OBVIOUS
  <2>6. exp = (exponent.num * BONE) \div exponent.den /\ high = CPowValue(base, exp, up)
        /\ low = CPowValue(base, exp, down)
    OBVIOUS
  <2> HIDE DEF exp, up, down, high, low
  <2>7. AtLeastPower(high, base, exponent)
    <3>1. high \in Nat
          /\ Pow(base, exponent.num) * Pow(BONE, exponent.den) <= Pow(high, exponent.den) * Pow(BONE, exponent.num)
      BY <2>1, <2>3, <2>5, <2>6, PowerAbove
    <3> QED
      BY <2>1, <3>1, CommonPowers
  <2>8. ASSUME FractionIsNotTiny PROVE AtMostPower(low, base, exponent)
    <3>1. low \in Nat
          /\ Pow(low, exponent.den) * Pow(BONE, exponent.num) <= Pow(base, exponent.num) * Pow(BONE, exponent.den)
      BY <2>1, <2>3, <2>4, <2>5, <2>6, <2>8, PowerBelow
    <3> QED
      BY <2>1, <3>1, CommonPowers
  <2> QED
    BY <2>2, <2>7, <2>8
<1> QED
  BY <1>1, StaysInRange, PTL
=============================================================================
