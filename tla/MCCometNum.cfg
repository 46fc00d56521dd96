\* Bases from about 0.62 to 1.5: all that MAX_IN_RATIO and MAX_OUT_RATIO let
\* through to c_pow.  120 is divisible by 3 and 4, so every exponent is exact.
CONSTANTS
  BONE = 120
  I128Max = 1000000
  CPOW_PRECISION = 1
  MinBase = 74
  MaxBase = 180
  Exponents <- TradingExponents
SPECIFICATION Spec
INVARIANTS
  NeverCrossesOne
  RoundDownIsALowerBound
  RoundUpShortByLessThanTerms
  FirstTermBoundsAreExact
CHECK_DEADLOCK FALSE
