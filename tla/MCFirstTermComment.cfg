\* The code's ratio of CPOW_PRECISION^2 to BONE, 1/100, and bases of swaps that
\* take between 27% and 33% of a balance out of the pool.
CONSTANTS
  BONE = 10000
  I128Max = 10000000
  CPOW_PRECISION = 10
  MinBase = 13800
  MaxBase = 15000
  Exponents <- ExponentsNearOne
SPECIFICATION Spec
INVARIANT OmittedTailIsBelowOneUnit
CHECK_DEADLOCK FALSE
