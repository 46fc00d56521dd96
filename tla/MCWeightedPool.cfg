CONSTANTS
  alice = alice
  comet = comet
  light = light
  heavy = heavy
  NoController = NoController
  Users <- OneUser
  Spenders <- NoSpender
  Pool = comet
  Amounts <- SomeShares
  I128Max = 100000
  MinTempTTL = 1
  MaxTempTTL = 1
  MaxLedger = 1
  BONE = 3000
  CPOW_PRECISION = 1
  STROOP = 60
  STROOP_SCALAR = 50
  Tokens <- TwoTokens
  Scalar <- Scalars
  Endowment <- Endowments
  INIT_POOL_SUPPLY = 6
  MIN_BALANCE = 2
  MIN_FEE = 1
  InitTokens <- BothTokens
  InitWeights <- OneToTwo
  InitBalances <- Deposits
  SwapFees <- Fees
  TokenAmounts <- SomeAmounts
  MinLimits <- AnyAmount
  MaxLimits <- AnyPrice
SPECIFICATION Spec
PROPERTIES
  WeightedShareValueNeverFalls
  SwapsByWholePowersLoseNothing
  SharesByWholePowersKeepTheirWorth
CHECK_DEADLOCK FALSE
