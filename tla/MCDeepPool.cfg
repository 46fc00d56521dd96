CONSTANTS
  alice = alice
  comet = comet
  light = light
  heavy = heavy
  MaxSteps = 4
  NoController = NoController
  Users <- OneUser
  Spenders <- NoSpender
  Pool = comet
  Amounts <- SomeShares
  I128Max = 10000000
  MinTempTTL = 1
  MaxTempTTL = 1
  MaxLedger = 1
  BONE = 3600
  CPOW_PRECISION = 19
  STROOP = 600
  STROOP_SCALAR = 6
  Tokens <- TwoTokens
  Scalar <- Scalars
  Endowment <- Endowments
  INIT_POOL_SUPPLY = 1500
  MIN_BALANCE = 2
  MIN_FEE = 1
  InitTokens <- BothTokens
  InitWeights <- TwoRatios
  InitBalances <- TwoDeposits
  SwapFees <- Fees
  TokenAmounts <- SomeAmounts
  MinLimits <- AnyAmount
  MaxLimits <- AnyPrice
SPECIFICATION DeepSpec
PROPERTIES SmallSwapsLoseNothing SmallSharesKeepTheirWorth
CHECK_DEADLOCK FALSE
