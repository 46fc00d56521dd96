CONSTANTS
  alice = alice
  comet = comet
  tokenA = tokenA
  tokenB = tokenB
  NoController = NoController
  Users <- OneUser
  Spenders <- NoSpender
  Pool = comet
  Amounts <- SomeShares
  I128Max = 800000
  MinTempTTL = 1
  MaxTempTTL = 2
  MaxLedger = 2
  BONE = 2500
  CPOW_PRECISION = 1
  STROOP = 50
  STROOP_SCALAR = 50
  Tokens <- TwoTokens
  Scalar <- Scalars
  Endowment <- Endowments
  INIT_POOL_SUPPLY = 10
  MIN_BALANCE = 2
  MIN_FEE = 1
  InitTokens <- Vectors
  InitWeights <- SomeWeights
  InitBalances <- SomeDeposits
  SwapFees <- Fees
  TokenAmounts <- SomeAmounts
  MinLimits <- Floors
  MaxLimits <- Caps
SPECIFICATION Spec
PROPERTY UpscaleFailsBeyondOne
CHECK_DEADLOCK FALSE
