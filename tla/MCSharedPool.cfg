CONSTANTS
  alice = alice
  bob = bob
  comet = comet
  tokenA = tokenA
  tokenB = tokenB
  tokenC = tokenC
  tokenD = tokenD
  NoController = NoController
  MaxSteps = 3
  Users <- TwoUsers
  Spenders <- OneSpender
  Pool = comet
  Amounts <- SomeShares
  I128Max = 2600
  MinTempTTL = 1
  MaxTempTTL = 2
  MaxLedger = 2
  BONE = 2500
  CPOW_PRECISION = 1
  STROOP = 50
  STROOP_SCALAR = 50
  Tokens <- FourTokens
  Scalar <- Scalars
  Endowment <- Endowments
  INIT_POOL_SUPPLY = 10
  MIN_BALANCE = 2
  MIN_FEE = 1
  InitTokens <- Vectors
  InitWeights <- SomeWeights
  InitBalances <- SomeDeposits
  SwapFees <- Fees
  TokenAmounts <- SomeAmounts
  MinLimits <- Floors
  MaxLimits <- Caps
SPECIFICATION SharedSpec
INVARIANTS
  WellFormedPool
PROPERTIES
  OnlyTheCallerIsAffected
  PoolIsAVault
  InitIsFinal
  OutgrownTokensStay
CHECK_DEADLOCK FALSE
