CONSTANTS
  alice = alice
  comet = comet
  tokenA = tokenA
  tokenB = tokenB
  NoController = NoController
  Users <- OneUser
  Spenders <- NoSpender
  Pool = comet
  Amounts <- SomeShares
  I128Max = 100000
  MinTempTTL = 1
  MaxTempTTL = 1
  MaxLedger = 1
  BONE = 2500
  CPOW_PRECISION = 1
  STROOP = 50
  STROOP_SCALAR = 50
  Tokens <- TwoTokens
  Scalar <- Scalars
  Endowment <- Endowments
  INIT_POOL_SUPPLY = 9
  MIN_BALANCE = 2
  MIN_FEE = 1
  InitTokens <- BothTokens
  InitWeights <- EqualWeights
  InitBalances <- Deposits
  SwapFees <- Fees
  TokenAmounts <- SomeAmounts
  MinLimits <- AnyAmount
  MaxLimits <- AnyPrice
SPECIFICATION Spec
INVARIANTS
  TypeOK
  SupplyIsSumOfShares
  Solvent
  NoDrainedToken
  LastHolderGetsEverything
PROPERTIES
  FrozenOnlyPaysOut
  ZeroSupplyIsFinal
  SharesOfThePoolStay
  JoinAndExitNeverDilute
  ShareValueNeverFalls
CHECK_DEADLOCK FALSE
