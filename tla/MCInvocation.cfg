CONSTANTS
  alice = alice
  bob = bob
  comet = comet
  tokenA = tokenA
  tokenB = tokenB
  NoController = NoController
  MaxCalls = 3
  Users <- TwoUsers
  Spenders <- NoSpender
  Pool = comet
  Amounts <- SomeShares
  I128Max = 100000
  MinTempTTL = 1
  MaxTempTTL = 2
  MaxLedger = 2
  ApprovalPeriod = 2
  BONE = 2500
  CPOW_PRECISION = 1
  STROOP = 50
  STROOP_SCALAR = 50
  Tokens <- TwoTokens
  Scalar <- Scalars
  Endowment <- Endowments
  INIT_POOL_SUPPLY = 9
  MIN_BALANCE = 2
  MIN_FEE = 1
  InitTokens <- Vectors
  InitWeights <- SomeWeights
  InitBalances <- SomeDeposits
  SwapFees <- Fees
  TokenAmounts <- SomeAmounts
  MinLimits <- Floors
  MaxLimits <- Caps
SPECIFICATION CountedSpec
INVARIANTS
  EventsTellTheRecords
PROPERTIES
  InvocationsAreAtomic
  LimitsHold
  AcceptedCallsTakeEffect
CHECK_DEADLOCK FALSE
