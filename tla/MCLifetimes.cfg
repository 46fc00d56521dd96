CONSTANTS
  alice = alice
  Pool = Pool
  Instance = Instance
  AllTokenVec = AllTokenVec
  AllRecordData = AllRecordData
  TotalShares = TotalShares
  Users <- OneUser
  Amounts <- OneAmount
  INIT_POOL_SUPPLY = 1
  MaxShares = 2
  SHARED_LIFETIME_THRESHOLD = 1
  SHARED_BUMP_AMOUNT = 2
  BALANCE_LIFETIME_THRESHOLD = 2
  BALANCE_BUMP_AMOUNT = 3
  MinPersistentTTL = 1
  MaxLedger = 6
SPECIFICATION Spec
INVARIANTS
  TypeOK
  SharesAreNeverForgotten
  ExitsStayOpen
