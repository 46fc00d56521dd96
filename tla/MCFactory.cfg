CONSTANTS
  alice = alice
  bob = bob
  salt1 = salt1
  other = other
  Users <- TwoUsers
  Salts <- OneSalt
  Outside <- OneOther
  Hashes = {hash1, hash2}
  NoHash = NoHash
  NoController = NoController
  SHARED_LIFETIME_THRESHOLD = 1
  SHARED_BUMP_AMOUNT = 2
  LARGE_LIFETIME_THRESHOLD = 2
  LARGE_BUMP_AMOUNT = 3
  MinPersistentTTL = 2
  MaxLedger = 5
SPECIFICATION Spec
INVARIANTS
  TypeOK
  RegisteredPoolsAreInitialised
  CreationIsAllOrNothing
  FactoryPoolsAreNeverDenied
