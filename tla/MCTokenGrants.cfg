CONSTANTS
  alice = alice
  bob = bob
  comet = comet
  Users <- TwoUsers
  Spenders <- OneSpender
  Pool = comet
  Amounts <- SomeAmounts
  I128Max = 2
  MinTempTTL = 2
  MaxTempTTL = 3
  MaxLedger = 4
SPECIFICATION GrantSpec
INVARIANTS
  TokenTypeOK
  SupplyIsSumOfShares
  AllowanceIsTheGrant
  NeverOverspent
