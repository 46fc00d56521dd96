--------------------------- MODULE LPTokenProofs ---------------------------
(***************************************************************************)
(* The share token, operation by operation, for every finite set of users, *)
(* every amount and every bound: its types, that the total of shares is    *)
(* their sum, and that allowances are what their owners have granted.  The *)
(* lemmas are cited again where the token is part of the pool.             *)
(***************************************************************************)
EXTENDS TokenGrants, SumTheorems

\* A checked result is the number itself, and it fits.
LEMMA CheckedResult ==
  ASSUME NEW v, NEW r \in Checked(v)
  PROVE  r = v /\ r \in Int /\ r \in I128
BY I128Assumption DEF Checked, I128

LEMMA AmountsAreIntegers == Amounts \subseteq Int
BY TokenAssumption, I128Assumption DEF I128

LEMMA PoolIsNoUser == \A user \in Users : user # Pool /\ user \in Addresses
BY TokenAssumption DEF Addresses

LEMMA SpentType ==
  ASSUME NEW balances \in [Addresses -> Nat], NEW addr \in Addresses,
         NEW amount \in Nat, CanSpend(balances, addr, amount)
  PROVE  Spent(balances, addr, amount) \in [Addresses -> Nat]
BY DEF CanSpend, Spent

LEMMA ReceivedType ==
  ASSUME NEW balances \in [Addresses -> Nat], NEW addr \in Addresses, NEW amount \in Nat
  PROVE  Received(balances, addr, amount) \in [Addresses -> Nat]
BY DEF Received
-----------------------------------------------------------------------------
LEMMA MoveSharesType ==
  ASSUME TokenTypeOK, NEW from \in Addresses, NEW to \in Addresses, NEW amount \in Nat,
         MoveShares(from, to, amount)
  PROVE  lpBalance' \in [Addresses -> Nat]
BY SpentType, ReceivedType DEF MoveShares, TokenTypeOK

LEMMA DestroySharesType ==
  ASSUME TokenTypeOK, NEW from \in Addresses, NEW amount \in Nat,
         DestroyShares(from, amount)
  PROVE  lpBalance' \in [Addresses -> Nat] /\ totalShares' \in Int
BY SpentType DEF DestroyShares, TokenTypeOK

LEMMA MintSharesType ==
  ASSUME TokenTypeOK, NEW to \in Addresses, NEW amount \in Int, MintShares(to, amount)
  PROVE  TokenTypeOK'
BY ReceivedType DEF MintShares, TokenTypeOK

LEMMA RedeemSharesType ==
  ASSUME TokenTypeOK, NEW from \in Addresses, NEW amount \in Int,
         RedeemShares(from, amount)
  PROVE  TokenTypeOK'
<1> DEFINE afterSpend == Spent(lpBalance, from, amount)
           afterPull  == Received(afterSpend, Pool, amount)
<1>1. amount \in Nat /\ Pool \in Addresses
  BY DEF RedeemShares, Addresses
<1>2. afterSpend \in [Addresses -> Nat]
  BY <1>1, SpentType DEF RedeemShares, TokenTypeOK
<1>3. afterPull \in [Addresses -> Nat]
  BY <1>1, <1>2, ReceivedType
<1>4. Spent(afterPull, Pool, amount) \in [Addresses -> Nat]
  BY <1>1, <1>3, SpentType DEF RedeemShares
<1> QED
  BY <1>1, <1>4 DEF RedeemShares, TokenTypeOK
-----------------------------------------------------------------------------
(***************************************************************************)
(* Allowances                                                              *)
(***************************************************************************)
LEMMA ReadAllowanceType ==
  ASSUME TokenTypeOK, NEW from \in Users, NEW spender \in Spenders
  PROVE  ReadAllowance(from, spender) \in 0 .. I128Max
<1>1. allowances[<<from, spender>>] \in Entries
  BY DEF TokenTypeOK
<1>2. 0 \in 0 .. I128Max
  BY I128Assumption
<1> QED
  BY <1>1, <1>2 DEF ReadAllowance, Entries

\* A written entry lives at most as long as the network allows one to live,
\* which is what the type of its time to live says.
LEMMA WriteAllowanceType ==
  ASSUME TokenTypeOK, NEW from \in Users, NEW spender \in Spenders,
         NEW amount \in 0 .. I128Max, NEW until \in 0 .. MaxLedger,
         WriteAllowance(from, spender, amount, until)
  PROVE  allowances' \in [Users \X Spenders -> Entries]
<1> DEFINE entry == allowances[<<from, spender>>]
           life  == TempSetLiveUntil(entry)
           after == IF amount > 0 THEN TempExtendTtl(life, until - ledger) ELSE life
<1>1. entry \in Entries /\ ledger \in 0 .. MaxLedger /\ <<from, spender>> \in Users \X Spenders
  BY DEF TokenTypeOK
<1>2. MinTempTTL \in Nat /\ MaxTempTTL \in Nat /\ MinTempTTL <= MaxTempTTL
      /\ MinTempTTL >= 1 /\ MaxLedger \in Nat
  BY TokenAssumption
<1>3. life \in Ledgers
  BY <1>1, <1>2 DEF TempSetLiveUntil, Live, Entries, Ledgers
<1>4. after \in Ledgers
  <2>1. amount > 0 => TempExtendTtl(life, until - ledger) \in Ledgers
    BY <1>1, <1>2, <1>3 DEF TempExtendTtl, Ledgers
  <2> QED
    BY <2>1, <1>3
<1>5. [amount |-> amount, expirationLedger |-> until, liveUntil |-> after] \in Entries
  BY <1>4 DEF Entries
<1>6. allowances' = [allowances EXCEPT ![<<from, spender>>] =
        [amount |-> amount, expirationLedger |-> until, liveUntil |-> after]]
  BY DEF WriteAllowance
<1> QED
  BY <1>1, <1>5, <1>6 DEF TokenTypeOK

LEMMA SpendAllowanceType ==
  ASSUME TokenTypeOK, NEW from \in Users, NEW spender \in Spenders,
         NEW amount \in Nat, SpendAllowance(from, spender, amount)
  PROVE  allowances' \in [Users \X Spenders -> Entries]
<1> DEFINE left  == ReadAllowance(from, spender) - amount
           until == allowances[<<from, spender>>].expirationLedger
<1>1. CASE amount > 0
  <2>1. left \in 0 .. I128Max
    BY ReadAllowanceType, I128Assumption DEF SpendAllowance
  <2>2. until \in 0 .. MaxLedger
    BY DEF TokenTypeOK, Entries
  <2>3. WriteAllowance(from, spender, left, until)
    BY <1>1 DEF SpendAllowance
  <2> QED
    BY <2>1, <2>2, <2>3, WriteAllowanceType
<1>2. CASE ~(amount > 0)
  BY <1>2 DEF SpendAllowance, TokenTypeOK
<1> QED
  BY <1>1, <1>2
-----------------------------------------------------------------------------
\* The steps of the holders, call by call: a caller is the owner of the shares
\* or one of the spenders.
LEMMA HolderNextCases ==
  HolderNext <=>
    \/ \E from \in Users, spender \in Spenders, amount \in Amounts,
          until \in 0 .. MaxLedger : Approve(from, spender, amount, until)
    \/ \E from \in Users, to \in Addresses, amount \in Amounts : Transfer(from, to, amount)
    \/ \E spender \in Spenders, from \in Users, to \in Addresses, amount \in Amounts :
         TransferFrom(spender, from, to, amount)
    \/ \E from \in Users, amount \in Amounts : Burn(from, amount)
    \/ \E spender \in Spenders, from \in Users, amount \in Amounts :
         BurnFrom(spender, from, amount)
    \/ AdvanceLedger
BY TokenAssumption, Zenon DEF HolderNext, HolderCall

LEMMA HolderNextType ==
  ASSUME TokenTypeOK, HolderNext
  PROVE  TokenTypeOK'
<1> USE AmountsAreIntegers, PoolIsNoUser
<1>1. CASE \E from \in Users, spender \in Spenders, amount \in Amounts,
              until \in 0 .. MaxLedger : Approve(from, spender, amount, until)
  <2> PICK from \in Users, spender \in Spenders, amount \in Amounts,
           until \in 0 .. MaxLedger : Approve(from, spender, amount, until)
    BY <1>1
  <2>1. amount \in 0 .. I128Max
    BY TokenAssumption, I128Assumption DEF Approve, I128
  <2>2. allowances' \in [Users \X Spenders -> Entries]
    BY <2>1, WriteAllowanceType DEF Approve
  <2> QED
    BY <2>2 DEF Approve, TokenTypeOK
<1>2. CASE \E from \in Users, to \in Addresses, amount \in Amounts :
             Transfer(from, to, amount)
  BY <1>2, MoveSharesType DEF Transfer, TokenTypeOK
<1>3. CASE \E spender \in Spenders, from \in Users, to \in Addresses, amount \in Amounts :
             TransferFrom(spender, from, to, amount)
  <2> PICK spender \in Spenders, from \in Users, to \in Addresses, amount \in Amounts :
             TransferFrom(spender, from, to, amount)
    BY <1>3
  <2>1. amount \in Nat
    BY DEF TransferFrom
  <2>2. allowances' \in [Users \X Spenders -> Entries]
    BY <2>1, SpendAllowanceType DEF TransferFrom
  <2>3. lpBalance' \in [Addresses -> Nat]
    BY <2>1, MoveSharesType DEF TransferFrom
  <2> QED
    BY <2>2, <2>3 DEF TransferFrom, TokenTypeOK
<1>4. CASE \E from \in Users, amount \in Amounts : Burn(from, amount)
  BY <1>4, DestroySharesType DEF Burn, TokenTypeOK
<1>5. CASE \E spender \in Spenders, from \in Users, amount \in Amounts :
             BurnFrom(spender, from, amount)
  <2> PICK spender \in Spenders, from \in Users, amount \in Amounts :
             BurnFrom(spender, from, amount)
    BY <1>5
  <2>1. amount \in Nat
    BY DEF BurnFrom
  <2>2. allowances' \in [Users \X Spenders -> Entries]
    BY <2>1, SpendAllowanceType DEF BurnFrom
  <2>3. lpBalance' \in [Addresses -> Nat] /\ totalShares' \in Int
    BY <2>1, DestroySharesType DEF BurnFrom
  <2> QED
    BY <2>2, <2>3 DEF BurnFrom, TokenTypeOK
<1>6. CASE AdvanceLedger
  BY <1>6, TokenAssumption DEF AdvanceLedger, TokenTypeOK
<1> QED
  BY <1>1, <1>2, <1>3, <1>4, <1>5, <1>6, HolderNextCases

LEMMA TokenInitType == TokenInit => TokenTypeOK
<1> SUFFICES ASSUME TokenInit PROVE TokenTypeOK
  OBVIOUS
<1>1. NoAllowance \in Entries
  BY TokenAssumption, I128Assumption DEF NoAllowance, Entries, I128, Ledgers
<1> QED
  BY <1>1, TokenAssumption DEF TokenInit, TokenTypeOK

LEMMA TokenNextType ==
  ASSUME TokenTypeOK, [TokenNext]_tokenVars
  PROVE  TokenTypeOK'
<1> USE AmountsAreIntegers, PoolIsNoUser
<1>1. CASE HolderNext
  BY <1>1, HolderNextType
<1>2. CASE \E to \in Users, amount \in Amounts : MintShares(to, amount)
  BY <1>2, MintSharesType
<1>3. CASE \E from \in Users, amount \in Amounts : RedeemShares(from, amount)
  BY <1>3, RedeemSharesType
<1>4. CASE UNCHANGED tokenVars
  BY <1>4 DEF tokenVars, TokenTypeOK
<1> QED
  BY <1>1, <1>2, <1>3, <1>4 DEF TokenNext

\* The token's storage always has its types: in particular no sequence of
\* transfers, spent allowances, burns, mints and redemptions makes a balance
\* negative, and no allowance entry outlives the longest life there is.
THEOREM TokenTypeCorrect == TokenSpec => []TokenTypeOK
<1>1. TokenInit => TokenTypeOK
  BY TokenInitType
<1>2. TokenTypeOK /\ [TokenNext]_tokenVars => TokenTypeOK'
  BY TokenNextType
<1> QED
  BY <1>1, <1>2, PTL DEF TokenSpec
-----------------------------------------------------------------------------
(***************************************************************************)
(* The total                                                               *)
(***************************************************************************)
Owned == SumFunction(lpBalance)

LEMMA AddressesAreFinite == IsFiniteSet(Addresses)
BY TokenAssumption, FS_AddElement DEF Addresses

LEMMA SumOfSpent ==
  ASSUME NEW balances \in [Addresses -> Int], NEW addr \in Addresses, NEW amount \in Int
  PROVE  /\ Spent(balances, addr, amount) \in [Addresses -> Int]
         /\ SumFunction(balances) \in Int
         /\ SumFunction(Spent(balances, addr, amount)) = SumFunction(balances) - amount
<1> DEFINE change == -amount
           after  == Spent(balances, addr, amount)
<1>1. /\ change \in Int /\ after \in [Addresses -> Int]
      /\ after[addr] = balances[addr] + change
      /\ \A other \in Addresses \ {addr} : after[other] = balances[other]
  BY DEF Spent
<1> HIDE DEF change, after
<1>2. SumFunction(balances) \in Int /\ SumFunction(after) = SumFunction(balances) + change
  BY <1>1, AddressesAreFinite, SumOfChange
<1>3. SumFunction(balances) + change = SumFunction(balances) - amount
  BY <1>2 DEF change
<1> QED
  BY <1>1, <1>2, <1>3 DEF after

LEMMA SumOfReceived ==
  ASSUME NEW balances \in [Addresses -> Int], NEW addr \in Addresses, NEW amount \in Int
  PROVE  /\ Received(balances, addr, amount) \in [Addresses -> Int]
         /\ SumFunction(Received(balances, addr, amount)) = SumFunction(balances) + amount
<1> DEFINE after == Received(balances, addr, amount)
<1>1. /\ after \in [Addresses -> Int]
      /\ after[addr] = balances[addr] + amount
      /\ \A other \in Addresses \ {addr} : after[other] = balances[other]
  BY DEF Received
<1> HIDE DEF after
<1>2. SumFunction(after) = SumFunction(balances) + amount
  BY <1>1, AddressesAreFinite, SumOfChange
<1> QED
  BY <1>1, <1>2 DEF after

\* Moving shares, also to oneself, leaves their sum alone.
LEMMA SumOfMoved ==
  ASSUME TokenTypeOK, NEW from \in Addresses, NEW to \in Addresses, NEW amount \in Int,
         MoveShares(from, to, amount)
  PROVE  Owned' = Owned
<1>1. lpBalance \in [Addresses -> Int]
  BY DEF TokenTypeOK
<1> DEFINE afterSpend == Spent(lpBalance, from, amount)
<1>2. /\ afterSpend \in [Addresses -> Int] /\ Owned \in Int
      /\ SumFunction(afterSpend) = Owned - amount
  BY <1>1, SumOfSpent DEF Owned
<1>3. lpBalance' = Received(afterSpend, to, amount)
  BY DEF MoveShares
<1> HIDE DEF afterSpend
<1>4. SumFunction(lpBalance') = SumFunction(afterSpend) + amount
  BY <1>2, <1>3, SumOfReceived
<1> QED
  BY <1>2, <1>4 DEF Owned

LEMMA SumOfDestroyed ==
  ASSUME TokenTypeOK, SupplyIsSumOfShares, NEW from \in Addresses, NEW amount \in Int,
         DestroyShares(from, amount)
  PROVE  SupplyIsSumOfShares'
<1>1. lpBalance \in [Addresses -> Int]
  BY DEF TokenTypeOK
<1>2. SumFunction(lpBalance') = SumFunction(lpBalance) - amount
  BY <1>1, SumOfSpent DEF DestroyShares
<1> QED
  BY <1>2 DEF DestroyShares, SupplyIsSumOfShares

LEMMA SumOfMinted ==
  ASSUME TokenTypeOK, SupplyIsSumOfShares, NEW to \in Addresses, NEW amount \in Int,
         MintShares(to, amount)
  PROVE  SupplyIsSumOfShares'
<1>1. lpBalance \in [Addresses -> Int]
  BY DEF TokenTypeOK
<1>2. SumFunction(lpBalance') = SumFunction(lpBalance) + amount
  BY <1>1, SumOfReceived DEF MintShares
<1> QED
  BY <1>2 DEF MintShares, SupplyIsSumOfShares

LEMMA SumOfRedeemed ==
  ASSUME TokenTypeOK, SupplyIsSumOfShares, NEW from \in Addresses, NEW amount \in Int,
         RedeemShares(from, amount)
  PROVE  SupplyIsSumOfShares'
<1> DEFINE afterSpend == Spent(lpBalance, from, amount)
           afterPull  == Received(afterSpend, Pool, amount)
<1>1. lpBalance \in [Addresses -> Int] /\ Pool \in Addresses
  BY DEF TokenTypeOK, Addresses
<1>2. /\ afterSpend \in [Addresses -> Int] /\ Owned \in Int
      /\ SumFunction(afterSpend) = Owned - amount
  BY <1>1, SumOfSpent DEF Owned
<1> HIDE DEF afterSpend
<1>3. /\ afterPull \in [Addresses -> Int]
      /\ SumFunction(afterPull) = SumFunction(afterSpend) + amount
  BY <1>1, <1>2, SumOfReceived
<1> HIDE DEF afterPull
<1>4. SumFunction(Spent(afterPull, Pool, amount)) = SumFunction(afterPull) - amount
  BY <1>1, <1>3, SumOfSpent
<1>5. /\ lpBalance' = Spent(afterPull, Pool, amount)
      /\ totalShares' = totalShares - amount
  BY DEF RedeemShares, afterPull, afterSpend
<1>6. Owned' = Owned - amount
  BY <1>2, <1>3, <1>4, <1>5 DEF Owned
<1> QED
  BY <1>5, <1>6 DEF Owned, SupplyIsSumOfShares

LEMMA HolderNextSum ==
  ASSUME TokenTypeOK, SupplyIsSumOfShares, HolderNext
  PROVE  SupplyIsSumOfShares'
<1> USE AmountsAreIntegers, PoolIsNoUser
<1>1. CASE UNCHANGED <<lpBalance, totalShares>>
  BY <1>1 DEF SupplyIsSumOfShares
<1>2. CASE \E from \in Users, spender \in Spenders, amount \in Amounts,
              until \in 0 .. MaxLedger : Approve(from, spender, amount, until)
  BY <1>1, <1>2 DEF Approve
<1>3. CASE AdvanceLedger
  BY <1>1, <1>3 DEF AdvanceLedger
<1>4. ASSUME NEW from \in Users, NEW to \in Addresses, NEW amount \in Amounts,
             MoveShares(from, to, amount), UNCHANGED totalShares
      PROVE  SupplyIsSumOfShares'
  <2>1. Owned' = Owned
    BY <1>4, SumOfMoved
  <2> QED
    BY <1>4, <2>1 DEF Owned, SupplyIsSumOfShares
<1>5. CASE \E from \in Users, to \in Addresses, amount \in Amounts :
             Transfer(from, to, amount)
  BY <1>4, <1>5 DEF Transfer
<1>6. CASE \E spender \in Spenders, from \in Users, to \in Addresses, amount \in Amounts :
             TransferFrom(spender, from, to, amount)
  BY <1>4, <1>6 DEF TransferFrom
<1>7. CASE \E from \in Users, amount \in Amounts : Burn(from, amount)
  BY <1>7, SumOfDestroyed DEF Burn
<1>8. CASE \E spender \in Spenders, from \in Users, amount \in Amounts :
             BurnFrom(spender, from, amount)
  BY <1>8, SumOfDestroyed DEF BurnFrom
<1> QED
  BY <1>2, <1>3, <1>5, <1>6, <1>7, <1>8, HolderNextCases

LEMMA TokenInitSum == TokenInit => SupplyIsSumOfShares
BY AddressesAreFinite, SumOfZeros DEF TokenInit, SupplyIsSumOfShares

LEMMA TokenNextSum ==
  ASSUME TokenTypeOK, SupplyIsSumOfShares, [TokenNext]_tokenVars
  PROVE  SupplyIsSumOfShares'
<1> USE AmountsAreIntegers, PoolIsNoUser
<1>1. CASE HolderNext
  BY <1>1, HolderNextSum
<1>2. CASE \E to \in Users, amount \in Amounts : MintShares(to, amount)
  BY <1>2, SumOfMinted
<1>3. CASE \E from \in Users, amount \in Amounts : RedeemShares(from, amount)
  BY <1>3, SumOfRedeemed
<1>4. CASE UNCHANGED tokenVars
  BY <1>4 DEF tokenVars, SupplyIsSumOfShares
<1> QED
  BY <1>1, <1>2, <1>3, <1>4 DEF TokenNext

\* The total, which the code keeps apart from the balances, is their sum at all
\* times, for any finite number of holders: also when shares are moved to
\* oneself, and through the two steps of a redemption.
THEOREM TotalIsSum == TokenSpec => []SupplyIsSumOfShares
<1>1. TokenInit => SupplyIsSumOfShares
  BY TokenInitSum
<1>2. TokenTypeOK /\ SupplyIsSumOfShares /\ [TokenNext]_tokenVars => SupplyIsSumOfShares'
  BY TokenNextSum
<1> QED
  BY <1>1, <1>2, TokenTypeCorrect, PTL DEF TokenSpec

\* So the total is never negative, and no one owns more than there is.
LEMMA SharesAreBounded ==
  ASSUME TokenTypeOK, SupplyIsSumOfShares
  PROVE  totalShares \in Nat /\ \A a \in Addresses : lpBalance[a] <= totalShares
BY AddressesAreFinite, SumOfNaturals DEF TokenTypeOK, SupplyIsSumOfShares
-----------------------------------------------------------------------------
(***************************************************************************)
(* Allowances are the grants they stand for, and are never overspent, for  *)
(* every setting of the network's times to live.                           *)
(***************************************************************************)
Pairs == Users \X Spenders

\* A grant and the entry that stands for it.  An entry that still allows
\* something lives at least until the approval ends: without this conjunct the
\* host could delete the entry while the approval lasts.
Matches(entry, grant) ==
  /\ grant.amount = entry.amount
  /\ grant.until = entry.expirationLedger
  /\ grant.amount \in Nat
  /\ grant.amount > 0 => entry.liveUntil >= grant.until

Grants == [amount : Int, until : 0 .. MaxLedger]

GrantsInv ==
  /\ TokenTypeOK
  /\ grants \in [Pairs -> Grants]
  /\ \A pair \in Pairs : Matches(allowances[pair], grants[pair])

LEMMA GrantsAreRead ==
  ASSUME GrantsInv, NEW owner \in Users, NEW spender \in Spenders
  PROVE  ReadAllowance(owner, spender) = Granted(owner, spender)
<1> DEFINE pair  == <<owner, spender>>
           entry == allowances[pair]
           grant == grants[pair]
<1>1. pair \in Pairs
  BY DEF Pairs
<1>2. entry \in Entries /\ grant \in Grants /\ Matches(entry, grant)
  BY <1>1 DEF GrantsInv, TokenTypeOK, Pairs
<1>3. entry.amount \in Int /\ entry.liveUntil \in Int /\ ledger \in Int
      /\ grant.until \in Int
  BY <1>2, TokenAssumption, I128Assumption
  DEF GrantsInv, TokenTypeOK, Entries, Grants, I128, Ledgers
<1>4. ReadAllowance(owner, spender)
        = IF entry.liveUntil >= ledger /\ entry.expirationLedger >= ledger
            THEN entry.amount ELSE 0
  BY DEF ReadAllowance, Live
<1>5. Granted(owner, spender) = IF grant.until >= ledger THEN grant.amount ELSE 0
  BY DEF Granted
<1> HIDE DEF entry, grant
<1> QED
  BY <1>2, <1>3, <1>4, <1>5 DEF Matches

\* Writing an allowance gives its entry a life that covers the approval.
LEMMA WrittenEntryMatches ==
  ASSUME GrantsInv, NEW owner \in Users, NEW spender \in Spenders,
         NEW amount \in Nat, NEW until \in 0 .. MaxLedger,
         WriteAllowance(owner, spender, amount, until)
  PROVE  \E entry : /\ allowances' = [allowances EXCEPT ![<<owner, spender>>] = entry]
                    /\ Matches(entry, [amount |-> amount, until |-> until])
<1> DEFINE life  == TempSetLiveUntil(allowances[<<owner, spender>>])
           after == IF amount > 0 THEN TempExtendTtl(life, until - ledger) ELSE life
           entry == [amount |-> amount, expirationLedger |-> until, liveUntil |-> after]
<1>1. allowances[<<owner, spender>>] \in Entries /\ ledger \in 0 .. MaxLedger
  BY DEF GrantsInv, TokenTypeOK
<1>2. life \in Int
  BY <1>1, TokenAssumption DEF TempSetLiveUntil, Entries, Ledgers
<1>3. amount > 0 => after >= until
  <2> HIDE DEF life
  <2> QED
    BY <1>1, <1>2 DEF TempExtendTtl
<1>4. Matches(entry, [amount |-> amount, until |-> until])
  <2> HIDE DEF after
  <2> QED
    BY <1>3 DEF Matches
<1>5. allowances' = [allowances EXCEPT ![<<owner, spender>>] = entry]
  BY DEF WriteAllowance
<1> HIDE DEF entry
<1> QED
  BY <1>4, <1>5

\* One pair is written, the others are left alone.
LEMMA OnePairWritten ==
  ASSUME GrantsInv, TokenTypeOK', NEW pair \in Pairs, NEW grant \in Grants, NEW entry,
         allowances' = [allowances EXCEPT ![pair] = entry],
         grants' = [grants EXCEPT ![pair] = grant],
         Matches(entry, grant)
  PROVE  GrantsInv'
<1>1. allowances \in [Pairs -> Entries] /\ grants \in [Pairs -> Grants]
  BY DEF GrantsInv, TokenTypeOK, Pairs
<1>2. grants' \in [Pairs -> Grants]
  BY <1>1
<1>3. ASSUME NEW other \in Pairs PROVE Matches(allowances'[other], grants'[other])
  <2>1. CASE other = pair
    BY <1>1, <2>1
  <2>2. CASE other # pair
    <3>1. allowances'[other] = allowances[other] /\ grants'[other] = grants[other]
      BY <1>1, <2>2
    <3> QED
      BY <3>1 DEF GrantsInv
  <2> QED
    BY <2>1, <2>2
<1> QED
  BY <1>2, <1>3 DEF GrantsInv, Matches

LEMMA ApproveKeepsGrants ==
  ASSUME GrantsInv, TokenTypeOK', NEW owner \in Users, NEW spender \in Spenders,
         NEW amount \in Amounts, NEW until \in 0 .. MaxLedger,
         Approve(owner, spender, amount, until), Approved(owner, spender, amount, until)
  PROVE  GrantsInv'
<1>1. amount \in Nat
  BY AmountsAreIntegers DEF Approve
<1>2. PICK entry : /\ allowances' = [allowances EXCEPT ![<<owner, spender>>] = entry]
                   /\ Matches(entry, [amount |-> amount, until |-> until])
  BY <1>1, WrittenEntryMatches DEF Approve
<1>3. [amount |-> amount, until |-> until] \in Grants
  BY <1>1 DEF Grants
<1> QED
  BY <1>2, <1>3, OnePairWritten DEF Approved, Pairs

LEMMA SpendKeepsGrants ==
  ASSUME GrantsInv, TokenTypeOK', NEW owner \in Users, NEW spender \in Spenders,
         NEW amount \in Nat,
         SpendAllowance(owner, spender, amount), Used(owner, spender, amount)
  PROVE  GrantsInv'
<1> DEFINE pair  == <<owner, spender>>
           grant == grants[pair]
           until == allowances[pair].expirationLedger
           left  == [amount |-> grant.amount - amount, until |-> grant.until]
<1>1. pair \in Pairs /\ grant \in Grants /\ allowances[pair] \in Entries
      /\ Matches(allowances[pair], grant)
  BY DEF GrantsInv, Pairs, TokenTypeOK
<1>2. grant.until = until /\ until \in 0 .. MaxLedger /\ grant.amount \in Nat
  BY <1>1 DEF Matches, Grants
<1>3. grants' = [grants EXCEPT ![pair] = left]
  <2>1. grant = [amount |-> grant.amount, until |-> grant.until]
    BY <1>1 DEF Grants
  <2>2. [grant EXCEPT !.amount = @ - amount] = left
    BY <2>1
  <2> QED
    BY <1>1, <2>2 DEF Used, GrantsInv
<1>4. CASE amount > 0
  <2>1. ReadAllowance(owner, spender) = Granted(owner, spender)
    BY GrantsAreRead
  <2>2. Granted(owner, spender) >= amount
    BY <2>1 DEF SpendAllowance
  <2>3. Granted(owner, spender) = grant.amount
    BY <1>4, <2>2 DEF Granted
  <2>4. grant.amount - amount \in Nat
    BY <1>2, <2>2, <2>3
  <2>5. WriteAllowance(owner, spender, grant.amount - amount, until)
    BY <1>4, <2>1, <2>3 DEF SpendAllowance
  <2>6. PICK entry : /\ allowances' = [allowances EXCEPT ![pair] = entry]
                     /\ Matches(entry, [amount |-> grant.amount - amount, until |-> until])
    BY <1>2, <2>4, <2>5, WrittenEntryMatches
  <2>7. left \in Grants /\ Matches(entry, left)
    BY <1>2, <2>4, <2>6 DEF Grants
  <2> HIDE DEF left, pair
  <2> QED
    BY <1>1, <1>3, <2>6, <2>7, OnePairWritten
<1>5. CASE amount = 0
  <2>1. UNCHANGED allowances
    BY <1>5 DEF SpendAllowance
  <2>2. left = grant
    BY <1>1, <1>2, <1>5 DEF Grants
  <2>3. UNCHANGED grants
    BY <1>1, <1>3, <2>2 DEF GrantsInv
  <2> QED
    BY <2>1, <2>3 DEF GrantsInv, Matches
<1> QED
  BY <1>4, <1>5

LEMMA GrantNextKeepsGrants ==
  ASSUME GrantsInv, [GrantNext]_grantVars
  PROVE  GrantsInv'
<1>1. [TokenNext]_tokenVars
  BY HolderNextCases DEF GrantNext, TokenNext, grantVars
<1>2. TokenTypeOK'
  BY <1>1, TokenNextType DEF GrantsInv
<1>3. CASE UNCHANGED <<allowances, grants>>
  BY <1>2, <1>3 DEF GrantsInv, Matches
<1>4. CASE \E from \in Users, spender \in Spenders, amount \in Amounts,
              until \in 0 .. MaxLedger :
             Approve(from, spender, amount, until) /\ Approved(from, spender, amount, until)
  BY <1>2, <1>4, ApproveKeepsGrants
<1>5. CASE \E spender \in Spenders, from \in Users, to \in Addresses, amount \in Amounts :
             TransferFrom(spender, from, to, amount) /\ Used(from, spender, amount)
  <2>1. PICK spender \in Spenders, from \in Users, to \in Addresses, amount \in Amounts :
             TransferFrom(spender, from, to, amount) /\ Used(from, spender, amount)
    BY <1>5
  <2>2. amount \in Nat /\ SpendAllowance(from, spender, amount)
    BY <2>1, AmountsAreIntegers DEF TransferFrom
  <2> QED
    BY <1>2, <2>1, <2>2, SpendKeepsGrants
<1>6. CASE \E spender \in Spenders, from \in Users, amount \in Amounts :
             BurnFrom(spender, from, amount) /\ Used(from, spender, amount)
  <2>1. PICK spender \in Spenders, from \in Users, amount \in Amounts :
             BurnFrom(spender, from, amount) /\ Used(from, spender, amount)
    BY <1>6
  <2>2. amount \in Nat /\ SpendAllowance(from, spender, amount)
    BY <2>1, AmountsAreIntegers DEF BurnFrom
  <2> QED
    BY <1>2, <2>1, <2>2, SpendKeepsGrants
<1>7. CASE \/ \E from \in Users, to \in Addresses, amount \in Amounts :
                Transfer(from, to, amount) /\ UNCHANGED grants
           \/ \E from \in Users, amount \in Amounts : Burn(from, amount) /\ UNCHANGED grants
           \/ \E to \in Users, amount \in Amounts : MintShares(to, amount) /\ UNCHANGED grants
           \/ \E from \in Users, amount \in Amounts :
                RedeemShares(from, amount) /\ UNCHANGED grants
           \/ AdvanceLedger /\ UNCHANGED grants
           \/ UNCHANGED grantVars
  <2>1. UNCHANGED <<allowances, grants>>
    BY <1>7 DEF Transfer, Burn, MintShares, RedeemShares, AdvanceLedger, grantVars, tokenVars
  <2> QED
    BY <1>3, <2>1
<1> QED
  BY <1>4, <1>5, <1>6, <1>7 DEF GrantNext

LEMMA GrantsMatchForever == GrantSpec => []GrantsInv
<1>1. GrantInit => GrantsInv
  <2> SUFFICES ASSUME GrantInit PROVE GrantsInv
    OBVIOUS
  <2>1. grants \in [Pairs -> Grants]
    BY TokenAssumption DEF GrantInit, Pairs, Grants
  <2>2. \A pair \in Pairs : Matches(allowances[pair], grants[pair])
    BY DEF GrantInit, TokenInit, Pairs, NoAllowance, Matches
  <2> QED
    BY <2>1, <2>2, TokenInitType DEF GrantsInv, GrantInit
<1>2. GrantsInv /\ [GrantNext]_grantVars => GrantsInv'
  BY GrantNextKeepsGrants
<1> QED
  BY <1>1, <1>2, PTL DEF GrantSpec
-----------------------------------------------------------------------------
\* What a spender may move is always what was granted and not yet used, up to
\* the last ledger of the approval, for every length an approval may have and
\* every minimal and maximal life of a storage entry.
THEOREM AllowancesAreGrants == GrantSpec => []AllowanceIsTheGrant
<1>1. GrantsInv => AllowanceIsTheGrant
  BY GrantsAreRead DEF AllowanceIsTheGrant
<1> QED
  BY <1>1, GrantsMatchForever, PTL

\* Over any number of calls, a spender never moves more than was granted.
THEOREM GrantsAreNotOverspent == GrantSpec => []NeverOverspent
<1>1. GrantsInv => NeverOverspent
  BY DEF GrantsInv, Pairs, Matches, NeverOverspent
<1> QED
  BY <1>1, GrantsMatchForever, PTL
=============================================================================
