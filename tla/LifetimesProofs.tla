-------------------------- MODULE LifetimesProofs --------------------------
(***************************************************************************)
(* A pool that is left regularly stays open, for every set of users and    *)
(* every choice of thresholds and of lives: no entry that exit_pool needs  *)
(* is archived before the threshold has passed since the last exit.        *)
(*                                                                         *)
(* The argument: an exit gives every such entry a life of at least the     *)
(* threshold, and nothing that happens shortens the life of any entry.     *)
(*                                                                         *)
(* And no shares are forgotten: the total is the sum of all entries of     *)
(* holders, of those that are archived too.  From that the types, since    *)
(* the total that is burned from is compared with nothing.                 *)
(***************************************************************************)
EXTENDS Lifetimes, SumTheorems

\* What all users share.
Common == {Instance, AllTokenVec, AllRecordData, TotalShares, Pool}

LivesOK == lives \in [DOMAIN lives -> Int] /\ ledger \in Nat

\* Before the first exit, lastExit lies more than a threshold back.
ExitExtends ==
  \/ lastExit = -SHARED_LIFETIME_THRESHOLD - 1
  \/ /\ lastExit \in Nat
     /\ \A key \in Common : Exists(key) /\ lives[key] >= lastExit + SHARED_LIFETIME_THRESHOLD

IInv == LivesOK /\ ExitExtends

\* No life is shortened and no entry deleted.
NothingIsShortened ==
  /\ DOMAIN lives \subseteq DOMAIN lives'
  /\ \A key \in DOMAIN lives : lives'[key] >= lives[key]
-----------------------------------------------------------------------------
(***************************************************************************)
(* extend_ttl                                                              *)
(***************************************************************************)
LEMMA ExtendedLifeFacts ==
  ASSUME NEW liveUntil \in Int, NEW now \in Nat, NEW extendTo \in Nat,
         NEW threshold \in 0 .. extendTo
  PROVE  /\ ExtendedLife(liveUntil, now, threshold, extendTo) \in Int
         /\ ExtendedLife(liveUntil, now, threshold, extendTo) >= liveUntil
         /\ ExtendedLife(liveUntil, now, threshold, extendTo) >= now + threshold
BY DEF ExtendedLife

LEMMA BumpedFacts ==
  ASSUME LivesOK, NEW key
  PROVE  /\ Bumped(key) \in Int
         /\ Exists(key) => Bumped(key) >= lives[key]
         /\ Bumped(key) >= ledger + SHARED_LIFETIME_THRESHOLD
<1> DEFINE life == IF Exists(key) THEN lives[key] ELSE FreshLife(ledger)
<1>1. life \in Int /\ ledger \in Nat
  BY StorageAssumption DEF LivesOK, Exists, FreshLife
<1>2. /\ BumpAmount(key) \in Nat /\ Threshold(key) \in 0 .. BumpAmount(key)
      /\ Threshold(key) >= SHARED_LIFETIME_THRESHOLD
      /\ SHARED_LIFETIME_THRESHOLD \in Nat
  BY LifetimesAssumption DEF BumpAmount, Threshold
<1>3. Bumped(key) = ExtendedLife(life, ledger, Threshold(key), BumpAmount(key))
  BY DEF Bumped
<1> HIDE DEF life
<1>4. Bumped(key) \in Int /\ Bumped(key) >= life /\ Bumped(key) >= ledger + Threshold(key)
  BY <1>1, <1>2, <1>3, ExtendedLifeFacts
<1>5. Bumped(key) >= ledger + SHARED_LIFETIME_THRESHOLD
  BY <1>1, <1>2, <1>4
<1> QED
  BY <1>4, <1>5 DEF life

LEMMA ExtendsFacts ==
  ASSUME LivesOK, NEW keys, Extends(keys)
  PROVE  /\ lives' \in [DOMAIN lives' -> Int]
         /\ NothingIsShortened
         /\ keys \subseteq DOMAIN lives'
         /\ \A key \in keys : lives'[key] >= ledger + SHARED_LIFETIME_THRESHOLD
<1>1. lives' = [key \in DOMAIN lives \cup keys |->
                  IF key \in keys THEN Bumped(key) ELSE lives[key]]
  BY DEF Extends
<1>2. \A key \in DOMAIN lives : lives[key] \in Int
  BY DEF LivesOK
<1> QED
  BY <1>1, <1>2, BumpedFacts DEF NothingIsShortened, Exists
-----------------------------------------------------------------------------
(***************************************************************************)
(* The steps                                                               *)
(***************************************************************************)
\* All invocations but an exit.
Extending ==
  /\ \E keys : Extends(keys)
  /\ UNCHANGED <<ledger, lastExit>>

LEMMA NextExtends ==
  ASSUME Next
  PROVE  \/ Extending
         \/ \E user, amount : ExitPool(user, amount)
         \/ AdvanceLedger
         \/ \E key : Restore(key)
<1>1. \A user : InitPool(user) => Extending
  BY DEF InitPool, Extending
<1>2. \A user, amount : JoinPool(user, amount) => Extending
  BY DEF JoinPool, Extending
<1>3. \A user, amount : DepositOne(user, amount) => Extending
  BY DEF DepositOne, Extending
<1>4. \A user, amount : WithdrawOne(user, amount) => Extending
  BY DEF WithdrawOne, Extending
<1>5. Swap \/ TouchInstance => Extending
  BY DEF Swap, TouchInstance, Extending
<1>6. \A from, to, amount : Transfer(from, to, amount) \/ Burn(from, amount) => Extending
  BY DEF Transfer, Burn, Extending
<1>7. GetterNext => Extending
  BY DEF GetterNext, GetTokens, GetRecord, GetTotalSupply, Balance, Extending
<1>8. UserNext => Extending \/ \E user, amount : ExitPool(user, amount)
  BY <1>2, <1>3, <1>4 DEF UserNext
<1>9. HolderNext => Extending
  BY <1>6 DEF HolderNext
<1> QED
  BY <1>1, <1>5, <1>7, <1>8, <1>9 DEF Next

LEMMA ShortensNothing ==
  ASSUME IInv, NothingIsShortened, lives' \in [DOMAIN lives' -> Int],
         ledger' \in Nat, lastExit' = lastExit
  PROVE  IInv'
<1>1. LivesOK'
  BY DEF LivesOK
<1>2. CASE lastExit = -SHARED_LIFETIME_THRESHOLD - 1
  BY <1>1, <1>2 DEF IInv, ExitExtends
<1>3. CASE lastExit # -SHARED_LIFETIME_THRESHOLD - 1
  <2>1. lastExit \in Nat /\ SHARED_LIFETIME_THRESHOLD \in Nat
    BY <1>3, LifetimesAssumption DEF IInv, ExitExtends
  <2>2. ASSUME NEW key \in Common
        PROVE  Exists(key)' /\ lives'[key] >= lastExit + SHARED_LIFETIME_THRESHOLD
    <3>1. Exists(key) /\ lives[key] >= lastExit + SHARED_LIFETIME_THRESHOLD
      BY <1>3 DEF IInv, ExitExtends
    <3>2. key \in DOMAIN lives' /\ lives'[key] >= lives[key]
      BY <3>1 DEF NothingIsShortened, Exists
    <3>3. lives[key] \in Int /\ lives'[key] \in Int
      BY <3>1, <3>2 DEF IInv, LivesOK, Exists
    <3> QED
      BY <2>1, <3>1, <3>2, <3>3 DEF Exists
  <2> QED
    BY <1>1, <2>1, <2>2 DEF IInv, ExitExtends
<1> QED
  BY <1>2, <1>3

LEMMA IInvNext ==
  ASSUME IInv, [Next]_vars
  PROVE  IInv'
<1>1. LivesOK
  BY DEF IInv
<1>2. CASE Extending
  BY <1>1, <1>2, ExtendsFacts, ShortensNothing DEF Extending, LivesOK
<1>3. CASE \E user, amount : ExitPool(user, amount)
  <2>1. PICK keys : /\ Common \subseteq keys /\ Extends(keys)
                    /\ lastExit' = ledger /\ ledger' = ledger
    BY <1>3 DEF ExitPool, Common
  <2>2. /\ lives' \in [DOMAIN lives' -> Int]
        /\ \A key \in Common : /\ key \in DOMAIN lives'
                               /\ lives'[key] >= ledger + SHARED_LIFETIME_THRESHOLD
    BY <1>1, <2>1, ExtendsFacts
  <2> QED
    BY <1>1, <2>1, <2>2 DEF IInv, LivesOK, ExitExtends, Exists
<1>4. CASE AdvanceLedger
  BY <1>1, <1>4, ShortensNothing DEF AdvanceLedger, LivesOK, NothingIsShortened
<1>5. CASE \E key : Restore(key)
  <2>1. PICK key : Restore(key)
    BY <1>5
  <2>2. /\ lives' = [lives EXCEPT ![key] = FreshLife(ledger)]
        /\ key \in DOMAIN lives /\ lives[key] < ledger
        /\ UNCHANGED <<ledger, lastExit>>
    BY <1>1, <2>1 DEF Restore, Exists, IsLive, LiveAt, LivesOK
  <2>3. FreshLife(ledger) \in Int /\ FreshLife(ledger) >= lives[key]
    BY <1>1, <2>2, StorageAssumption DEF FreshLife, LivesOK
  <2>4. lives' \in [DOMAIN lives' -> Int] /\ NothingIsShortened
    BY <1>1, <2>2, <2>3 DEF LivesOK, NothingIsShortened
  <2> QED
    BY <1>1, <2>2, <2>4, ShortensNothing DEF LivesOK
<1>6. CASE UNCHANGED vars
  BY <1>1, <1>6, ShortensNothing DEF vars, LivesOK, NothingIsShortened
<1> QED
  BY <1>2, <1>3, <1>4, <1>5, <1>6, NextExtends

\* A pool that somebody leaves with exit_pool at least once in the threshold
\* of 30 days can always be left: none of the entries that all users share is
\* archived, whatever else is called or is not called in between.
THEOREM PoolsInUseStayOpen == Spec => []ExitsStayOpen
<1>1. Init => IInv
  <2> SUFFICES ASSUME Init PROVE IInv
    OBVIOUS
  <2>1. LivesOK
    BY StorageAssumption DEF Init, LivesOK, FreshLife
  <2> QED
    BY <2>1 DEF Init, IInv, ExitExtends
<1>2. IInv /\ [Next]_vars => IInv'
  BY IInvNext
<1>3. IInv => ExitsStayOpen
  <2> SUFFICES ASSUME IInv, ledger <= lastExit + SHARED_LIFETIME_THRESHOLD, NEW key \in Common
               PROVE  Exists(key) /\ IsLive(key)
    BY DEF ExitsStayOpen, Common
  <2>1. ledger \in Nat /\ SHARED_LIFETIME_THRESHOLD \in Nat
    BY LifetimesAssumption DEF IInv, LivesOK
  <2>2. lastExit \in Nat /\ Exists(key)
        /\ lives[key] >= lastExit + SHARED_LIFETIME_THRESHOLD
    BY <2>1 DEF IInv, ExitExtends
  <2>3. lives[key] \in Int
    BY <2>2 DEF IInv, LivesOK, Exists
  <2> QED
    BY <2>1, <2>2, <2>3 DEF IsLive, LiveAt
<1> QED
  BY <1>1, <1>2, <1>3, PTL DEF Spec
-----------------------------------------------------------------------------
(***************************************************************************)
(* Shares.  An entry of shares that is missing is read as zero, and none   *)
(* is missing that has ever been written, so that what the invocations     *)
(* add to the total and to the holders comes to the same.                  *)
(***************************************************************************)
Held == [a \in Addresses |-> IF a \in DOMAIN shares THEN shares[a] ELSE 0]

Total == IF TotalShares \in DOMAIN shares THEN shares[TotalShares] ELSE 0

SharesOK ==
  /\ DOMAIN shares = DOMAIN lives \cap ShareKeys
  /\ shares \in [DOMAIN shares -> Int]

SumInv == SharesOK /\ Total = SumFunction(Held)

LEMMA AddressesAreFinite == IsFiniteSet(Addresses) /\ TotalShares \notin Addresses
BY KeysAssumption, FS_AddElement DEF Addresses

LEMMA HeldIsInteger ==
  ASSUME SharesOK
  PROVE  Held \in [Addresses -> Int] /\ Total \in Int
BY DEF SharesOK, Held, Total

\* What an invocation that stores shares has done to all of them.
LEMMA AddedFacts ==
  ASSUME SharesOK, NEW change, change \in [DOMAIN change -> Int],
         NEW keys, keys \cap ShareKeys = DOMAIN change,
         AddToShares(change), Extends(keys)
  PROVE  /\ SharesOK'
         /\ Held' = [a \in Addresses |->
                       Held[a] + (IF a \in DOMAIN change THEN change[a] ELSE 0)]
         /\ Total' = Total + (IF TotalShares \in DOMAIN change
                                THEN change[TotalShares] ELSE 0)
<1>1. DOMAIN change \subseteq ShareKeys /\ DOMAIN lives' = DOMAIN lives \cup keys
  BY DEF Extends
<1>2. PICK read : /\ \A key \in DOMAIN change : read[key] \in StoredShares(key)
                  /\ shares' = [key \in DOMAIN shares \cup DOMAIN change |->
                                  IF key \in DOMAIN change THEN read[key] + change[key]
                                                           ELSE shares[key]]
  BY DEF AddToShares
<1>3. ASSUME NEW key \in DOMAIN change
      PROVE  read[key] = IF key \in DOMAIN shares THEN shares[key] ELSE 0
  BY <1>1, <1>2 DEF StoredShares, SharesOK, Exists
<1>4. \A key \in DOMAIN shares : shares[key] \in Int
  BY DEF SharesOK
<1>5. DOMAIN shares' = DOMAIN shares \cup DOMAIN change
  BY <1>2
<1>6. \A key \in DOMAIN shares' :
         shares'[key] = (IF key \in DOMAIN shares THEN shares[key] ELSE 0)
                        + (IF key \in DOMAIN change THEN change[key] ELSE 0)
  BY <1>2, <1>3, <1>4
<1>7. SharesOK'
  <2>1. DOMAIN shares' = DOMAIN lives' \cap ShareKeys
    BY <1>1, <1>5 DEF SharesOK
  <2>2. \A key \in DOMAIN shares' : shares'[key] \in Int
    BY <1>4, <1>6
  <2>3. shares' = [key \in DOMAIN shares' |-> shares'[key]]
    BY <1>2
  <2> QED
    BY <2>1, <2>2, <2>3 DEF SharesOK
<1>8. ASSUME NEW key
      PROVE  (IF key \in DOMAIN shares' THEN shares'[key] ELSE 0)
               = (IF key \in DOMAIN shares THEN shares[key] ELSE 0)
                 + (IF key \in DOMAIN change THEN change[key] ELSE 0)
  BY <1>5, <1>6
<1>9. Held' = [a \in Addresses |->
                 Held[a] + (IF a \in DOMAIN change THEN change[a] ELSE 0)]
  BY <1>8 DEF Held
<1> QED
  BY <1>7, <1>8, <1>9 DEF Total

\* The total and one holder get the same, another holder may get nothing.
LEMMA SumOfOne ==
  ASSUME SumInv, NEW change, change \in [DOMAIN change -> Int],
         NEW keys, keys \cap ShareKeys = DOMAIN change,
         AddToShares(change), Extends(keys),
         NEW user \in Addresses, user \in DOMAIN change, TotalShares \in DOMAIN change,
         \A a \in DOMAIN change : change[a] = IF a \in {user, TotalShares}
                                                THEN change[user] ELSE 0
  PROVE  SumInv'
<1> DEFINE amount == change[user]
           held   == Held
<1>1. /\ SharesOK'
      /\ Held' = [a \in Addresses |->
                    Held[a] + (IF a \in DOMAIN change THEN change[a] ELSE 0)]
      /\ Total' = Total + amount
  BY AddedFacts DEF SumInv
<1>2. amount \in Int /\ held \in [Addresses -> Int]
  BY HeldIsInteger DEF SumInv
<1>3. \A a \in Addresses : (IF a \in DOMAIN change THEN change[a] ELSE 0)
                             = IF a = user THEN amount ELSE 0
  BY AddressesAreFinite
<1>4. /\ Held' \in [Addresses -> Int]
      /\ \A a \in Addresses : Held'[a] = held[a] + (IF a = user THEN amount ELSE 0)
  BY <1>1, <1>2, <1>3
<1>5. held = Held
  OBVIOUS
<1> HIDE DEF amount, held
<1>6. SumFunction(Held') = SumFunction(held) + amount
  <2> DEFINE h == Held'
  <2>1. /\ h \in [Addresses -> Int] /\ user \in Addresses
        /\ h[user] = held[user] + amount /\ \A a \in Addresses \ {user} : h[a] = held[a]
    BY <1>2, <1>4
  <2> HIDE DEF h
  <2>2. SumFunction(h) = SumFunction(held) + amount
    BY ONLY <1>2, <2>1, AddressesAreFinite, SumOfChange
  <2> QED
    BY <2>2 DEF h
<1>7. Total = SumFunction(held)
  BY <1>5 DEF SumInv
<1> QED
  BY <1>1, <1>6, <1>7 DEF SumInv

\* One holder gets what another one loses.
LEMMA SumOfTwo ==
  ASSUME SumInv, NEW change, change \in [DOMAIN change -> Int],
         NEW keys, keys \cap ShareKeys = DOMAIN change,
         AddToShares(change), Extends(keys),
         NEW from \in Addresses, NEW to \in Addresses, DOMAIN change = {from, to},
         NEW amount \in Int, NEW back \in Int, back + amount = 0,
         change[from] = (IF from = to THEN 0 ELSE back),
         change[to] = (IF from = to THEN 0 ELSE amount)
  PROVE  SumInv'
<1> DEFINE held == Held
<1>1. /\ SharesOK'
      /\ Held' = [a \in Addresses |->
                    Held[a] + (IF a \in DOMAIN change THEN change[a] ELSE 0)]
      /\ Total' = Total
  <2>1. /\ SharesOK'
        /\ Held' = [a \in Addresses |->
                      Held[a] + (IF a \in DOMAIN change THEN change[a] ELSE 0)]
        /\ Total' = Total + (IF TotalShares \in DOMAIN change THEN change[TotalShares] ELSE 0)
    BY AddedFacts DEF SumInv
  <2>2. Total \in Int /\ TotalShares \notin DOMAIN change
    BY AddressesAreFinite, HeldIsInteger DEF SumInv
  <2> QED
    BY <2>1, <2>2
<1>2. held \in [Addresses -> Int]
  BY HeldIsInteger DEF SumInv
<1> DEFINE h   == Held'
           one == [a \in Addresses |-> held[a] + (IF a = from THEN back ELSE 0)]
<1>3. /\ one \in [Addresses -> Int]
      /\ one[from] = held[from] + back /\ \A a \in Addresses \ {from} : one[a] = held[a]
  <2> HIDE DEF held
  <2> QED
    BY <1>2
<1>4. /\ h \in [Addresses -> Int]
      /\ h[to] = one[to] + amount /\ \A a \in Addresses \ {to} : h[a] = one[a]
  <2>1. \A a \in Addresses : held[a] \in Int
    BY <1>2
  <2>2. h = [a \in Addresses |-> held[a] + (IF a \in DOMAIN change THEN change[a] ELSE 0)]
    BY <1>1
  <2> HIDE DEF held, h
  <2> QED
    BY <2>1, <2>2
<1>5. Total = SumFunction(held)
  BY DEF SumInv
<1>6. from \in Addresses /\ to \in Addresses /\ amount \in Int /\ back \in Int
  OBVIOUS
<1> HIDE DEF held, h, one
<1>7. SumFunction(held) \in Int /\ SumFunction(one) = SumFunction(held) + back
  BY ONLY <1>2, <1>3, <1>6, AddressesAreFinite, SumOfChange
<1>8. SumFunction(h) = SumFunction(one) + amount
  BY ONLY <1>3, <1>4, <1>6, AddressesAreFinite, SumOfChange
<1>9. SumFunction(h) = SumFunction(held)
  BY <1>7, <1>8
<1> QED
  BY <1>1, <1>5, <1>9 DEF SumInv, h

\* Whoever leaves the shares alone adds no entry of shares either.
LEMMA SumOfNone ==
  ASSUME SumInv, UNCHANGED shares, DOMAIN lives' \cap ShareKeys = DOMAIN lives \cap ShareKeys
  PROVE  SumInv'
<1>1. Held' = Held /\ Total' = Total
  BY DEF Held, Total
<1> QED
  BY <1>1 DEF SumInv, SharesOK

\* What the invocations store, and which entries of shares they extend.
LEMMA AddingNext ==
  ASSUME SumInv, NEW user \in Addresses, NEW amount \in Int, NEW keys,
         keys \cap ShareKeys = {TotalShares, user}, Extends(keys),
         AddToShares([key \in {TotalShares, user} |-> amount])
  PROVE  SumInv'
<1> DEFINE change == [key \in {TotalShares, user} |-> amount]
<1>1. /\ DOMAIN change = {TotalShares, user} /\ change \in [DOMAIN change -> Int]
      /\ \A a \in DOMAIN change : change[a] = IF a \in {user, TotalShares}
                                                THEN change[user] ELSE 0
      /\ AddToShares(change)
  OBVIOUS
<1> HIDE DEF change
<1> QED
  BY <1>1, SumOfOne

LEMMA RedeemingNext ==
  ASSUME SumInv, NEW user \in Users, NEW amount \in Int, NEW keys,
         keys \cap ShareKeys = {TotalShares, user, Pool}, Extends(keys),
         AddToShares(Redeemed(user, amount))
  PROVE  SumInv'
<1> DEFINE change == Redeemed(user, amount)
<1>1. user # Pool /\ user # TotalShares /\ Pool # TotalShares /\ user \in Addresses
  BY KeysAssumption DEF Addresses
<1>2. /\ DOMAIN change = {TotalShares, user, Pool} /\ change \in [DOMAIN change -> Int]
      /\ \A a \in DOMAIN change : change[a] = IF a \in {user, TotalShares}
                                                THEN change[user] ELSE 0
      /\ AddToShares(change)
  BY <1>1 DEF Redeemed
<1> HIDE DEF change
<1> QED
  BY <1>1, <1>2, SumOfOne

LEMMA MovingNext ==
  ASSUME SumInv, NEW from \in Addresses, NEW to \in Addresses, NEW amount \in Int, NEW keys,
         keys \cap ShareKeys = {from, to}, Extends(keys),
         AddToShares([key \in {from, to} |->
                        IF from = to THEN 0 ELSE IF key = from THEN -amount ELSE amount])
  PROVE  SumInv'
<1> DEFINE back   == -amount
           change == [key \in {from, to} |->
                        IF from = to THEN 0 ELSE IF key = from THEN back ELSE amount]
<1>1. AddToShares(change) /\ back \in Int /\ back + amount = 0
  OBVIOUS
<1> HIDE DEF back
<1>2. /\ DOMAIN change = {from, to} /\ change \in [DOMAIN change -> Int]
      /\ change[from] = (IF from = to THEN 0 ELSE back)
      /\ change[to] = (IF from = to THEN 0 ELSE amount)
  BY <1>1
<1> HIDE DEF change
<1> QED
  BY <1>1, <1>2, SumOfTwo

LEMMA LeavingNext ==
  ASSUME SumInv, NEW keys, keys \cap ShareKeys \subseteq DOMAIN lives,
         Extends(keys), UNCHANGED shares
  PROVE  SumInv'
BY SumOfNone DEF Extends

LEMMA SumInvNext ==
  ASSUME SumInv, [Next]_vars
  PROVE  SumInv'
<1> USE KeysAssumption DEF ShareKeys, Addresses
<1>1. ASSUME NEW user \in Users, InitPool(user) PROVE SumInv'
  <2>1. INIT_POOL_SUPPLY \in Int
    BY LifetimesAssumption
  <2>2. {Instance, AllRecordData, AllTokenVec, TotalShares, user} \cap ShareKeys
          = {TotalShares, user}
    OBVIOUS
  <2> QED
    BY <1>1, <2>1, <2>2, AddingNext DEF InitPool
<1>2. ASSUME NEW user \in Users, NEW amount \in Amounts,
             \/ JoinPool(user, amount) \/ ExitPool(user, amount)
             \/ DepositOne(user, amount) \/ WithdrawOne(user, amount)
      PROVE  SumInv'
  <2>1. amount \in Int
    BY LifetimesAssumption
  <2>2. /\ {Instance, AllTokenVec, AllRecordData, TotalShares, user} \cap ShareKeys
             = {TotalShares, user}
        /\ {Instance, AllRecordData, TotalShares, user} \cap ShareKeys = {TotalShares, user}
        /\ {Instance, AllTokenVec, AllRecordData, TotalShares, user, Pool} \cap ShareKeys
             = {TotalShares, user, Pool}
        /\ {Instance, AllRecordData, TotalShares, user, Pool} \cap ShareKeys
             = {TotalShares, user, Pool}
    OBVIOUS
  <2>3. CASE JoinPool(user, amount)
    BY <2>1, <2>2, <2>3, AddingNext DEF JoinPool
  <2>4. CASE DepositOne(user, amount)
    BY <2>1, <2>2, <2>4, AddingNext DEF DepositOne
  <2>5. CASE ExitPool(user, amount)
    BY <2>1, <2>2, <2>5, RedeemingNext DEF ExitPool
  <2>6. CASE WithdrawOne(user, amount)
    BY <2>1, <2>2, <2>6, RedeemingNext DEF WithdrawOne
  <2> QED
    BY <1>2, <2>3, <2>4, <2>5, <2>6
<1>3. ASSUME NEW from \in Users, NEW amount \in Amounts, NEW to \in Addresses,
             Transfer(from, to, amount)
      PROVE  SumInv'
  <2>1. amount \in Int /\ {Instance, from, to} \cap ShareKeys = {from, to}
    BY LifetimesAssumption
  <2> QED
    BY <1>3, <2>1, MovingNext DEF Transfer
<1>4. ASSUME NEW from \in Users, NEW amount \in Amounts, Burn(from, amount) PROVE SumInv'
  <2> DEFINE back == -amount
  <2>1. back \in Int /\ {Instance, TotalShares, from} \cap ShareKeys = {TotalShares, from}
    BY LifetimesAssumption
  <2>2. /\ AddToShares([key \in {TotalShares, from} |-> back])
        /\ Extends({Instance, TotalShares, from})
    BY <1>4 DEF Burn
  <2> HIDE DEF back
  <2> QED
    BY <2>1, <2>2, AddingNext
<1>5. CASE Swap \/ TouchInstance \/ GetTokens \/ GetRecord
  <2>1. /\ {Instance, AllRecordData} \cap ShareKeys = {} /\ {Instance} \cap ShareKeys = {}
        /\ {AllTokenVec} \cap ShareKeys = {} /\ {AllRecordData} \cap ShareKeys = {}
    OBVIOUS
  <2> QED
    BY <1>5, <2>1, LeavingNext DEF Swap, TouchInstance, GetTokens, GetRecord
<1>6. CASE GetTotalSupply \/ \E id \in Addresses : Balance(id)
  BY <1>6, LeavingNext DEF GetTotalSupply, Balance
<1>7. CASE AdvanceLedger \/ (\E key : Restore(key)) \/ UNCHANGED vars
  BY <1>7, SumOfNone DEF AdvanceLedger, Restore, vars
<1> QED
  BY <1>1, <1>2, <1>3, <1>4, <1>5, <1>6, <1>7 DEF Next, UserNext, HolderNext, GetterNext

\* However long the entries of some holders, or that of the total, have been
\* archived, and whoever calls what in the meantime: no invocation stores
\* shares of its own over those that are waiting to be restored.
THEOREM NoSharesAreForgotten == Spec => []SharesAreNeverForgotten
<1>1. Init => SumInv
  <2> SUFFICES ASSUME Init PROVE SumInv
    OBVIOUS
  <2>1. DOMAIN shares = {} /\ SharesOK
    BY KeysAssumption DEF Init, SharesOK
  <2>2. Held = [a \in Addresses |-> 0] /\ Total = 0
    BY <2>1 DEF Held, Total
  <2> QED
    BY <2>1, <2>2, AddressesAreFinite, SumOfZeros DEF SumInv
<1>2. SumInv /\ [Next]_vars => SumInv'
  BY SumInvNext
<1>3. SumInv => SharesAreNeverForgotten
  <2> SUFFICES ASSUME SumInv, Exists(TotalShares)
               PROVE  shares[TotalShares]
                        = SumFunctionOnSet(shares, DOMAIN shares \cap Addresses)
    BY DEF SharesAreNeverForgotten
  <2> DEFINE F    == DOMAIN shares
             held == Held
  <2>1. SharesOK /\ shares[TotalShares] = SumFunction(held)
    BY DEF SumInv, SharesOK, Total, Exists, ShareKeys
  <2>2. IsFiniteSet(ShareKeys) /\ F \subseteq ShareKeys
    BY <2>1, AddressesAreFinite, FS_AddElement DEF ShareKeys, SharesOK
  <2>3. IsFiniteSet(F) /\ shares \in [F -> Int] /\ held \in [Addresses -> Int]
    BY <2>1, <2>2, FS_Subset, HeldIsInteger DEF SharesOK
  <2>4. \A a \in Addresses : held[a] = IF a \in F THEN shares[a] ELSE 0
    BY DEF Held
  <2> HIDE DEF F, held
  <2>5. SumFunctionOnSet(shares, F \cap Addresses) = SumFunction(held)
    BY <2>3, <2>4, AddressesAreFinite, SumOfPadded
  <2> QED
    BY <2>1, <2>5 DEF F
<1> QED
  BY <1>1, <1>2, <1>3, PTL DEF Spec
-----------------------------------------------------------------------------
(***************************************************************************)
(* Types.  No holder ever has less than nothing, because whoever loses     *)
(* shares has them, and then the total, their sum, is not negative either. *)
(***************************************************************************)
HoldersOK == \A a \in Addresses : Held[a] >= 0

KeysOK == DOMAIN lives \subseteq Entries /\ Instance \in DOMAIN lives

ExitIsPast == lastExit \in Int /\ lastExit <= ledger

TypeInv == LivesOK /\ SumInv /\ HoldersOK /\ KeysOK /\ ExitIsPast

LEMMA CanSpendIsHeld ==
  ASSUME SharesOK, NEW a \in Addresses, NEW amount, CanSpend(a, amount)
  PROVE  Held[a] >= amount
<1>1. PICK held \in StoredShares(a) : held >= amount
  BY DEF CanSpend
<1>2. a \in ShareKeys
  BY DEF ShareKeys
<1>3. held = Held[a]
  BY <1>1, <1>2 DEF StoredShares, Exists, SharesOK, Held
<1> QED
  BY <1>1, <1>3

\* An invocation that takes shares only from holders who can spend them.
LEMMA HoldersAfterAdding ==
  ASSUME SharesOK, HoldersOK, NEW change, change \in [DOMAIN change -> Int],
         NEW keys, keys \cap ShareKeys = DOMAIN change,
         AddToShares(change), Extends(keys),
         \A a \in Addresses \cap DOMAIN change : Held[a] + change[a] >= 0
  PROVE  HoldersOK'
<1>1. Held' = [a \in Addresses |->
                 Held[a] + (IF a \in DOMAIN change THEN change[a] ELSE 0)]
  BY AddedFacts
<1>2. \A a \in Addresses : Held[a] \in Int
  BY HeldIsInteger
<1> QED
  BY <1>1, <1>2 DEF HoldersOK

LEMMA AddingKeepsHolders ==
  ASSUME SharesOK, HoldersOK, NEW user \in Addresses, NEW amount \in Nat, NEW keys,
         keys \cap ShareKeys = {TotalShares, user}, Extends(keys),
         AddToShares([key \in {TotalShares, user} |-> amount])
  PROVE  HoldersOK'
<1> DEFINE change == [key \in {TotalShares, user} |-> amount]
<1>1. /\ DOMAIN change = {TotalShares, user} /\ change \in [DOMAIN change -> Int]
      /\ AddToShares(change)
  OBVIOUS
<1>2. \A a \in Addresses \cap DOMAIN change : change[a] = amount /\ Held[a] >= 0 /\ Held[a] \in Int
  BY HeldIsInteger DEF HoldersOK
<1>3. \A a \in Addresses \cap DOMAIN change : Held[a] + change[a] >= 0
  <2> HIDE DEF change
  <2> QED
    BY <1>2
<1> HIDE DEF change
<1> QED
  BY <1>1, <1>3, HoldersAfterAdding

LEMMA RedeemingKeepsHolders ==
  ASSUME SharesOK, HoldersOK, NEW user \in Users, NEW amount \in Nat, NEW keys,
         keys \cap ShareKeys = {TotalShares, user, Pool}, Extends(keys),
         CanSpend(user, amount), AddToShares(Redeemed(user, amount))
  PROVE  HoldersOK'
<1> DEFINE change == Redeemed(user, amount)
<1>1. user # Pool /\ user # TotalShares /\ Pool # TotalShares /\ user \in Addresses
      /\ Pool \in Addresses /\ TotalShares \notin Addresses
  BY KeysAssumption DEF Addresses
<1>2. /\ DOMAIN change = {TotalShares, user, Pool} /\ change \in [DOMAIN change -> Int]
      /\ change[user] = -amount /\ change[Pool] = 0
      /\ AddToShares(change)
  BY <1>1 DEF Redeemed
<1>3. Held[user] >= amount /\ Held[Pool] >= 0 /\ Held[user] \in Int /\ Held[Pool] \in Int
  BY <1>1, CanSpendIsHeld, HeldIsInteger DEF HoldersOK
<1> HIDE DEF change
<1>4. \A a \in Addresses \cap DOMAIN change : Held[a] + change[a] >= 0
  BY <1>1, <1>2, <1>3
<1> QED
  BY <1>2, <1>4, HoldersAfterAdding

LEMMA MovingKeepsHolders ==
  ASSUME SharesOK, HoldersOK, NEW from \in Addresses, NEW to \in Addresses,
         NEW amount \in Nat, NEW keys, keys \cap ShareKeys = {from, to}, Extends(keys),
         CanSpend(from, amount),
         AddToShares([key \in {from, to} |->
                        IF from = to THEN 0 ELSE IF key = from THEN -amount ELSE amount])
  PROVE  HoldersOK'
<1> DEFINE change == [key \in {from, to} |->
                        IF from = to THEN 0 ELSE IF key = from THEN -amount ELSE amount]
<1>1. /\ DOMAIN change = {from, to} /\ change \in [DOMAIN change -> Int]
      /\ AddToShares(change)
      /\ from = to => change[from] = 0
      /\ from # to => change[from] = -amount /\ change[to] = amount
  OBVIOUS
<1>2. /\ Held[from] >= amount /\ Held[from] \in Int
      /\ Held[to] >= 0 /\ Held[to] \in Int
  BY CanSpendIsHeld, HeldIsInteger DEF HoldersOK
<1> HIDE DEF change
<1>3. \A a \in Addresses \cap DOMAIN change : Held[a] + change[a] >= 0
  BY <1>1, <1>2
<1> QED
  BY <1>1, <1>3, HoldersAfterAdding

LEMMA BurningKeepsHolders ==
  ASSUME SharesOK, HoldersOK, NEW from \in Addresses, NEW amount \in Nat, NEW keys,
         keys \cap ShareKeys = {TotalShares, from}, Extends(keys),
         CanSpend(from, amount), AddToShares([key \in {TotalShares, from} |-> -amount])
  PROVE  HoldersOK'
<1> DEFINE change == [key \in {TotalShares, from} |-> -amount]
<1>1. /\ DOMAIN change = {TotalShares, from} /\ change \in [DOMAIN change -> Int]
      /\ AddToShares(change) /\ change[from] = -amount
  OBVIOUS
<1>2. Held[from] >= amount /\ Held[from] \in Int
  BY CanSpendIsHeld, HeldIsInteger
<1> HIDE DEF change
<1>3. \A a \in Addresses \cap DOMAIN change : Held[a] + change[a] >= 0
  BY <1>1, <1>2, AddressesAreFinite
<1> QED
  BY <1>1, <1>3, HoldersAfterAdding

LEMMA HoldersNext ==
  ASSUME SumInv, HoldersOK, [Next]_vars
  PROVE  HoldersOK'
<1> USE KeysAssumption DEF ShareKeys, Addresses
<1>1. SharesOK
  BY DEF SumInv
<1>2. ASSUME NEW user \in Users, InitPool(user) PROVE HoldersOK'
  <2>1. INIT_POOL_SUPPLY \in Nat
    BY LifetimesAssumption
  <2>2. {Instance, AllRecordData, AllTokenVec, TotalShares, user} \cap ShareKeys
          = {TotalShares, user}
    OBVIOUS
  <2> QED
    BY <1>1, <1>2, <2>1, <2>2, AddingKeepsHolders DEF InitPool
<1>3. ASSUME NEW user \in Users, NEW amount \in Amounts,
             \/ JoinPool(user, amount) \/ ExitPool(user, amount)
             \/ DepositOne(user, amount) \/ WithdrawOne(user, amount)
      PROVE  HoldersOK'
  <2>1. amount \in Nat
    BY LifetimesAssumption
  <2>2. /\ {Instance, AllTokenVec, AllRecordData, TotalShares, user} \cap ShareKeys
             = {TotalShares, user}
        /\ {Instance, AllRecordData, TotalShares, user} \cap ShareKeys = {TotalShares, user}
        /\ {Instance, AllTokenVec, AllRecordData, TotalShares, user, Pool} \cap ShareKeys
             = {TotalShares, user, Pool}
        /\ {Instance, AllRecordData, TotalShares, user, Pool} \cap ShareKeys
             = {TotalShares, user, Pool}
    OBVIOUS
  <2>3. CASE JoinPool(user, amount)
    BY <1>1, <2>1, <2>2, <2>3, AddingKeepsHolders DEF JoinPool
  <2>4. CASE DepositOne(user, amount)
    BY <1>1, <2>1, <2>2, <2>4, AddingKeepsHolders DEF DepositOne
  <2>5. CASE ExitPool(user, amount)
    BY <1>1, <2>1, <2>2, <2>5, RedeemingKeepsHolders DEF ExitPool
  <2>6. CASE WithdrawOne(user, amount)
    BY <1>1, <2>1, <2>2, <2>6, RedeemingKeepsHolders DEF WithdrawOne
  <2> QED
    BY <1>3, <2>3, <2>4, <2>5, <2>6
<1>4. ASSUME NEW from \in Users, NEW amount \in Amounts, NEW to \in Addresses,
             Transfer(from, to, amount)
      PROVE  HoldersOK'
  <2>1. amount \in Nat /\ {Instance, from, to} \cap ShareKeys = {from, to}
    BY LifetimesAssumption
  <2> QED
    BY <1>1, <1>4, <2>1, MovingKeepsHolders DEF Transfer
<1>5. ASSUME NEW from \in Users, NEW amount \in Amounts, Burn(from, amount)
      PROVE  HoldersOK'
  <2>1. amount \in Nat /\ {Instance, TotalShares, from} \cap ShareKeys = {TotalShares, from}
    BY LifetimesAssumption
  <2> QED
    BY <1>1, <1>5, <2>1, BurningKeepsHolders DEF Burn
<1>6. ASSUME UNCHANGED shares PROVE HoldersOK'
  BY <1>6 DEF HoldersOK, Held
<1>7. CASE Swap \/ TouchInstance \/ GetterNext \/ AdvanceLedger \/ (\E key : Restore(key))
           \/ UNCHANGED vars
  BY <1>6, <1>7 DEF Swap, TouchInstance, GetterNext, GetTokens, GetRecord, GetTotalSupply,
                    Balance, AdvanceLedger, Restore, vars
<1> QED
  BY <1>2, <1>3, <1>4, <1>5, <1>7 DEF Next, UserNext, HolderNext

\* Entries are only those that the contract writes.
LEMMA KeysNext ==
  ASSUME KeysOK, [Next]_vars
  PROVE  KeysOK'
<1>1. ASSUME NEW keys \in SUBSET Entries, Extends(keys) PROVE KeysOK'
  BY <1>1 DEF KeysOK, Extends
<1>2. /\ Instance \in Entries /\ AllTokenVec \in Entries /\ AllRecordData \in Entries
      /\ TotalShares \in Entries /\ Pool \in Entries /\ Users \subseteq Entries
      /\ Addresses \subseteq Entries /\ DOMAIN lives \subseteq Entries
  BY DEF Entries, ShareKeys, Addresses, KeysOK
<1>3. ASSUME NEW user \in Users, InitPool(user) PROVE KeysOK'
  BY <1>1, <1>2, <1>3 DEF InitPool
<1>4. ASSUME NEW user \in Users, NEW amount,
             \/ JoinPool(user, amount) \/ ExitPool(user, amount)
             \/ DepositOne(user, amount) \/ WithdrawOne(user, amount)
      PROVE  KeysOK'
  BY <1>1, <1>2, <1>4 DEF JoinPool, ExitPool, DepositOne, WithdrawOne
<1>5. ASSUME NEW from \in Users, NEW amount,
             Burn(from, amount) \/ \E to \in Addresses : Transfer(from, to, amount)
      PROVE  KeysOK'
  BY <1>1, <1>2, <1>5 DEF Burn, Transfer
<1>6. CASE Swap \/ TouchInstance \/ GetTokens \/ GetRecord
  BY <1>1, <1>2, <1>6 DEF Swap, TouchInstance, GetTokens, GetRecord
<1>7. CASE GetTotalSupply
  BY <1>1, <1>2, <1>7 DEF GetTotalSupply
<1>8. ASSUME NEW id \in Addresses, Balance(id) PROVE KeysOK'
  BY <1>1, <1>2, <1>8 DEF Balance
<1>9. CASE AdvanceLedger \/ (\E key : Restore(key)) \/ UNCHANGED vars
  BY <1>9 DEF AdvanceLedger, Restore, vars, KeysOK
<1> QED
  BY <1>3, <1>4, <1>5, <1>6, <1>7, <1>8, <1>9 DEF Next, UserNext, HolderNext, GetterNext

LEMMA LivesNext ==
  ASSUME LivesOK, ExitIsPast, [Next]_vars
  PROVE  LivesOK' /\ ExitIsPast'
<1>1. CASE Extending
  BY <1>1, ExtendsFacts DEF Extending, LivesOK, ExitIsPast
<1>2. CASE \E user, amount : ExitPool(user, amount)
  BY <1>2, ExtendsFacts DEF ExitPool, LivesOK, ExitIsPast
<1>3. CASE AdvanceLedger
  BY <1>3 DEF AdvanceLedger, LivesOK, ExitIsPast
<1>4. CASE \E key : Restore(key)
  <2>1. FreshLife(ledger) \in Int
    BY StorageAssumption DEF FreshLife, LivesOK
  <2> QED
    BY <1>4, <2>1 DEF Restore, LivesOK, ExitIsPast
<1>5. CASE UNCHANGED vars
  BY <1>5 DEF vars, LivesOK, ExitIsPast
<1> QED
  BY <1>1, <1>2, <1>3, <1>4, <1>5, NextExtends

\* TypeOK: none but the contract's own entries are ever written, and neither
\* a holder's shares nor the total is ever negative, although no entry but
\* that of the payer is compared with what is taken from it.
THEOREM LifetimesTypeCorrect == Spec => []TypeOK
<1>1. Init => TypeInv
  <2> SUFFICES ASSUME Init PROVE TypeInv
    OBVIOUS
  <2>1. LivesOK
    BY StorageAssumption DEF Init, LivesOK, FreshLife
  <2>2. DOMAIN shares = {} /\ SharesOK
    BY KeysAssumption DEF Init, SharesOK
  <2>3. Held = [a \in Addresses |-> 0] /\ Total = 0
    BY <2>2 DEF Held, Total
  <2>4. SumInv /\ HoldersOK
    BY <2>2, <2>3, AddressesAreFinite, SumOfZeros DEF SumInv, HoldersOK
  <2>5. KeysOK /\ ExitIsPast
    BY LifetimesAssumption DEF Init, KeysOK, Entries, ExitIsPast
  <2> QED
    BY <2>1, <2>4, <2>5 DEF TypeInv
<1>2. TypeInv /\ [Next]_vars => TypeInv'
  BY SumInvNext, HoldersNext, KeysNext, LivesNext DEF TypeInv
<1>3. TypeInv => TypeOK
  <2> SUFFICES ASSUME TypeInv PROVE TypeOK
    OBVIOUS
  <2> DEFINE held == Held
  <2>1. SharesOK /\ Total = SumFunction(held)
    BY DEF TypeInv, SumInv
  <2>2. held \in [Addresses -> Nat]
    <3>1. held \in [Addresses -> Int] /\ \A a \in Addresses : held[a] >= 0
      BY <2>1, HeldIsInteger DEF TypeInv, HoldersOK
    <3> HIDE DEF held
    <3> QED
      BY <3>1
  <2>3. Total \in Nat
    <3> HIDE DEF held
    <3> QED
      BY <2>1, <2>2, AddressesAreFinite, SumOfNaturals
  <2>4. ASSUME NEW key \in DOMAIN shares PROVE shares[key] \in Nat
    <3>1. CASE key \in Addresses
      BY <2>2, <3>1 DEF Held
    <3>2. CASE key = TotalShares
      BY <2>3, <3>2 DEF Total
    <3> QED
      BY <2>1, <3>1, <3>2 DEF SharesOK, ShareKeys
  <2>5. shares \in [DOMAIN shares -> Nat] /\ DOMAIN shares = DOMAIN lives \cap ShareKeys
    BY <2>1, <2>4 DEF SharesOK
  <2> QED
    BY <2>5 DEF TypeInv, LivesOK, KeysOK, ExitIsPast, TypeOK
<1> QED
  BY <1>1, <1>2, <1>3, PTL DEF Spec
=============================================================================
