----------------------------- MODULE Lifetimes -----------------------------
(***************************************************************************)
(* The times to live of the pool's storage: storage_types.rs, metadata.rs  *)
(* and balance.rs, with the entry points of comet.rs that use them.  The   *)
(* entries are extended separately, each by whoever reads or writes it and *)
(* by nobody else, so that some are archived while the rest is in use.     *)
(*                                                                         *)
(* Of what is stored only the shares matter here, since an entry that is   *)
(* missing is read as zero; prices and payments are those of CometPool.    *)
(* An action is one successful invocation, and one that touches an         *)
(* archived entry is not successful.                                       *)
(***************************************************************************)
EXTENDS HostStorage, Functions, FiniteSets

CONSTANTS
  Users, Pool,        \* addresses; the entry of one is DataKeyToken::Balance of it
  Instance,           \* the instance: Controller, SwapFee, Freeze, the metadata
  AllTokenVec, AllRecordData, TotalShares,           \* of DataKey
  SHARED_LIFETIME_THRESHOLD, SHARED_BUMP_AMOUNT,     \* of storage_types.rs, in
  BALANCE_LIFETIME_THRESHOLD, BALANCE_BUMP_AMOUNT,   \* ledgers
  INIT_POOL_SUPPLY, Amounts,
  MaxShares           \* the greatest i128

Addresses  == Users \cup {Pool}
ShareKeys  == Addresses \cup {TotalShares}
Entries    == ShareKeys \cup {Instance, AllTokenVec, AllRecordData}

ASSUME LifetimesAssumption ==
  /\ SHARED_BUMP_AMOUNT \in Nat /\ SHARED_LIFETIME_THRESHOLD \in 0 .. SHARED_BUMP_AMOUNT
  /\ BALANCE_BUMP_AMOUNT \in Nat /\ BALANCE_LIFETIME_THRESHOLD \in 0 .. BALANCE_BUMP_AMOUNT
  /\ SHARED_LIFETIME_THRESHOLD <= BALANCE_LIFETIME_THRESHOLD
  /\ MaxShares \in Nat /\ INIT_POOL_SUPPLY \in Nat /\ Amounts \subseteq Nat

ASSUME KeysAssumption ==
  /\ IsFiniteSet(Users) /\ Pool \notin Users /\ TotalShares \notin Addresses
  /\ Instance \notin ShareKeys
  /\ AllTokenVec \notin ShareKeys \cup {Instance}
  /\ AllRecordData \notin ShareKeys \cup {Instance, AllTokenVec}

VARIABLES
  lives,      \* the last ledger that each entry there is lives in
  shares,     \* what the entries of shares hold
  ledger,
  lastExit    \* history: the ledger of the last exit_pool; negative if none

vars == <<lives, shares, ledger, lastExit>>

Exists(key) == key \in DOMAIN lives

IsLive(key) == LiveAt(lives[key], ledger)

Threshold(key) == IF key \in Addresses THEN BALANCE_LIFETIME_THRESHOLD
                                       ELSE SHARED_LIFETIME_THRESHOLD
BumpAmount(key) == IF key \in Addresses THEN BALANCE_BUMP_AMOUNT ELSE SHARED_BUMP_AMOUNT

\* The life of an entry that an invocation has read or written.
Bumped(key) ==
  ExtendedLife(IF Exists(key) THEN lives[key] ELSE FreshLife(ledger), ledger,
               Threshold(key), BumpAmount(key))

\* The invocation extends these entries, and creates those that do not exist.
Extends(keys) ==
  lives' = [key \in DOMAIN lives \cup keys |-> IF key \in keys THEN Bumped(key) ELSE lives[key]]

\* Mutant of StoredShares: the entry is in temporary storage.
StoredSharesTemporary(key) ==
  {IF Exists(key) /\ IsLive(key) THEN shares[key] ELSE 0}

\* get_total_shares and read_balance, as a set: empty when the entry is
\* archived and the invocation traps.
StoredShares(key) ==
  IF ~Exists(key) THEN {0} ELSE IF IsLive(key) THEN {shares[key]} ELSE {}

\* Reads the shares of each key in the domain of change and stores the sum.
AddToShares(change) ==
  \E read \in [DOMAIN change -> UNION {StoredShares(key) : key \in DOMAIN change}] :
    /\ \A key \in DOMAIN change : /\ read[key] \in StoredShares(key)
                                  /\ read[key] + change[key] <= MaxShares
    /\ shares' = [key \in DOMAIN shares \cup DOMAIN change |->
                    IF key \in DOMAIN change THEN read[key] + change[key] ELSE shares[key]]

\* Mutant of CanSpend: spend_balance does not compare the two.
CanSpendAnything(key, amount) == StoredShares(key) # {}

CanSpend(key, amount) == \E held \in StoredShares(key) : held >= amount

\* The code runs, and entries that init has written are there to be read.
Runs(keys) == IsLive(Instance) /\ \A key \in keys : Exists(key) /\ IsLive(key)
-----------------------------------------------------------------------------
(***************************************************************************)
(* comet.rs, with what call_logic and token_utility.rs read and write      *)
(***************************************************************************)
\* It stores the controller, in the instance, together with the records.
InitPool(user) ==
  /\ Runs({}) /\ ~Exists(AllRecordData)
  /\ AddToShares([key \in {TotalShares, user} |-> INIT_POOL_SUPPLY])
  /\ Extends({Instance, AllRecordData, AllTokenVec, TotalShares, user})
  /\ UNCHANGED <<ledger, lastExit>>

JoinPool(user, amount) ==
  /\ Runs({AllTokenVec, AllRecordData})
  /\ AddToShares([key \in {TotalShares, user} |-> amount])
  /\ Extends({Instance, AllTokenVec, AllRecordData, TotalShares, user})
  /\ UNCHANGED <<ledger, lastExit>>

\* pull_shares and burn_shares move the shares through the pool's own balance.
Redeemed(user, amount) ==
  [key \in {TotalShares, user, Pool} |-> IF key = Pool THEN 0 ELSE -amount]

\* Mutant of ExitPool: comet.rs does not extend the instance.
ExitPoolForgetsInstance(user, amount) ==
  /\ Runs({AllTokenVec, AllRecordData})
  /\ CanSpend(user, amount) /\ AddToShares(Redeemed(user, amount))
  /\ Extends({AllTokenVec, AllRecordData, TotalShares, user, Pool})
  /\ lastExit' = ledger
  /\ UNCHANGED ledger

ExitPool(user, amount) ==
  /\ Runs({AllTokenVec, AllRecordData})
  /\ CanSpend(user, amount) /\ AddToShares(Redeemed(user, amount))
  /\ Extends({Instance, AllTokenVec, AllRecordData, TotalShares, user, Pool})
  /\ lastExit' = ledger
  /\ UNCHANGED ledger

\* Both swaps: they touch neither the tokens nor the shares.
Swap ==
  /\ Runs({AllRecordData})
  /\ Extends({Instance, AllRecordData})
  /\ UNCHANGED <<shares, ledger, lastExit>>

\* Both deposits of one token, and both withdrawals of one.
DepositOne(user, amount) ==
  /\ Runs({AllRecordData})
  /\ AddToShares([key \in {TotalShares, user} |-> amount])
  /\ Extends({Instance, AllRecordData, TotalShares, user})
  /\ UNCHANGED <<ledger, lastExit>>

WithdrawOne(user, amount) ==
  /\ Runs({AllRecordData})
  /\ CanSpend(user, amount) /\ AddToShares(Redeemed(user, amount))
  /\ Extends({Instance, AllRecordData, TotalShares, user, Pool})
  /\ UNCHANGED <<ledger, lastExit>>

\* set_controller, set_freeze_status, approve, allowance
TouchInstance ==
  /\ Runs({})
  /\ Extends({Instance})
  /\ UNCHANGED <<shares, ledger, lastExit>>

\* Also transfer_from, whose allowance is in temporary storage.
Transfer(from, to, amount) ==
  /\ Runs({})
  /\ CanSpend(from, amount)
  /\ AddToShares([key \in {from, to} |->
                    IF from = to THEN 0 ELSE IF key = from THEN -amount ELSE amount])
  /\ Extends({Instance, from, to})
  /\ UNCHANGED <<ledger, lastExit>>

\* Also burn_from.
Burn(from, amount) ==
  /\ Runs({})
  /\ CanSpend(from, amount) /\ AddToShares([key \in {TotalShares, from} |-> -amount])
  /\ Extends({Instance, TotalShares, from})
  /\ UNCHANGED <<ledger, lastExit>>

\* The getters, of which only balance extends the instance, and those of what
\* the instance holds extend nothing.
GetTokens == Runs({AllTokenVec}) /\ Extends({AllTokenVec}) /\ UNCHANGED <<shares, ledger, lastExit>>

GetRecord ==
  Runs({AllRecordData}) /\ Extends({AllRecordData}) /\ UNCHANGED <<shares, ledger, lastExit>>

GetTotalSupply ==
  /\ Runs({})
  /\ StoredShares(TotalShares) # {}
  /\ Extends({TotalShares} \cap DOMAIN lives)
  /\ UNCHANGED <<shares, ledger, lastExit>>

Balance(id) ==
  /\ Runs({})
  /\ StoredShares(id) # {}
  /\ Extends({Instance} \cup ({id} \cap DOMAIN lives))
  /\ UNCHANGED <<shares, ledger, lastExit>>
-----------------------------------------------------------------------------
(***************************************************************************)
(* The network (external): it closes a ledger, and anyone may have it      *)
(* restore an entry that is archived.                                      *)
(***************************************************************************)
AdvanceLedger ==
  /\ ledger < MaxLedger
  /\ ledger' = ledger + 1
  /\ UNCHANGED <<lives, shares, lastExit>>

Restore(key) ==
  /\ Exists(key) /\ ~IsLive(key)
  /\ lives' = [lives EXCEPT ![key] = FreshLife(ledger)]
  /\ UNCHANGED <<shares, ledger, lastExit>>
-----------------------------------------------------------------------------
Init ==
  /\ lives = [key \in {Instance} |-> FreshLife(0)]
  /\ shares = <<>>   \* the function with no domain
  /\ ledger = 0
  /\ lastExit = -SHARED_LIFETIME_THRESHOLD - 1

UserNext ==
  \E user \in Users, amount \in Amounts :
    \/ JoinPool(user, amount) \/ ExitPool(user, amount)
    \/ DepositOne(user, amount) \/ WithdrawOne(user, amount)

HolderNext ==
  \E from \in Users, amount \in Amounts :
    \/ \E to \in Addresses : Transfer(from, to, amount)
    \/ Burn(from, amount)

GetterNext == GetTokens \/ GetRecord \/ GetTotalSupply \/ \E id \in Addresses : Balance(id)

Next ==
  \/ \E user \in Users : InitPool(user)
  \/ UserNext \/ Swap \/ TouchInstance \/ HolderNext \/ GetterNext
  \/ AdvanceLedger
  \/ \E key \in Entries : Restore(key)

Spec == Init /\ [][Next]_vars
-----------------------------------------------------------------------------
(***************************************************************************)
(* Properties                                                              *)
(***************************************************************************)

\* The types of the lives and of the shares.
TypeOK ==
  /\ DOMAIN lives \subseteq Entries /\ Instance \in DOMAIN lives
  /\ lives \in [DOMAIN lives -> Int]
  /\ DOMAIN shares = DOMAIN lives \cap ShareKeys
  /\ shares \in [DOMAIN shares -> Nat]
  /\ ledger \in Nat
  /\ lastExit \in Int /\ lastExit <= ledger

\* Shares are never forgotten: the entries of holders and the total are
\* archived each in its own time, and no invocation takes one that is for
\* missing and stores shares of its own over it (metadata.rs:99, balance.rs:11).
SharesAreNeverForgotten ==
  Exists(TotalShares) =>
    shares[TotalShares] = SumFunctionOnSet(shares, DOMAIN shares \cap Addresses)

\* A pool that somebody leaves with exit_pool at least once in the threshold
\* is never closed to the next one by an archived entry: exit_pool reads every
\* entry that all users share, the pool's own balance of shares among them,
\* and extends each.  Swaps, deposits and getters do not: without exits or
\* joins the vector of tokens is archived while the pool is in use.
ExitsStayOpen ==
  ledger <= lastExit + SHARED_LIFETIME_THRESHOLD =>
    \A key \in {Instance, AllTokenVec, AllRecordData, TotalShares, Pool} :
      Exists(key) /\ IsLive(key)
=============================================================================
