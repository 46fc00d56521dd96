------------------------------ MODULE LPToken ------------------------------
(***************************************************************************)
(* The SEP-41 token that stands for shares of a pool: comet.rs (the        *)
(* TokenInterface), allowance.rs, balance.rs, and mint_shares, pull_shares *)
(* and burn_shares of token_utility.rs.  An action is one invocation that  *)
(* succeeds; one that panics is rolled back and is no step at all.  Every  *)
(* action is taken by an address that authorised it (require_auth).        *)
(*                                                                         *)
(* Allowances live in temporary storage, which the host deletes when their *)
(* time to live is over; balances and the total are persistent.            *)
(***************************************************************************)
EXTENDS I128, Functions, FiniteSets

CONSTANTS
  Users,       \* the accounts that call the contract
  Spenders,    \* those of them that others approve
  Pool,        \* the contract's own address
  Amounts,     \* the amounts that callers pass, negative ones included
  MinTempTTL,  \* network setting: ledgers a new temporary entry lives
  MaxTempTTL,  \* network setting: the longest life an entry can be given
  MaxLedger    \* bound of the model: the last ledger that is looked at

ASSUME TokenAssumption ==
  /\ IsFiniteSet(Users) /\ Pool \notin Users /\ Spenders \subseteq Users
  /\ Amounts \subseteq I128
  /\ MinTempTTL \in Nat \ {0} /\ MaxTempTTL \in Nat /\ MinTempTTL <= MaxTempTTL
  /\ MaxLedger \in Nat \ {0}

VARIABLES
  lpBalance,    \* DataKeyToken::Balance, 0 when there is no entry
  totalShares,  \* DataKey::TotalShares
  allowances,   \* DataKeyToken::Allowance, with the entry's time to live
  ledger        \* the sequence number of the current ledger

tokenVars == <<lpBalance, totalShares, allowances, ledger>>

Addresses == Users \cup {Pool}
Ledgers   == 0 .. MaxLedger + MaxTempTTL

(***************************************************************************)
(* Temporary storage of the host.  An entry whose liveUntil has passed is  *)
(* gone: it cannot be told from one that was never written.  Writing an    *)
(* entry that is gone gives it the minimal life, writing a live one leaves *)
(* its life alone, and extend_ttl(key, n, n) lets it live for n more       *)
(* ledgers unless it already does; a life beyond the limit traps.          *)
(***************************************************************************)
Live(entry) == entry.liveUntil >= ledger

TempSetLiveUntil(entry) ==
  IF Live(entry) THEN entry.liveUntil ELSE ledger + MinTempTTL - 1

TempExtendTtl(liveUntil, n) == IF liveUntil - ledger <= n THEN ledger + n ELSE liveUntil

CanLiveFor(n) == n <= MaxTempTTL - 1
-----------------------------------------------------------------------------
(***************************************************************************)
(* allowance.rs                                                            *)
(***************************************************************************)
ReadAllowance(from, spender) ==
  LET entry == allowances[<<from, spender>>]
  IN IF Live(entry) /\ entry.expirationLedger >= ledger THEN entry.amount ELSE 0

\* Mutant of WriteAllowance: the call of extend_ttl is lost.
WriteAllowanceWithoutTtl(from, spender, amount, expirationLedger) ==
  /\ amount > 0 => expirationLedger >= ledger
  /\ allowances' = [allowances EXCEPT ![<<from, spender>>] =
       [amount |-> amount, expirationLedger |-> expirationLedger,
        liveUntil |-> TempSetLiveUntil(@)]]

WriteAllowance(from, spender, amount, expirationLedger) ==
  LET liveUntil == TempSetLiveUntil(allowances[<<from, spender>>])
      lifetime  == expirationLedger - ledger
  IN /\ amount > 0 => expirationLedger >= ledger /\ CanLiveFor(lifetime)
     /\ allowances' = [allowances EXCEPT ![<<from, spender>>] =
          [amount           |-> amount,
           expirationLedger |-> expirationLedger,
           liveUntil        |-> IF amount > 0 THEN TempExtendTtl(liveUntil, lifetime)
                                              ELSE liveUntil]]

\* Mutant of SpendAllowance: what is left is not written back.
SpendAllowanceForgets(from, spender, amount) ==
  ReadAllowance(from, spender) >= amount /\ UNCHANGED allowances

SpendAllowance(from, spender, amount) ==
  LET allowance == ReadAllowance(from, spender)
  IN /\ allowance >= amount
     /\ IF amount > 0
          THEN WriteAllowance(from, spender, allowance - amount,
                              allowances[<<from, spender>>].expirationLedger)
          ELSE UNCHANGED allowances
-----------------------------------------------------------------------------
(***************************************************************************)
(* balance.rs, as functions of the table of balances, so that a handler    *)
(* that spends and then receives reads what it has just written.           *)
(***************************************************************************)
CanSpend(balances, addr, amount) == balances[addr] >= amount

Spent(balances, addr, amount) == [balances EXCEPT ![addr] = @ - amount]

CanReceive(balances, addr, amount) == Checked(balances[addr] + amount) # {}

Received(balances, addr, amount) == [balances EXCEPT ![addr] = @ + amount]

\* Mutant of MoveShares: both balances are read before either is written.
MoveSharesReadsFirst(from, to, amount) ==
  /\ CanSpend(lpBalance, from, amount)
  /\ CanReceive(lpBalance, to, amount)
  /\ lpBalance' = [lpBalance EXCEPT ![from] = @ - amount, ![to] = lpBalance[to] + amount]

\* spend_balance(from) followed by receive_balance(to)
MoveShares(from, to, amount) ==
  LET afterSpend == Spent(lpBalance, from, amount)
  IN /\ CanSpend(lpBalance, from, amount)
     /\ CanReceive(afterSpend, to, amount)
     /\ lpBalance' = Received(afterSpend, to, amount)

\* spend_balance(from), and the total lowered by as much
DestroyShares(from, amount) ==
  /\ CanSpend(lpBalance, from, amount)
  /\ lpBalance' = Spent(lpBalance, from, amount)
  /\ totalShares' = totalShares - amount
-----------------------------------------------------------------------------
(***************************************************************************)
(* What the pool's handlers do with shares                                 *)
(***************************************************************************)
MintShares(to, amount) ==
  /\ amount >= 0
  /\ Checked(totalShares + amount) # {}
  /\ totalShares' = totalShares + amount
  /\ CanReceive(lpBalance, to, amount)
  /\ lpBalance' = Received(lpBalance, to, amount)
  /\ UNCHANGED <<allowances, ledger>>

\* Mutant of RedeemShares: the caller's shares are not checked.
RedeemSharesUnchecked(from, amount) ==
  /\ lpBalance' = Spent(lpBalance, from, amount)
  /\ totalShares' = totalShares - amount
  /\ UNCHANGED <<allowances, ledger>>

\* Mutant of RedeemShares: the shares are pulled and the total is lowered, but
\* the pool keeps what it pulled.
RedeemSharesKeepsThem(from, amount) ==
  /\ MoveShares(from, Pool, amount)
  /\ totalShares' = totalShares - amount
  /\ UNCHANGED <<allowances, ledger>>

\* Mutant of RedeemShares: the call of pull_shares is lost.
RedeemSharesBurnsThePools(from, amount) ==
  /\ CanSpend(lpBalance, Pool, amount)
  /\ lpBalance' = Spent(lpBalance, Pool, amount)
  /\ totalShares' = totalShares - amount
  /\ UNCHANGED <<allowances, ledger>>

\* pull_shares(from) into the pool's own balance, then burn_shares from there
RedeemShares(from, amount) ==
  LET afterSpend == Spent(lpBalance, from, amount)
      afterPull  == Received(afterSpend, Pool, amount)
  IN /\ amount >= 0
     /\ CanSpend(lpBalance, from, amount)
     /\ CanReceive(afterSpend, Pool, amount)
     /\ CanSpend(afterPull, Pool, amount)
     /\ lpBalance' = Spent(afterPull, Pool, amount)
     /\ totalShares' = totalShares - amount
     /\ UNCHANGED <<allowances, ledger>>
-----------------------------------------------------------------------------
(***************************************************************************)
(* The TokenInterface of comet.rs                                          *)
(***************************************************************************)
\* Mutant of Approve: the sign of the amount is not checked.
ApproveAnySign(from, spender, amount, expirationLedger) ==
  /\ WriteAllowance(from, spender, amount, expirationLedger)
  /\ UNCHANGED <<lpBalance, totalShares, ledger>>

Approve(from, spender, amount, expirationLedger) ==
  /\ amount >= 0
  /\ WriteAllowance(from, spender, amount, expirationLedger)
  /\ UNCHANGED <<lpBalance, totalShares, ledger>>

\* Mutant of Transfer: the sign of the amount is not checked.
TransferAnySign(from, to, amount) ==
  MoveShares(from, to, amount) /\ UNCHANGED <<totalShares, allowances, ledger>>

Transfer(from, to, amount) ==
  /\ amount >= 0
  /\ MoveShares(from, to, amount)
  /\ UNCHANGED <<totalShares, allowances, ledger>>

TransferFrom(spender, from, to, amount) ==
  /\ amount >= 0
  /\ SpendAllowance(from, spender, amount)
  /\ MoveShares(from, to, amount)
  /\ UNCHANGED <<totalShares, ledger>>

Burn(from, amount) ==
  /\ amount >= 0
  /\ DestroyShares(from, amount)
  /\ UNCHANGED <<allowances, ledger>>

BurnFrom(spender, from, amount) ==
  /\ amount >= 0
  /\ SpendAllowance(from, spender, amount)
  /\ DestroyShares(from, amount)
  /\ UNCHANGED ledger

\* External: the network closes a ledger.
AdvanceLedger ==
  /\ ledger < MaxLedger
  /\ ledger' = ledger + 1
  /\ UNCHANGED <<lpBalance, totalShares, allowances>>
-----------------------------------------------------------------------------
NoAllowance == [amount |-> 0, expirationLedger |-> 0, liveUntil |-> 0]

TokenInit ==
  /\ lpBalance = [a \in Addresses |-> 0]
  /\ totalShares = 0
  /\ allowances = [pair \in Users \X Spenders |-> NoAllowance]
  /\ ledger = 1

\* What user may call, for himself or as a spender of others.
HolderCall(user) ==
  \/ \E spender \in Spenders, amount \in Amounts, until \in 0 .. MaxLedger :
       Approve(user, spender, amount, until)
  \/ \E to \in Addresses, amount \in Amounts : Transfer(user, to, amount)
  \/ \E amount \in Amounts : Burn(user, amount)
  \/ /\ user \in Spenders
     /\ \E from \in Users, amount \in Amounts :
          \/ \E to \in Addresses : TransferFrom(user, from, to, amount)
          \/ BurnFrom(user, from, amount)

HolderNext == AdvanceLedger \/ \E user \in Users : HolderCall(user)

\* The token on its own: the pool may mint and redeem any amount at any time.
TokenNext ==
  \/ HolderNext
  \/ \E to \in Users, amount \in Amounts : MintShares(to, amount)
  \/ \E from \in Users, amount \in Amounts : RedeemShares(from, amount)

TokenSpec == TokenInit /\ [][TokenNext]_tokenVars
-----------------------------------------------------------------------------
(***************************************************************************)
(* Properties                                                              *)
(***************************************************************************)
Entries == [amount : 0 .. I128Max, expirationLedger : 0 .. MaxLedger, liveUntil : Ledgers]

\* The types of the token's storage: balances and allowances are never
\* negative, whatever the sign of the amounts that callers pass.
TokenTypeOK ==
  /\ lpBalance \in [Addresses -> Nat]
  /\ totalShares \in Int
  /\ allowances \in [Users \X Spenders -> Entries]
  /\ ledger \in 0 .. MaxLedger

\* The total that every payout of the pool is divided by is the number of
\* shares that exist, whatever mix of mints, redemptions, transfers to
\* oneself, burns and spent allowances came before: it is kept in a storage
\* entry of its own (metadata.rs:110) that no code derives from the balances.
SupplyIsSumOfShares == totalShares = SumFunction(lpBalance)
=============================================================================
