----------------------------- MODULE CometPool -----------------------------
(***************************************************************************)
(* The pool contract: comet.rs with call_logic/init.rs, call_logic/pool.rs,*)
(* metadata.rs and token_utility.rs, over the share token of LPToken and   *)
(* the prices of CometMath.                                                *)
(*                                                                         *)
(* An action is one successful invocation of an entry point, taken by the  *)
(* user that authorised it, with all it does to the pool's own storage, to *)
(* the shares and to the bound tokens.  The host forbids re-entry into the *)
(* pool and rolls a panicking invocation back, so that a refused call is   *)
(* no step.  The bound tokens are other contracts, modelled as plain       *)
(* ledgers of balances that do what SEP-41 says (external).                *)
(***************************************************************************)
EXTENDS LPToken, CometMath, Powers, Sequences

CONSTANTS
  Tokens,            \* the token contracts there are
  Scalar,            \* 10^(18 - decimals) of each; 0 for more than 18 decimals
  Endowment,         \* what each user holds of each token to begin with
  INIT_POOL_SUPPLY, MIN_BALANCE, MIN_FEE,   \* of c_consts.rs
  InitTokens, InitWeights, InitBalances,    \* vectors that init is called with
  SwapFees,          \* the fees that init is called with
  TokenAmounts,      \* amounts of a bound token that callers pass
  MinLimits,         \* lower limits that callers pass on what they get
  MaxLimits,         \* upper limits that callers pass on amounts and prices
  NoController       \* stands for an instance entry that does not exist

ASSUME PoolAssumption ==
  /\ NoController \notin Users
  /\ Scalar \in [Tokens -> Nat]
  /\ Endowment \in [Tokens -> [Users -> Nat]]
  /\ INIT_POOL_SUPPLY \in Nat \ {0} /\ MIN_BALANCE \in Nat \ {0} /\ MIN_FEE \in Nat
  /\ InitTokens \subseteq Seq(Tokens)
  /\ InitWeights \subseteq Seq(I128) /\ InitBalances \subseteq Seq(I128)
  /\ SwapFees \subseteq I128 /\ TokenAmounts \subseteq I128
  /\ MinLimits \subseteq I128 /\ MaxLimits \subseteq I128

VARIABLES
  controller,    \* DataKey::Controller, or NoController before init
  swapFee,       \* DataKey::SwapFee
  freeze,        \* DataKey::Freeze
  records,       \* DataKey::AllRecordData: a record for each bound token
  tokenBalance   \* external: the balances that the bound tokens keep

poolVars == <<controller, swapFee, freeze, records>>
vars     == <<lpBalance, totalShares, allowances, ledger,
              controller, swapFee, freeze, records, tokenBalance>>

Initialized == controller # NoController

Bound == DOMAIN records

\* The value that a call which does not panic returns.
The(result) == CHOOSE v \in result : TRUE
-----------------------------------------------------------------------------
(***************************************************************************)
(* Bound tokens.  pull_underlying approves the pool for the caller's limit *)
(* and has it move the amount, both under the caller's authorisation;      *)
(* push_underlying transfers out of the pool.                              *)
(***************************************************************************)
CanPull(token, user, amount) == amount \in 0 .. tokenBalance[token][user]

\* The balances after user has paid amounts[t] of every token t of its domain,
\* a payment to the user being a negative amount.
AfterPaying(user, amounts) ==
  [t \in Tokens |->
     IF t \in DOMAIN amounts
       THEN [tokenBalance[t] EXCEPT ![user] = @ - amounts[t], ![Pool] = @ + amounts[t]]
       ELSE tokenBalance[t]]

CanPush(token, amount) == amount \in 0 .. tokenBalance[token][Pool]

\* Storing the record of one token with its balance changed by amount.
Changed(recs, token, amount) == [recs EXCEPT ![token].balance = @ + amount]

\* amount <= balance.fixed_mul_floor(ratio, STROOP)
WithinRatio(amount, balance, ratio) ==
  \E bound \in NarrowMulFloor(balance, ratio, STROOP) : amount <= bound
-----------------------------------------------------------------------------
(***************************************************************************)
(* call_logic/init.rs.  Each token is checked and paid for in turn; that a *)
(* token comes up twice is found before its second payment.                *)
(***************************************************************************)
\* Mutant of NoDuplicates: the records are not searched for the token.
DuplicatesAllowed(seq) == TRUE

NoDuplicates(seq) == \A i, j \in DOMAIN seq : seq[i] = seq[j] => i = j

\* Mutant of InitPool: that there is a controller already is not checked.
InitPoolAgain(user, tokens, weights, balances, fee) ==
  /\ Len(tokens) = 2 /\ Len(weights) = 2 /\ Len(balances) = 2
  /\ \A i \in DOMAIN tokens : Scalar[tokens[i]] > 0 /\ balances[i] >= MIN_BALANCE
  /\ NoDuplicates(tokens)
  /\ weights[1] + weights[2] = STROOP
  /\ MintShares(user, INIT_POOL_SUPPLY)
  /\ swapFee' = fee
  /\ records' = [t \in {tokens[1], tokens[2]} |->
       LET i == IF t = tokens[1] THEN 1 ELSE 2
       IN [balance |-> balances[i], weight |-> weights[i], scalar |-> Scalar[t]]]
  /\ controller' = user
  /\ UNCHANGED <<freeze, tokenBalance>>

InitPool(user, tokens, weights, balances, fee) ==
  LET place(t)  == CHOOSE i \in DOMAIN tokens : tokens[i] = t
      deposits  == [t \in {tokens[i] : i \in DOMAIN tokens} |-> balances[place(t)]]
  IN /\ ~Initialized
     /\ Len(tokens) \in 2 .. 8
     /\ Len(weights) = Len(tokens) /\ Len(balances) = Len(tokens)
     /\ fee \in MIN_FEE .. MAX_FEE
     /\ NoDuplicates(tokens)
     /\ \A i \in DOMAIN tokens :
          /\ weights[i] \in MIN_WEIGHT .. MAX_WEIGHT
          /\ balances[i] >= MIN_BALANCE
          /\ Scalar[tokens[i]] > 0
          /\ CanPull(tokens[i], user, balances[i])
     /\ FoldFunction(+, 0, weights) = STROOP
     /\ MintShares(user, INIT_POOL_SUPPLY)
     /\ swapFee' = fee
     /\ records' = [t \in DOMAIN deposits |->
                      [balance |-> deposits[t], weight |-> weights[place(t)],
                       scalar |-> Scalar[t]]]
     /\ tokenBalance' = AfterPaying(user, deposits)
     /\ controller' = user
     /\ UNCHANGED freeze
-----------------------------------------------------------------------------
(***************************************************************************)
(* call_logic/pool.rs, all tokens at once                                  *)
(***************************************************************************)
JoinRatios(poolAmountOut) ==
  IF Initialized /\ ~freeze /\ poolAmountOut > 0
    THEN {ratio \in CalcJoinRatio(totalShares, poolAmountOut) : ratio > 0}
    ELSE {}

\* The loops of the two: what is due for one token, if it passes the checks.
JoinDue(record, ratio, maxAmountIn) ==
  {deposit \in CalcJoinDepositAmount(record, ratio) :
     /\ deposit > 0
     /\ deposit <= maxAmountIn
     /\ Checked(record.balance + deposit) # {}}

JoinPool(user, poolAmountOut, maxAmountsIn) ==
  /\ \E ratio \in JoinRatios(poolAmountOut) :
       LET due      == [t \in Bound |-> JoinDue(records[t], ratio, maxAmountsIn[t])]
           deposits == [t \in Bound |-> The(due[t])]
       IN /\ \A t \in Bound : due[t] # {} /\ CanPull(t, user, deposits[t])
          /\ records' = [t \in Bound |->
                           [records[t] EXCEPT !.balance = @ + deposits[t]]]
          /\ tokenBalance' = AfterPaying(user, deposits)
  /\ MintShares(user, poolAmountOut)
  /\ UNCHANGED <<controller, swapFee, freeze>>

ExitRatios(poolAmountIn) ==
  IF Initialized /\ poolAmountIn > 0
    THEN {ratio \in CalcExitRatio(totalShares, poolAmountIn) : ratio > 0}
    ELSE {}

\* Mutant of ExitDue: the caller's limit is not looked at.
ExitDueWithoutLimit(record, ratio, minAmountOut) ==
  {payout \in CalcExitWithdrawalAmount(record, ratio) :
     payout > 0 /\ minAmountOut >= 0 /\ payout <= record.balance}

ExitDue(record, ratio, minAmountOut) ==
  {payout \in CalcExitWithdrawalAmount(record, ratio) :
     /\ payout > 0
     /\ minAmountOut >= 0
     /\ payout >= minAmountOut
     /\ payout <= record.balance}

ExitPool(user, poolAmountIn, minAmountsOut) ==
  /\ \E ratio \in ExitRatios(poolAmountIn) :
       LET due     == [t \in Bound |-> ExitDue(records[t], ratio, minAmountsOut[t])]
           payouts == [t \in Bound |-> The(due[t])]
       IN /\ \A t \in Bound : due[t] # {} /\ CanPush(t, payouts[t])
          /\ records' = [t \in Bound |->
                           [records[t] EXCEPT !.balance = @ - payouts[t]]]
          /\ tokenBalance' = AfterPaying(user, [t \in Bound |-> -payouts[t]])
  /\ RedeemShares(user, poolAmountIn)
  /\ UNCHANGED <<controller, swapFee, freeze>>
-----------------------------------------------------------------------------
(***************************************************************************)
(* call_logic/pool.rs, swaps.  A quote is what an entry point computes of  *)
(* its arguments and of the records before it moves anything: the amount   *)
(* it will charge or pay, and no amount when it panics instead.            *)
(***************************************************************************)
AfterSwap(tokenIn, amountIn, tokenOut, amountOut) ==
  Changed(Changed(records, tokenIn, amountIn), tokenOut, -amountOut)

\* The checks that both swaps make once both amounts are known.
FairSwap(tokenIn, amountIn, tokenOut, amountOut, maxPrice) ==
  LET after == AfterSwap(tokenIn, amountIn, tokenOut, amountOut)
  IN /\ Checked(records[tokenIn].balance + amountIn) # {}
     /\ records[tokenOut].balance >= amountOut
     /\ \E spotBefore \in CalcSpotPrice(records[tokenIn], records[tokenOut], swapFee),
           spotAfter \in CalcSpotPrice(after[tokenIn], after[tokenOut], swapFee),
           paid \in NarrowDivFloor(amountIn, amountOut, STROOP) :
          /\ spotBefore <= maxPrice
          /\ spotAfter >= spotBefore
          /\ spotAfter <= maxPrice
          /\ spotBefore <= paid

SwapInQuote(tokenIn, amountIn, tokenOut, minAmountOut, maxPrice) ==
  IF /\ ~freeze
     /\ tokenIn # tokenOut
     /\ amountIn > 0 /\ minAmountOut >= 0 /\ maxPrice >= 0
     /\ tokenIn \in Bound /\ tokenOut \in Bound
     /\ WithinRatio(amountIn, records[tokenIn].balance, MAX_IN_RATIO)
    THEN {amountOut \in CalcTokenOutGivenTokenIn(records[tokenIn], records[tokenOut],
                                                 amountIn, swapFee) :
            /\ amountOut >= minAmountOut
            /\ FairSwap(tokenIn, amountIn, tokenOut, amountOut, maxPrice)}
    ELSE {}

SwapOutQuote(tokenIn, maxAmountIn, tokenOut, amountOut, maxPrice) ==
  IF /\ ~freeze
     /\ tokenIn # tokenOut
     /\ amountOut > 0 /\ maxAmountIn > 0 /\ maxPrice >= 0
     /\ tokenIn \in Bound /\ tokenOut \in Bound
     /\ WithinRatio(amountOut, records[tokenOut].balance, MAX_OUT_RATIO)
    THEN {amountIn \in CalcTokenInGivenTokenOut(records[tokenIn], records[tokenOut],
                                                amountOut, swapFee) :
            /\ amountIn \in 1 .. maxAmountIn
            /\ FairSwap(tokenIn, amountIn, tokenOut, amountOut, maxPrice)}
    ELSE {}

\* Mutant of Swap: the record of the token paid out is stored as it was read.
SwapStoresOneRecord(user, tokenIn, amountIn, tokenOut, amountOut) ==
  /\ amountOut > 0
  /\ CanPull(tokenIn, user, amountIn) /\ CanPush(tokenOut, amountOut)
  /\ records' = Changed(records, tokenIn, amountIn)
  /\ tokenBalance' = AfterPaying(user, [t \in {tokenIn, tokenOut} |->
                                         IF t = tokenIn THEN amountIn ELSE -amountOut])
  /\ UNCHANGED <<controller, swapFee, freeze>>
  /\ UNCHANGED tokenVars

Swap(user, tokenIn, amountIn, tokenOut, amountOut) ==
  /\ CanPull(tokenIn, user, amountIn)
  /\ CanPush(tokenOut, amountOut)
  /\ records' = AfterSwap(tokenIn, amountIn, tokenOut, amountOut)
  /\ tokenBalance' = AfterPaying(user, [t \in {tokenIn, tokenOut} |->
                                         IF t = tokenIn THEN amountIn ELSE -amountOut])
  /\ UNCHANGED <<controller, swapFee, freeze>>
  /\ UNCHANGED tokenVars

SwapExactAmountIn(user, tokenIn, amountIn, tokenOut, minAmountOut, maxPrice) ==
  \E amountOut \in SwapInQuote(tokenIn, amountIn, tokenOut, minAmountOut, maxPrice) :
    Swap(user, tokenIn, amountIn, tokenOut, amountOut)

SwapExactAmountOut(user, tokenIn, maxAmountIn, tokenOut, amountOut, maxPrice) ==
  \E amountIn \in SwapOutQuote(tokenIn, maxAmountIn, tokenOut, amountOut, maxPrice) :
    Swap(user, tokenIn, amountIn, tokenOut, amountOut)
-----------------------------------------------------------------------------
(***************************************************************************)
(* call_logic/pool.rs, one token against shares: the quotes, of shares or  *)
(* of tokens, and the record, the payment and the shares that follow.      *)
(***************************************************************************)
DepInQuote(token, amountIn, minPoolAmountOut) ==
  IF /\ ~freeze
     /\ amountIn > 0 /\ minPoolAmountOut >= 0
     /\ token \in Bound
     /\ WithinRatio(amountIn, records[token].balance, MAX_IN_RATIO)
    THEN {poolAmountOut \in CalcLpTokenAmountGivenTokenDepositsIn(records[token], totalShares,
                                                                  amountIn, swapFee) :
            /\ poolAmountOut >= minPoolAmountOut
            /\ Checked(records[token].balance + amountIn) # {}}
    ELSE {}

\* Mutant of DepOutQuote: that the pool is frozen is not checked.
DepOutQuoteFrozenToo(token, poolAmountOut, maxAmountIn) ==
  IF poolAmountOut > 0 /\ maxAmountIn > 0 /\ token \in Bound
    THEN {amountIn \in CalcTokenDepositsInGivenLpTokenAmount(records[token], totalShares,
                                                             poolAmountOut, swapFee) :
            /\ amountIn \in 1 .. maxAmountIn
            /\ WithinRatio(amountIn, records[token].balance, MAX_IN_RATIO)}
    ELSE {}

DepOutQuote(token, poolAmountOut, maxAmountIn) ==
  IF ~freeze /\ poolAmountOut > 0 /\ maxAmountIn > 0 /\ token \in Bound
    THEN {amountIn \in CalcTokenDepositsInGivenLpTokenAmount(records[token], totalShares,
                                                             poolAmountOut, swapFee) :
            /\ amountIn # 0
            /\ amountIn <= maxAmountIn
            /\ WithinRatio(amountIn, records[token].balance, MAX_IN_RATIO)
            /\ Checked(records[token].balance + amountIn) # {}}
    ELSE {}

WdrInQuote(token, poolAmountIn, minAmountOut) ==
  IF poolAmountIn > 0 /\ minAmountOut >= 0 /\ token \in Bound
    THEN {amountOut \in CalcTokenWithdrawalAmountGivenLpTokenAmount(records[token], totalShares,
                                                                    poolAmountIn, swapFee) :
            /\ amountOut >= minAmountOut
            /\ WithinRatio(amountOut, records[token].balance, MAX_OUT_RATIO)
            /\ amountOut <= records[token].balance}
    ELSE {}

WdrOutQuote(token, amountOut, maxPoolAmountIn) ==
  IF /\ amountOut > 0 /\ maxPoolAmountIn > 0
     /\ token \in Bound
     /\ WithinRatio(amountOut, records[token].balance, MAX_OUT_RATIO)
     /\ amountOut <= records[token].balance
    THEN {poolAmountIn \in CalcLpTokenAmountGivenTokenWithdrawalAmount(records[token], totalShares,
                                                                       amountOut, swapFee) :
            poolAmountIn # 0 /\ poolAmountIn <= maxPoolAmountIn}
    ELSE {}

Deposit(user, token, amountIn, poolAmountOut) ==
  /\ CanPull(token, user, amountIn)
  /\ records' = Changed(records, token, amountIn)
  /\ tokenBalance' = AfterPaying(user, [t \in {token} |-> amountIn])
  /\ MintShares(user, poolAmountOut)
  /\ UNCHANGED <<controller, swapFee, freeze>>

\* Mutant of Withdraw: the controller of the pool is charged and paid instead
\* of the caller.
WithdrawOfController(user, token, amountOut, poolAmountIn) ==
  /\ RedeemShares(controller, poolAmountIn)
  /\ CanPush(token, amountOut)
  /\ records' = Changed(records, token, -amountOut)
  /\ tokenBalance' = AfterPaying(controller, [t \in {token} |-> -amountOut])
  /\ UNCHANGED <<controller, swapFee, freeze>>

Withdraw(user, token, amountOut, poolAmountIn) ==
  /\ RedeemShares(user, poolAmountIn)
  /\ CanPush(token, amountOut)
  /\ records' = Changed(records, token, -amountOut)
  /\ tokenBalance' = AfterPaying(user, [t \in {token} |-> -amountOut])
  /\ UNCHANGED <<controller, swapFee, freeze>>

DepToknAmtInGetLpToknsOut(user, token, amountIn, minPoolAmountOut) ==
  \E poolAmountOut \in DepInQuote(token, amountIn, minPoolAmountOut) :
    Deposit(user, token, amountIn, poolAmountOut)

DepLpToknAmtOutGetToknIn(user, token, poolAmountOut, maxAmountIn) ==
  \E amountIn \in DepOutQuote(token, poolAmountOut, maxAmountIn) :
    Deposit(user, token, amountIn, poolAmountOut)

WdrToknAmtInGetLpToknsOut(user, token, poolAmountIn, minAmountOut) ==
  \E amountOut \in WdrInQuote(token, poolAmountIn, minAmountOut) :
    Withdraw(user, token, amountOut, poolAmountIn)

WdrToknAmtOutGetLpToknsIn(user, token, amountOut, maxPoolAmountIn) ==
  \E poolAmountIn \in WdrOutQuote(token, amountOut, maxPoolAmountIn) :
    Withdraw(user, token, amountOut, poolAmountIn)
-----------------------------------------------------------------------------
(***************************************************************************)
(* comet.rs, the controller's own entry points                             *)
(***************************************************************************)
SetController(caller, manager) ==
  /\ caller = controller
  /\ controller' = manager
  /\ UNCHANGED <<swapFee, freeze, records, tokenBalance>>
  /\ UNCHANGED tokenVars

SetFreezeStatus(caller, val) ==
  /\ caller = controller
  /\ freeze' = val
  /\ UNCHANGED <<controller, swapFee, records, tokenBalance>>
  /\ UNCHANGED tokenVars

\* External: a bound token is sent to the pool's address, past the pool.
Donate(user, token, amount) ==
  /\ amount > 0
  /\ CanPull(token, user, amount)
  /\ tokenBalance' = AfterPaying(user, [t \in {token} |-> amount])
  /\ UNCHANGED poolVars
  /\ UNCHANGED tokenVars

\* The shares change hands, or are burned, without the pool knowing.
HolderStep == HolderNext /\ UNCHANGED <<controller, swapFee, freeze, records, tokenBalance>>
-----------------------------------------------------------------------------
Init ==
  /\ TokenInit
  /\ controller = NoController
  /\ swapFee = 0
  /\ freeze = FALSE
  /\ records = <<>>   \* the function with no domain
  /\ tokenBalance = [t \in Tokens |->
                       [a \in Addresses |-> IF a = Pool THEN 0 ELSE Endowment[t][a]]]

\* What user may call; require_auth makes him the one that authorised it.
InitCall(user) ==
  \E tokens \in InitTokens, weights \in InitWeights, balances \in InitBalances, fee \in SwapFees :
    InitPool(user, tokens, weights, balances, fee)

JoinCall(user) == \E shares \in Amounts, limits \in [Bound -> MaxLimits] :
                    JoinPool(user, shares, limits)

ExitCall(user) == \E shares \in Amounts, limits \in [Bound -> MinLimits] :
                    ExitPool(user, shares, limits)

SwapCall(user) ==
  \E in, out \in Tokens, amount \in TokenAmounts, price \in MaxLimits :
    \/ \E limit \in MinLimits : SwapExactAmountIn(user, in, amount, out, limit, price)
    \/ \E limit \in MaxLimits : SwapExactAmountOut(user, in, limit, out, amount, price)

DepositCall(user) ==
  \E token \in Tokens :
    \/ \E amount \in TokenAmounts, limit \in MinLimits :
         DepToknAmtInGetLpToknsOut(user, token, amount, limit)
    \/ \E shares \in Amounts, limit \in MaxLimits :
         DepLpToknAmtOutGetToknIn(user, token, shares, limit)

WithdrawCall(user) ==
  \E token \in Tokens :
    \/ \E shares \in Amounts, limit \in MinLimits :
         WdrToknAmtInGetLpToknsOut(user, token, shares, limit)
    \/ \E amount \in TokenAmounts, limit \in MaxLimits :
         WdrToknAmtOutGetLpToknsIn(user, token, amount, limit)

InitNext     == \E user \in Users : InitCall(user)
JoinNext     == \E user \in Users : JoinCall(user)
ExitNext     == \E user \in Users : ExitCall(user)
SwapNext     == \E user \in Users : SwapCall(user)
DepositNext  == \E user \in Users : DepositCall(user)
WithdrawNext == \E user \in Users : WithdrawCall(user)

AdminNext ==
  \E user \in Users :
    \/ \E manager \in Users : SetController(user, manager)
    \/ \E val \in BOOLEAN : SetFreezeStatus(user, val)

DonateNext == \E user \in Users, token \in Tokens, amount \in TokenAmounts :
                Donate(user, token, amount)

PoolNext == InitNext \/ JoinNext \/ ExitNext \/ SwapNext \/ DepositNext \/ WithdrawNext

Next == PoolNext \/ AdminNext \/ DonateNext \/ HolderStep

Spec == Init /\ [][Next]_vars
-----------------------------------------------------------------------------
(***************************************************************************)
(* Properties                                                              *)
(***************************************************************************)
Record == [balance : Nat, weight : MIN_WEIGHT .. MAX_WEIGHT, scalar : Nat \ {0}]

\* The types of the pool's storage and of the ledgers of the bound tokens.
TypeOK ==
  /\ TokenTypeOK
  /\ controller \in Users \cup {NoController}
  /\ swapFee \in 0 .. MAX_FEE
  /\ freeze \in BOOLEAN
  /\ Bound \subseteq Tokens
  /\ records \in [Bound -> Record]
  /\ tokenBalance \in [Tokens -> [Addresses -> Nat]]

\* The six operations whose price is a power.
SwapInStep(in, out) ==
  \E user \in Users, amount \in TokenAmounts, limit \in MinLimits, price \in MaxLimits :
    SwapExactAmountIn(user, in, amount, out, limit, price)

SwapOutStep(in, out) ==
  \E user \in Users, amount \in TokenAmounts, limit \in MaxLimits, price \in MaxLimits :
    SwapExactAmountOut(user, in, limit, out, amount, price)

DepositOfAmount(token) ==
  \E user \in Users, amount \in TokenAmounts, limit \in MinLimits :
    DepToknAmtInGetLpToknsOut(user, token, amount, limit)

WithdrawOfAmount(token) ==
  \E user \in Users, amount \in TokenAmounts, limit \in MaxLimits :
    WdrToknAmtOutGetLpToknsIn(user, token, amount, limit)

DepositForShares(token) ==
  \E user \in Users, shares \in Amounts, limit \in MaxLimits :
    DepLpToknAmtOutGetToknIn(user, token, shares, limit)

WithdrawForShares(token) ==
  \E user \in Users, shares \in Amounts, limit \in MinLimits :
    WdrToknAmtInGetLpToknsOut(user, token, shares, limit)

\* Whatever the pool believes it holds of a token it does hold: the balances
\* it computes prices and payouts from are its own records, which eight
\* handlers change next to, and never from, the token's own ledger.
Solvent == \A t \in Bound : records[t].balance <= tokenBalance[t][Pool]

\* While shares exist no bound token is ever drained to zero: not by swaps
\* and one-token withdrawals of up to a third each, however many in a row,
\* and not by exits with less than all of the shares.  A token at zero could
\* never be paid out again and would make exit_pool panic for every holder
\* (pool.rs:88).
NoDrainedToken == totalShares > 0 => \A t \in Bound : records[t].balance > 0

\* Whoever holds every share there is gets everything on record out of
\* exit_pool in one call, frozen or not: no rounding stands in the way.
LastHolderGetsEverything ==
  totalShares > 0 =>
    \E ratio \in CalcExitRatio(totalShares, totalShares) :
      \A t \in Bound : CalcExitWithdrawalAmount(records[t], ratio) = {records[t].balance}

\* While the pool is frozen it only pays out: no balance on record grows and
\* no share is created ("only allows withdrawals", comet.rs:209), in
\* whichever of the five other entry points a caller tries.
FrozenOnlyPaysOut ==
  [][freeze => /\ totalShares' <= totalShares
               /\ \A t \in Bound : records'[t].balance <= records[t].balance]_vars

\* A pool whose last share is gone, by exits or by burns, never has a share
\* again: no deposit into what is left behind can mint one and claim it.
ZeroSupplyIsFinal == [][Initialized /\ totalShares = 0 => totalShares' = 0]_vars

\* Shares that were sent to the pool's own address stay there.  Every
\* redemption moves the caller's shares to that address and burns as many
\* from it (token_utility.rs:43-61), and must never burn these instead.
SharesOfThePoolStay == [][lpBalance'[Pool] >= lpBalance[Pool]]_vars

\* Joining, leaving, and burning one's shares never dilutes the others: per
\* share the pool holds afterwards at least as much of every single token.
JoinAndExitNeverDilute ==
  [][totalShares' # totalShares /\ (JoinNext \/ ExitNext \/ HolderStep) =>
     \A t \in Bound :
       records'[t].balance * totalShares >= records[t].balance * totalShares']_vars

\* The product of x to the power of k and y is less after a step of no shares.
ValueFalls(x, k, y) ==
  /\ UNCHANGED totalShares
  /\ Pow(records'[x].balance, k) * records'[y].balance
       < Pow(records[x].balance, k) * records[y].balance

\* A swap whose weights make its exponent a whole number k, which is then a
\* product of k rounded factors and not a series, leaves the pool's invariant
\* where it was or higher, however small the amounts and the balances: the
\* roundings of c_math.rs:34-104 and of c_powi all favour the pool, and none
\* needs the fee to make up for it.
SwapsByWholePowersLoseNothing ==
  [][\A in, out \in Bound, k \in 1 .. 9 :
       /\ records[in].weight = k * records[out].weight /\ ValueFalls(in, k, out)
            => ~SwapInStep(in, out)
       /\ records[out].weight = k * records[in].weight /\ ValueFalls(out, k, in)
            => ~SwapOutStep(in, out)]_vars

\* What a token contributes to the worth of a share, to the power of k, is less
\* after a step that moves the token.
WorthFalls(token, k) ==
  /\ records'[token].balance # records[token].balance
  /\ records'[token].balance * Pow(totalShares, k)
       < records[token].balance * Pow(totalShares', k)

\* Where the weight of a token is the k-th part of one, a deposit of it for a
\* given number of shares, and a withdrawal of it for as many, leaves every
\* share worth what it was or more: the token's balance over the k-th power of
\* the supply, which all other balances leave alone, does not fall.
SharesByWholePowersKeepTheirWorth ==
  [][\A token \in Bound, k \in 1 .. 10 :
       k * records[token].weight = STROOP /\ WorthFalls(token, k)
         => ~DepositForShares(token) /\ ~WithdrawForShares(token)]_vars

\* The quantity moves from x to x2 by so little that the base of the power is
\* within CPOW_PRECISION of one, also with the largest fee added to the change.
BarelyMoves(x, x2) ==
  \A z \in {x, x2} : 2 * Abs(x2 - x) * BONE <= CPOW_PRECISION * z

IsGcd(d, a, b) ==
  /\ a % d = 0 /\ b % d = 0
  /\ \A e \in d + 1 .. a : ~(a % e = 0 /\ b % e = 0)

\* The invariant of two tokens, to the power that makes their weights whole
\* numbers without a common divisor, is less after the step.
WeightedValueFalls(x, y) ==
  \E d \in 1 .. records[x].weight :
    LET m == records[x].weight \div d
        n == records[y].weight \div d
    IN /\ IsGcd(d, records[x].weight, records[y].weight)
       /\ Pow(records'[x].balance, m) * Pow(records'[y].balance, n)
            < Pow(records[x].balance, m) * Pow(records[y].balance, n)

\* Whatever the weights, a swap so small that the series of its power ends on
\* the first term leaves the invariant of the two tokens where it was or
\* higher: nothing is to be had from repeating swaps of a few units, with which
\* every rounding and the one-unit correction of c_num.rs:120 are felt most.
SmallSwapsLoseNothing ==
  [][\A in, out \in Bound :
       /\ BarelyMoves(records[in].balance, records'[in].balance) /\ WeightedValueFalls(in, out)
            => ~SwapInStep(in, out)
       /\ BarelyMoves(records[out].balance, records'[out].balance) /\ WeightedValueFalls(in, out)
            => ~SwapOutStep(in, out)]_vars

\* The worth of a share in a token, to the power that makes the weight of the
\* token and one whole numbers without a common divisor, is less after the step.
WeightedWorthFalls(token) ==
  \E d \in 1 .. records[token].weight :
    LET m == records[token].weight \div d
        n == STROOP \div d
    IN /\ IsGcd(d, records[token].weight, STROOP)
       /\ Pow(records'[token].balance, m) * Pow(totalShares, n)
            < Pow(records[token].balance, m) * Pow(totalShares', n)

\* The same of the four one-token deposits and withdrawals: if small, none of
\* them lowers what a share is worth, in either direction of rounding.
SmallSharesKeepTheirWorth ==
  [][\A token \in Bound :
       /\ BarelyMoves(records[token].balance, records'[token].balance)
            /\ (DepositOfAmount(token) \/ WithdrawOfAmount(token)) => ~WeightedWorthFalls(token)
       /\ BarelyMoves(totalShares, totalShares')
            /\ (DepositForShares(token) \/ WithdrawForShares(token)) => ~WeightedWorthFalls(token)]_vars

\* What init has settled is never changed: which tokens are bound, their
\* weights and scalars, and the fee.
InitIsFinal ==
  [][Initialized =>
       /\ DOMAIN records' = Bound
       /\ swapFee' = swapFee
       /\ \A t \in Bound : /\ records'[t].weight = records[t].weight
                           /\ records'[t].scalar = records[t].scalar]_vars

\* A pool that exists is well formed, whatever vectors init was called with
\* and whoever called it first: at least two different tokens, weights that
\* add up to one, and a fee between the bounds of c_consts.rs.
WellFormedPool ==
  Initialized =>
    /\ \E t, u \in Bound : t # u
    /\ SumFunction([t \in Bound |-> records[t].weight]) = STROOP
    /\ swapFee \in MIN_FEE .. MAX_FEE

\* A token that joins have made too many of to be scaled to 18 decimals in an
\* i128 is never priced by a product that has lost its upper digits: whatever
\* is called, its balance on record does not move any more (c_math.rs:289).
OutgrownTokensStay ==
  [][\A t \in Bound : records[t].balance * records[t].scalar > I128Max =>
                        records'[t] = records[t]]_vars

\* What the comment at c_math.rs:287 says of upscale, which every computation
\* with a balance begins with: it fails for an amount beyond 10^18 * scalar.
UpscaleFailsBeyondOne ==
  [][\A t \in Bound : records[t].balance > BONE * records[t].scalar =>
                        records'[t] = records[t]]_vars

\* An invocation of one of the eight entry points of pool.rs, or of init.
PoolCall(user) == \/ InitCall(user) \/ JoinCall(user) \/ ExitCall(user)
                  \/ SwapCall(user) \/ DepositCall(user) \/ WithdrawCall(user)

OthersKeepTheirs(user) ==
  \A other \in Users \ {user} :
    /\ lpBalance'[other] = lpBalance[other]
    /\ \A t \in Tokens : tokenBalance'[t][other] = tokenBalance[t][other]

\* The shares of owner that user may move without owner's authorisation.
MayTake(user, owner) == IF user \in Spenders THEN ReadAllowance(owner, user) ELSE 0

\* Whoever authorises an invocation is the one it is about.  What a user calls
\* of the pool changes the shares and the tokens of nobody but that user; what
\* he calls of the share token takes from others no more than they approved.
OnlyTheCallerIsAffected ==
  [][\A user \in Users :
       /\ PoolCall(user) => OthersKeepTheirs(user)
       /\ HolderCall(user) => \A other \in Users \ {user} :
            lpBalance[other] - lpBalance'[other] <= MayTake(user, other)]_vars

Promise == INSTANCE Vault WITH
  Nobody  <- NoController,
  owner   <- controller,
  frozen  <- freeze,
  terms   <- [fee |-> swapFee, weight |-> [t \in Bound |-> records[t].weight],
              scalar |-> [t \in Bound |-> records[t].scalar]],
  booked  <- [t \in Bound |-> records[t].balance],
  ledgers <- tokenBalance,
  shares  <- lpBalance,
  supply  <- totalShares

\* The pool is a vault: whatever the eight entry points of pool.rs compute, in
\* whatever order they are called, each moves between the pool and its caller
\* exactly what it puts on record, gives or takes shares of nobody else, and
\* leaves what init has settled alone.
PoolIsAVault == Promise!Spec
=============================================================================
