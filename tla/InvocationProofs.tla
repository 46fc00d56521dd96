-------------------------- MODULE InvocationProofs --------------------------
(***************************************************************************)
(* Invocations that are executed effect by effect look atomic to everybody *)
(* else, for every set of users and tokens and all arguments: Invocation   *)
(* implements CometPool, whose entry points take one step each.  The same  *)
(* inductive invariant, InvocationOK, gives that the limits of a caller    *)
(* are kept over all of his invocation and that the events are true.       *)
(***************************************************************************)
EXTENDS Invocation, CometPoolProofs, SequenceTheorems

(***************************************************************************)
(* What others see of the pool while an invocation is being executed: what *)
(* was there before it, which is what Atomic puts for the variables.       *)
(***************************************************************************)
SeenShares     == IF call = NoCall THEN lpBalance ELSE call.saved.lpBalance
SeenTotal      == IF call = NoCall THEN totalShares ELSE call.saved.totalShares
SeenController == IF call = NoCall THEN controller ELSE call.saved.controller
SeenFee        == IF call = NoCall THEN swapFee ELSE call.saved.swapFee
SeenRecords    == IF call = NoCall THEN records ELSE call.saved.records
SeenLedgers    == IF call = NoCall THEN tokenBalance ELSE call.saved.tokenBalance
SeenReplayed   == IF call = NoCall THEN replayed ELSE call.saved.replayed

\* The balance of a token in a table of records, bound or not.
Recorded(recs, t) == IF t \in DOMAIN recs THEN recs[t].balance ELSE 0

BookRecord == [balance : Int, weight : Int, scalar : Int]

IsBook(recs) == DOMAIN recs \subseteq Tokens /\ recs \in [DOMAIN recs -> BookRecord]

\* The events up to now, added up, give the balances in a table of records.
Tell(events, recs) ==
  events \in [Tokens -> Int] /\ \A t \in Tokens : events[t] = Recorded(recs, t)

SeenOK ==
  /\ SeenShares \in [Addresses -> Int] /\ SeenTotal \in Int
  /\ SeenLedgers \in [Tokens -> [Addresses -> Int]]
  /\ IsBook(SeenRecords)
  /\ SeenController = NoController => DOMAIN SeenRecords = {}
  /\ Tell(SeenReplayed, SeenRecords)
-----------------------------------------------------------------------------
(***************************************************************************)
(* How far an invocation has come: what it has moved, stored and issued.   *)
(***************************************************************************)
\* What the records that the invocation is about to store, or has stored, say
\* that the user pays of a token.
Owed(t) == Recorded(call.local, t) - Recorded(call.saved.records, t)

CallFields == {"user", "signedAt", "most", "shares", "accepted", "saved", "local", "todo"}

CallOK == DOMAIN call = CallFields /\ call.user \in Users /\ outcome = "none"

\* The tokens have moved what is owed, except for those in waiting.
MovedBut(waiting) ==
  /\ tokenBalance \in [Tokens -> [Addresses -> Int]]
  /\ \A t \in Tokens :
       tokenBalance[t] =
         IF t \in waiting
           THEN call.saved.tokenBalance[t]
           ELSE [call.saved.tokenBalance[t] EXCEPT ![call.user] = @ - Owed(t),
                                                   ![Pool] = @ + Owed(t)]

PaidIn(t, amount)  == amount \in 0 .. call.saved.tokenBalance[t][call.user]
PaidOut(t, amount) == amount \in 0 .. call.saved.tokenBalance[t][Pool]

NotStored == records = call.saved.records
Stored    == records = call.local

NotIssued == lpBalance = call.saved.lpBalance /\ totalShares = call.saved.totalShares

Issued(amount) ==
  /\ amount >= 0
  /\ Checked(call.saved.totalShares + amount) # {}
  /\ totalShares = call.saved.totalShares + amount
  /\ CanReceive(call.saved.lpBalance, call.user, amount)
  /\ lpBalance = Received(call.saved.lpBalance, call.user, amount)

Redeemed(amount) ==
  LET afterSpend == Spent(call.saved.lpBalance, call.user, amount)
      afterPull  == Received(afterSpend, Pool, amount)
  IN /\ amount >= 0
     /\ CanSpend(call.saved.lpBalance, call.user, amount)
     /\ CanReceive(afterSpend, Pool, amount)
     /\ CanSpend(afterPull, Pool, amount)
     /\ lpBalance = Spent(afterPull, Pool, amount)
     /\ totalShares = call.saved.totalShares - amount

TermsKept == controller = call.saved.controller /\ swapFee = call.saved.swapFee

WithinMost == \A t \in Tokens : Owed(t) <= call.most[t]

\* The effects that are still to come.
Approving(t, limit)   == [do |-> "approve", token |-> t, amount |-> limit]
Taking(t, amount)     == [do |-> "take", token |-> t, amount |-> amount]
Giving(t, amount)     == [do |-> "give", token |-> t, amount |-> amount]
Depositing(t, amount) == [do |-> "deposit", token |-> t, amount |-> amount]
Minting(amount)       == [do |-> "mint", amount |-> amount]
Redeeming(amount)     == [do |-> "redeem", amount |-> amount]
StoringAll            == [do |-> "store all"]
Storing(tokens)       == [do |-> "store", tokens |-> tokens]
Joining(ratio, tokens, limits) ==
  [do |-> "join", ratio |-> ratio, tokens |-> tokens, limits |-> limits]
Exiting(ratio, tokens, limits) ==
  [do |-> "exit", ratio |-> ratio, tokens |-> tokens, limits |-> limits]
Opening(i, tokens, weights, balances, fee) ==
  [do |-> "init", i |-> i, tokens |-> tokens, weights |-> weights, balances |-> balances,
   fee |-> fee]
-----------------------------------------------------------------------------
(***************************************************************************)
(* The invocations.  Its terms are what an invocation has settled before   *)
(* its first effect, its stages what is true before each of them.          *)
(***************************************************************************)
Limits == TokenAmounts \cup MaxLimits

SwapTerms(in, amountIn, out, amountOut) ==
  /\ in \in DOMAIN call.saved.records /\ out \in DOMAIN call.saved.records /\ in # out
  /\ amountIn = Owed(in) /\ amountOut = -Owed(out)
  /\ \/ /\ amountIn \in TokenAmounts
        /\ \E limit \in MinLimits, price \in MaxLimits :
             amountOut \in Atomic!SwapInQuote(in, amountIn, out, limit, price)
     \/ /\ amountOut \in TokenAmounts
        /\ \E limit \in MaxLimits, price \in MaxLimits :
             amountIn \in Atomic!SwapOutQuote(in, limit, out, amountOut, price)
  /\ call.local = Changed(Changed(call.saved.records, in, amountIn), out, -amountOut)
  /\ WithinMost /\ call.shares = 0

SwapUnderway(in, amountIn, out, amountOut, limit, store) ==
  /\ SwapTerms(in, amountIn, out, amountOut)
  /\ store \in {StoringAll, Storing({in, out})}
  /\ TermsKept /\ NotIssued /\ Tell(replayed, call.local)
  /\ \/ /\ call.todo = <<Approving(in, limit), Taking(in, amountIn), Giving(out, amountOut), store>>
        /\ MovedBut({in, out}) /\ NotStored
     \/ /\ call.todo = <<Taking(in, amountIn), Giving(out, amountOut), store>>
        /\ MovedBut({in, out}) /\ NotStored
     \/ /\ call.todo = <<Giving(out, amountOut), store>>
        /\ MovedBut({out}) /\ NotStored /\ PaidIn(in, amountIn)
     \/ /\ call.todo = <<store>>
        /\ MovedBut({}) /\ NotStored /\ PaidIn(in, amountIn) /\ PaidOut(out, amountOut)
     \/ /\ call.todo = <<>>
        /\ MovedBut({}) /\ Stored /\ PaidIn(in, amountIn) /\ PaidOut(out, amountOut)

DepositTerms(token, amount, shares) ==
  /\ token \in DOMAIN call.saved.records
  /\ amount = Owed(token)
  /\ \/ /\ amount \in TokenAmounts
        /\ \E limit \in MinLimits : shares \in Atomic!DepInQuote(token, amount, limit)
     \/ /\ shares \in Amounts
        /\ \E limit \in MaxLimits : amount \in Atomic!DepOutQuote(token, shares, limit)
  /\ call.local = Changed(call.saved.records, token, amount)
  /\ WithinMost /\ call.shares <= shares

DepositUnderway(token, amount, limit, shares) ==
  /\ DepositTerms(token, amount, shares)
  /\ TermsKept /\ Tell(replayed, call.local)
  /\ \/ /\ call.todo = <<StoringAll, Approving(token, limit), Taking(token, amount),
                         Minting(shares)>>
        /\ MovedBut({token}) /\ NotStored /\ NotIssued
     \/ /\ call.todo = <<Approving(token, limit), Taking(token, amount), Minting(shares)>>
        /\ MovedBut({token}) /\ Stored /\ NotIssued
     \/ /\ call.todo = <<Taking(token, amount), Minting(shares)>>
        /\ MovedBut({token}) /\ Stored /\ NotIssued
     \/ /\ call.todo = <<Minting(shares)>>
        /\ MovedBut({}) /\ Stored /\ NotIssued /\ PaidIn(token, amount)
     \/ /\ call.todo = <<>>
        /\ MovedBut({}) /\ Stored /\ Issued(shares) /\ PaidIn(token, amount)

WithdrawTerms(token, amount, shares) ==
  /\ token \in DOMAIN call.saved.records
  /\ amount = -Owed(token)
  /\ \/ /\ shares \in Amounts
        /\ \E limit \in MinLimits : amount \in Atomic!WdrInQuote(token, shares, limit)
     \/ /\ amount \in TokenAmounts
        /\ \E limit \in MaxLimits : shares \in Atomic!WdrOutQuote(token, amount, limit)
  /\ call.local = Changed(call.saved.records, token, -amount)
  /\ WithinMost /\ call.shares <= -shares

WithdrawUnderway(token, amount, shares) ==
  /\ WithdrawTerms(token, amount, shares)
  /\ TermsKept /\ Tell(replayed, call.local)
  /\ \/ /\ call.todo = <<Redeeming(shares), Giving(token, amount), StoringAll>>
        /\ MovedBut({token}) /\ NotStored /\ NotIssued
     \/ /\ call.todo = <<Giving(token, amount), StoringAll>>
        /\ MovedBut({token}) /\ NotStored /\ Redeemed(shares)
     \/ /\ call.todo = <<StoringAll>>
        /\ MovedBut({}) /\ NotStored /\ Redeemed(shares) /\ PaidOut(token, amount)
     \/ /\ call.todo = <<>>
        /\ MovedBut({}) /\ Stored /\ Redeemed(shares) /\ PaidOut(token, amount)

\* The records to be stored differ from those saved in the balances only.
BalancesOnly ==
  /\ IsBook(call.local) /\ DOMAIN call.local = DOMAIN call.saved.records
  /\ \A t \in DOMAIN call.local :
       call.local[t] = [call.saved.records[t] EXCEPT !.balance = @ + Owed(t)]

JoinTerms(shares, ratio, limits, left) ==
  /\ shares \in Amounts /\ limits \in [DOMAIN call.saved.records -> MaxLimits]
  /\ ratio \in Atomic!JoinRatios(shares)
  /\ left \subseteq DOMAIN call.saved.records
  /\ BalancesOnly
  /\ \A t \in left : Owed(t) = 0
  /\ \A t \in DOMAIN call.saved.records \ left :
       Owed(t) \in JoinDue(call.saved.records[t], ratio, limits[t])
  /\ call.most = Agreed(limits) /\ call.shares = shares

AllPaidIn(tokens)  == \A t \in tokens : PaidIn(t, Owed(t))
AllPaidOut(tokens) == \A t \in tokens : PaidOut(t, -Owed(t))

JoinUnderway(shares, ratio, limits, left) ==
  LET paid == DOMAIN call.saved.records \ left
  IN /\ JoinTerms(shares, ratio, limits, left)
     /\ TermsKept /\ Tell(replayed, call.local)
     /\ \/ /\ call.todo = <<Joining(ratio, left, limits), StoringAll, Minting(shares)>>
           /\ MovedBut({}) /\ NotStored /\ NotIssued /\ AllPaidIn(paid)
        \/ \E t \in paid : \E due \in {Owed(t)} :
             /\ \/ call.todo = IF left = {}
                     THEN <<Approving(t, limits[t]), Taking(t, due), StoringAll, Minting(shares)>>
                     ELSE <<Approving(t, limits[t]), Taking(t, due), Joining(ratio, left, limits),
                            StoringAll, Minting(shares)>>
                \/ call.todo = IF left = {}
                     THEN <<Taking(t, due), StoringAll, Minting(shares)>>
                     ELSE <<Taking(t, due), Joining(ratio, left, limits), StoringAll,
                            Minting(shares)>>
             /\ MovedBut({t}) /\ NotStored /\ NotIssued /\ AllPaidIn(paid \ {t})
        \/ /\ left = {} /\ call.todo = <<StoringAll, Minting(shares)>>
           /\ MovedBut({}) /\ NotStored /\ NotIssued /\ AllPaidIn(paid)
        \/ /\ left = {} /\ call.todo = <<Minting(shares)>>
           /\ MovedBut({}) /\ Stored /\ NotIssued /\ AllPaidIn(paid)
        \/ /\ left = {} /\ call.todo = <<>>
           /\ MovedBut({}) /\ Stored /\ Issued(shares) /\ AllPaidIn(paid)

ExitTerms(shares, ratio, limits, left) ==
  /\ shares \in Amounts /\ limits \in [DOMAIN call.saved.records -> MinLimits]
  /\ ratio \in Atomic!ExitRatios(shares)
  /\ left \subseteq DOMAIN call.saved.records
  /\ BalancesOnly
  /\ \A t \in left : Owed(t) = 0
  /\ \A t \in DOMAIN call.saved.records \ left :
       -Owed(t) \in ExitDue(call.saved.records[t], ratio, limits[t])
  /\ call.most = Agreed([t \in DOMAIN call.saved.records |-> -limits[t]])
  /\ call.shares = -shares

ExitUnderway(shares, ratio, limits, left) ==
  LET paid == DOMAIN call.saved.records \ left
  IN /\ ExitTerms(shares, ratio, limits, left)
     /\ TermsKept /\ Tell(replayed, call.local)
     /\ \/ /\ call.todo = <<Redeeming(shares), Exiting(ratio, left, limits), StoringAll>>
           /\ MovedBut({}) /\ NotStored /\ NotIssued /\ AllPaidOut(paid)
        \/ /\ call.todo = <<Exiting(ratio, left, limits), StoringAll>>
           /\ MovedBut({}) /\ NotStored /\ Redeemed(shares) /\ AllPaidOut(paid)
        \/ \E t \in paid : \E due \in {-Owed(t)} :
             /\ call.todo = IF left = {}
                  THEN <<Giving(t, due), StoringAll>>
                  ELSE <<Giving(t, due), Exiting(ratio, left, limits), StoringAll>>
             /\ MovedBut({t}) /\ NotStored /\ Redeemed(shares) /\ AllPaidOut(paid \ {t})
        \/ /\ left = {} /\ call.todo = <<StoringAll>>
           /\ MovedBut({}) /\ NotStored /\ Redeemed(shares) /\ AllPaidOut(paid)
        \/ /\ left = {} /\ call.todo = <<>>
           /\ MovedBut({}) /\ Stored /\ Redeemed(shares) /\ AllPaidOut(paid)

InitTerms(tokens, weights, balances, fee) ==
  /\ tokens \in InitTokens /\ weights \in InitWeights
  /\ balances \in InitBalances /\ fee \in SwapFees
  /\ call.saved.controller = NoController
  /\ Len(tokens) \in 2 .. 8
  /\ Len(weights) = Len(tokens) /\ Len(balances) = Len(tokens)
  /\ fee \in MIN_FEE .. MAX_FEE
  /\ call.most = Agreed(GivenTo(tokens, balances)) /\ call.shares = INIT_POOL_SUPPLY

\* The loop of init has been through the first n tokens.
Listed(n, tokens, weights, balances) ==
  /\ IsBook(call.local) /\ DOMAIN call.local = {tokens[j] : j \in 1 .. n}
  /\ \A j, k \in 1 .. n : tokens[j] = tokens[k] => j = k
  /\ \A j \in 1 .. n :
       /\ weights[j] \in MIN_WEIGHT .. MAX_WEIGHT
       /\ balances[j] >= MIN_BALANCE
       /\ Scalar[tokens[j]] > 0
       /\ call.local[tokens[j]] = [balance |-> balances[j], weight |-> weights[j],
                                   scalar |-> Scalar[tokens[j]]]

AddUp(weights) == FoldFunction(+, 0, weights) = STROOP

InitUnderway(tokens, weights, balances, fee, n) ==
  /\ InitTerms(tokens, weights, balances, fee)
  /\ Listed(n, tokens, weights, balances)
  /\ \/ /\ call.todo = <<Opening(n + 1, tokens, weights, balances, fee)>>
        /\ MovedBut({}) /\ NotStored /\ NotIssued /\ TermsKept
        /\ AllPaidIn({tokens[j] : j \in 1 .. n}) /\ Tell(replayed, call.saved.records)
     \/ /\ n > 0
        /\ call.todo = <<Depositing(tokens[n], balances[n]),
                         Opening(n + 1, tokens, weights, balances, fee)>>
        /\ MovedBut({tokens[n]}) /\ NotStored /\ NotIssued /\ TermsKept
        /\ AllPaidIn({tokens[j] : j \in 1 .. n - 1}) /\ Tell(replayed, call.saved.records)
     \/ /\ n = Len(tokens) /\ AddUp(weights)
        /\ call.todo = <<>>
        /\ MovedBut({}) /\ Stored /\ Issued(INIT_POOL_SUPPLY)
        /\ controller = call.user /\ swapFee = fee
        /\ AllPaidIn({tokens[j] : j \in 1 .. n}) /\ Tell(replayed, call.local)

Underway ==
  \/ \E in, out \in Tokens, limit \in Limits :
       \E amountIn \in {Owed(in)}, amountOut \in {-Owed(out)}, store \in {StoringAll, Storing({in, out})} :
         SwapUnderway(in, amountIn, out, amountOut, limit, store)
  \/ \E token \in Tokens, limit \in Limits : \E amount \in {Owed(token)}, shares \in Int :
       DepositUnderway(token, amount, limit, shares)
  \/ \E token \in Tokens : \E amount \in {-Owed(token)}, shares \in Int :
       WithdrawUnderway(token, amount, shares)
  \/ \E shares \in Amounts : \E ratio \in Atomic!JoinRatios(shares),
        limits \in [DOMAIN call.saved.records -> MaxLimits],
        left \in SUBSET DOMAIN call.saved.records : JoinUnderway(shares, ratio, limits, left)
  \/ \E shares \in Amounts : \E ratio \in Atomic!ExitRatios(shares),
        limits \in [DOMAIN call.saved.records -> MinLimits],
        left \in SUBSET DOMAIN call.saved.records : ExitUnderway(shares, ratio, limits, left)
  \/ \E tokens \in InitTokens, weights \in InitWeights, balances \in InitBalances,
        fee \in SwapFees : \E n \in 0 .. Len(tokens) :
          InitUnderway(tokens, weights, balances, fee, n)

\* The invariant: what is seen is sound, and what is not seen yet is on its way.
InvocationOK == SeenOK /\ (call # NoCall => CallOK /\ Underway)

(***************************************************************************)
(* The arithmetic of Atomic is that of the pool.                           *)
(***************************************************************************)
LEMMA SamePrices ==
  \A in, out, amount, fee :
    /\ Atomic!CalcSpotPrice(in, out, fee) = CalcSpotPrice(in, out, fee)
    /\ Atomic!CalcTokenOutGivenTokenIn(in, out, amount, fee)
         = CalcTokenOutGivenTokenIn(in, out, amount, fee)
    /\ Atomic!CalcTokenInGivenTokenOut(in, out, amount, fee)
         = CalcTokenInGivenTokenOut(in, out, amount, fee)
<1> USE DEF Atomic!CPow, CPow, Atomic!MIN_CPOW_BASE, MIN_CPOW_BASE, Atomic!MAX_CPOW_BASE,
            MAX_CPOW_BASE, Atomic!CPowValue, CPowValue, Atomic!CPowi, CPowi, Atomic!PowiState,
            PowiState, Atomic!PowiStep, PowiStep, Atomic!RoundedMul, RoundedMul,
            Atomic!FixedMulFloor, FixedMulFloor, Atomic!FixedMulCeil, FixedMulCeil,
            Atomic!FixedDivFloor, FixedDivFloor, Atomic!FixedDivCeil, FixedDivCeil,
            Atomic!CPowApprox, CPowApprox, Atomic!PowSeries, PowSeries, Atomic!SeriesState,
            SeriesState, Atomic!SeriesCap, SeriesCap, Atomic!SeriesEnds, SeriesEnds,
            Atomic!Abs, Abs, Atomic!SeriesStep, SeriesStep, Atomic!NextTerm, NextTerm,
            Atomic!Correction, Correction, Atomic!SubNoNegative, SubNoNegative,
            Atomic!CanUpscale, CanUpscale, Atomic!DownscaleFloor, DownscaleFloor,
            Atomic!DownscaleCeil, DownscaleCeil, Atomic!Checked, Checked, Atomic!I128, I128,
            Atomic!AfterFee, AfterFee
<1> TAKE in, out, amount, fee
<1>1. Atomic!CalcSpotPrice(in, out, fee) = CalcSpotPrice(in, out, fee)
  BY SMT DEF Atomic!CalcSpotPrice, CalcSpotPrice, Atomic!NarrowDivFloor, NarrowDivFloor
<1>2. Atomic!CalcTokenOutGivenTokenIn(in, out, amount, fee)
        = CalcTokenOutGivenTokenIn(in, out, amount, fee)
  BY SMT DEF Atomic!CalcTokenOutGivenTokenIn, CalcTokenOutGivenTokenIn
<1>3. Atomic!CalcTokenInGivenTokenOut(in, out, amount, fee)
        = CalcTokenInGivenTokenOut(in, out, amount, fee)
  BY SMT DEF Atomic!CalcTokenInGivenTokenOut, CalcTokenInGivenTokenOut
<1> QED
  BY <1>1, <1>2, <1>3

LEMMA SameOneTokenPrices ==
  \A record, supply, amount, fee :
    /\ Atomic!CalcLpTokenAmountGivenTokenDepositsIn(record, supply, amount, fee)
         = CalcLpTokenAmountGivenTokenDepositsIn(record, supply, amount, fee)
    /\ Atomic!CalcTokenDepositsInGivenLpTokenAmount(record, supply, amount, fee)
         = CalcTokenDepositsInGivenLpTokenAmount(record, supply, amount, fee)
    /\ Atomic!CalcLpTokenAmountGivenTokenWithdrawalAmount(record, supply, amount, fee)
         = CalcLpTokenAmountGivenTokenWithdrawalAmount(record, supply, amount, fee)
    /\ Atomic!CalcTokenWithdrawalAmountGivenLpTokenAmount(record, supply, amount, fee)
         = CalcTokenWithdrawalAmountGivenLpTokenAmount(record, supply, amount, fee)
<1> USE DEF Atomic!CPow, CPow, Atomic!MIN_CPOW_BASE, MIN_CPOW_BASE, Atomic!MAX_CPOW_BASE,
            MAX_CPOW_BASE, Atomic!CPowValue, CPowValue, Atomic!CPowi, CPowi, Atomic!PowiState,
            PowiState, Atomic!PowiStep, PowiStep, Atomic!RoundedMul, RoundedMul,
            Atomic!FixedMulFloor, FixedMulFloor, Atomic!FixedMulCeil, FixedMulCeil,
            Atomic!FixedDivFloor, FixedDivFloor, Atomic!FixedDivCeil, FixedDivCeil,
            Atomic!CPowApprox, CPowApprox, Atomic!PowSeries, PowSeries, Atomic!SeriesState,
            SeriesState, Atomic!SeriesCap, SeriesCap, Atomic!SeriesEnds, SeriesEnds,
            Atomic!Abs, Abs, Atomic!SeriesStep, SeriesStep, Atomic!NextTerm, NextTerm,
            Atomic!Correction, Correction, Atomic!SubNoNegative, SubNoNegative,
            Atomic!CanUpscale, CanUpscale, Atomic!DownscaleFloor, DownscaleFloor,
            Atomic!DownscaleCeil, DownscaleCeil, Atomic!Checked, Checked, Atomic!I128, I128,
            Atomic!AfterFee, AfterFee
<1> TAKE record, supply, amount, fee
<1>1. Atomic!CalcLpTokenAmountGivenTokenDepositsIn(record, supply, amount, fee)
        = CalcLpTokenAmountGivenTokenDepositsIn(record, supply, amount, fee)
  BY SMT DEF Atomic!CalcLpTokenAmountGivenTokenDepositsIn, CalcLpTokenAmountGivenTokenDepositsIn
<1>2. Atomic!CalcTokenDepositsInGivenLpTokenAmount(record, supply, amount, fee)
        = CalcTokenDepositsInGivenLpTokenAmount(record, supply, amount, fee)
  BY SMT DEF Atomic!CalcTokenDepositsInGivenLpTokenAmount, CalcTokenDepositsInGivenLpTokenAmount
<1>3. Atomic!CalcLpTokenAmountGivenTokenWithdrawalAmount(record, supply, amount, fee)
        = CalcLpTokenAmountGivenTokenWithdrawalAmount(record, supply, amount, fee)
  BY SMT DEF Atomic!CalcLpTokenAmountGivenTokenWithdrawalAmount,
             CalcLpTokenAmountGivenTokenWithdrawalAmount
<1>4. Atomic!CalcTokenWithdrawalAmountGivenLpTokenAmount(record, supply, amount, fee)
        = CalcTokenWithdrawalAmountGivenLpTokenAmount(record, supply, amount, fee)
  BY SMT DEF Atomic!CalcTokenWithdrawalAmountGivenLpTokenAmount,
             CalcTokenWithdrawalAmountGivenLpTokenAmount
<1> QED
  BY <1>1, <1>2, <1>3, <1>4

LEMMA SameJoinsAndExits ==
  \A record, ratio, supply, amount, limit :
    /\ Atomic!CalcJoinRatio(supply, amount) = CalcJoinRatio(supply, amount)
    /\ Atomic!CalcExitRatio(supply, amount) = CalcExitRatio(supply, amount)
    /\ Atomic!JoinDue(record, ratio, limit) = JoinDue(record, ratio, limit)
    /\ Atomic!ExitDue(record, ratio, limit) = ExitDue(record, ratio, limit)
<1> USE DEF Atomic!FixedMulFloor, FixedMulFloor, Atomic!FixedMulCeil, FixedMulCeil,
            Atomic!FixedDivFloor, FixedDivFloor, Atomic!FixedDivCeil, FixedDivCeil,
            Atomic!CanUpscale, CanUpscale, Atomic!DownscaleFloor, DownscaleFloor,
            Atomic!DownscaleCeil, DownscaleCeil, Atomic!Checked, Checked, Atomic!I128, I128
<1> TAKE record, ratio, supply, amount, limit
<1>1. /\ Atomic!CalcJoinRatio(supply, amount) = CalcJoinRatio(supply, amount)
      /\ Atomic!CalcExitRatio(supply, amount) = CalcExitRatio(supply, amount)
  BY SMT DEF Atomic!CalcJoinRatio, CalcJoinRatio, Atomic!CalcExitRatio, CalcExitRatio
<1>2. Atomic!JoinDue(record, ratio, limit) = JoinDue(record, ratio, limit)
  BY SMT DEF Atomic!JoinDue, JoinDue, Atomic!CalcJoinDepositAmount, CalcJoinDepositAmount
<1>3. Atomic!ExitDue(record, ratio, limit) = ExitDue(record, ratio, limit)
  BY SMT DEF Atomic!ExitDue, ExitDue, Atomic!CalcExitWithdrawalAmount, CalcExitWithdrawalAmount
<1> QED
  BY <1>1, <1>2, <1>3

\* The limits of c_consts.rs, and the operators that take only constants.
LEMMA SameConstants ==
  /\ Atomic!MIN_WEIGHT = MIN_WEIGHT /\ Atomic!MAX_WEIGHT = MAX_WEIGHT
  /\ Atomic!MAX_FEE = MAX_FEE
  /\ Atomic!MAX_IN_RATIO = MAX_IN_RATIO /\ Atomic!MAX_OUT_RATIO = MAX_OUT_RATIO
  /\ \A v : Atomic!Checked(v) = Checked(v)
  /\ \A seq : Atomic!NoDuplicates(seq) = NoDuplicates(seq)
  /\ \A weights : Atomic!FoldFunction(+, 0, weights) = FoldFunction(+, 0, weights)
  /\ \A amount, balance, ratio :
       Atomic!WithinRatio(amount, balance, ratio) = WithinRatio(amount, balance, ratio)
  /\ \A recs, token, amount : Atomic!Changed(recs, token, amount) = Changed(recs, token, amount)
<1>1. /\ Atomic!MIN_WEIGHT = MIN_WEIGHT /\ Atomic!MAX_WEIGHT = MAX_WEIGHT
      /\ Atomic!MAX_FEE = MAX_FEE
      /\ Atomic!MAX_IN_RATIO = MAX_IN_RATIO /\ Atomic!MAX_OUT_RATIO = MAX_OUT_RATIO
  BY DEF Atomic!MIN_WEIGHT, MIN_WEIGHT, Atomic!MAX_WEIGHT, MAX_WEIGHT, Atomic!MAX_FEE, MAX_FEE,
         Atomic!MAX_IN_RATIO, MAX_IN_RATIO, Atomic!MAX_OUT_RATIO, MAX_OUT_RATIO
<1>2. \A v : Atomic!Checked(v) = Checked(v)
  BY DEF Atomic!Checked, Checked, Atomic!I128, I128
<1>3. \A seq : Atomic!NoDuplicates(seq) = NoDuplicates(seq)
  BY Zenon DEF Atomic!NoDuplicates, NoDuplicates
<1>4. \A weights : Atomic!FoldFunction(+, 0, weights) = FoldFunction(+, 0, weights)
  BY Zenon DEF Atomic!FoldFunction, FoldFunction, Atomic!FoldFunctionOnSet, FoldFunctionOnSet,
               Atomic!MapThenFoldSet, MapThenFoldSet
<1>5. \A amount, balance, ratio :
        Atomic!WithinRatio(amount, balance, ratio) = WithinRatio(amount, balance, ratio)
  BY SMT DEF Atomic!WithinRatio, WithinRatio, Atomic!NarrowMulFloor, NarrowMulFloor,
             Atomic!Checked, Checked, Atomic!I128, I128
<1>6. \A recs, token, amount : Atomic!Changed(recs, token, amount) = Changed(recs, token, amount)
  BY Zenon DEF Atomic!Changed, Changed
<1> QED
  BY <1>1, <1>2, <1>3, <1>4, <1>5, <1>6

-----------------------------------------------------------------------------
(***************************************************************************)
(* The sequences of effects that invocations begin and go on with.         *)
(***************************************************************************)
LEMMA ConcatIs ==
  ASSUME NEW S, NEW s \in Seq(S), NEW t \in Seq(S), NEW u \in Seq(S),
         Len(u) = Len(s) + Len(t),
         \A i \in 1 .. Len(s) : u[i] = s[i], \A i \in 1 .. Len(t) : u[Len(s) + i] = t[i]
  PROVE  s \o t = u
<1>1. s \o t \in Seq(S) /\ Len(s \o t) = Len(u)
  BY ConcatProperties
<1>2. ASSUME NEW i \in 1 .. Len(u)
      PROVE  (s \o t)[i] = u[i]
  <2>1. CASE i <= Len(s)
    BY <2>1, ConcatProperties
  <2>2. CASE ~(i <= Len(s))
    <3> DEFINE j == i - Len(s)
    <3>1. j \in 1 .. Len(t) /\ i = Len(s) + j
      BY <2>2
    <3>2. (s \o t)[i] = t[j]
      BY <2>2, ConcatProperties
    <3> HIDE DEF j
    <3> QED
      BY <3>1, <3>2
  <2> QED
    BY <2>1, <2>2
<1> QED
  BY <1>1, <1>2, SeqEqual

LEMMA Concat11 ==
  \A s, t, a, b : s = <<a>> /\ t = <<b>> => s \o t = <<a, b>>
<1> TAKE s, t, a, b
<1> HAVE s = <<a>> /\ t = <<b>>
<1> DEFINE u == <<a, b>>
<1> DEFINE S == {a, b}
<1>1. s \in Seq(S) /\ t \in Seq(S) /\ u \in Seq(S)
  OBVIOUS
<1>2. Len(s) = 1 /\ Len(t) = 1 /\ Len(u) = Len(s) + Len(t)
  OBVIOUS
<1>3. \A i \in 1 .. Len(s) : u[i] = s[i]
  BY <1>2
<1>4. \A i \in 1 .. Len(t) : u[Len(s) + i] = t[i]
  BY <1>2
<1> HIDE DEF S, u
<1>5. s \o t = u
  BY ONLY <1>1, <1>2, <1>3, <1>4, ConcatIs
<1> QED
  BY <1>5 DEF u

LEMMA Concat21 ==
  \A s, t, a, b, c : s = <<a, b>> /\ t = <<c>> => s \o t = <<a, b, c>>
<1> TAKE s, t, a, b, c
<1> HAVE s = <<a, b>> /\ t = <<c>>
<1> DEFINE u == <<a, b, c>>
<1> DEFINE S == {a, b, c}
<1>1. s \in Seq(S) /\ t \in Seq(S) /\ u \in Seq(S)
  OBVIOUS
<1>2. Len(s) = 2 /\ Len(t) = 1 /\ Len(u) = Len(s) + Len(t)
  OBVIOUS
<1>3. \A i \in 1 .. Len(s) : u[i] = s[i]
  BY <1>2
<1>4. \A i \in 1 .. Len(t) : u[Len(s) + i] = t[i]
  BY <1>2
<1> HIDE DEF S, u
<1>5. s \o t = u
  BY ONLY <1>1, <1>2, <1>3, <1>4, ConcatIs
<1> QED
  BY <1>5 DEF u

LEMMA Concat12 ==
  \A s, t, a, b, c : s = <<a>> /\ t = <<b, c>> => s \o t = <<a, b, c>>
<1> TAKE s, t, a, b, c
<1> HAVE s = <<a>> /\ t = <<b, c>>
<1> DEFINE u == <<a, b, c>>
<1> DEFINE S == {a, b, c}
<1>1. s \in Seq(S) /\ t \in Seq(S) /\ u \in Seq(S)
  OBVIOUS
<1>2. Len(s) = 1 /\ Len(t) = 2 /\ Len(u) = Len(s) + Len(t)
  OBVIOUS
<1>3. \A i \in 1 .. Len(s) : u[i] = s[i]
  BY <1>2
<1>4. \A i \in 1 .. Len(t) : u[Len(s) + i] = t[i]
  BY <1>2
<1> HIDE DEF S, u
<1>5. s \o t = u
  BY ONLY <1>1, <1>2, <1>3, <1>4, ConcatIs
<1> QED
  BY <1>5 DEF u

LEMMA Concat31 ==
  \A s, t, a, b, c, d : s = <<a, b, c>> /\ t = <<d>> => s \o t = <<a, b, c, d>>
<1> TAKE s, t, a, b, c, d
<1> HAVE s = <<a, b, c>> /\ t = <<d>>
<1> DEFINE u == <<a, b, c, d>>
<1> DEFINE S == {a, b, c, d}
<1>1. s \in Seq(S) /\ t \in Seq(S) /\ u \in Seq(S)
  OBVIOUS
<1>2. Len(s) = 3 /\ Len(t) = 1 /\ Len(u) = Len(s) + Len(t)
  OBVIOUS
<1>3. \A i \in 1 .. Len(s) : u[i] = s[i]
  BY <1>2
<1>4. \A i \in 1 .. Len(t) : u[Len(s) + i] = t[i]
  BY <1>2
<1> HIDE DEF S, u
<1>5. s \o t = u
  BY ONLY <1>1, <1>2, <1>3, <1>4, ConcatIs
<1> QED
  BY <1>5 DEF u

LEMMA Concat22 ==
  \A s, t, a, b, c, d : s = <<a, b>> /\ t = <<c, d>> => s \o t = <<a, b, c, d>>
<1> TAKE s, t, a, b, c, d
<1> HAVE s = <<a, b>> /\ t = <<c, d>>
<1> DEFINE u == <<a, b, c, d>>
<1> DEFINE S == {a, b, c, d}
<1>1. s \in Seq(S) /\ t \in Seq(S) /\ u \in Seq(S)
  OBVIOUS
<1>2. Len(s) = 2 /\ Len(t) = 2 /\ Len(u) = Len(s) + Len(t)
  OBVIOUS
<1>3. \A i \in 1 .. Len(s) : u[i] = s[i]
  BY <1>2
<1>4. \A i \in 1 .. Len(t) : u[Len(s) + i] = t[i]
  BY <1>2
<1> HIDE DEF S, u
<1>5. s \o t = u
  BY ONLY <1>1, <1>2, <1>3, <1>4, ConcatIs
<1> QED
  BY <1>5 DEF u

LEMMA Concat32 ==
  \A s, t, a, b, c, d, e : s = <<a, b, c>> /\ t = <<d, e>> => s \o t = <<a, b, c, d, e>>
<1> TAKE s, t, a, b, c, d, e
<1> HAVE s = <<a, b, c>> /\ t = <<d, e>>
<1> DEFINE u == <<a, b, c, d, e>>
<1> DEFINE S == {a, b, c, d, e}
<1>1. s \in Seq(S) /\ t \in Seq(S) /\ u \in Seq(S)
  OBVIOUS
<1>2. Len(s) = 3 /\ Len(t) = 2 /\ Len(u) = Len(s) + Len(t)
  OBVIOUS
<1>3. \A i \in 1 .. Len(s) : u[i] = s[i]
  BY <1>2
<1>4. \A i \in 1 .. Len(t) : u[Len(s) + i] = t[i]
  BY <1>2
<1> HIDE DEF S, u
<1>5. s \o t = u
  BY ONLY <1>1, <1>2, <1>3, <1>4, ConcatIs
<1> QED
  BY <1>5 DEF u

LEMMA Concat10 ==
  \A s, t, a : s = <<a>> /\ t = <<>> => s \o t = <<a>>
<1> TAKE s, t, a
<1> HAVE s = <<a>> /\ t = <<>>
<1>1. s \in Seq({a})
  OBVIOUS
<1> QED
  BY <1>1, ConcatEmptySeq

LEMMA Concat20 ==
  \A s, t, a, b : s = <<a, b>> /\ t = <<>> => s \o t = <<a, b>>
<1> TAKE s, t, a, b
<1> HAVE s = <<a, b>> /\ t = <<>>
<1>1. s \in Seq({a, b})
  OBVIOUS
<1> QED
  BY <1>1, ConcatEmptySeq

LEMMA TwoOneOne ==
  \A p, q, r, a, b, c, d :
    p = <<a, b>> /\ q = <<c>> /\ r = <<d>> => p \o q \o r = <<a, b, c, d>>
<1> TAKE p, q, r, a, b, c, d
<1> HAVE p = <<a, b>> /\ q = <<c>> /\ r = <<d>>
<1> DEFINE m == p \o q
<1>1. m = <<a, b, c>>
  BY Concat21
<1> HIDE DEF m
<1>2. m \o r = <<a, b, c, d>>
  BY <1>1, Concat31
<1> QED
  BY <1>2 DEF m

LEMMA OneTwoOne ==
  \A p, q, r, a, b, c, d :
    p = <<a>> /\ q = <<b, c>> /\ r = <<d>> => p \o q \o r = <<a, b, c, d>>
<1> TAKE p, q, r, a, b, c, d
<1> HAVE p = <<a>> /\ q = <<b, c>> /\ r = <<d>>
<1> DEFINE m == p \o q
<1>1. m = <<a, b, c>>
  BY Concat12
<1> HIDE DEF m
<1>2. m \o r = <<a, b, c, d>>
  BY <1>1, Concat31
<1> QED
  BY <1>2 DEF m

LEMMA OneOneOne ==
  \A p, q, r, a, b, c :
    p = <<a>> /\ q = <<b>> /\ r = <<c>> => p \o q \o r = <<a, b, c>>
<1> TAKE p, q, r, a, b, c
<1> HAVE p = <<a>> /\ q = <<b>> /\ r = <<c>>
<1> DEFINE m == p \o q
<1>1. m = <<a, b>>
  BY Concat11
<1> HIDE DEF m
<1>2. m \o r = <<a, b, c>>
  BY <1>1, Concat21
<1> QED
  BY <1>2 DEF m

LEMMA TwoOneTwo ==
  \A p, q, r, a, b, c, d, e :
    p = <<a, b>> /\ q = <<c>> /\ r = <<d, e>> => p \o q \o r = <<a, b, c, d, e>>
<1> TAKE p, q, r, a, b, c, d, e
<1> HAVE p = <<a, b>> /\ q = <<c>> /\ r = <<d, e>>
<1> DEFINE m == p \o q
<1>1. m = <<a, b, c>>
  BY Concat21
<1> HIDE DEF m
<1>2. m \o r = <<a, b, c, d, e>>
  BY <1>1, Concat32
<1> QED
  BY <1>2 DEF m

-----------------------------------------------------------------------------
(***************************************************************************)
(* What is seen, and what Atomic computes from it.                         *)
(***************************************************************************)
SeenStays ==
  /\ UNCHANGED <<SeenShares, SeenTotal, SeenController, SeenFee, SeenRecords, SeenLedgers>>
  /\ UNCHANGED <<SeenReplayed, freeze, allowances, ledger>>

\* While nothing of what is seen changes, neither do the quotes ...
LEMMA SwapQuotesStay ==
  ASSUME SeenStays, NEW in, NEW out, NEW amount, NEW limit, NEW price
  PROVE  /\ Atomic!SwapInQuote(in, amount, out, limit, price)'
              = Atomic!SwapInQuote(in, amount, out, limit, price)
         /\ Atomic!SwapOutQuote(in, limit, out, amount, price)'
              = Atomic!SwapOutQuote(in, limit, out, amount, price)
<1>1. SeenRecords' = SeenRecords /\ SeenFee' = SeenFee /\ freeze' = freeze
  BY DEF SeenStays
<1>2. Atomic!SwapInQuote(in, amount, out, limit, price)'
        = Atomic!SwapInQuote(in, amount, out, limit, price)
  BY ZenonT(60), <1>1 DEF Atomic!SwapInQuote, Atomic!FairSwap, Atomic!AfterSwap, Atomic!Bound,
                     SeenRecords, SeenFee
<1>3. Atomic!SwapOutQuote(in, limit, out, amount, price)'
        = Atomic!SwapOutQuote(in, limit, out, amount, price)
  BY ZenonT(60), <1>1 DEF Atomic!SwapOutQuote, Atomic!FairSwap, Atomic!AfterSwap, Atomic!Bound,
                     SeenRecords, SeenFee
<1> QED
  BY <1>2, <1>3

LEMMA OneTokenQuotesStay ==
  ASSUME SeenStays, NEW token, NEW given, NEW limit
  PROVE  /\ Atomic!DepInQuote(token, given, limit)' = Atomic!DepInQuote(token, given, limit)
         /\ Atomic!DepOutQuote(token, given, limit)' = Atomic!DepOutQuote(token, given, limit)
         /\ Atomic!WdrInQuote(token, given, limit)' = Atomic!WdrInQuote(token, given, limit)
         /\ Atomic!WdrOutQuote(token, given, limit)' = Atomic!WdrOutQuote(token, given, limit)
<1>1. /\ SeenRecords' = SeenRecords /\ SeenFee' = SeenFee /\ freeze' = freeze
      /\ SeenTotal' = SeenTotal
  BY DEF SeenStays
<1> USE <1>1 DEF Atomic!Bound, SeenRecords, SeenFee, SeenTotal
<1>2. Atomic!DepInQuote(token, given, limit)' = Atomic!DepInQuote(token, given, limit)
  BY Zenon DEF Atomic!DepInQuote
<1>3. Atomic!DepOutQuote(token, given, limit)' = Atomic!DepOutQuote(token, given, limit)
  BY Zenon DEF Atomic!DepOutQuote
<1>4. Atomic!WdrInQuote(token, given, limit)' = Atomic!WdrInQuote(token, given, limit)
  BY Zenon DEF Atomic!WdrInQuote
<1>5. Atomic!WdrOutQuote(token, given, limit)' = Atomic!WdrOutQuote(token, given, limit)
  BY Zenon DEF Atomic!WdrOutQuote
<1> QED
  BY <1>2, <1>3, <1>4, <1>5

LEMMA RatiosStay ==
  ASSUME SeenStays, NEW shares
  PROVE  /\ Atomic!JoinRatios(shares)' = Atomic!JoinRatios(shares)
         /\ Atomic!ExitRatios(shares)' = Atomic!ExitRatios(shares)
<1>1. SeenController' = SeenController /\ freeze' = freeze /\ SeenTotal' = SeenTotal
  BY DEF SeenStays
<1>2. Atomic!Initialized' = Atomic!Initialized
  BY <1>1 DEF Atomic!Initialized, SeenController
<1>3. Atomic!JoinRatios(shares)' = Atomic!JoinRatios(shares)
  BY Zenon, <1>1, <1>2 DEF Atomic!JoinRatios, SeenTotal
<1>4. Atomic!ExitRatios(shares)' = Atomic!ExitRatios(shares)
  BY Zenon, <1>1, <1>2 DEF Atomic!ExitRatios, SeenTotal
<1> QED
  BY <1>3, <1>4

\* ... which, while no invocation is being executed, are those of the pool.
LEMMA SwapQuotesSame ==
  ASSUME call = NoCall, NEW in, NEW out, NEW amount, NEW limit, NEW price
  PROVE  /\ Atomic!SwapInQuote(in, amount, out, limit, price)
              = SwapInQuote(in, amount, out, limit, price)
         /\ Atomic!SwapOutQuote(in, limit, out, amount, price)
              = SwapOutQuote(in, limit, out, amount, price)
<1> USE DEF Atomic!AfterSwap, AfterSwap, Atomic!Bound, Bound
<1>1. \A in1, in2, fee : Atomic!CalcSpotPrice(in1, in2, fee) = CalcSpotPrice(in1, in2, fee)
  BY SamePrices
<1>2. \A x, y : Atomic!NarrowDivFloor(x, y, STROOP) = NarrowDivFloor(x, y, STROOP)
  BY SameConstants DEF Atomic!NarrowDivFloor, NarrowDivFloor
<1>3. ASSUME NEW amountIn, NEW amountOut
      PROVE  Atomic!FairSwap(in, amountIn, out, amountOut, price)
               <=> FairSwap(in, amountIn, out, amountOut, price)
  <2>1. /\ \A v : Atomic!Checked(v) = Checked(v)
        /\ \A recs, token, change : Atomic!Changed(recs, token, change) = Changed(recs, token, change)
    BY SameConstants
  <2> QED
    BY <1>1, <1>2, <2>1 DEF Atomic!FairSwap, FairSwap
<1>4. Atomic!SwapInQuote(in, amount, out, limit, price)
        = SwapInQuote(in, amount, out, limit, price)
  BY Zenon, <1>3, SamePrices, SameConstants DEF Atomic!SwapInQuote, SwapInQuote
<1>5. Atomic!SwapOutQuote(in, limit, out, amount, price)
        = SwapOutQuote(in, limit, out, amount, price)
  BY Zenon, <1>3, SamePrices, SameConstants DEF Atomic!SwapOutQuote, SwapOutQuote
<1> QED
  BY <1>4, <1>5

LEMMA OneTokenQuotesSame ==
  ASSUME call = NoCall, NEW token, NEW given, NEW limit
  PROVE  /\ Atomic!DepInQuote(token, given, limit) = DepInQuote(token, given, limit)
         /\ Atomic!DepOutQuote(token, given, limit) = DepOutQuote(token, given, limit)
         /\ Atomic!WdrInQuote(token, given, limit) = WdrInQuote(token, given, limit)
         /\ Atomic!WdrOutQuote(token, given, limit) = WdrOutQuote(token, given, limit)
<1> USE SameOneTokenPrices, SameConstants DEF Atomic!Bound, Bound
<1>1. Atomic!DepInQuote(token, given, limit) = DepInQuote(token, given, limit)
  BY Zenon DEF Atomic!DepInQuote, DepInQuote
<1>2. Atomic!DepOutQuote(token, given, limit) = DepOutQuote(token, given, limit)
  BY Zenon DEF Atomic!DepOutQuote, DepOutQuote
<1>3. Atomic!WdrInQuote(token, given, limit) = WdrInQuote(token, given, limit)
  BY Zenon DEF Atomic!WdrInQuote, WdrInQuote
<1>4. Atomic!WdrOutQuote(token, given, limit) = WdrOutQuote(token, given, limit)
  BY Zenon DEF Atomic!WdrOutQuote, WdrOutQuote
<1> QED
  BY <1>1, <1>2, <1>3, <1>4

LEMMA RatiosSame ==
  ASSUME call = NoCall, NEW shares
  PROVE  /\ Atomic!JoinRatios(shares) = JoinRatios(shares)
         /\ Atomic!ExitRatios(shares) = ExitRatios(shares)
BY Zenon, SameJoinsAndExits DEF Atomic!JoinRatios, JoinRatios, Atomic!ExitRatios, ExitRatios,
     Atomic!Initialized, Initialized

-----------------------------------------------------------------------------
(***************************************************************************)
(* What every step of an invocation leaves alone, and what each effect does.*)
(***************************************************************************)
SameCall ==
  /\ DOMAIN call' = CallFields /\ call' # NoCall
  /\ call'.user = call.user /\ call'.most = call.most /\ call'.shares = call.shares
  /\ call'.saved = call.saved

\* One effect is done, and the next is due.
Advance == SameCall /\ call'.local = call.local /\ call'.todo = Tail(call.todo)

LEMMA ContinueFacts ==
  ASSUME CallOK, NEW todo, NEW local, Continue(todo, local)
  PROVE  SameCall /\ call'.local = local /\ call'.todo = todo
BY DEF CallOK, Continue, SameCall, CallFields, NoCall

LEMMA DoneFacts ==
  ASSUME CallOK, Done
  PROVE  Advance
BY ContinueFacts DEF Done, Advance

LEMMA StepKeepsCall ==
  ASSUME call # NoCall, CallOK, Step
  PROVE  SameCall /\ CallOK' /\ SeenStays
<1>1. SameCall
  BY ContinueFacts
  DEF Step, JoinToken, ExitToken, InitToken, InitEnd, ApprovePool, Take, TakeDeposit, Give,
      StoreRecords, ChangeShares, Done
<1>2. outcome' = outcome /\ freeze' = freeze /\ allowances' = allowances /\ ledger' = ledger
  BY DEF Step, JoinToken, ExitToken, InitToken, InitEnd, ApprovePool, Take, TakeDeposit, Give,
         StoreRecords, ChangeShares, MintShares, RedeemShares, vars, tokenVars, poolVars
<1>3. CallOK'
  BY <1>1, <1>2 DEF CallOK, SameCall
<1>4. SeenStays
  BY <1>1, <1>2 DEF SameCall, SeenStays, SeenShares, SeenTotal, SeenController, SeenFee,
                    SeenRecords, SeenLedgers, SeenReplayed
<1> QED
  BY <1>1, <1>3, <1>4

LEMMA ApproveStep ==
  ASSUME CallOK, Step, call.todo # <<>>, NEW t, NEW limit, Effect = Approving(t, limit)
  PROVE  Advance /\ UNCHANGED vars /\ replayed' = replayed
<1>1. Effect.do = "approve"
  BY DEF Approving
<1>2. ApprovePool
  BY <1>1 DEF Step, JoinToken, ExitToken, InitToken, InitEnd, Take, TakeDeposit, Give,
              StoreRecords, ChangeShares, Doing
<1> QED
  BY <1>2, DoneFacts DEF ApprovePool

LEMMA Moves ==
  ASSUME CallOK, Advance, NEW t \in Tokens, NEW amount \in Int, NEW W, NEW V,
         MovedBut(W), t \in W, V = W \ {t}, amount = Owed(t),
         tokenBalance' = AfterPaying(call.user, TokenEvent(t, amount))
  PROVE  MovedBut(V)'
<1> DEFINE paid == [call.saved.tokenBalance[t] EXCEPT ![call.user] = @ - amount,
                                                      ![Pool] = @ + amount]
<1>1. tokenBalance[t] = call.saved.tokenBalance[t] /\ tokenBalance \in [Tokens -> [Addresses -> Int]]
  BY DEF MovedBut
<1>2. call.user \in Addresses /\ call.user # Pool /\ Pool \in Addresses
  BY PoolIsNoUser DEF CallOK, Addresses
<1>3. paid \in [Addresses -> Int]
  BY <1>1, <1>2
<1>4. tokenBalance' = [u \in Tokens |-> IF u = t THEN paid ELSE tokenBalance[u]]
  BY <1>1 DEF AfterPaying, TokenEvent
<1>5. /\ \A u : Owed(u)' = Owed(u)
      /\ call'.saved = call.saved /\ call'.user = call.user
  BY DEF Owed, Recorded, Advance, SameCall
<1>6. \A u \in Tokens : tokenBalance[u] \in [Addresses -> Int]
  BY <1>1
<1> HIDE DEF paid
<1>7. tokenBalance' \in [Tokens -> [Addresses -> Int]]
  BY <1>3, <1>4, <1>6
<1> USE DEF paid
<1>8. ASSUME NEW u \in Tokens
      PROVE  tokenBalance'[u] =
               IF u \in V THEN call'.saved.tokenBalance[u]
                 ELSE [call'.saved.tokenBalance[u] EXCEPT ![call'.user] = @ - Owed(u)',
                                                          ![Pool] = @ + Owed(u)']
  <2>1. CASE u = t
    BY <1>4, <1>5, <2>1
  <2>2. CASE u # t
    <3>1. tokenBalance'[u] = tokenBalance[u] /\ (u \in V <=> u \in W)
      BY <1>4, <2>2
    <3> QED
      BY <1>5, <3>1 DEF MovedBut
  <2> QED
    BY <2>1, <2>2
<1> QED
  BY <1>7, <1>8 DEF MovedBut

LEMMA TakeStep ==
  ASSUME CallOK, Step, call.todo # <<>>, NEW t \in Tokens, NEW amount, NEW W, NEW V,
         Effect = Taking(t, amount), amount = Owed(t), MovedBut(W), t \in W, V = W \ {t}
  PROVE  /\ Advance /\ MovedBut(V)' /\ PaidIn(t, amount)'
         /\ UNCHANGED <<lpBalance, totalShares, controller, swapFee, records, replayed>>
<1>1. Effect.do = "take" /\ Effect.token = t /\ Effect.amount = amount
  BY DEF Taking
<1>2. Take
  BY <1>1 DEF Step, JoinToken, ExitToken, InitToken, InitEnd, ApprovePool, TakeDeposit, Give,
              StoreRecords, ChangeShares, Doing
<1>3. /\ CanPull(t, call.user, amount)
      /\ tokenBalance' = AfterPaying(call.user, TokenEvent(t, amount))
      /\ Advance /\ UNCHANGED <<tokenVars, poolVars, replayed>>
  BY <1>1, <1>2, DoneFacts DEF Take
<1>4. amount \in 0 .. call.saved.tokenBalance[t][call.user]
  BY <1>3 DEF CanPull, MovedBut
<1>5. MovedBut(V)'
  BY <1>3, <1>4, Moves
<1> QED
  BY <1>3, <1>4, <1>5 DEF PaidIn, Advance, SameCall, tokenVars, poolVars

LEMMA DepositStep ==
  ASSUME CallOK, Step, call.todo # <<>>, NEW t \in Tokens, NEW amount, NEW W, NEW V,
         Effect = Depositing(t, amount), amount = Owed(t), MovedBut(W), t \in W, V = W \ {t}
  PROVE  /\ Advance /\ MovedBut(V)' /\ PaidIn(t, amount)'
         /\ UNCHANGED <<lpBalance, totalShares, controller, swapFee, records, replayed>>
<1>1. Effect.do = "deposit" /\ Effect.token = t /\ Effect.amount = amount
  BY DEF Depositing
<1>2. TakeDeposit
  BY <1>1 DEF Step, JoinToken, ExitToken, InitToken, InitEnd, ApprovePool, Take, Give,
              StoreRecords, ChangeShares, Doing
<1>3. /\ CanPull(t, call.user, amount)
      /\ tokenBalance' = AfterPaying(call.user, TokenEvent(t, amount))
      /\ Advance /\ UNCHANGED <<tokenVars, poolVars, replayed>>
  BY <1>1, <1>2, DoneFacts DEF TakeDeposit
<1>4. amount \in 0 .. call.saved.tokenBalance[t][call.user]
  BY <1>3 DEF CanPull, MovedBut
<1>5. MovedBut(V)'
  BY <1>3, <1>4, Moves
<1> QED
  BY <1>3, <1>4, <1>5 DEF PaidIn, Advance, SameCall, tokenVars, poolVars

LEMMA GiveStep ==
  ASSUME CallOK, Step, call.todo # <<>>, NEW t \in Tokens, NEW amount, NEW W, NEW V,
         Effect = Giving(t, amount), amount = -Owed(t), Owed(t) \in Int,
         MovedBut(W), t \in W, V = W \ {t}
  PROVE  /\ Advance /\ MovedBut(V)' /\ PaidOut(t, amount)'
         /\ UNCHANGED <<lpBalance, totalShares, controller, swapFee, records, replayed>>
<1>1. Effect.do = "give" /\ Effect.token = t /\ Effect.amount = amount
  BY DEF Giving
<1>2. Give
  BY <1>1 DEF Step, JoinToken, ExitToken, InitToken, InitEnd, ApprovePool, Take, TakeDeposit,
              StoreRecords, ChangeShares, Doing
<1>3. -amount = Owed(t) /\ -amount \in Int
  OBVIOUS
<1>4. /\ CanPush(t, amount)
      /\ tokenBalance' = AfterPaying(call.user, TokenEvent(t, -amount))
      /\ Advance /\ UNCHANGED <<tokenVars, poolVars, replayed>>
  BY <1>1, <1>2, DoneFacts DEF Give
<1>5. amount \in 0 .. call.saved.tokenBalance[t][Pool]
  BY <1>4 DEF CanPush, MovedBut
<1>6. MovedBut(V)'
  BY <1>3, <1>4, Moves
<1> QED
  BY <1>4, <1>5, <1>6 DEF PaidOut, Advance, SameCall, tokenVars, poolVars

LEMMA StoreAllStep ==
  ASSUME CallOK, Step, call.todo # <<>>, Effect = StoringAll
  PROVE  /\ Advance /\ Stored'
         /\ UNCHANGED <<lpBalance, totalShares, controller, swapFee, tokenBalance, replayed>>
<1>1. Effect.do = "store all"
  BY DEF StoringAll
<1>2. StoreRecords /\ records' = call.local
  BY <1>1 DEF Step, JoinToken, ExitToken, InitToken, InitEnd, ApprovePool, Take, TakeDeposit,
              Give, StoreRecords, ChangeShares, Doing
<1> QED
  BY <1>2, DoneFacts DEF StoreRecords, Stored, Advance, tokenVars

\* Storing two records anew is as good as storing all: the others are those
\* that the invocation has started with.
LEMMA StoreStep ==
  ASSUME CallOK, Step, call.todo # <<>>, NEW tokens, Effect = Storing(tokens),
         NotStored, IsBook(call.saved.records), IsBook(call.local),
         DOMAIN call.local = DOMAIN call.saved.records,
         \A t \in DOMAIN call.local \ tokens : call.local[t] = call.saved.records[t]
  PROVE  /\ Advance /\ Stored'
         /\ UNCHANGED <<lpBalance, totalShares, controller, swapFee, tokenBalance, replayed>>
<1>1. Effect.do = "store" /\ Effect.tokens = tokens
  BY DEF Storing
<1>2. /\ StoreRecords
      /\ records' = [t \in Bound |-> IF t \in tokens THEN call.local[t] ELSE records[t]]
  BY <1>1 DEF Step, JoinToken, ExitToken, InitToken, InitEnd, ApprovePool, Take, TakeDeposit,
              Give, StoreRecords, ChangeShares, Doing
<1>3. records' = [t \in DOMAIN call.local |-> call.local[t]]
  BY <1>2 DEF NotStored, Bound
<1>4. records' = call.local
  BY <1>3 DEF IsBook
<1> QED
  BY <1>2, <1>4, DoneFacts DEF StoreRecords, Stored, Advance, tokenVars

LEMMA MintStep ==
  ASSUME CallOK, Step, call.todo # <<>>, NEW amount, Effect = Minting(amount), NotIssued
  PROVE  /\ Advance /\ Issued(amount)'
         /\ UNCHANGED <<controller, swapFee, records, tokenBalance, replayed>>
<1>1. Effect.do = "mint" /\ Effect.amount = amount
  BY DEF Minting
<1>2. ChangeShares /\ MintShares(call.user, amount)
  BY <1>1 DEF Step, JoinToken, ExitToken, InitToken, InitEnd, ApprovePool, Take, TakeDeposit,
              Give, StoreRecords, ChangeShares, Doing
<1>3. Advance
  BY <1>2, DoneFacts DEF ChangeShares
<1>4. Issued(amount)'
  BY <1>2, <1>3 DEF MintShares, Issued, NotIssued, Advance, SameCall
<1> QED
  BY <1>2, <1>3, <1>4 DEF ChangeShares, poolVars

LEMMA RedeemStep ==
  ASSUME CallOK, Step, call.todo # <<>>, NEW amount, Effect = Redeeming(amount), NotIssued
  PROVE  /\ Advance /\ Redeemed(amount)'
         /\ UNCHANGED <<controller, swapFee, records, tokenBalance, replayed>>
<1>1. Effect.do = "redeem" /\ Effect.amount = amount
  BY DEF Redeeming
<1>2. ChangeShares /\ RedeemShares(call.user, amount)
  BY <1>1 DEF Step, JoinToken, ExitToken, InitToken, InitEnd, ApprovePool, Take, TakeDeposit,
              Give, StoreRecords, ChangeShares, Doing
<1>3. Advance
  BY <1>2, DoneFacts DEF ChangeShares
<1>4. Redeemed(amount)'
  BY <1>2, <1>3 DEF RedeemShares, Redeemed, NotIssued, Advance, SameCall
<1> QED
  BY <1>2, <1>3, <1>4 DEF ChangeShares, poolVars

\* While only the effects that are left change, all that depends on the call
\* and on what the pool has not touched stays.
LEMMA Kept ==
  ASSUME Advance
  PROVE  /\ \A t : Owed(t)' = Owed(t)
         /\ \A t, amount : PaidIn(t, amount)' <=> PaidIn(t, amount)
         /\ \A t, amount : PaidOut(t, amount)' <=> PaidOut(t, amount)
         /\ WithinMost' <=> WithinMost
         /\ UNCHANGED <<lpBalance, totalShares>> /\ NotIssued => NotIssued'
         /\ UNCHANGED <<lpBalance, totalShares>> => \A a : Redeemed(a) => Redeemed(a)'
         /\ records' = records => (NotStored' <=> NotStored) /\ (Stored' <=> Stored)
         /\ UNCHANGED <<controller, swapFee>> /\ TermsKept => TermsKept'
         /\ replayed' = replayed /\ Tell(replayed, call.local) => Tell(replayed, call.local)'
         /\ tokenBalance' = tokenBalance => \A W : MovedBut(W) => MovedBut(W)'
<1> USE DEF Advance, SameCall
<1>1. \A t : Owed(t)' = Owed(t)
  BY DEF Owed, Recorded
<1>2. /\ \A t, amount : PaidIn(t, amount)' <=> PaidIn(t, amount)
      /\ \A t, amount : PaidOut(t, amount)' <=> PaidOut(t, amount)
  BY DEF PaidIn, PaidOut
<1>3. WithinMost' <=> WithinMost
  BY <1>1 DEF WithinMost
<1>4. UNCHANGED <<lpBalance, totalShares>> /\ NotIssued => NotIssued'
  BY DEF NotIssued
<1>5. UNCHANGED <<lpBalance, totalShares>> => \A a : Redeemed(a) => Redeemed(a)'
  BY DEF Redeemed
<1>6. /\ records' = records => (NotStored' <=> NotStored) /\ (Stored' <=> Stored)
      /\ UNCHANGED <<controller, swapFee>> /\ TermsKept => TermsKept'
      /\ replayed' = replayed /\ Tell(replayed, call.local) => Tell(replayed, call.local)'
  BY DEF NotStored, Stored, TermsKept, Tell
<1>7. tokenBalance' = tokenBalance => \A W : MovedBut(W) => MovedBut(W)'
  BY <1>1 DEF MovedBut
<1> QED
  BY <1>1, <1>2, <1>3, <1>4, <1>5, <1>6, <1>7

-----------------------------------------------------------------------------
(***************************************************************************)
(* How an invocation starts, and what it does to the records it will store.*)
(***************************************************************************)
LEMMA LimitsAreIntegers == MinLimits \subseteq Int /\ MaxLimits \subseteq Int
BY PoolAssumption, I128Assumption DEF I128

\* The record of one token is changed by an amount.
LEMMA ChangedRecord ==
  \A recs, t, amount : IsBook(recs) /\ t \in DOMAIN recs /\ amount \in Int =>
    /\ DOMAIN Changed(recs, t, amount) = DOMAIN recs
    /\ Changed(recs, t, amount)[t] = [recs[t] EXCEPT !.balance = @ + amount]
BY DEF IsBook, Changed

LEMMA OtherRecords ==
  \A recs, t, amount : IsBook(recs) /\ t \in DOMAIN recs /\ amount \in Int =>
    \A u : u \in DOMAIN recs /\ u # t => Changed(recs, t, amount)[u] = recs[u]
BY DEF IsBook, Changed

LEMMA ChangedBook ==
  \A recs, t, amount : IsBook(recs) /\ t \in DOMAIN recs /\ amount \in Int =>
    /\ IsBook(Changed(recs, t, amount)) /\ DOMAIN Changed(recs, t, amount) = DOMAIN recs
    /\ \A u : Recorded(recs, u) \in Int
    /\ \A u : Recorded(Changed(recs, t, amount), u)
                = Recorded(recs, u) + (IF u = t THEN amount ELSE 0)
<1> SUFFICES ASSUME NEW recs, IsBook(recs), NEW t \in DOMAIN recs, NEW amount \in Int
             PROVE  /\ IsBook(Changed(recs, t, amount))
                    /\ DOMAIN Changed(recs, t, amount) = DOMAIN recs
                    /\ \A u : Recorded(recs, u) \in Int
                    /\ \A u : Recorded(Changed(recs, t, amount), u)
                                = Recorded(recs, u) + (IF u = t THEN amount ELSE 0)
  OBVIOUS
<1> DEFINE new == Changed(recs, t, amount)
<1>1. recs = [u \in DOMAIN recs |-> recs[u]] /\ \A u \in DOMAIN recs : recs[u] \in BookRecord
  BY DEF IsBook
<1>2. /\ DOMAIN new = DOMAIN recs /\ new = [u \in DOMAIN recs |-> new[u]]
      /\ new[t] = [recs[t] EXCEPT !.balance = @ + amount]
      /\ \A u \in DOMAIN recs \ {t} : new[u] = recs[u]
  BY <1>1 DEF Changed
<1>3. recs[t] \in BookRecord
  BY <1>1
<1>4. recs[t].balance \in Int /\ new[t].balance = recs[t].balance + amount
  BY <1>2, <1>3 DEF BookRecord
<1>5. new[t] \in BookRecord
  BY <1>2, <1>3 DEF BookRecord
<1> HIDE DEF new
<1>6. \A u \in DOMAIN recs : new[u] \in BookRecord
  BY <1>1, <1>2, <1>5
<1>7. IsBook(new)
  BY <1>2, <1>6 DEF IsBook
<1>8. \A u : Recorded(recs, u) \in Int
  BY <1>1 DEF Recorded, BookRecord
<1>9. \A u : Recorded(new, u) = Recorded(recs, u) + (IF u = t THEN amount ELSE 0)
  BY <1>1, <1>2, <1>4, <1>8 DEF Recorded
<1> QED
  BY <1>2, <1>7, <1>8, <1>9 DEF new

LEMMA StartFacts ==
  ASSUME call = NoCall, NEW user \in Users, NEW most, NEW shares, NEW local, NEW todo, NEW will,
         Start(user, most, shares, local, todo, will)
  PROVE  /\ CallOK' /\ SeenStays /\ call' # NoCall
         /\ call'.most = most /\ call'.shares = shares /\ call'.local = local /\ call'.todo = todo
         /\ call'.saved = State
         /\ NotStored' /\ NotIssued' /\ TermsKept'
         /\ \A t : Owed(t)' = Recorded(local, t) - Recorded(records, t)
<1>1. /\ DOMAIN call' = CallFields /\ call' # NoCall
      /\ call'.user = user /\ call'.most = most /\ call'.shares = shares
      /\ call'.saved = State /\ call'.local = local /\ call'.todo = todo
      /\ outcome' = "none" /\ UNCHANGED vars
  BY DEF Start, NoCall, CallFields
<1>2. /\ call'.saved.lpBalance = lpBalance /\ call'.saved.totalShares = totalShares
      /\ call'.saved.controller = controller /\ call'.saved.swapFee = swapFee
      /\ call'.saved.records = records /\ call'.saved.tokenBalance = tokenBalance
      /\ call'.saved.replayed = replayed
  BY <1>1 DEF State
<1>3. CallOK'
  BY <1>1 DEF CallOK
<1>4. SeenStays
  BY <1>1, <1>2 DEF SeenStays, SeenShares, SeenTotal, SeenController, SeenFee, SeenRecords,
                    SeenLedgers, SeenReplayed, vars
<1>5. NotStored' /\ NotIssued' /\ TermsKept'
  BY <1>1, <1>2 DEF NotStored, NotIssued, TermsKept, vars
<1>6. \A t : Owed(t)' = Recorded(local, t) - Recorded(records, t)
  BY <1>1, <1>2 DEF Owed, Recorded
<1> QED
  BY <1>1, <1>3, <1>4, <1>5, <1>6

\* At first nothing has moved, so that all that is owed is in waiting.
LEMMA NothingMoved ==
  ASSUME call = NoCall, SeenOK, call' # NoCall, CallOK', call'.saved = State, UNCHANGED vars,
         NEW W, \A t \in Tokens \ W : Owed(t)' = 0
  PROVE  MovedBut(W)'
<1>1. /\ tokenBalance' = tokenBalance /\ call'.saved.tokenBalance = tokenBalance
      /\ tokenBalance \in [Tokens -> [Addresses -> Int]]
  BY DEF vars, State, SeenOK, SeenLedgers
<1>2. call'.user # Pool /\ call'.user \in Addresses /\ Pool \in Addresses
  BY PoolIsNoUser DEF CallOK, Addresses
<1>3. ASSUME NEW t \in Tokens \ W
      PROVE  tokenBalance'[t] =
               [call'.saved.tokenBalance[t] EXCEPT ![call'.user] = @ - Owed(t)',
                                                   ![Pool] = @ + Owed(t)']
  <2>1. tokenBalance[t] \in [Addresses -> Int] /\ Owed(t)' = 0
    BY <1>1
  <2>2. \A x \in Int : x - 0 = x /\ x + 0 = x
    OBVIOUS
  <2> QED
    BY <1>1, <1>2, <2>1, <2>2
<1> QED
  BY <1>1, <1>3 DEF MovedBut

\* The pool's events keep telling the records that are about to be stored.
LEMMA PublishTells ==
  ASSUME NEW before, Tell(replayed, before), NEW changes, Publish(changes), NEW after,
         \A t \in DOMAIN changes \cap Tokens :
            changes[t] \in Int /\ Recorded(after, t) = Recorded(before, t) + changes[t],
         \A t \in Tokens \ DOMAIN changes : Recorded(after, t) = Recorded(before, t)
  PROVE  Tell(replayed', after)
BY DEF Tell, Publish

LEMMA SeenOKStays ==
  ASSUME SeenOK, SeenStays
  PROVE  SeenOK'
BY DEF SeenOK, SeenStays, Tell, Recorded
-----------------------------------------------------------------------------
(***************************************************************************)
(* Swaps                                                                   *)
(***************************************************************************)
LEMMA SwapBegins ==
  ASSUME call = NoCall, SeenOK, NEW user \in Users, NEW in \in Bound, NEW out \in Bound, in # out,
         NEW amountIn \in Int, NEW amountOut \in Int, NEW limit, NEW store, NEW most, NEW todo,
         amountIn <= most[in], -amountOut <= most[out], \A t \in Tokens \ {in, out} : 0 <= most[t],
         store \in {StoringAll, Storing({in, out})},
         todo = <<Approving(in, limit), Taking(in, amountIn), Giving(out, amountOut), store>>,
         \E will : Start(user, most, 0, AfterSwap(in, amountIn, out, amountOut), todo, will),
         Publish(SwapEvent(in, amountIn, out, amountOut)),
         \/ amountIn \in TokenAmounts /\ \E floor \in MinLimits, price \in MaxLimits :
              amountOut \in SwapInQuote(in, amountIn, out, floor, price)
         \/ amountOut \in TokenAmounts /\ \E cap \in MaxLimits, price \in MaxLimits :
              amountIn \in SwapOutQuote(in, cap, out, amountOut, price)
  PROVE  CallOK' /\ SeenStays /\ SwapUnderway(in, amountIn, out, amountOut, limit, store)'
<1> DEFINE paidOut == -amountOut
           middle  == Changed(records, in, amountIn)
           local   == Changed(middle, out, paidOut)
<1>1. paidOut \in Int /\ IsBook(records) /\ in \in Tokens /\ out \in Tokens
  BY DEF SeenOK, SeenRecords, IsBook, Bound
<1>2. PICK will : Start(user, most, 0, local, todo, will)
  BY DEF AfterSwap
<1> HIDE DEF paidOut
<1>3. /\ IsBook(middle) /\ DOMAIN middle = Bound
      /\ Recorded(middle, in) = Recorded(records, in) + amountIn
      /\ \A t : t # in => Recorded(middle, t) = Recorded(records, t)
      /\ \A t : Recorded(records, t) \in Int
  BY <1>1, ChangedBook DEF Bound
<1> HIDE DEF middle
<1>4. /\ Recorded(local, out) = Recorded(middle, out) + paidOut
      /\ \A t : t # out => Recorded(local, t) = Recorded(middle, t)
  BY <1>1, <1>3, ChangedBook
<1> HIDE DEF local
<1>5. /\ CallOK' /\ SeenStays /\ call' # NoCall
      /\ call'.most = most /\ call'.shares = 0 /\ call'.local = local /\ call'.todo = todo
      /\ call'.saved = State /\ NotStored' /\ NotIssued' /\ TermsKept'
      /\ \A t : Owed(t)' = Recorded(local, t) - Recorded(records, t)
  BY <1>2, StartFacts
<1>6. /\ Owed(in)' = amountIn /\ Owed(out)' = paidOut
      /\ \A t : t # in /\ t # out => Owed(t)' = 0
  BY <1>1, <1>3, <1>4, <1>5
<1>7. amountOut = -(Owed(out)')
  BY <1>6 DEF paidOut
<1>8. call'.saved.records = records
  BY <1>5 DEF State
<1>9. WithinMost'
  BY <1>5, <1>6 DEF WithinMost, paidOut
<1>10. \/ amountIn \in TokenAmounts /\ \E floor \in MinLimits, price \in MaxLimits :
            amountOut \in Atomic!SwapInQuote(in, amountIn, out, floor, price)'
       \/ amountOut \in TokenAmounts /\ \E cap \in MaxLimits, price \in MaxLimits :
            amountIn \in Atomic!SwapOutQuote(in, cap, out, amountOut, price)'
  BY <1>5, SwapQuotesSame, SwapQuotesStay
<1>11. local = Changed(Changed(records, in, amountIn), out, -amountOut)
  BY DEF local, middle, paidOut
<1>12. SwapTerms(in, amountIn, out, amountOut)'
  BY <1>5, <1>6, <1>7, <1>8, <1>9, <1>10, <1>11 DEF SwapTerms, Bound
<1>13. UNCHANGED vars
  BY <1>2 DEF Start
<1>14. MovedBut({in, out})'
  BY <1>5, <1>6, <1>13, NothingMoved
<1>15. Tell(replayed', local)
  <2> DEFINE changes == SwapEvent(in, amountIn, out, amountOut)
  <2>1. DOMAIN changes = {in, out} /\ changes[in] = amountIn /\ changes[out] = paidOut
    BY DEF SwapEvent, paidOut
  <2>2. Tell(replayed, records) /\ Publish(changes)
    BY DEF SeenOK, SeenReplayed, SeenRecords
  <2> HIDE DEF changes
  <2>3. /\ \A t \in DOMAIN changes \cap Tokens :
             changes[t] \in Int /\ Recorded(local, t) = Recorded(records, t) + changes[t]
        /\ \A t \in Tokens \ DOMAIN changes : Recorded(local, t) = Recorded(records, t)
    BY <1>1, <1>3, <1>4, <2>1
  <2> QED
    BY <2>2, <2>3, PublishTells
<1>16. Tell(replayed, call.local)'
  BY <1>5, <1>15 DEF Tell
<1> QED
  BY <1>5, <1>12, <1>14, <1>16 DEF SwapUnderway

LEMMA SwapInBegins ==
  ASSUME call = NoCall, SeenOK, NEW user \in Users, NEW in, NEW out,
         NEW amountIn \in TokenAmounts, NEW limit \in MinLimits, NEW price \in MaxLimits,
         BeginSwapIn(user, in, amountIn, out, limit, price)
  PROVE  CallOK' /\ SeenStays /\ Underway'
<1> DEFINE most == Agreed([t \in {in, out} |-> IF t = in THEN amountIn ELSE -limit])
<1>1. PICK amountOut \in SwapInQuote(in, amountIn, out, limit, price) :
        /\ Start(user, most, 0, AfterSwap(in, amountIn, out, amountOut),
                 Pull(in, amountIn, amountIn) \o Push(out, amountOut) \o StoreAll,
                 ENABLED SwapExactAmountIn(user, in, amountIn, out, limit, price))
        /\ Publish(SwapEvent(in, amountIn, out, amountOut))
  BY DEF BeginSwapIn
<1>2. /\ in \in Bound /\ out \in Bound /\ in # out
      /\ amountOut \in Int /\ amountIn \in Int /\ limit \in Int
  BY SwapQuoteFacts, InputsAreIntegers, LimitsAreIntegers
<1>3. limit <= amountOut
  BY <1>2 DEF SwapInQuote
<1> DEFINE todo == Pull(in, amountIn, amountIn) \o Push(out, amountOut) \o StoreAll
<1>4. todo = <<Approving(in, amountIn), Taking(in, amountIn), Giving(out, amountOut), StoringAll>>
  <2>1. /\ Pull(in, amountIn, amountIn) = <<Approving(in, amountIn), Taking(in, amountIn)>>
        /\ Push(out, amountOut) = <<Giving(out, amountOut)>> /\ StoreAll = <<StoringAll>>
    BY DEF Pull, Push, StoreAll, Approving, Taking, Giving, StoringAll
  <2> QED
    BY <2>1, TwoOneOne
<1>5. in \in Tokens /\ out \in Tokens
  BY <1>2 DEF SeenOK, SeenRecords, IsBook, Bound
<1>6. amountIn <= most[in] /\ -amountOut <= most[out] /\ \A t \in Tokens \ {in, out} : 0 <= most[t]
  BY <1>2, <1>3, <1>5 DEF Agreed
<1>7. amountIn \in TokenAmounts /\ \E floor \in MinLimits, p \in MaxLimits :
        amountOut \in SwapInQuote(in, amountIn, out, floor, p)
  BY <1>1
<1> HIDE DEF most, todo
<1>8. \E will : Start(user, most, 0, AfterSwap(in, amountIn, out, amountOut), todo, will)
  BY <1>1 DEF todo
<1>9. /\ CallOK' /\ SeenStays
      /\ SwapUnderway(in, amountIn, out, amountOut, amountIn, StoringAll)'
  BY <1>1, <1>2, <1>4, <1>6, <1>7, <1>8, SwapBegins
<1>10. amountIn = Owed(in)' /\ amountOut = -(Owed(out)')
  BY <1>9 DEF SwapUnderway, SwapTerms
<1> QED
  BY <1>5, <1>9, <1>10 DEF Underway, Limits

LEMMA SwapOutBegins ==
  ASSUME call = NoCall, SeenOK, NEW user \in Users, NEW in, NEW out,
         NEW amountOut \in TokenAmounts, NEW limit \in MaxLimits, NEW price \in MaxLimits,
         BeginSwapOut(user, in, limit, out, amountOut, price)
  PROVE  CallOK' /\ SeenStays /\ Underway'
<1> DEFINE most  == Agreed([t \in {in, out} |-> IF t = in THEN limit ELSE -amountOut])
           store == Storing({in, out})
<1>1. PICK amountIn \in SwapOutQuote(in, limit, out, amountOut, price) :
        /\ Start(user, most, 0, AfterSwap(in, amountIn, out, amountOut),
                 Pull(in, amountIn, limit) \o Push(out, amountOut) \o Store({in, out}),
                 ENABLED SwapExactAmountOut(user, in, limit, out, amountOut, price))
        /\ Publish(SwapEvent(in, amountIn, out, amountOut))
  BY DEF BeginSwapOut
<1>2. /\ in \in Bound /\ out \in Bound /\ in # out
      /\ amountIn \in Int /\ amountOut \in Int /\ limit \in Int
  BY SwapQuoteFacts, InputsAreIntegers, LimitsAreIntegers
<1>3. amountIn <= limit
  BY <1>2 DEF SwapOutQuote
<1> DEFINE todo == Pull(in, amountIn, limit) \o Push(out, amountOut) \o Store({in, out})
<1>4. todo = <<Approving(in, limit), Taking(in, amountIn), Giving(out, amountOut), store>>
  <2> DEFINE p == Pull(in, amountIn, limit)
             q == Push(out, amountOut)
             r == Store({in, out})
  <2>1. p = <<Approving(in, limit), Taking(in, amountIn)>> /\ q = <<Giving(out, amountOut)>>
    BY DEF Pull, Push, Approving, Taking, Giving
  <2>2. r = <<store>>
    BY DEF Store, Storing
  <2> HIDE DEF store, p, q, r
  <2>3. p \o q \o r = <<Approving(in, limit), Taking(in, amountIn), Giving(out, amountOut), store>>
    BY <2>1, <2>2, TwoOneOne
  <2> QED
    BY <2>3 DEF p, q, r
<1>5. in \in Tokens /\ out \in Tokens
  BY <1>2 DEF SeenOK, SeenRecords, IsBook, Bound
<1>6. amountIn <= most[in] /\ -amountOut <= most[out] /\ \A t \in Tokens \ {in, out} : 0 <= most[t]
  BY <1>2, <1>3, <1>5 DEF Agreed
<1>7. amountOut \in TokenAmounts /\ \E cap \in MaxLimits, p \in MaxLimits :
        amountIn \in SwapOutQuote(in, cap, out, amountOut, p)
  BY <1>1
<1>8. store \in {StoringAll, Storing({in, out})}
  OBVIOUS
<1> HIDE DEF most, todo, store
<1>9. \E will : Start(user, most, 0, AfterSwap(in, amountIn, out, amountOut), todo, will)
  BY <1>1 DEF todo
<1>10. /\ CallOK' /\ SeenStays
       /\ SwapUnderway(in, amountIn, out, amountOut, limit, store)'
  BY <1>1, <1>2, <1>4, <1>6, <1>7, <1>8, <1>9, SwapBegins
<1>11. amountIn = Owed(in)' /\ amountOut = -(Owed(out)')
  BY <1>10 DEF SwapUnderway, SwapTerms
<1> QED
  BY <1>5, <1>8, <1>10, <1>11 DEF Underway, Limits

\* What is owed is a number, once the events tell the records to be stored.
LEMMA OwedIsInteger ==
  ASSUME SeenOK, call # NoCall, Tell(replayed, call.local)
  PROVE  IsBook(call.saved.records) /\ \A t \in Tokens : Owed(t) \in Int
<1>1. IsBook(call.saved.records)
  BY DEF SeenOK, SeenRecords
<1>2. ASSUME NEW t \in Tokens
      PROVE  Owed(t) \in Int
  <2>1. Recorded(call.local, t) \in Int
    BY DEF Tell
  <2>2. Recorded(call.saved.records, t) \in Int
    BY <1>1 DEF IsBook, BookRecord, Recorded
  <2> QED
    BY <2>1, <2>2 DEF Owed
<1> QED
  BY <1>1, <1>2

\* The books that a swap starts from and ends with.
LEMMA SwapBooks ==
  ASSUME SeenOK, call # NoCall, NEW in, NEW amountIn, NEW out, NEW amountOut,
         SwapTerms(in, amountIn, out, amountOut), Tell(replayed, call.local)
  PROVE  /\ in \in Tokens /\ out \in Tokens /\ in # out
         /\ amountIn \in Int /\ amountOut \in Int
         /\ IsBook(call.saved.records) /\ IsBook(call.local)
         /\ DOMAIN call.local = DOMAIN call.saved.records
         /\ \A t : t # in /\ t # out => Owed(t) = 0
         /\ \A t \in DOMAIN call.local \ {in, out} : call.local[t] = call.saved.records[t]
<1> DEFINE recs    == call.saved.records
           paidOut == -amountOut
           middle  == Changed(recs, in, amountIn)
           local   == Changed(middle, out, paidOut)
<1>1. /\ IsBook(recs) /\ in \in DOMAIN recs /\ out \in DOMAIN recs /\ in # out
      /\ call.local = local /\ in \in Tokens /\ out \in Tokens
  BY OwedIsInteger DEF SwapTerms, IsBook
<1>2. amountIn \in Int /\ paidOut \in Int /\ amountOut \in Int
  BY <1>1, OwedIsInteger DEF SwapTerms
<1> HIDE DEF recs, paidOut, middle, local
<1>3. /\ IsBook(middle) /\ DOMAIN middle = DOMAIN recs
      /\ \A t : Recorded(recs, t) \in Int
      /\ \A t : t # in => Recorded(middle, t) = Recorded(recs, t)
  BY <1>1, <1>2, ChangedBook DEF middle
<1>4. \A t \in DOMAIN recs \ {in} : middle[t] = recs[t]
  BY <1>1, <1>2, OtherRecords DEF middle
<1>5. /\ IsBook(local) /\ DOMAIN local = DOMAIN recs
      /\ \A t : t # out => Recorded(local, t) = Recorded(middle, t)
  BY <1>1, <1>2, <1>3, ChangedBook DEF local
<1>6. \A t \in DOMAIN middle \ {out} : local[t] = middle[t]
  BY <1>1, <1>2, <1>3, OtherRecords DEF local
<1>7. \A t : t # in /\ t # out => Owed(t) = 0
  BY <1>1, <1>3, <1>5 DEF Owed, recs
<1>8. \A t \in DOMAIN local \ {in, out} : local[t] = recs[t]
  BY <1>3, <1>4, <1>5, <1>6
<1> QED
  BY <1>1, <1>2, <1>5, <1>7, <1>8 DEF recs

LEMMA SwapTermsStay ==
  ASSUME Advance, SeenStays, NEW in, NEW amountIn, NEW out, NEW amountOut,
         SwapTerms(in, amountIn, out, amountOut)
  PROVE  SwapTerms(in, amountIn, out, amountOut)'
<1>1. /\ \A t : Owed(t)' = Owed(t)
      /\ WithinMost' <=> WithinMost
  BY Kept
<1>2. call'.saved = call.saved /\ call'.local = call.local /\ call'.shares = call.shares
  BY DEF Advance, SameCall
<1> QED
  BY <1>1, <1>2, SwapQuotesStay DEF SwapTerms

LEMMA SwapSteps ==
  ASSUME SeenOK, CallOK, call # NoCall, Step, NEW in, NEW amountIn, NEW out, NEW amountOut,
         NEW limit, NEW store, SwapUnderway(in, amountIn, out, amountOut, limit, store)
  PROVE  SwapUnderway(in, amountIn, out, amountOut, limit, store)'
<1>1. /\ SwapTerms(in, amountIn, out, amountOut) /\ store \in {StoringAll, Storing({in, out})}
      /\ TermsKept /\ NotIssued /\ Tell(replayed, call.local)
  BY DEF SwapUnderway
<1>2. /\ in \in Tokens /\ out \in Tokens /\ in # out
      /\ amountIn = Owed(in) /\ amountOut = -Owed(out) /\ Owed(out) \in Int
      /\ IsBook(call.saved.records) /\ IsBook(call.local)
      /\ DOMAIN call.local = DOMAIN call.saved.records
      /\ \A t \in DOMAIN call.local \ {in, out} : call.local[t] = call.saved.records[t]
  BY <1>1, SwapBooks, OwedIsInteger DEF SwapTerms
<1>3. SeenStays
  BY StepKeepsCall
<1>4. ASSUME Advance, UNCHANGED <<lpBalance, totalShares, controller, swapFee, replayed>>
      PROVE  /\ SwapTerms(in, amountIn, out, amountOut)'
             /\ TermsKept' /\ NotIssued' /\ Tell(replayed, call.local)'
  BY <1>1, <1>3, <1>4, SwapTermsStay, Kept
<1>5. CASE /\ call.todo = <<Approving(in, limit), Taking(in, amountIn), Giving(out, amountOut), store>>
           /\ MovedBut({in, out}) /\ NotStored
  <2>1. /\ call.todo # <<>> /\ Effect = Approving(in, limit)
        /\ Tail(call.todo) = <<Taking(in, amountIn), Giving(out, amountOut), store>>
    BY <1>5 DEF Effect
  <2>2. Advance /\ UNCHANGED vars /\ replayed' = replayed
    BY <2>1, ApproveStep
  <2>3. call'.todo = <<Taking(in, amountIn), Giving(out, amountOut), store>>
    BY <2>1, <2>2 DEF Advance
  <2>4. MovedBut({in, out})' /\ NotStored'
    BY <1>5, <2>2, Kept DEF vars
  <2> QED
    BY <1>1, <1>4, <2>2, <2>3, <2>4 DEF SwapUnderway, vars
<1>6. CASE /\ call.todo = <<Taking(in, amountIn), Giving(out, amountOut), store>>
           /\ MovedBut({in, out}) /\ NotStored
  <2>1. /\ call.todo # <<>> /\ Effect = Taking(in, amountIn)
        /\ Tail(call.todo) = <<Giving(out, amountOut), store>>
        /\ in \in {in, out} /\ {out} = {in, out} \ {in}
    BY <1>2, <1>6 DEF Effect
  <2>2. /\ Advance /\ MovedBut({out})' /\ PaidIn(in, amountIn)'
        /\ UNCHANGED <<lpBalance, totalShares, controller, swapFee, records, replayed>>
    BY <1>2, <1>6, <2>1, TakeStep
  <2>3. call'.todo = <<Giving(out, amountOut), store>>
    BY <2>1, <2>2 DEF Advance
  <2>4. NotStored'
    BY <1>6, <2>2, Kept
  <2> QED
    BY <1>1, <1>4, <2>2, <2>3, <2>4 DEF SwapUnderway
<1>7. CASE /\ call.todo = <<Giving(out, amountOut), store>>
           /\ MovedBut({out}) /\ NotStored /\ PaidIn(in, amountIn)
  <2>1. /\ call.todo # <<>> /\ Effect = Giving(out, amountOut) /\ Tail(call.todo) = <<store>>
        /\ out \in {out} /\ {} = {out} \ {out}
    BY <1>7 DEF Effect
  <2>2. /\ Advance /\ MovedBut({})' /\ PaidOut(out, amountOut)'
        /\ UNCHANGED <<lpBalance, totalShares, controller, swapFee, records, replayed>>
    BY <1>2, <1>7, <2>1, GiveStep
  <2>3. call'.todo = <<store>>
    BY <2>1, <2>2 DEF Advance
  <2>4. NotStored' /\ PaidIn(in, amountIn)'
    BY <1>7, <2>2, Kept
  <2> QED
    BY <1>1, <1>4, <2>2, <2>3, <2>4 DEF SwapUnderway
<1>8. CASE /\ call.todo = <<store>>
           /\ MovedBut({}) /\ NotStored /\ PaidIn(in, amountIn) /\ PaidOut(out, amountOut)
  <2>1. call.todo # <<>> /\ Effect = store /\ Tail(call.todo) = <<>>
    BY <1>8 DEF Effect
  <2>2. /\ Advance /\ Stored'
        /\ UNCHANGED <<lpBalance, totalShares, controller, swapFee, tokenBalance, replayed>>
    BY <1>1, <1>2, <1>8, <2>1, StoreAllStep, StoreStep
  <2>3. call'.todo = <<>>
    BY <2>1, <2>2 DEF Advance
  <2>4. MovedBut({})' /\ PaidIn(in, amountIn)' /\ PaidOut(out, amountOut)'
    BY <1>8, <2>2, Kept
  <2> QED
    BY <1>1, <1>4, <2>2, <2>3, <2>4 DEF SwapUnderway
<1>9. call.todo # <<>>
  BY DEF Step, JoinToken, ExitToken, InitToken, InitEnd, ApprovePool, Take, TakeDeposit, Give,
         StoreRecords, ChangeShares, Doing
<1> QED
  BY <1>5, <1>6, <1>7, <1>8, <1>9 DEF SwapUnderway

-----------------------------------------------------------------------------
(***************************************************************************)
(* One token against shares                                                *)
(***************************************************************************)
LEMMA OneTokenBegins ==
  ASSUME call = NoCall, SeenOK, NEW user \in Users, NEW token \in Bound, NEW change \in Int,
         NEW shares, NEW most, NEW todo, NEW local, local = Changed(records, token, change),
         change <= most[token], \A t \in Tokens \ {token} : 0 <= most[t],
         \E will : Start(user, most, shares, local, todo, will),
         Publish(TokenEvent(token, change))
  PROVE  /\ CallOK' /\ SeenStays /\ call' # NoCall
         /\ call'.local = local /\ call'.todo = todo /\ call'.shares = shares
         /\ call'.saved.records = records
         /\ NotStored' /\ NotIssued' /\ TermsKept' /\ WithinMost'
         /\ Owed(token)' = change /\ MovedBut({token})' /\ Tell(replayed, call.local)'
<1>1. IsBook(records) /\ token \in Tokens
  BY DEF SeenOK, SeenRecords, IsBook, Bound
<1>2. PICK will : Start(user, most, shares, local, todo, will)
  OBVIOUS
<1>3. /\ Recorded(local, token) = Recorded(records, token) + change
      /\ \A t : t # token => Recorded(local, t) = Recorded(records, t)
      /\ \A t : Recorded(records, t) \in Int
  BY <1>1, ChangedBook DEF Bound
<1>4. /\ CallOK' /\ SeenStays /\ call' # NoCall
      /\ call'.most = most /\ call'.shares = shares /\ call'.local = local /\ call'.todo = todo
      /\ call'.saved = State /\ NotStored' /\ NotIssued' /\ TermsKept'
      /\ \A t : Owed(t)' = Recorded(local, t) - Recorded(records, t)
  BY <1>2, StartFacts
<1>5. Owed(token)' = change /\ \A t : t # token => Owed(t)' = 0
  BY <1>3, <1>4
<1>6. call'.saved.records = records
  BY <1>4 DEF State
<1>7. WithinMost'
  BY <1>4, <1>5 DEF WithinMost
<1>8. UNCHANGED vars
  BY <1>2 DEF Start
<1>9. MovedBut({token})'
  BY <1>4, <1>5, <1>8, NothingMoved
<1>10. Tell(replayed', local)
  <2> DEFINE changes == TokenEvent(token, change)
  <2>1. DOMAIN changes = {token} /\ changes[token] = change
    BY DEF TokenEvent
  <2>2. Tell(replayed, records) /\ Publish(changes)
    BY DEF SeenOK, SeenReplayed, SeenRecords
  <2> HIDE DEF changes
  <2>3. /\ \A t \in DOMAIN changes \cap Tokens :
             changes[t] \in Int /\ Recorded(local, t) = Recorded(records, t) + changes[t]
        /\ \A t \in Tokens \ DOMAIN changes : Recorded(local, t) = Recorded(records, t)
    BY <1>3, <2>1
  <2> QED
    BY <2>2, <2>3, PublishTells
<1>11. Tell(replayed, call.local)'
  BY <1>4, <1>10 DEF Tell
<1> QED
  BY <1>4, <1>5, <1>6, <1>7, <1>9, <1>11

LEMMA DepositBegins ==
  ASSUME call = NoCall, SeenOK, NEW user \in Users, NEW token \in Bound, NEW amount \in Int,
         NEW shares \in Int, NEW least, NEW limit, NEW most, NEW todo,
         amount <= most[token], \A t \in Tokens \ {token} : 0 <= most[t], least <= shares,
         todo = <<StoringAll, Approving(token, limit), Taking(token, amount), Minting(shares)>>,
         \E will : Start(user, most, least, Changed(records, token, amount), todo, will),
         Publish(TokenEvent(token, amount)),
         \/ amount \in TokenAmounts /\ \E floor \in MinLimits :
              shares \in DepInQuote(token, amount, floor)
         \/ shares \in Amounts /\ \E cap \in MaxLimits : amount \in DepOutQuote(token, shares, cap)
  PROVE  CallOK' /\ SeenStays /\ DepositUnderway(token, amount, limit, shares)'
<1> DEFINE local == Changed(records, token, amount)
<1>1. \E will : Start(user, most, least, local, todo, will)
  OBVIOUS
<1>2. local = Changed(records, token, amount)
  OBVIOUS
<1> HIDE DEF local
<1>3. /\ CallOK' /\ SeenStays /\ call' # NoCall
      /\ call'.local = local /\ call'.todo = todo /\ call'.shares = least
      /\ call'.saved.records = records
      /\ NotStored' /\ NotIssued' /\ TermsKept' /\ WithinMost'
      /\ Owed(token)' = amount /\ MovedBut({token})' /\ Tell(replayed, call.local)'
  BY <1>1, <1>2, OneTokenBegins
<1>4. \/ amount \in TokenAmounts /\ \E floor \in MinLimits :
           shares \in Atomic!DepInQuote(token, amount, floor)'
      \/ shares \in Amounts /\ \E cap \in MaxLimits :
           amount \in Atomic!DepOutQuote(token, shares, cap)'
  BY <1>3, OneTokenQuotesSame, OneTokenQuotesStay
<1>5. DepositTerms(token, amount, shares)'
  BY <1>2, <1>3, <1>4 DEF DepositTerms, Bound
<1> QED
  BY <1>3, <1>5 DEF DepositUnderway

LEMMA DepositInBegins ==
  ASSUME call = NoCall, SeenOK, NEW user \in Users, NEW token,
         NEW amount \in TokenAmounts, NEW limit \in MinLimits,
         BeginDepositIn(user, token, amount, limit)
  PROVE  CallOK' /\ SeenStays /\ Underway'
<1> DEFINE most == Agreed([t \in {token} |-> amount])
<1>1. PICK shares \in DepInQuote(token, amount, limit) :
        /\ Start(user, most, limit, Changed(records, token, amount),
                 StoreAll \o Pull(token, amount, amount) \o Mint(shares),
                 ENABLED DepToknAmtInGetLpToknsOut(user, token, amount, limit))
        /\ Publish(TokenEvent(token, amount))
  BY DEF BeginDepositIn
<1>2. token \in Bound /\ shares \in Int /\ amount \in Int /\ limit \in Int
  BY OneTokenQuoteFacts, InputsAreIntegers, LimitsAreIntegers
<1>3. limit <= shares
  BY <1>2 DEF DepInQuote
<1> DEFINE all == StoreAll \o Pull(token, amount, amount) \o Mint(shares)
<1>4. all = <<StoringAll, Approving(token, amount), Taking(token, amount), Minting(shares)>>
  <2> DEFINE p == StoreAll
             q == Pull(token, amount, amount)
             r == Mint(shares)
  <2>1. /\ p = <<StoringAll>> /\ q = <<Approving(token, amount), Taking(token, amount)>>
        /\ r = <<Minting(shares)>>
    BY DEF Pull, Mint, StoreAll, StoringAll, Approving, Taking, Minting
  <2> HIDE DEF p, q, r
  <2>2. p \o q \o r
          = <<StoringAll, Approving(token, amount), Taking(token, amount), Minting(shares)>>
    BY <2>1, OneTwoOne
  <2> QED
    BY <2>2 DEF p, q, r
<1>5. token \in Tokens
  BY <1>2 DEF SeenOK, SeenRecords, IsBook, Bound
<1>6. amount <= most[token] /\ \A t \in Tokens \ {token} : 0 <= most[t]
  BY <1>2, <1>5 DEF Agreed
<1>7. amount \in TokenAmounts /\ \E floor \in MinLimits : shares \in DepInQuote(token, amount, floor)
  BY <1>1
<1> HIDE DEF most, all
<1>8. \E will : Start(user, most, limit, Changed(records, token, amount), all, will)
  BY <1>1 DEF all
<1>9. CallOK' /\ SeenStays /\ DepositUnderway(token, amount, amount, shares)'
  BY <1>1, <1>2, <1>3, <1>4, <1>6, <1>7, <1>8, DepositBegins
<1>10. amount = Owed(token)'
  BY <1>9 DEF DepositUnderway, DepositTerms
<1> QED
  BY <1>2, <1>5, <1>9, <1>10 DEF Underway, Limits

LEMMA DepositOutBegins ==
  ASSUME call = NoCall, SeenOK, NEW user \in Users, NEW token,
         NEW shares \in Amounts, NEW limit \in MaxLimits,
         BeginDepositOut(user, token, shares, limit)
  PROVE  CallOK' /\ SeenStays /\ Underway'
<1> DEFINE most == Agreed([t \in {token} |-> limit])
<1>1. PICK amount \in DepOutQuote(token, shares, limit) :
        /\ Start(user, most, shares, Changed(records, token, amount),
                 StoreAll \o Pull(token, amount, limit) \o Mint(shares),
                 ENABLED DepLpToknAmtOutGetToknIn(user, token, shares, limit))
        /\ Publish(TokenEvent(token, amount))
  BY DEF BeginDepositOut
<1>2. token \in Bound /\ shares \in Int /\ amount \in Int /\ limit \in Int
  BY OneTokenQuoteFacts, InputsAreIntegers, LimitsAreIntegers
<1>3. amount <= limit /\ shares <= shares
  BY <1>2 DEF DepOutQuote
<1> DEFINE all == StoreAll \o Pull(token, amount, limit) \o Mint(shares)
<1>4. all = <<StoringAll, Approving(token, limit), Taking(token, amount), Minting(shares)>>
  <2> DEFINE p == StoreAll
             q == Pull(token, amount, limit)
             r == Mint(shares)
  <2>1. /\ p = <<StoringAll>> /\ q = <<Approving(token, limit), Taking(token, amount)>>
        /\ r = <<Minting(shares)>>
    BY DEF Pull, Mint, StoreAll, StoringAll, Approving, Taking, Minting
  <2> HIDE DEF p, q, r
  <2>2. p \o q \o r
          = <<StoringAll, Approving(token, limit), Taking(token, amount), Minting(shares)>>
    BY <2>1, OneTwoOne
  <2> QED
    BY <2>2 DEF p, q, r
<1>5. token \in Tokens
  BY <1>2 DEF SeenOK, SeenRecords, IsBook, Bound
<1>6. amount <= most[token] /\ \A t \in Tokens \ {token} : 0 <= most[t]
  BY <1>2, <1>3, <1>5 DEF Agreed
<1>7. shares \in Amounts /\ \E cap \in MaxLimits : amount \in DepOutQuote(token, shares, cap)
  BY <1>1
<1> HIDE DEF most, all
<1>8. \E will : Start(user, most, shares, Changed(records, token, amount), all, will)
  BY <1>1 DEF all
<1>9. CallOK' /\ SeenStays /\ DepositUnderway(token, amount, limit, shares)'
  BY <1>1, <1>2, <1>3, <1>4, <1>6, <1>7, <1>8, DepositBegins
<1>10. amount = Owed(token)'
  BY <1>9 DEF DepositUnderway, DepositTerms
<1> QED
  BY <1>2, <1>5, <1>9, <1>10 DEF Underway, Limits

LEMMA DepositTermsStay ==
  ASSUME Advance, SeenStays, NEW token, NEW amount, NEW shares,
         DepositTerms(token, amount, shares)
  PROVE  DepositTerms(token, amount, shares)'
<1>1. /\ \A t : Owed(t)' = Owed(t)
      /\ WithinMost' <=> WithinMost
  BY Kept
<1>2. call'.saved = call.saved /\ call'.local = call.local /\ call'.shares = call.shares
  BY DEF Advance, SameCall
<1> QED
  BY <1>1, <1>2, OneTokenQuotesStay DEF DepositTerms

LEMMA DepositSteps ==
  ASSUME SeenOK, CallOK, call # NoCall, Step, NEW token, NEW amount, NEW limit, NEW shares,
         DepositUnderway(token, amount, limit, shares)
  PROVE  DepositUnderway(token, amount, limit, shares)'
<1>1. DepositTerms(token, amount, shares) /\ TermsKept /\ Tell(replayed, call.local)
  BY DEF DepositUnderway
<1>2. token \in Tokens /\ amount = Owed(token)
  BY <1>1, OwedIsInteger DEF DepositTerms, IsBook
<1>3. SeenStays
  BY StepKeepsCall
<1>4. ASSUME Advance, UNCHANGED <<controller, swapFee, replayed>>
      PROVE  DepositTerms(token, amount, shares)' /\ TermsKept' /\ Tell(replayed, call.local)'
  BY <1>1, <1>3, <1>4, DepositTermsStay, Kept
<1>5. CASE /\ call.todo = <<StoringAll, Approving(token, limit), Taking(token, amount),
                            Minting(shares)>>
           /\ MovedBut({token}) /\ NotStored /\ NotIssued
  <2>1. /\ call.todo # <<>> /\ Effect = StoringAll
        /\ Tail(call.todo) = <<Approving(token, limit), Taking(token, amount), Minting(shares)>>
    BY <1>5 DEF Effect
  <2>2. /\ Advance /\ Stored'
        /\ UNCHANGED <<lpBalance, totalShares, controller, swapFee, tokenBalance, replayed>>
    BY <2>1, StoreAllStep
  <2>3. call'.todo = <<Approving(token, limit), Taking(token, amount), Minting(shares)>>
    BY <2>1, <2>2 DEF Advance
  <2>4. MovedBut({token})' /\ NotIssued'
    BY <1>5, <2>2, Kept
  <2> QED
    BY <1>4, <2>2, <2>3, <2>4 DEF DepositUnderway
<1>6. CASE /\ call.todo = <<Approving(token, limit), Taking(token, amount), Minting(shares)>>
           /\ MovedBut({token}) /\ Stored /\ NotIssued
  <2>1. /\ call.todo # <<>> /\ Effect = Approving(token, limit)
        /\ Tail(call.todo) = <<Taking(token, amount), Minting(shares)>>
    BY <1>6 DEF Effect
  <2>2. /\ Advance
        /\ UNCHANGED <<lpBalance, totalShares, controller, swapFee, records, tokenBalance, replayed>>
    BY <2>1, ApproveStep DEF vars, tokenVars, poolVars
  <2>3. call'.todo = <<Taking(token, amount), Minting(shares)>>
    BY <2>1, <2>2 DEF Advance
  <2>4. MovedBut({token})' /\ Stored' /\ NotIssued'
    BY <1>6, <2>2, Kept
  <2> QED
    BY <1>4, <2>2, <2>3, <2>4 DEF DepositUnderway
<1>7. CASE /\ call.todo = <<Taking(token, amount), Minting(shares)>>
           /\ MovedBut({token}) /\ Stored /\ NotIssued
  <2>1. /\ call.todo # <<>> /\ Effect = Taking(token, amount)
        /\ Tail(call.todo) = <<Minting(shares)>>
        /\ token \in {token} /\ {} = {token} \ {token}
    BY <1>7 DEF Effect
  <2>2. /\ Advance /\ MovedBut({})' /\ PaidIn(token, amount)'
        /\ UNCHANGED <<lpBalance, totalShares, controller, swapFee, records, replayed>>
    BY <1>2, <1>7, <2>1, TakeStep
  <2>3. call'.todo = <<Minting(shares)>>
    BY <2>1, <2>2 DEF Advance
  <2>4. Stored' /\ NotIssued'
    BY <1>7, <2>2, Kept
  <2> QED
    BY <1>4, <2>2, <2>3, <2>4 DEF DepositUnderway
<1>8. CASE /\ call.todo = <<Minting(shares)>>
           /\ MovedBut({}) /\ Stored /\ NotIssued /\ PaidIn(token, amount)
  <2>1. call.todo # <<>> /\ Effect = Minting(shares) /\ Tail(call.todo) = <<>>
    BY <1>8 DEF Effect
  <2>2. /\ Advance /\ Issued(shares)'
        /\ UNCHANGED <<controller, swapFee, records, tokenBalance, replayed>>
    BY <1>8, <2>1, MintStep
  <2>3. call'.todo = <<>>
    BY <2>1, <2>2 DEF Advance
  <2>4. MovedBut({})' /\ Stored' /\ PaidIn(token, amount)'
    BY <1>8, <2>2, Kept
  <2> QED
    BY <1>4, <2>2, <2>3, <2>4 DEF DepositUnderway
<1>9. call.todo # <<>>
  BY DEF Step, JoinToken, ExitToken, InitToken, InitEnd, ApprovePool, Take, TakeDeposit, Give,
         StoreRecords, ChangeShares, Doing
<1> QED
  BY <1>5, <1>6, <1>7, <1>8, <1>9 DEF DepositUnderway

LEMMA WithdrawBegins ==
  ASSUME call = NoCall, SeenOK, NEW user \in Users, NEW token \in Bound, NEW amount \in Int,
         NEW shares \in Int, NEW least, NEW most, NEW todo,
         -amount <= most[token], \A t \in Tokens \ {token} : 0 <= most[t], least <= -shares,
         todo = <<Redeeming(shares), Giving(token, amount), StoringAll>>,
         \E will : Start(user, most, least, Changed(records, token, -amount), todo, will),
         Publish(TokenEvent(token, -amount)),
         \/ shares \in Amounts /\ \E floor \in MinLimits :
              amount \in WdrInQuote(token, shares, floor)
         \/ amount \in TokenAmounts /\ \E cap \in MaxLimits :
              shares \in WdrOutQuote(token, amount, cap)
  PROVE  CallOK' /\ SeenStays /\ WithdrawUnderway(token, amount, shares)'
<1> DEFINE change == -amount
           local  == Changed(records, token, change)
<1>1. \E will : Start(user, most, least, local, todo, will)
  OBVIOUS
<1>2. change \in Int /\ change <= most[token] /\ Publish(TokenEvent(token, change))
  OBVIOUS
<1>3. local = Changed(records, token, change) /\ local = Changed(records, token, -amount)
  OBVIOUS
<1>4. \A x : x = change => amount = -x
  OBVIOUS
<1> HIDE DEF change, local
<1>5. /\ CallOK' /\ SeenStays /\ call' # NoCall
      /\ call'.local = local /\ call'.todo = todo /\ call'.shares = least
      /\ call'.saved.records = records
      /\ NotStored' /\ NotIssued' /\ TermsKept' /\ WithinMost'
      /\ Owed(token)' = change /\ MovedBut({token})' /\ Tell(replayed, call.local)'
  BY <1>1, <1>2, <1>3, OneTokenBegins
<1>6. amount = -(Owed(token)')
  BY <1>4, <1>5
<1>7. \/ shares \in Amounts /\ \E floor \in MinLimits :
           amount \in Atomic!WdrInQuote(token, shares, floor)'
      \/ amount \in TokenAmounts /\ \E cap \in MaxLimits :
           shares \in Atomic!WdrOutQuote(token, amount, cap)'
  BY <1>5, OneTokenQuotesSame, OneTokenQuotesStay
<1>8. WithdrawTerms(token, amount, shares)'
  BY <1>3, <1>5, <1>6, <1>7 DEF WithdrawTerms, Bound
<1> QED
  BY <1>5, <1>8 DEF WithdrawUnderway

LEMMA WithdrawInBegins ==
  ASSUME call = NoCall, SeenOK, NEW user \in Users, NEW token,
         NEW shares \in Amounts, NEW limit \in MinLimits,
         BeginWithdrawIn(user, token, shares, limit)
  PROVE  CallOK' /\ SeenStays /\ Underway'
<1> DEFINE most  == Agreed([t \in {token} |-> -limit])
           least == -shares
<1>1. PICK amount \in WdrInQuote(token, shares, limit) :
        /\ Start(user, most, -shares, Changed(records, token, -amount),
                 Redeem(shares) \o Push(token, amount) \o StoreAll,
                 ENABLED WdrToknAmtInGetLpToknsOut(user, token, shares, limit))
        /\ Publish(TokenEvent(token, -amount))
  BY DEF BeginWithdrawIn
<1>2. token \in Bound /\ shares \in Int /\ amount \in Int /\ limit \in Int
  BY OneTokenQuoteFacts, InputsAreIntegers, LimitsAreIntegers
<1>3. limit <= amount /\ least <= -shares
  BY <1>2 DEF WdrInQuote
<1> DEFINE all == Redeem(shares) \o Push(token, amount) \o StoreAll
<1>4. all = <<Redeeming(shares), Giving(token, amount), StoringAll>>
  <2> DEFINE p == Redeem(shares)
             q == Push(token, amount)
             r == StoreAll
  <2>1. p = <<Redeeming(shares)>> /\ q = <<Giving(token, amount)>> /\ r = <<StoringAll>>
    BY DEF Redeem, Push, StoreAll, StoringAll, Redeeming, Giving
  <2> HIDE DEF p, q, r
  <2>2. p \o q \o r = <<Redeeming(shares), Giving(token, amount), StoringAll>>
    BY <2>1, OneOneOne
  <2> QED
    BY <2>2 DEF p, q, r
<1>5. token \in Tokens
  BY <1>2 DEF SeenOK, SeenRecords, IsBook, Bound
<1>6. -amount <= most[token] /\ \A t \in Tokens \ {token} : 0 <= most[t]
  BY <1>2, <1>3, <1>5 DEF Agreed
<1>7. shares \in Amounts /\ \E floor \in MinLimits : amount \in WdrInQuote(token, shares, floor)
  BY <1>1
<1> HIDE DEF most, all
<1>8. \E will : Start(user, most, least, Changed(records, token, -amount), all, will)
  BY <1>1 DEF all
<1> HIDE DEF least
<1>9. CallOK' /\ SeenStays /\ WithdrawUnderway(token, amount, shares)'
  BY <1>1, <1>2, <1>3, <1>4, <1>6, <1>7, <1>8, WithdrawBegins
<1>10. amount = -(Owed(token)')
  BY <1>9 DEF WithdrawUnderway, WithdrawTerms
<1> QED
  BY <1>2, <1>5, <1>9, <1>10 DEF Underway

LEMMA WithdrawOutBegins ==
  ASSUME call = NoCall, SeenOK, NEW user \in Users, NEW token,
         NEW amount \in TokenAmounts, NEW limit \in MaxLimits,
         BeginWithdrawOut(user, token, amount, limit)
  PROVE  CallOK' /\ SeenStays /\ Underway'
<1> DEFINE most  == Agreed([t \in {token} |-> -amount])
           least == -limit
<1>1. PICK shares \in WdrOutQuote(token, amount, limit) :
        /\ Start(user, most, -limit, Changed(records, token, -amount),
                 Redeem(shares) \o Push(token, amount) \o StoreAll,
                 ENABLED WdrToknAmtOutGetLpToknsIn(user, token, amount, limit))
        /\ Publish(TokenEvent(token, -amount))
  BY DEF BeginWithdrawOut
<1>2. token \in Bound /\ shares \in Int /\ amount \in Int /\ limit \in Int
  BY OneTokenQuoteFacts, InputsAreIntegers, LimitsAreIntegers
<1>3. shares <= limit /\ least <= -shares
  BY <1>2 DEF WdrOutQuote
<1> DEFINE all == Redeem(shares) \o Push(token, amount) \o StoreAll
<1>4. all = <<Redeeming(shares), Giving(token, amount), StoringAll>>
  <2> DEFINE p == Redeem(shares)
             q == Push(token, amount)
             r == StoreAll
  <2>1. p = <<Redeeming(shares)>> /\ q = <<Giving(token, amount)>> /\ r = <<StoringAll>>
    BY DEF Redeem, Push, StoreAll, StoringAll, Redeeming, Giving
  <2> HIDE DEF p, q, r
  <2>2. p \o q \o r = <<Redeeming(shares), Giving(token, amount), StoringAll>>
    BY <2>1, OneOneOne
  <2> QED
    BY <2>2 DEF p, q, r
<1>5. token \in Tokens
  BY <1>2 DEF SeenOK, SeenRecords, IsBook, Bound
<1>6. -amount <= most[token] /\ \A t \in Tokens \ {token} : 0 <= most[t]
  BY <1>2, <1>5 DEF Agreed
<1>7. amount \in TokenAmounts /\ \E cap \in MaxLimits : shares \in WdrOutQuote(token, amount, cap)
  BY <1>1
<1> HIDE DEF most, all
<1>8. \E will : Start(user, most, least, Changed(records, token, -amount), all, will)
  BY <1>1 DEF all
<1> HIDE DEF least
<1>9. CallOK' /\ SeenStays /\ WithdrawUnderway(token, amount, shares)'
  BY <1>1, <1>2, <1>3, <1>4, <1>6, <1>7, <1>8, WithdrawBegins
<1>10. amount = -(Owed(token)')
  BY <1>9 DEF WithdrawUnderway, WithdrawTerms
<1> QED
  BY <1>2, <1>5, <1>9, <1>10 DEF Underway

LEMMA WithdrawTermsStay ==
  ASSUME Advance, SeenStays, NEW token, NEW amount, NEW shares,
         WithdrawTerms(token, amount, shares)
  PROVE  WithdrawTerms(token, amount, shares)'
<1>1. /\ \A t : Owed(t)' = Owed(t)
      /\ WithinMost' <=> WithinMost
  BY Kept
<1>2. call'.saved = call.saved /\ call'.local = call.local /\ call'.shares = call.shares
  BY DEF Advance, SameCall
<1> QED
  BY <1>1, <1>2, OneTokenQuotesStay DEF WithdrawTerms

LEMMA WithdrawSteps ==
  ASSUME SeenOK, CallOK, call # NoCall, Step, NEW token, NEW amount, NEW shares,
         WithdrawUnderway(token, amount, shares)
  PROVE  WithdrawUnderway(token, amount, shares)'
<1>1. WithdrawTerms(token, amount, shares) /\ TermsKept /\ Tell(replayed, call.local)
  BY DEF WithdrawUnderway
<1>2. token \in Tokens /\ amount = -Owed(token) /\ Owed(token) \in Int
  BY <1>1, OwedIsInteger DEF WithdrawTerms, IsBook
<1>3. SeenStays
  BY StepKeepsCall
<1>4. ASSUME Advance, UNCHANGED <<controller, swapFee, replayed>>
      PROVE  WithdrawTerms(token, amount, shares)' /\ TermsKept' /\ Tell(replayed, call.local)'
  BY <1>1, <1>3, <1>4, WithdrawTermsStay, Kept
<1>5. CASE /\ call.todo = <<Redeeming(shares), Giving(token, amount), StoringAll>>
           /\ MovedBut({token}) /\ NotStored /\ NotIssued
  <2>1. /\ call.todo # <<>> /\ Effect = Redeeming(shares)
        /\ Tail(call.todo) = <<Giving(token, amount), StoringAll>>
    BY <1>5 DEF Effect
  <2>2. /\ Advance /\ Redeemed(shares)'
        /\ UNCHANGED <<controller, swapFee, records, tokenBalance, replayed>>
    BY <1>5, <2>1, RedeemStep
  <2>3. call'.todo = <<Giving(token, amount), StoringAll>>
    BY <2>1, <2>2 DEF Advance
  <2>4. MovedBut({token})' /\ NotStored'
    BY <1>5, <2>2, Kept
  <2> QED
    BY <1>4, <2>2, <2>3, <2>4 DEF WithdrawUnderway
<1>6. CASE /\ call.todo = <<Giving(token, amount), StoringAll>>
           /\ MovedBut({token}) /\ NotStored /\ Redeemed(shares)
  <2>1. /\ call.todo # <<>> /\ Effect = Giving(token, amount)
        /\ Tail(call.todo) = <<StoringAll>>
        /\ token \in {token} /\ {} = {token} \ {token}
    BY <1>6 DEF Effect
  <2>2. /\ Advance /\ MovedBut({})' /\ PaidOut(token, amount)'
        /\ UNCHANGED <<lpBalance, totalShares, controller, swapFee, records, replayed>>
    BY <1>2, <1>6, <2>1, GiveStep
  <2>3. call'.todo = <<StoringAll>>
    BY <2>1, <2>2 DEF Advance
  <2>4. NotStored' /\ Redeemed(shares)'
    BY <1>6, <2>2, Kept
  <2> QED
    BY <1>4, <2>2, <2>3, <2>4 DEF WithdrawUnderway
<1>7. CASE /\ call.todo = <<StoringAll>>
           /\ MovedBut({}) /\ NotStored /\ Redeemed(shares) /\ PaidOut(token, amount)
  <2>1. call.todo # <<>> /\ Effect = StoringAll /\ Tail(call.todo) = <<>>
    BY <1>7 DEF Effect
  <2>2. /\ Advance /\ Stored'
        /\ UNCHANGED <<lpBalance, totalShares, controller, swapFee, tokenBalance, replayed>>
    BY <2>1, StoreAllStep
  <2>3. call'.todo = <<>>
    BY <2>1, <2>2 DEF Advance
  <2>4. MovedBut({})' /\ Redeemed(shares)' /\ PaidOut(token, amount)'
    BY <1>7, <2>2, Kept
  <2> QED
    BY <1>4, <2>2, <2>3, <2>4 DEF WithdrawUnderway
<1>8. call.todo # <<>>
  BY DEF Step, JoinToken, ExitToken, InitToken, InitEnd, ApprovePool, Take, TakeDeposit, Give,
         StoreRecords, ChangeShares, Doing
<1> QED
  BY <1>5, <1>6, <1>7, <1>8 DEF WithdrawUnderway

-----------------------------------------------------------------------------
(***************************************************************************)
(* The loops of join_pool and exit_pool                                    *)
(***************************************************************************)
LEMMA BalancesBook ==
  ASSUME SeenOK, call # NoCall, BalancesOnly, Tell(replayed, call.local)
  PROVE  /\ IsBook(call.saved.records) /\ IsBook(call.local)
         /\ \A t : Owed(t) \in Int
         /\ \A t : t \notin DOMAIN call.saved.records => Owed(t) = 0
<1>1. /\ IsBook(call.saved.records) /\ IsBook(call.local)
      /\ \A t \in Tokens : Owed(t) \in Int
  BY OwedIsInteger DEF BalancesOnly
<1>2. \A t : t \notin DOMAIN call.saved.records => Owed(t) = 0
  BY DEF BalancesOnly, Owed, Recorded
<1>3. \A t : Owed(t) \in Int
  BY <1>1, <1>2 DEF IsBook
<1> QED
  BY <1>1, <1>2, <1>3

\* Nothing is owed of a token that the loop has not come to.
LEMMA NotYet ==
  ASSUME SeenOK, call # NoCall, BalancesOnly, NEW t \in DOMAIN call.saved.records, Owed(t) = 0
  PROVE  call.local[t] = call.saved.records[t]
<1> DEFINE old == call.saved.records[t]
<1>1. old \in BookRecord
  BY DEF SeenOK, SeenRecords, IsBook
<1>2. call.local[t] = [old EXCEPT !.balance = @ + 0]
  BY DEF BalancesOnly
<1> HIDE DEF old
<1>3. [old EXCEPT !.balance = @ + 0] = old
  BY <1>1 DEF BookRecord
<1> QED
  BY <1>2, <1>3 DEF old

\* A step of a loop: one more token is owed, and no token has moved.
LEMMA LoopStep ==
  ASSUME SeenOK, CallOK, call # NoCall, BalancesOnly, Tell(replayed, call.local), MovedBut({}),
         NEW t \in DOMAIN call.saved.records, Owed(t) = 0, NEW change \in Int,
         NEW todo, NEW local, Continue(todo, local), local = Changed(call.local, t, change),
         Publish(TokenEvent(t, change)), tokenBalance' = tokenBalance
  PROVE  /\ BalancesOnly' /\ Owed(t)' = change /\ \A u : u # t => Owed(u)' = Owed(u)
         /\ MovedBut({t})' /\ Tell(replayed, call.local)'
<1> DEFINE recs == call.saved.records
<1>1. /\ IsBook(recs) /\ IsBook(call.local) /\ \A u : Owed(u) \in Int
      /\ DOMAIN call.local = DOMAIN recs /\ t \in DOMAIN call.local
  BY BalancesBook DEF BalancesOnly
<1>2. /\ IsBook(local) /\ DOMAIN local = DOMAIN call.local
      /\ \A u : Recorded(call.local, u) \in Int
      /\ Recorded(local, t) = Recorded(call.local, t) + change
      /\ \A u : u # t => Recorded(local, u) = Recorded(call.local, u)
  BY <1>1, ChangedBook
<1>3. local[t] = [call.local[t] EXCEPT !.balance = @ + change]
  BY <1>1, ChangedRecord
<1>4. \A u : u \in DOMAIN call.local /\ u # t => local[u] = call.local[u]
  BY <1>1, OtherRecords
<1>5. /\ call'.local = local /\ call'.saved = call.saved /\ call'.user = call.user
  BY ContinueFacts DEF SameCall
<1>6. \A u : Recorded(recs, u) \in Int
  BY <1>1 DEF IsBook, Recorded, BookRecord
<1>7. Owed(t)' = Recorded(local, t) - Recorded(recs, t)
  BY <1>5 DEF Owed, Recorded
<1>8. Owed(t)' = change
  <2>1. Recorded(call.local, t) - Recorded(recs, t) = 0
    BY DEF Owed
  <2> QED
    BY <1>2, <1>6, <1>7, <2>1
<1>9. ASSUME NEW u, u # t
      PROVE  Owed(u)' = Owed(u)
  <2>1. Owed(u)' = Recorded(local, u) - Recorded(recs, u)
    BY <1>5 DEF Owed, Recorded
  <2> QED
    BY <1>2, <1>9, <2>1 DEF Owed
<1>10. BalancesOnly'
  <2>1. ASSUME NEW u \in DOMAIN recs
        PROVE  local[u] = [recs[u] EXCEPT !.balance = @ + Owed(u)']
    <3>1. CASE u = t
      BY <1>3, <1>8, <3>1, NotYet
    <3>2. CASE u # t
      BY <1>1, <1>4, <1>9, <3>2 DEF BalancesOnly
    <3> QED
      BY <3>1, <3>2
  <2> QED
    BY <1>1, <1>2, <1>5, <2>1 DEF BalancesOnly
<1>11. MovedBut({t})'
  <2>1. /\ t \in Tokens /\ call.user \in Addresses /\ call.user # Pool /\ Pool \in Addresses
        /\ call.saved.tokenBalance \in [Tokens -> [Addresses -> Int]]
    BY <1>1, PoolIsNoUser DEF IsBook, CallOK, Addresses, SeenOK, SeenLedgers
  <2> DEFINE before == call.saved.tokenBalance[t]
  <2>2. before \in [Addresses -> Int]
    BY <2>1
  <2>3. tokenBalance[t] = [before EXCEPT ![call.user] = @ - 0, ![Pool] = @ + 0]
    BY <2>1 DEF MovedBut
  <2>4. tokenBalance[t] = before
    <3> HIDE DEF before
    <3>1. [before EXCEPT ![call.user] = @ - 0, ![Pool] = @ + 0] = before
      BY <2>1, <2>2
    <3> QED
      BY <2>3, <3>1
  <2>5. tokenBalance' \in [Tokens -> [Addresses -> Int]]
    BY DEF MovedBut
  <2>6. ASSUME NEW u \in Tokens
        PROVE  tokenBalance'[u] =
                 IF u \in {t} THEN call'.saved.tokenBalance[u]
                   ELSE [call'.saved.tokenBalance[u] EXCEPT ![call'.user] = @ - Owed(u)',
                                                            ![Pool] = @ + Owed(u)']
    <3>1. CASE u = t
      BY <1>5, <2>4, <3>1
    <3>2. CASE u # t
      BY <1>5, <1>9, <3>2 DEF MovedBut
    <3> QED
      BY <3>1, <3>2
  <2> QED
    BY <2>5, <2>6 DEF MovedBut
<1>12. Tell(replayed', local)
  <2> DEFINE changes == TokenEvent(t, change)
  <2>1. DOMAIN changes = {t} /\ changes[t] = change
    BY DEF TokenEvent
  <2> HIDE DEF changes
  <2>2. /\ \A u \in DOMAIN changes \cap Tokens :
             changes[u] \in Int /\ Recorded(local, u) = Recorded(call.local, u) + changes[u]
        /\ \A u \in Tokens \ DOMAIN changes : Recorded(local, u) = Recorded(call.local, u)
    BY <1>2, <2>1
  <2>3. Publish(changes)
    BY DEF changes
  <2> QED
    BY <2>2, <2>3, PublishTells
<1>13. Tell(replayed, call.local)'
  BY <1>5, <1>12 DEF Tell
<1> QED
  BY <1>8, <1>9, <1>10, <1>11, <1>13

\* Where a loop begins nothing is owed yet.
LEMMA LoopBegins ==
  ASSUME call = NoCall, SeenOK, NEW user \in Users, NEW shares, NEW most, NEW todo,
         \E will : Start(user, most, shares, records, todo, will), replayed' = replayed
  PROVE  /\ CallOK' /\ SeenStays /\ call' # NoCall
         /\ call'.most = most /\ call'.todo = todo /\ call'.shares = shares
         /\ call'.saved.records = records
         /\ NotStored' /\ NotIssued' /\ TermsKept' /\ BalancesOnly'
         /\ \A t : Owed(t)' = 0
         /\ MovedBut({})' /\ Tell(replayed, call.local)'
<1>1. PICK will : Start(user, most, shares, records, todo, will)
  OBVIOUS
<1>2. /\ CallOK' /\ SeenStays /\ call' # NoCall
      /\ call'.most = most /\ call'.shares = shares /\ call'.local = records /\ call'.todo = todo
      /\ call'.saved = State /\ NotStored' /\ NotIssued' /\ TermsKept'
      /\ \A t : Owed(t)' = Recorded(records, t) - Recorded(records, t)
  BY <1>1, StartFacts
<1>3. IsBook(records) /\ Tell(replayed, records)
  BY DEF SeenOK, SeenRecords, SeenReplayed
<1>4. \A t : Recorded(records, t) \in Int
  BY <1>3 DEF IsBook, Recorded, BookRecord
<1>5. \A t : Owed(t)' = 0
  BY <1>2, <1>4
<1>6. call'.saved.records = records
  BY <1>2 DEF State
<1>7. BalancesOnly'
  <2>1. \A r \in BookRecord : r = [r EXCEPT !.balance = @ + 0]
    BY DEF BookRecord
  <2>2. \A t \in DOMAIN records : records[t] \in BookRecord
    BY <1>3 DEF IsBook
  <2> QED
    BY <1>2, <1>3, <1>5, <1>6, <2>1, <2>2 DEF BalancesOnly
<1>8. UNCHANGED vars
  BY <1>1 DEF Start
<1>9. MovedBut({})'
  BY <1>2, <1>5, <1>8, NothingMoved
<1>10. Tell(replayed, call.local)'
  BY <1>2, <1>3 DEF Tell
<1> QED
  BY <1>2, <1>5, <1>6, <1>7, <1>9, <1>10

LEMMA JoinBegins ==
  ASSUME call = NoCall, SeenOK, NEW user \in Users, NEW shares \in Amounts,
         NEW limits \in [Bound -> MaxLimits], BeginJoin(user, shares, limits)
  PROVE  CallOK' /\ SeenStays /\ Underway'
<1> DEFINE most == Agreed(limits)
<1>1. PICK ratio \in JoinRatios(shares) :
        /\ Start(user, most, shares, records,
                 JoinLoop(ratio, Bound, limits) \o StoreAll \o Mint(shares),
                 ENABLED JoinPool(user, shares, limits))
        /\ UNCHANGED replayed
  BY DEF BeginJoin
<1> PICK bound : bound = Bound
  OBVIOUS
<1> DEFINE all == JoinLoop(ratio, bound, limits) \o StoreAll \o Mint(shares)
<1>2. all = <<Joining(ratio, bound, limits), StoringAll, Minting(shares)>>
  <2> DEFINE p == JoinLoop(ratio, bound, limits)
             q == StoreAll
             r == Mint(shares)
  <2>1. p = <<Joining(ratio, bound, limits)>> /\ q = <<StoringAll>> /\ r = <<Minting(shares)>>
    BY DEF JoinLoop, StoreAll, Mint, Joining, StoringAll, Minting
  <2> HIDE DEF p, q, r
  <2>2. p \o q \o r = <<Joining(ratio, bound, limits), StoringAll, Minting(shares)>>
    BY <2>1, OneOneOne
  <2> QED
    BY <2>2 DEF p, q, r
<1> HIDE DEF most, all
<1>3. \E will : Start(user, most, shares, records, all, will)
  BY <1>1 DEF all
<1>4. /\ CallOK' /\ SeenStays /\ call' # NoCall
      /\ call'.most = most /\ call'.todo = all /\ call'.shares = shares
      /\ call'.saved.records = records
      /\ NotStored' /\ NotIssued' /\ TermsKept' /\ BalancesOnly'
      /\ \A t : Owed(t)' = 0
      /\ MovedBut({})' /\ Tell(replayed, call.local)'
  BY <1>1, <1>3, LoopBegins
<1>5. ratio \in Atomic!JoinRatios(shares)'
  BY <1>1, <1>4, RatiosSame, RatiosStay
<1>6. JoinTerms(shares, ratio, limits, bound)'
  BY <1>4, <1>5 DEF JoinTerms, Bound, most
<1>7. JoinUnderway(shares, ratio, limits, bound)'
  <2>1. (DOMAIN call.saved.records \ bound)' = {}
    BY <1>4 DEF Bound
  <2> QED
    BY <1>2, <1>4, <1>6, <2>1 DEF JoinUnderway, AllPaidIn
<1> QED
  BY <1>4, <1>5, <1>7 DEF Underway, Bound

LEMMA JoinTermsStay ==
  ASSUME Advance, SeenStays, NEW shares, NEW ratio, NEW limits, NEW left,
         JoinTerms(shares, ratio, limits, left)
  PROVE  JoinTerms(shares, ratio, limits, left)'
<1>1. \A t : Owed(t)' = Owed(t)
  BY Kept
<1>2. /\ call'.saved = call.saved /\ call'.local = call.local /\ call'.shares = call.shares
      /\ call'.most = call.most
  BY DEF Advance, SameCall
<1>3. BalancesOnly'
  BY <1>1, <1>2 DEF BalancesOnly, JoinTerms
<1> QED
  BY <1>1, <1>2, <1>3, RatiosStay DEF JoinTerms

\* What the loop of join_pool does with a token.
LEMMA JoinTokenStep ==
  ASSUME SeenOK, CallOK, call # NoCall, SeenStays,
         NEW shares, NEW ratio, NEW limits, NEW left, JoinTerms(shares, ratio, limits, left),
         call.todo = <<Joining(ratio, left, limits), StoringAll, Minting(shares)>>,
         MovedBut({}), NotStored, NotIssued, TermsKept, Tell(replayed, call.local),
         AllPaidIn(DOMAIN call.saved.records \ left), JoinToken
  PROVE  \E token \in left : JoinUnderway(shares, ratio, limits, left \ {token})'
<1>1. /\ Effect.tokens = left /\ Effect.ratio = ratio /\ Effect.limits = limits
      /\ Tail(call.todo) = <<StoringAll, Minting(shares)>>
  BY DEF Effect, Joining
<1>2. PICK token \in left : \E deposit \in JoinDue(call.local[token], ratio, limits[token]) :
        /\ Continue(Pull(token, deposit, limits[token])
                      \o (IF left \ {token} = {} THEN <<>>
                                                 ELSE JoinLoop(ratio, left \ {token}, limits))
                      \o Tail(call.todo),
                    Changed(call.local, token, deposit))
        /\ Publish(TokenEvent(token, deposit))
        /\ UNCHANGED <<vars, approvals, outcome>>
  BY <1>1 DEF JoinToken
<1>16. PICK deposit \in JoinDue(call.local[token], ratio, limits[token]) :
        /\ Continue(Pull(token, deposit, limits[token])
                      \o (IF left \ {token} = {} THEN <<>>
                                                 ELSE JoinLoop(ratio, left \ {token}, limits))
                      \o Tail(call.todo),
                    Changed(call.local, token, deposit))
        /\ Publish(TokenEvent(token, deposit))
        /\ UNCHANGED <<vars, approvals, outcome>>
  BY <1>2
<1> DEFINE rest  == left \ {token}
           todo  == Pull(token, deposit, limits[token])
                      \o (IF rest = {} THEN <<>> ELSE JoinLoop(ratio, rest, limits))
                      \o Tail(call.todo)
           local == Changed(call.local, token, deposit)
           recs  == call.saved.records
<1>3. /\ token \in DOMAIN recs /\ Owed(token) = 0 /\ BalancesOnly /\ deposit \in Int
      /\ left \subseteq DOMAIN recs
  BY DueFacts DEF JoinTerms
<1>4. deposit \in JoinDue(recs[token], ratio, limits[token])
  BY <1>3, NotYet
<1>5. todo = IF rest = {}
               THEN <<Approving(token, limits[token]), Taking(token, deposit), StoringAll,
                      Minting(shares)>>
               ELSE <<Approving(token, limits[token]), Taking(token, deposit),
                      Joining(ratio, rest, limits), StoringAll, Minting(shares)>>
  <2> DEFINE none == <<>>
             p == Pull(token, deposit, limits[token])
             q == JoinLoop(ratio, rest, limits)
             r == Tail(call.todo)
  <2>1. /\ p = <<Approving(token, limits[token]), Taking(token, deposit)>>
        /\ q = <<Joining(ratio, rest, limits)>> /\ r = <<StoringAll, Minting(shares)>>
    BY <1>1 DEF Pull, JoinLoop, Approving, Taking, Joining
  <2>2. /\ todo = IF rest = {} THEN p \o none \o r ELSE p \o q \o r
        /\ none = <<>>
    OBVIOUS
  <2> HIDE DEF none, p, q, r, rest, todo
  <2>3. p \o none = p
    BY ONLY <2>1, <2>2, Concat20, SMT
  <2>4. p \o r
          = <<Approving(token, limits[token]), Taking(token, deposit), StoringAll, Minting(shares)>>
    BY ONLY <2>1, Concat22, SMT
  <2>5. p \o none \o r
          = <<Approving(token, limits[token]), Taking(token, deposit), StoringAll, Minting(shares)>>
    BY Zenon, <2>3, <2>4
  <2>6. p \o q \o r
          = <<Approving(token, limits[token]), Taking(token, deposit),
              Joining(ratio, rest, limits), StoringAll, Minting(shares)>>
    BY <2>1, TwoOneTwo
  <2> QED
    BY <2>2, <2>5, <2>6
<1>6. Continue(todo, local) /\ local = Changed(call.local, token, deposit)
  BY <1>16
<1> HIDE DEF todo, local
<1>7. tokenBalance' = tokenBalance
  BY <1>16 DEF vars, poolVars
<1>8. /\ BalancesOnly' /\ Owed(token)' = deposit /\ \A u : u # token => Owed(u)' = Owed(u)
      /\ MovedBut({token})' /\ Tell(replayed, call.local)'
  BY <1>16, <1>3, <1>6, <1>7, LoopStep
<1>9. SameCall /\ call'.todo = todo /\ call'.local = local
  BY <1>6, ContinueFacts
<1>10. /\ call'.saved = call.saved /\ call'.most = call.most /\ call'.shares = call.shares
       /\ call'.user = call.user /\ call' # NoCall
  BY <1>9 DEF SameCall
<1>11. JoinTerms(shares, ratio, limits, rest)'
  <2>1. ratio \in Atomic!JoinRatios(shares)'
    BY RatiosStay DEF JoinTerms
  <2>2. \A t \in rest : Owed(t)' = 0
    BY <1>8 DEF JoinTerms
  <2>3. \A t \in DOMAIN recs \ rest : Owed(t)' \in JoinDue(recs[t], ratio, limits[t])
    BY <1>4, <1>8 DEF JoinTerms
  <2>4. rest \subseteq DOMAIN recs
    BY <1>3
  <2> HIDE DEF rest
  <2> QED
    BY <1>8, <1>10, <2>1, <2>2, <2>3, <2>4 DEF JoinTerms
<1>12. NotStored' /\ NotIssued' /\ TermsKept'
  BY <1>16, <1>10 DEF NotStored, NotIssued, TermsKept, vars, tokenVars, poolVars
<1>13. AllPaidIn((DOMAIN recs \ rest) \ {token})'
  <2>1. (DOMAIN recs \ rest) \ {token} = DOMAIN recs \ left
    BY <1>3
  <2>2. \A t \in DOMAIN recs \ left : Owed(t)' = Owed(t)
    BY <1>8
  <2> HIDE DEF rest
  <2> QED
    BY <1>10, <2>1, <2>2 DEF AllPaidIn, PaidIn
<1>14. token \in DOMAIN recs \ rest
  BY <1>3
<1>15. JoinUnderway(shares, ratio, limits, rest)'
  <2> HIDE DEF rest
  <2> QED
    BY <1>5, <1>8, <1>9, <1>10, <1>11, <1>12, <1>13, <1>14 DEF JoinUnderway
<1> QED
  BY <1>15

LEMMA JoinSteps ==
  ASSUME SeenOK, CallOK, call # NoCall, Step, NEW shares, NEW ratio, NEW limits, NEW left,
         JoinUnderway(shares, ratio, limits, left)
  PROVE  \E rest \in SUBSET left : JoinUnderway(shares, ratio, limits, rest)'
<1> DEFINE recs == call.saved.records
           paid == DOMAIN recs \ left
<1>1. JoinTerms(shares, ratio, limits, left) /\ TermsKept /\ Tell(replayed, call.local)
  BY DEF JoinUnderway
<1>2. \A t \in paid : t \in Tokens /\ Owed(t) \in Int
  BY <1>1, BalancesBook DEF JoinTerms, IsBook
<1>3. SeenStays
  BY StepKeepsCall
<1>4. ASSUME Advance, UNCHANGED <<controller, swapFee, replayed>>
      PROVE  /\ JoinTerms(shares, ratio, limits, left)' /\ TermsKept' /\ Tell(replayed, call.local)'
             /\ paid' = paid /\ \A t : Owed(t)' = Owed(t)
             /\ \A T \in SUBSET paid : AllPaidIn(T) => AllPaidIn(T)'
  <2>1. JoinTerms(shares, ratio, limits, left)' /\ TermsKept' /\ Tell(replayed, call.local)'
    BY <1>1, <1>3, <1>4, JoinTermsStay, Kept
  <2>2. call'.saved = call.saved
    BY <1>4 DEF Advance, SameCall
  <2>3. \A t : Owed(t)' = Owed(t)
    BY <1>4, Kept
  <2>4. \A T \in SUBSET paid : AllPaidIn(T) => AllPaidIn(T)'
    BY <1>4, <2>2, <2>3 DEF AllPaidIn, PaidIn, Advance, SameCall
  <2> QED
    BY <2>1, <2>2, <2>3, <2>4
<1>5. ASSUME call.todo = <<Joining(ratio, left, limits), StoringAll, Minting(shares)>>,
             MovedBut({}), NotStored, NotIssued, AllPaidIn(paid)
      PROVE  \E rest \in SUBSET left : JoinUnderway(shares, ratio, limits, rest)'
  <2>1. Effect.do = "join"
    BY <1>5 DEF Effect, Joining
  <2>2. JoinToken
    BY <2>1 DEF Step, ExitToken, InitToken, InitEnd, ApprovePool, Take, TakeDeposit, Give,
                StoreRecords, ChangeShares, Doing
  <2>3. \E token \in left : JoinUnderway(shares, ratio, limits, left \ {token})'
    BY <1>1, <1>3, <1>5, <2>2, JoinTokenStep
  <2> QED
    BY <2>3
<1>6. ASSUME NEW t \in paid, NEW due, due = Owed(t), MovedBut({t}), NotStored,
             NotIssued, AllPaidIn(paid \ {t}),
             call.todo = IF left = {}
               THEN <<Approving(t, limits[t]), Taking(t, due), StoringAll, Minting(shares)>>
               ELSE <<Approving(t, limits[t]), Taking(t, due), Joining(ratio, left, limits),
                      StoringAll, Minting(shares)>>
      PROVE  JoinUnderway(shares, ratio, limits, left)'
  <2>1. /\ call.todo # <<>> /\ Effect = Approving(t, limits[t])
        /\ Tail(call.todo) = IF left = {}
             THEN <<Taking(t, due), StoringAll, Minting(shares)>>
             ELSE <<Taking(t, due), Joining(ratio, left, limits), StoringAll, Minting(shares)>>
    BY <1>6 DEF Effect
  <2>2. /\ Advance
        /\ UNCHANGED <<lpBalance, totalShares, controller, swapFee, records, tokenBalance, replayed>>
    BY <2>1, ApproveStep DEF vars, tokenVars, poolVars
  <2>3. /\ call'.todo = Tail(call.todo) /\ due = Owed(t)' /\ paid' = paid
        /\ AllPaidIn(paid \ {t})'
    BY <1>4, <1>6, <2>2 DEF Advance
  <2>4. MovedBut({t})' /\ NotStored' /\ NotIssued'
    BY <1>6, <2>2, Kept
  <2>5. /\ JoinTerms(shares, ratio, limits, left)' /\ TermsKept' /\ Tell(replayed, call.local)'
        /\ t \in paid'
    BY <1>4, <2>2, <2>3
  <2> QED
    BY <2>1, <2>3, <2>4, <2>5 DEF JoinUnderway
<1>7. ASSUME NEW t \in paid, NEW due, due = Owed(t), MovedBut({t}), NotStored,
             NotIssued, AllPaidIn(paid \ {t}),
             call.todo = IF left = {}
               THEN <<Taking(t, due), StoringAll, Minting(shares)>>
               ELSE <<Taking(t, due), Joining(ratio, left, limits), StoringAll,
                      Minting(shares)>>
      PROVE  JoinUnderway(shares, ratio, limits, left)'
  <2>1. /\ call.todo # <<>> /\ Effect = Taking(t, due)
        /\ Tail(call.todo) = IF left = {}
             THEN <<StoringAll, Minting(shares)>>
             ELSE <<Joining(ratio, left, limits), StoringAll, Minting(shares)>>
        /\ t \in {t} /\ {} = {t} \ {t}
    BY <1>7 DEF Effect
  <2>2. /\ Advance /\ MovedBut({})' /\ PaidIn(t, due)'
        /\ UNCHANGED <<lpBalance, totalShares, controller, swapFee, records, replayed>>
    BY <1>2, <1>7, <2>1, TakeStep
  <2>3. /\ call'.todo = Tail(call.todo) /\ due = Owed(t)' /\ paid' = paid
        /\ AllPaidIn(paid \ {t})'
    BY <1>4, <1>7, <2>2 DEF Advance
  <2>4. AllPaidIn(paid)'
    BY <2>2, <2>3 DEF AllPaidIn
  <2>5. NotStored' /\ NotIssued'
    BY <1>7, <2>2, Kept
  <2>6. JoinTerms(shares, ratio, limits, left)' /\ TermsKept' /\ Tell(replayed, call.local)'
    BY <1>4, <2>2
  <2> QED
    BY <2>1, <2>2, <2>3, <2>4, <2>5, <2>6 DEF JoinUnderway
<1>8. CASE /\ left = {} /\ call.todo = <<StoringAll, Minting(shares)>>
           /\ MovedBut({}) /\ NotStored /\ NotIssued /\ AllPaidIn(paid)
  <2>1. /\ call.todo # <<>> /\ Effect = StoringAll /\ Tail(call.todo) = <<Minting(shares)>>
    BY <1>8 DEF Effect
  <2>2. /\ Advance /\ Stored'
        /\ UNCHANGED <<lpBalance, totalShares, controller, swapFee, tokenBalance, replayed>>
    BY <2>1, StoreAllStep
  <2>3. call'.todo = <<Minting(shares)>> /\ AllPaidIn(paid)'
    BY <1>4, <1>8, <2>1, <2>2 DEF Advance
  <2>4. MovedBut({})' /\ NotIssued'
    BY <1>8, <2>2, Kept
  <2>5. JoinTerms(shares, ratio, limits, left)' /\ TermsKept' /\ Tell(replayed, call.local)'
    BY <1>4, <2>2
  <2> QED
    BY <1>8, <2>2, <2>3, <2>4, <2>5 DEF JoinUnderway
<1>9. CASE /\ left = {} /\ call.todo = <<Minting(shares)>>
           /\ MovedBut({}) /\ Stored /\ NotIssued /\ AllPaidIn(paid)
  <2>1. call.todo # <<>> /\ Effect = Minting(shares) /\ Tail(call.todo) = <<>>
    BY <1>9 DEF Effect
  <2>2. /\ Advance /\ Issued(shares)'
        /\ UNCHANGED <<controller, swapFee, records, tokenBalance, replayed>>
    BY <1>9, <2>1, MintStep
  <2>3. call'.todo = <<>> /\ AllPaidIn(paid)'
    BY <1>4, <1>9, <2>1, <2>2 DEF Advance
  <2>4. MovedBut({})' /\ Stored'
    BY <1>9, <2>2, Kept
  <2>5. JoinTerms(shares, ratio, limits, left)' /\ TermsKept' /\ Tell(replayed, call.local)'
    BY <1>4, <2>2
  <2> QED
    BY <1>9, <2>2, <2>3, <2>4, <2>5 DEF JoinUnderway
<1>10. call.todo # <<>>
  BY DEF Step, JoinToken, ExitToken, InitToken, InitEnd, ApprovePool, Take, TakeDeposit, Give,
         StoreRecords, ChangeShares, Doing
<1> QED
  BY <1>5, <1>6, <1>7, <1>8, <1>9, <1>10 DEF JoinUnderway

LEMMA ExitBegins ==
  ASSUME call = NoCall, SeenOK, NEW user \in Users, NEW shares \in Amounts,
         NEW limits \in [Bound -> MinLimits], BeginExit(user, shares, limits)
  PROVE  CallOK' /\ SeenStays /\ Underway'
<1> PICK bound : bound = Bound
  OBVIOUS
<1> DEFINE most  == Agreed([t \in bound |-> -limits[t]])
           least == -shares
<1>1. PICK ratio \in ExitRatios(shares) :
        /\ Start(user, Agreed([t \in Bound |-> -limits[t]]), -shares, records,
                 Redeem(shares) \o ExitLoop(ratio, Bound, limits) \o StoreAll,
                 ENABLED ExitPool(user, shares, limits))
        /\ UNCHANGED replayed
  BY DEF BeginExit
<1> DEFINE all == Redeem(shares) \o ExitLoop(ratio, bound, limits) \o StoreAll
<1>2. all = <<Redeeming(shares), Exiting(ratio, bound, limits), StoringAll>>
  <2> DEFINE p == Redeem(shares)
             q == ExitLoop(ratio, bound, limits)
             r == StoreAll
  <2>1. p = <<Redeeming(shares)>> /\ q = <<Exiting(ratio, bound, limits)>> /\ r = <<StoringAll>>
    BY DEF ExitLoop, StoreAll, Redeem, Exiting, StoringAll, Redeeming
  <2> HIDE DEF p, q, r
  <2>2. p \o q \o r = <<Redeeming(shares), Exiting(ratio, bound, limits), StoringAll>>
    BY <2>1, OneOneOne
  <2> QED
    BY <2>2 DEF p, q, r
<1>3. \E will : Start(user, most, least, records, all, will)
  BY <1>1
<1>4. most = Agreed([t \in bound |-> -limits[t]]) /\ least = -shares
  OBVIOUS
<1> HIDE DEF most, least, all
<1>5. /\ CallOK' /\ SeenStays /\ call' # NoCall
      /\ call'.most = most /\ call'.todo = all /\ call'.shares = least
      /\ call'.saved.records = records
      /\ NotStored' /\ NotIssued' /\ TermsKept' /\ BalancesOnly'
      /\ \A t : Owed(t)' = 0
      /\ MovedBut({})' /\ Tell(replayed, call.local)'
  BY <1>1, <1>3, LoopBegins
<1>6. ratio \in Atomic!ExitRatios(shares)'
  BY <1>1, <1>5, RatiosSame, RatiosStay
<1>7. ExitTerms(shares, ratio, limits, bound)'
  BY <1>4, <1>5, <1>6 DEF ExitTerms, Bound
<1>8. ExitUnderway(shares, ratio, limits, bound)'
  <2>1. (DOMAIN call.saved.records \ bound)' = {}
    BY <1>5 DEF Bound
  <2> QED
    BY <1>2, <1>5, <1>7, <2>1 DEF ExitUnderway, AllPaidOut
<1> QED
  BY <1>5, <1>6, <1>8 DEF Underway, Bound

LEMMA ExitTermsStay ==
  ASSUME Advance, SeenStays, NEW shares, NEW ratio, NEW limits, NEW left,
         ExitTerms(shares, ratio, limits, left)
  PROVE  ExitTerms(shares, ratio, limits, left)'
<1>1. \A t : Owed(t)' = Owed(t)
  BY Kept
<1>2. /\ call'.saved = call.saved /\ call'.local = call.local /\ call'.shares = call.shares
      /\ call'.most = call.most
  BY DEF Advance, SameCall
<1>3. BalancesOnly'
  BY <1>1, <1>2 DEF BalancesOnly, ExitTerms
<1> QED
  BY <1>1, <1>2, <1>3, RatiosStay DEF ExitTerms

\* What the loop of exit_pool does with a token.
LEMMA ExitTokenStep ==
  ASSUME SeenOK, CallOK, call # NoCall, SeenStays,
         NEW shares, NEW ratio, NEW limits, NEW left, ExitTerms(shares, ratio, limits, left),
         call.todo = <<Exiting(ratio, left, limits), StoringAll>>,
         MovedBut({}), NotStored, Redeemed(shares), TermsKept, Tell(replayed, call.local),
         AllPaidOut(DOMAIN call.saved.records \ left), ExitToken
  PROVE  \E token \in left : ExitUnderway(shares, ratio, limits, left \ {token})'
<1>1. /\ Effect.tokens = left /\ Effect.ratio = ratio /\ Effect.limits = limits
      /\ Tail(call.todo) = <<StoringAll>>
  BY DEF Effect, Exiting
<1>2. PICK token \in left : \E payout \in ExitDue(call.local[token], ratio, limits[token]) :
        /\ Continue(Push(token, payout)
                      \o (IF left \ {token} = {} THEN <<>>
                                                 ELSE ExitLoop(ratio, left \ {token}, limits))
                      \o Tail(call.todo),
                    Changed(call.local, token, -payout))
        /\ Publish(TokenEvent(token, -payout))
        /\ UNCHANGED <<vars, approvals, outcome>>
  BY <1>1 DEF ExitToken
<1>3. PICK payout \in ExitDue(call.local[token], ratio, limits[token]) :
        /\ Continue(Push(token, payout)
                      \o (IF left \ {token} = {} THEN <<>>
                                                 ELSE ExitLoop(ratio, left \ {token}, limits))
                      \o Tail(call.todo),
                    Changed(call.local, token, -payout))
        /\ Publish(TokenEvent(token, -payout))
        /\ UNCHANGED <<vars, approvals, outcome>>
  BY <1>2
<1> DEFINE rest   == left \ {token}
           change == -payout
           todo   == Push(token, payout)
                       \o (IF rest = {} THEN <<>> ELSE ExitLoop(ratio, rest, limits))
                       \o Tail(call.todo)
           local  == Changed(call.local, token, change)
           recs   == call.saved.records
<1>4. /\ token \in DOMAIN recs /\ Owed(token) = 0 /\ BalancesOnly /\ payout \in Int
      /\ left \subseteq DOMAIN recs
  BY DueFacts DEF ExitTerms
<1>5. payout \in ExitDue(recs[token], ratio, limits[token])
  BY <1>4, NotYet
<1>6. todo = IF rest = {}
               THEN <<Giving(token, payout), StoringAll>>
               ELSE <<Giving(token, payout), Exiting(ratio, rest, limits), StoringAll>>
  <2> DEFINE none == <<>>
             p == Push(token, payout)
             q == ExitLoop(ratio, rest, limits)
             r == Tail(call.todo)
  <2>1. /\ p = <<Giving(token, payout)>> /\ q = <<Exiting(ratio, rest, limits)>>
        /\ r = <<StoringAll>>
    BY <1>1 DEF Push, ExitLoop, Giving, Exiting
  <2>2. /\ todo = IF rest = {} THEN p \o none \o r ELSE p \o q \o r
        /\ none = <<>>
    OBVIOUS
  <2> HIDE DEF none, p, q, r, rest, todo
  <2>3. p \o none = p
    BY ONLY <2>1, <2>2, Concat10, SMT
  <2>4. p \o r = <<Giving(token, payout), StoringAll>>
    BY ONLY <2>1, Concat11, SMT
  <2>5. p \o none \o r = <<Giving(token, payout), StoringAll>>
    BY Zenon, <2>3, <2>4
  <2>6. p \o q \o r = <<Giving(token, payout), Exiting(ratio, rest, limits), StoringAll>>
    BY <2>1, OneOneOne
  <2> QED
    BY <2>2, <2>5, <2>6
<1>7. /\ Continue(todo, local) /\ local = Changed(call.local, token, change)
      /\ Publish(TokenEvent(token, change)) /\ change \in Int
  BY <1>3, <1>4
<1>8. \A x : x = change => payout = -x
  BY <1>4
<1> HIDE DEF todo, local, change
<1>9. tokenBalance' = tokenBalance
  BY <1>3 DEF vars, poolVars
<1>10. /\ BalancesOnly' /\ Owed(token)' = change /\ \A u : u # token => Owed(u)' = Owed(u)
       /\ MovedBut({token})' /\ Tell(replayed, call.local)'
  BY <1>4, <1>7, <1>9, LoopStep
<1>11. SameCall /\ call'.todo = todo /\ call'.local = local
  BY <1>7, ContinueFacts
<1>12. /\ call'.saved = call.saved /\ call'.most = call.most /\ call'.shares = call.shares
       /\ call'.user = call.user /\ call' # NoCall
  BY <1>11 DEF SameCall
<1>13. payout = -(Owed(token)')
  BY <1>8, <1>10
<1>14. ExitTerms(shares, ratio, limits, rest)'
  <2>1. ratio \in Atomic!ExitRatios(shares)'
    BY RatiosStay DEF ExitTerms
  <2>2. \A t \in rest : Owed(t)' = 0
    BY <1>10 DEF ExitTerms
  <2>3. \A t \in DOMAIN recs \ rest : -(Owed(t)') \in ExitDue(recs[t], ratio, limits[t])
    BY <1>5, <1>10, <1>13 DEF ExitTerms
  <2>4. rest \subseteq DOMAIN recs
    BY <1>4
  <2> HIDE DEF rest
  <2> QED
    BY <1>10, <1>12, <2>1, <2>2, <2>3, <2>4 DEF ExitTerms
<1>15. NotStored' /\ Redeemed(shares)' /\ TermsKept'
  BY <1>3, <1>12 DEF NotStored, Redeemed, TermsKept, vars, tokenVars, poolVars
<1>16. AllPaidOut((DOMAIN recs \ rest) \ {token})'
  <2>1. (DOMAIN recs \ rest) \ {token} = DOMAIN recs \ left
    BY <1>4
  <2>2. \A t \in DOMAIN recs \ left : Owed(t)' = Owed(t)
    BY <1>10
  <2> HIDE DEF rest
  <2> QED
    BY <1>12, <2>1, <2>2 DEF AllPaidOut, PaidOut
<1>17. token \in DOMAIN recs \ rest
  BY <1>4
<1>18. ExitUnderway(shares, ratio, limits, rest)'
  <2> HIDE DEF rest
  <2> QED
    BY <1>6, <1>10, <1>11, <1>12, <1>13, <1>14, <1>15, <1>16, <1>17 DEF ExitUnderway
<1> QED
  BY <1>18

LEMMA ExitSteps ==
  ASSUME SeenOK, CallOK, call # NoCall, Step, NEW shares, NEW ratio, NEW limits, NEW left,
         ExitUnderway(shares, ratio, limits, left)
  PROVE  \E rest \in SUBSET left : ExitUnderway(shares, ratio, limits, rest)'
<1> DEFINE recs == call.saved.records
           paid == DOMAIN recs \ left
<1>1. ExitTerms(shares, ratio, limits, left) /\ TermsKept /\ Tell(replayed, call.local)
  BY DEF ExitUnderway
<1>2. \A t \in paid : t \in Tokens /\ Owed(t) \in Int
  BY <1>1, BalancesBook DEF ExitTerms, IsBook
<1>3. SeenStays
  BY StepKeepsCall
<1>4. ASSUME Advance, UNCHANGED <<controller, swapFee, replayed>>
      PROVE  /\ ExitTerms(shares, ratio, limits, left)' /\ TermsKept' /\ Tell(replayed, call.local)'
             /\ paid' = paid /\ \A t : Owed(t)' = Owed(t)
             /\ \A T \in SUBSET paid : AllPaidOut(T) => AllPaidOut(T)'
  <2>1. ExitTerms(shares, ratio, limits, left)' /\ TermsKept' /\ Tell(replayed, call.local)'
    BY <1>1, <1>3, <1>4, ExitTermsStay, Kept
  <2>2. call'.saved = call.saved
    BY <1>4 DEF Advance, SameCall
  <2>3. \A t : Owed(t)' = Owed(t)
    BY <1>4, Kept
  <2>4. \A T \in SUBSET paid : AllPaidOut(T) => AllPaidOut(T)'
    BY <1>4, <2>2, <2>3 DEF AllPaidOut, PaidOut, Advance, SameCall
  <2> QED
    BY <2>1, <2>2, <2>3, <2>4
<1>5. CASE /\ call.todo = <<Redeeming(shares), Exiting(ratio, left, limits), StoringAll>>
           /\ MovedBut({}) /\ NotStored /\ NotIssued /\ AllPaidOut(paid)
  <2>1. /\ call.todo # <<>> /\ Effect = Redeeming(shares)
        /\ Tail(call.todo) = <<Exiting(ratio, left, limits), StoringAll>>
    BY <1>5 DEF Effect
  <2>2. /\ Advance /\ Redeemed(shares)'
        /\ UNCHANGED <<controller, swapFee, records, tokenBalance, replayed>>
    BY <1>5, <2>1, RedeemStep
  <2>3. call'.todo = <<Exiting(ratio, left, limits), StoringAll>> /\ AllPaidOut(paid)'
    BY <1>4, <1>5, <2>1, <2>2 DEF Advance
  <2>4. MovedBut({})' /\ NotStored'
    BY <1>5, <2>2, Kept
  <2>5. ExitTerms(shares, ratio, limits, left)' /\ TermsKept' /\ Tell(replayed, call.local)'
    BY <1>4, <2>2
  <2> QED
    BY <2>2, <2>3, <2>4, <2>5 DEF ExitUnderway
<1>6. ASSUME call.todo = <<Exiting(ratio, left, limits), StoringAll>>,
             MovedBut({}), NotStored, Redeemed(shares), AllPaidOut(paid)
      PROVE  \E rest \in SUBSET left : ExitUnderway(shares, ratio, limits, rest)'
  <2>1. Effect.do = "exit"
    BY <1>6 DEF Effect, Exiting
  <2>2. ExitToken
    BY <2>1 DEF Step, JoinToken, InitToken, InitEnd, ApprovePool, Take, TakeDeposit, Give,
                StoreRecords, ChangeShares, Doing
  <2>3. \E token \in left : ExitUnderway(shares, ratio, limits, left \ {token})'
    BY <1>1, <1>3, <1>6, <2>2, ExitTokenStep
  <2> QED
    BY <2>3
<1>7. ASSUME NEW t \in paid, NEW due, due = -Owed(t), MovedBut({t}), NotStored,
             Redeemed(shares), AllPaidOut(paid \ {t}),
             call.todo = IF left = {}
               THEN <<Giving(t, due), StoringAll>>
               ELSE <<Giving(t, due), Exiting(ratio, left, limits), StoringAll>>
      PROVE  ExitUnderway(shares, ratio, limits, left)'
  <2>1. /\ call.todo # <<>> /\ Effect = Giving(t, due)
        /\ Tail(call.todo) = IF left = {}
             THEN <<StoringAll>> ELSE <<Exiting(ratio, left, limits), StoringAll>>
        /\ t \in {t} /\ {} = {t} \ {t}
    BY <1>7 DEF Effect
  <2>2. /\ Advance /\ MovedBut({})' /\ PaidOut(t, due)'
        /\ UNCHANGED <<lpBalance, totalShares, controller, swapFee, records, replayed>>
    BY <1>2, <1>7, <2>1, GiveStep
  <2>3. /\ call'.todo = Tail(call.todo) /\ due = -(Owed(t)') /\ paid' = paid
        /\ AllPaidOut(paid \ {t})'
    BY <1>4, <1>7, <2>2 DEF Advance
  <2>4. AllPaidOut(paid)'
    BY <2>2, <2>3 DEF AllPaidOut
  <2>5. NotStored' /\ Redeemed(shares)'
    BY <1>7, <2>2, Kept
  <2>6. ExitTerms(shares, ratio, limits, left)' /\ TermsKept' /\ Tell(replayed, call.local)'
    BY <1>4, <2>2
  <2> QED
    BY <2>1, <2>2, <2>3, <2>4, <2>5, <2>6 DEF ExitUnderway
<1>8. CASE /\ left = {} /\ call.todo = <<StoringAll>>
           /\ MovedBut({}) /\ NotStored /\ Redeemed(shares) /\ AllPaidOut(paid)
  <2>1. /\ call.todo # <<>> /\ Effect = StoringAll /\ Tail(call.todo) = <<>>
    BY <1>8 DEF Effect
  <2>2. /\ Advance /\ Stored'
        /\ UNCHANGED <<lpBalance, totalShares, controller, swapFee, tokenBalance, replayed>>
    BY <2>1, StoreAllStep
  <2>3. call'.todo = <<>> /\ AllPaidOut(paid)'
    BY <1>4, <1>8, <2>1, <2>2 DEF Advance
  <2>4. MovedBut({})' /\ Redeemed(shares)'
    BY <1>8, <2>2, Kept
  <2>5. ExitTerms(shares, ratio, limits, left)' /\ TermsKept' /\ Tell(replayed, call.local)'
    BY <1>4, <2>2
  <2> QED
    BY <1>8, <2>2, <2>3, <2>4, <2>5 DEF ExitUnderway
<1>9. call.todo # <<>>
  BY DEF Step, JoinToken, ExitToken, InitToken, InitEnd, ApprovePool, Take, TakeDeposit, Give,
         StoreRecords, ChangeShares, Doing
<1> QED
  BY <1>5, <1>6, <1>7, <1>8, <1>9 DEF ExitUnderway

-----------------------------------------------------------------------------
(***************************************************************************)
(* init                                                                    *)
(***************************************************************************)
\* The vectors that init is called with.
LEMMA VectorFacts ==
  ASSUME NEW tokens \in InitTokens, NEW weights \in InitWeights, NEW balances \in InitBalances,
         Len(weights) = Len(tokens), Len(balances) = Len(tokens)
  PROVE  /\ Len(tokens) \in Nat /\ DOMAIN tokens = 1 .. Len(tokens)
         /\ DOMAIN weights = 1 .. Len(tokens) /\ DOMAIN balances = 1 .. Len(tokens)
         /\ \A j \in 1 .. Len(tokens) :
              tokens[j] \in Tokens /\ weights[j] \in Int /\ balances[j] \in Int
<1>1. tokens \in Seq(Tokens) /\ weights \in Seq(I128) /\ balances \in Seq(I128)
  BY PoolAssumption
<1>2. I128 \subseteq Int
  BY I128Assumption DEF I128
<1>3. \A S : \A s \in Seq(S) :
        Len(s) \in Nat /\ DOMAIN s = 1 .. Len(s) /\ \A j \in 1 .. Len(s) : s[j] \in S
  OBVIOUS
<1> QED
  BY <1>1, <1>2, <1>3

\* What is owed are the balances that the loop has come to.
LEMMA InitOwed ==
  ASSUME SeenOK, call # NoCall, NEW tokens, NEW weights, NEW balances, NEW fee,
         InitTerms(tokens, weights, balances, fee), NEW n \in 0 .. Len(tokens),
         Listed(n, tokens, weights, balances)
  PROVE  /\ DOMAIN call.saved.records = {}
         /\ \A j \in 1 .. n : tokens[j] \in Tokens /\ Owed(tokens[j]) = balances[j]
         /\ \A t : t \notin DOMAIN call.local => Owed(t) = 0
<1>1. DOMAIN call.saved.records = {}
  BY DEF SeenOK, SeenController, SeenRecords, InitTerms
<1>2. \A t : Recorded(call.saved.records, t) = 0
  BY <1>1 DEF Recorded
<1>3. \A t : t \notin DOMAIN call.local => Owed(t) = 0
  BY <1>2 DEF Owed, Recorded
<1>4. ASSUME NEW j \in 1 .. n
      PROVE  tokens[j] \in Tokens /\ Owed(tokens[j]) = balances[j]
  <2>1. j \in 1 .. Len(tokens)
    BY VectorFacts DEF InitTerms
  <2>2. tokens[j] \in Tokens /\ balances[j] \in Int
    BY <2>1, VectorFacts DEF InitTerms
  <2>3. DOMAIN call.local = {tokens[k] : k \in 1 .. n}
    BY DEF Listed
  <2>4. tokens[j] \in DOMAIN call.local
    BY <2>3
  <2>5. call.local[tokens[j]] = [balance |-> balances[j], weight |-> weights[j],
                                 scalar |-> Scalar[tokens[j]]]
    BY DEF Listed
  <2>6. Recorded(call.local, tokens[j]) = balances[j]
    BY <2>4, <2>5 DEF Recorded
  <2> QED
    BY <1>2, <2>2, <2>6 DEF Owed
<1> QED
  BY <1>1, <1>3, <1>4

LEMMA InitBegins ==
  ASSUME call = NoCall, SeenOK, NEW user \in Users, NEW tokens \in InitTokens,
         NEW weights \in InitWeights, NEW balances \in InitBalances, NEW fee \in SwapFees,
         BeginInit(user, tokens, weights, balances, fee)
  PROVE  CallOK' /\ SeenStays /\ Underway'
<1> DEFINE most == Agreed(GivenTo(tokens, balances))
           todo == InitLoop(1, tokens, weights, balances, fee)
           none == <<>>
<1>1. /\ Len(tokens) \in 2 .. 8 /\ Len(weights) = Len(tokens) /\ Len(balances) = Len(tokens)
      /\ fee \in MIN_FEE .. MAX_FEE /\ controller = NoController
      /\ replayed' = replayed
  BY DEF BeginInit, Initialized
<1>2. \E will : Start(user, most, INIT_POOL_SUPPLY, none, todo, will)
  BY DEF BeginInit
<1>3. todo = <<Opening(0 + 1, tokens, weights, balances, fee)>>
  BY DEF InitLoop, Opening
<1>4. DOMAIN none = {} /\ IsBook(none)
  <2>1. DOMAIN none = {} /\ none = [t \in {} |-> 0]
    OBVIOUS
  <2> HIDE DEF none
  <2> QED
    BY <2>1 DEF IsBook
<1>5. most = Agreed(GivenTo(tokens, balances))
  OBVIOUS
<1> HIDE DEF most, todo, none
<1>6. PICK will : Start(user, most, INIT_POOL_SUPPLY, none, todo, will)
  BY <1>2
<1>7. /\ CallOK' /\ SeenStays /\ call' # NoCall
      /\ call'.most = most /\ call'.shares = INIT_POOL_SUPPLY
      /\ call'.local = none /\ call'.todo = todo
      /\ call'.saved = State /\ NotStored' /\ NotIssued' /\ TermsKept'
      /\ \A t : Owed(t)' = Recorded(none, t) - Recorded(records, t)
  BY <1>6, StartFacts
<1>8. DOMAIN records = {} /\ Tell(replayed, records)
  BY <1>1 DEF SeenOK, SeenController, SeenRecords, SeenReplayed
<1>9. \A t : Owed(t)' = 0
  BY <1>4, <1>7, <1>8 DEF Recorded
<1>10. UNCHANGED vars
  BY <1>6 DEF Start
<1>11. MovedBut({})'
  BY <1>7, <1>9, <1>10, NothingMoved
<1>12. call'.saved.records = records /\ call'.saved.controller = controller
  BY <1>7 DEF State
<1>13. Tell(replayed, call.saved.records)'
  BY <1>1, <1>8, <1>12 DEF Tell
<1>14. Listed(0, tokens, weights, balances)'
  BY <1>4, <1>7 DEF Listed, IsBook
<1>15. InitTerms(tokens, weights, balances, fee)'
  BY <1>1, <1>5, <1>7, <1>12 DEF InitTerms
<1>16. AllPaidIn({tokens[j] : j \in 1 .. 0})'
  BY DEF AllPaidIn
<1>17. InitUnderway(tokens, weights, balances, fee, 0)'
  BY <1>3, <1>7, <1>11, <1>13, <1>14, <1>15, <1>16 DEF InitUnderway
<1>18. 0 \in 0 .. Len(tokens)
  BY <1>1
<1> QED
  BY <1>7, <1>17, <1>18 DEF Underway

LEMMA InitTermsStay ==
  ASSUME SameCall, NEW tokens, NEW weights, NEW balances, NEW fee,
         InitTerms(tokens, weights, balances, fee)
  PROVE  InitTerms(tokens, weights, balances, fee)'
BY DEF InitTerms, SameCall

\* What the loop of init does with a token.
LEMMA InitTokenStep ==
  ASSUME SeenOK, CallOK, call # NoCall, NEW tokens, NEW weights, NEW balances, NEW fee,
         NEW n \in 0 .. Len(tokens),
         InitTerms(tokens, weights, balances, fee), Listed(n, tokens, weights, balances),
         call.todo = <<Opening(n + 1, tokens, weights, balances, fee)>>,
         MovedBut({}), NotStored, NotIssued, TermsKept,
         AllPaidIn({tokens[j] : j \in 1 .. n}), Tell(replayed, call.saved.records), InitToken
  PROVE  n + 1 \in 0 .. Len(tokens) /\ InitUnderway(tokens, weights, balances, fee, n + 1)'
<1> DEFINE i     == n + 1
           token == tokens[i]
           new   == [balance |-> balances[i], weight |-> weights[i], scalar |-> Scalar[token]]
           local == [t \in DOMAIN call.local \cup {token} |->
                       IF t = token THEN new ELSE call.local[t]]
           todo  == <<Depositing(token, balances[i]),
                      Opening(i + 1, tokens, weights, balances, fee)>>
<1>1. /\ Effect = Opening(i, tokens, weights, balances, fee)
      /\ Effect.i = i /\ Effect.tokens = tokens /\ Effect.weights = weights
      /\ Effect.balances = balances
      /\ [Effect EXCEPT !.i = @ + 1] = Opening(i + 1, tokens, weights, balances, fee)
  BY DEF Effect, Opening
<1>2. /\ i <= Len(tokens) /\ token \notin DOMAIN call.local
      /\ weights[i] \in MIN_WEIGHT .. MAX_WEIGHT /\ balances[i] >= MIN_BALANCE
      /\ Scalar[token] > 0 /\ Continue(todo, local)
      /\ UNCHANGED <<vars, replayed>>
  BY <1>1 DEF InitToken, Depositing
<1>3. Len(tokens) \in Nat /\ n \in Nat
  BY VectorFacts DEF InitTerms
<1>4. i \in 0 .. Len(tokens) /\ 1 .. i = (1 .. n) \cup {i} /\ i - 1 = n /\ i > 0 /\ i \in 1 .. i
  BY <1>2, <1>3
<1>5. /\ DOMAIN local = DOMAIN call.local \cup {token} /\ local[token] = new
      /\ \A t \in DOMAIN call.local : local[t] = call.local[t]
      /\ local = [t \in DOMAIN local |-> local[t]]
  BY <1>2
<1> HIDE DEF i, local, new
<1>6. SameCall /\ call'.local = local /\ call'.todo = todo
  BY <1>2, ContinueFacts
<1>7. /\ call'.saved = call.saved /\ call'.user = call.user /\ call' # NoCall
  BY <1>6 DEF SameCall
<1>8. Listed(i, tokens, weights, balances)'
  <2>1. DOMAIN local = {tokens[j] : j \in 1 .. i}
    BY <1>4, <1>5 DEF Listed
  <2>2. \A j, k \in 1 .. i : tokens[j] = tokens[k] => j = k
    BY <1>2, <1>4 DEF Listed
  <2>3. ASSUME NEW j \in 1 .. i
        PROVE  /\ weights[j] \in MIN_WEIGHT .. MAX_WEIGHT /\ balances[j] >= MIN_BALANCE
               /\ Scalar[tokens[j]] > 0
               /\ local[tokens[j]] = [balance |-> balances[j], weight |-> weights[j],
                                      scalar |-> Scalar[tokens[j]]]
    <3>1. CASE j = i
      BY <1>2, <1>5, <3>1 DEF new
    <3>2. CASE j \in 1 .. n
      BY <1>5, <3>2 DEF Listed
    <3> QED
      BY <1>4, <3>1, <3>2
  <2>4. IsBook(local)
    <3>1. IsBook(call.local)
      BY DEF Listed
    <3>2. i \in 1 .. Len(tokens)
      BY <1>2, <1>3, <1>4
    <3>3. token \in Tokens /\ weights[i] \in Int /\ balances[i] \in Int
      BY <3>2, VectorFacts DEF InitTerms
    <3>4. new \in BookRecord
      BY <3>3, PoolAssumption DEF new, BookRecord
    <3>5. \A t \in DOMAIN local : t \in Tokens /\ local[t] \in BookRecord
      <4> HIDE DEF token
      <4> QED
        BY <1>5, <3>1, <3>3, <3>4 DEF IsBook
    <3> QED
      BY <1>5, <3>5 DEF IsBook
  <2> QED
    BY <1>6, <2>1, <2>2, <2>3, <2>4 DEF Listed, IsBook
<1>9. InitTerms(tokens, weights, balances, fee)'
  BY <1>6, InitTermsStay
<1>10. /\ NotStored' /\ NotIssued' /\ TermsKept' /\ Tell(replayed, call.saved.records)'
       /\ tokenBalance' = tokenBalance
  BY <1>2, <1>7 DEF NotStored, NotIssued, TermsKept, Tell, vars, tokenVars, poolVars
<1>11. /\ \A u : u # token => Owed(u)' = Owed(u)
       /\ Owed(token) = 0 /\ token \in Tokens
  <2>1. \A u : u # token => Recorded(local, u) = Recorded(call.local, u)
    BY <1>5 DEF Recorded
  <2>2. \A u : u # token => Owed(u)' = Owed(u)
    BY <1>6, <1>7, <2>1 DEF Owed, Recorded
  <2>3. Owed(token) = 0
    BY <1>2, InitOwed
  <2>4. i \in 1 .. Len(tokens)
    BY <1>2, <1>3, <1>4
  <2> QED
    BY <2>2, <2>3, <2>4, VectorFacts DEF InitTerms
<1> HIDE DEF token
<1>12. MovedBut({token})'
  <2>1. /\ call.user \in Addresses /\ call.user # Pool /\ Pool \in Addresses
        /\ call.saved.tokenBalance \in [Tokens -> [Addresses -> Int]]
    BY PoolIsNoUser DEF CallOK, Addresses, SeenOK, SeenLedgers
  <2> DEFINE before == call.saved.tokenBalance[token]
  <2>2. before \in [Addresses -> Int]
    BY <1>11, <2>1
  <2>3. tokenBalance[token] = [before EXCEPT ![call.user] = @ - 0, ![Pool] = @ + 0]
    BY <1>11 DEF MovedBut
  <2>4. tokenBalance[token] = before
    <3> HIDE DEF before
    <3>1. [before EXCEPT ![call.user] = @ - 0, ![Pool] = @ + 0] = before
      BY <2>1, <2>2
    <3> QED
      BY <2>3, <3>1
  <2>5. tokenBalance' \in [Tokens -> [Addresses -> Int]]
    BY <1>10 DEF MovedBut
  <2>6. ASSUME NEW u \in Tokens
        PROVE  tokenBalance'[u] =
                 IF u \in {token} THEN call'.saved.tokenBalance[u]
                   ELSE [call'.saved.tokenBalance[u] EXCEPT ![call'.user] = @ - Owed(u)',
                                                            ![Pool] = @ + Owed(u)']
    <3>1. CASE u = token
      BY <1>7, <1>10, <2>4, <3>1
    <3>2. CASE u # token
      BY <1>7, <1>10, <1>11, <3>2 DEF MovedBut
    <3> QED
      BY <3>1, <3>2
  <2> QED
    BY <2>5, <2>6 DEF MovedBut
<1>13. AllPaidIn({tokens[j] : j \in 1 .. i - 1})'
  <2>1. \A j \in 1 .. n : tokens[j] # token
    BY <1>2, <1>4 DEF Listed, token
  <2>2. \A j \in 1 .. n : Owed(tokens[j])' = Owed(tokens[j])
    BY <1>11, <2>1
  <2> QED
    BY <1>4, <1>7, <2>2 DEF AllPaidIn, PaidIn
<1>14. todo = <<Depositing(tokens[i], balances[i]),
                Opening(i + 1, tokens, weights, balances, fee)>>
  BY DEF token
<1> HIDE DEF todo
<1>15. InitUnderway(tokens, weights, balances, fee, i)'
  BY <1>4, <1>6, <1>8, <1>9, <1>10, <1>12, <1>13, <1>14 DEF InitUnderway, token
<1> QED
  BY <1>4, <1>15 DEF i

\* The arguments of init, by token.
LEMMA GivenFacts ==
  ASSUME NEW tokens, NEW balances, NEW N, DOMAIN tokens = 1 .. N,
         \A j, k \in 1 .. N : tokens[j] = tokens[k] => j = k
  PROVE  /\ \A t : t \in DOMAIN GivenTo(tokens, balances) <=> \E j \in 1 .. N : t = tokens[j]
         /\ \A j \in 1 .. N : GivenTo(tokens, balances)[tokens[j]] = balances[j]
<1> DEFINE place(t) == CHOOSE i \in DOMAIN tokens : tokens[i] = t
<1>1. \A j \in 1 .. N : place(tokens[j]) = j
  <2> TAKE j \in 1 .. N
  <2>1. \E i \in DOMAIN tokens : tokens[i] = tokens[j]
    OBVIOUS
  <2>2. place(tokens[j]) \in DOMAIN tokens /\ tokens[place(tokens[j])] = tokens[j]
    BY <2>1
  <2> HIDE DEF place
  <2> QED
    BY <2>2
<1>2. GivenTo(tokens, balances) = [t \in {tokens[i] : i \in DOMAIN tokens} |-> balances[place(t)]]
  BY DEF GivenTo
<1> HIDE DEF place
<1> QED
  BY <1>1, <1>2

LEMMA InitEndStep ==
  ASSUME SeenOK, CallOK, call # NoCall, NEW tokens, NEW weights, NEW balances, NEW fee,
         NEW n \in 0 .. Len(tokens),
         InitTerms(tokens, weights, balances, fee), Listed(n, tokens, weights, balances),
         call.todo = <<Opening(n + 1, tokens, weights, balances, fee)>>,
         MovedBut({}), NotStored, NotIssued, TermsKept,
         AllPaidIn({tokens[j] : j \in 1 .. n}), Tell(replayed, call.saved.records), InitEnd
  PROVE  InitUnderway(tokens, weights, balances, fee, n)'
<1>1. /\ Effect = Opening(n + 1, tokens, weights, balances, fee) /\ Tail(call.todo) = <<>>
      /\ Effect.i = n + 1 /\ Effect.tokens = tokens /\ Effect.weights = weights
      /\ Effect.balances = balances /\ Effect.fee = fee
  BY DEF Effect, Opening
<1>2. AddUp(weights)
  BY <1>1 DEF InitEnd, AddUp
<1>3. n + 1 > Len(tokens)
  BY <1>1 DEF InitEnd
<1>13. /\ MintShares(call.user, INIT_POOL_SUPPLY)
      /\ swapFee' = fee /\ records' = call.local /\ controller' = call.user
      /\ Publish(GivenTo(tokens, balances)) /\ Done /\ tokenBalance' = tokenBalance
  BY <1>1 DEF InitEnd
<1>11. /\ Len(tokens) \in Nat /\ DOMAIN tokens = 1 .. Len(tokens)
       /\ \A j \in 1 .. Len(tokens) : balances[j] \in Int
  BY VectorFacts DEF InitTerms
<1>14. n = Len(tokens)
  <2>1. \A m \in Nat : \A k \in 0 .. m : k + 1 > m => k = m
    OBVIOUS
  <2> QED
    BY <1>3, <1>11, <2>1
<1>4. Advance /\ call'.todo = <<>> /\ SameCall
  BY <1>1, <1>13, DoneFacts DEF Advance
<1>5. /\ call'.saved = call.saved /\ call'.user = call.user /\ call'.local = call.local
      /\ \A t : Owed(t)' = Owed(t)
  BY <1>4, Kept DEF Advance, SameCall
<1>6. InitTerms(tokens, weights, balances, fee)' /\ Listed(n, tokens, weights, balances)'
  BY <1>4, <1>5, InitTermsStay DEF Listed
<1>7. Issued(INIT_POOL_SUPPLY)'
  BY <1>13, <1>5 DEF MintShares, Issued, NotIssued
<1>8. MovedBut({})' /\ Stored' /\ AllPaidIn({tokens[j] : j \in 1 .. n})'
  <2>1. MovedBut({})'
    BY <1>13, <1>4, Kept
  <2>2. Stored'
    BY <1>13, <1>5 DEF Stored
  <2>3. AllPaidIn({tokens[j] : j \in 1 .. n})'
    BY <1>5 DEF AllPaidIn, PaidIn
  <2> QED
    BY <2>1, <2>2, <2>3
<1>9. Tell(replayed', call.local)
  <2> DEFINE changes == GivenTo(tokens, balances)
             recs    == call.saved.records
  <2>1. /\ DOMAIN changes = {tokens[j] : j \in 1 .. n}
        /\ \A j \in 1 .. n : changes[tokens[j]] = balances[j]
    <3>1. DOMAIN tokens = 1 .. n
      BY <1>11, <1>14
    <3>2. \A j, k \in 1 .. n : tokens[j] = tokens[k] => j = k
      BY DEF Listed
    <3>3. /\ \A t : t \in DOMAIN changes <=> \E j \in 1 .. n : t = tokens[j]
          /\ \A j \in 1 .. n : changes[tokens[j]] = balances[j]
      BY <3>1, <3>2, GivenFacts
    <3> HIDE DEF changes
    <3> QED
      BY <3>3
  <2> HIDE DEF changes
  <2>2. /\ DOMAIN recs = {} /\ DOMAIN call.local = {tokens[j] : j \in 1 .. n}
        /\ \A j \in 1 .. n :
             balances[j] \in Int /\ call.local[tokens[j]].balance = balances[j]
    <3>1. DOMAIN recs = {}
      BY InitOwed
    <3>2. DOMAIN call.local = {tokens[j] : j \in 1 .. n}
      BY DEF Listed
    <3>3. ASSUME NEW j \in 1 .. n
          PROVE  balances[j] \in Int /\ call.local[tokens[j]].balance = balances[j]
      <4>1. call.local[tokens[j]] = [balance |-> balances[j], weight |-> weights[j],
                                     scalar |-> Scalar[tokens[j]]]
        BY DEF Listed
      <4> QED
        BY <1>11, <1>14, <4>1
    <3> QED
      BY <3>1, <3>2, <3>3
  <2>3. ASSUME NEW j \in 1 .. n
        PROVE  /\ changes[tokens[j]] \in Int
               /\ Recorded(call.local, tokens[j]) = Recorded(recs, tokens[j]) + changes[tokens[j]]
    <3>1. tokens[j] \in DOMAIN call.local
      BY <2>2
    <3>2. Recorded(call.local, tokens[j]) = balances[j] /\ Recorded(recs, tokens[j]) = 0
      BY <2>2, <3>1 DEF Recorded
    <3> QED
      BY <2>1, <2>2, <3>2
  <2>4. \A t \in Tokens \ DOMAIN changes : Recorded(call.local, t) = Recorded(recs, t)
    BY <2>1, <2>2 DEF Recorded
  <2>5. \A t \in DOMAIN changes \cap Tokens :
          changes[t] \in Int /\ Recorded(call.local, t) = Recorded(recs, t) + changes[t]
    BY <2>1, <2>3
  <2>6. Publish(changes)
    BY <1>13 DEF changes
  <2> QED
    BY <2>4, <2>5, <2>6, PublishTells
<1>10. Tell(replayed, call.local)'
  BY <1>5, <1>9 DEF Tell
<1>12. (/\ call.todo = <<>>
        /\ MovedBut({}) /\ Stored /\ Issued(INIT_POOL_SUPPLY)
        /\ controller = call.user /\ swapFee = fee
        /\ AllPaidIn({tokens[j] : j \in 1 .. n}) /\ Tell(replayed, call.local))'
  BY <1>13, <1>4, <1>5, <1>7, <1>8, <1>10
<1> QED
  BY <1>2, <1>6, <1>12, <1>14 DEF InitUnderway

LEMMA InitSteps ==
  ASSUME SeenOK, CallOK, call # NoCall, Step, NEW tokens, NEW weights, NEW balances, NEW fee,
         NEW n \in 0 .. Len(tokens), InitUnderway(tokens, weights, balances, fee, n)
  PROVE  \E m \in 0 .. Len(tokens) : InitUnderway(tokens, weights, balances, fee, m)'
<1>1. InitTerms(tokens, weights, balances, fee) /\ Listed(n, tokens, weights, balances)
  BY DEF InitUnderway
<1>2. CASE /\ call.todo = <<Opening(n + 1, tokens, weights, balances, fee)>>
           /\ MovedBut({}) /\ NotStored /\ NotIssued /\ TermsKept
           /\ AllPaidIn({tokens[j] : j \in 1 .. n}) /\ Tell(replayed, call.saved.records)
  <2>1. Effect.do = "init"
    BY <1>2 DEF Effect, Opening
  <2>2. InitToken \/ InitEnd
    BY <2>1 DEF Step, JoinToken, ExitToken, ApprovePool, Take, TakeDeposit, Give,
                StoreRecords, ChangeShares, Doing
  <2>3. CASE InitToken
    BY <1>1, <1>2, <2>3, InitTokenStep
  <2>4. CASE InitEnd
    BY <1>1, <1>2, <2>4, InitEndStep
  <2> QED
    BY <2>2, <2>3, <2>4
<1>3. CASE /\ n > 0
           /\ call.todo = <<Depositing(tokens[n], balances[n]),
                            Opening(n + 1, tokens, weights, balances, fee)>>
           /\ MovedBut({tokens[n]}) /\ NotStored /\ NotIssued /\ TermsKept
           /\ AllPaidIn({tokens[j] : j \in 1 .. n - 1}) /\ Tell(replayed, call.saved.records)
  <2>1. /\ call.todo # <<>> /\ Effect = Depositing(tokens[n], balances[n])
        /\ Tail(call.todo) = <<Opening(n + 1, tokens, weights, balances, fee)>>
    BY <1>3 DEF Effect
  <2>2. /\ n \in Nat /\ n \in 1 .. n /\ 1 .. n = (1 .. n - 1) \cup {n}
    BY <1>1, <1>3, VectorFacts DEF InitTerms
  <2>3. tokens[n] \in Tokens /\ balances[n] = Owed(tokens[n])
    BY <1>1, <2>2, InitOwed
  <2>4. tokens[n] \in {tokens[n]} /\ {} = {tokens[n]} \ {tokens[n]}
    OBVIOUS
  <2>5. /\ Advance /\ MovedBut({})' /\ PaidIn(tokens[n], balances[n])'
        /\ UNCHANGED <<lpBalance, totalShares, controller, swapFee, records, replayed>>
    BY <1>3, <2>1, <2>3, <2>4, DepositStep
  <2>6. /\ call'.saved = call.saved /\ call'.local = call.local /\ call'.user = call.user
        /\ call'.todo = <<Opening(n + 1, tokens, weights, balances, fee)>>
        /\ SameCall /\ \A t : Owed(t)' = Owed(t)
    BY <2>1, <2>5, Kept DEF Advance, SameCall
  <2>7. InitTerms(tokens, weights, balances, fee)' /\ Listed(n, tokens, weights, balances)'
    BY <1>1, <2>6, InitTermsStay DEF Listed
  <2>8. NotStored' /\ NotIssued' /\ TermsKept'
    BY <1>3, <2>5, Kept
  <2>9. Tell(replayed, call.saved.records)'
    BY <1>3, <2>5, <2>6 DEF Tell
  <2>10. AllPaidIn({tokens[j] : j \in 1 .. n})'
    <3>1. PaidIn(tokens[n], Owed(tokens[n]))'
      BY <2>3, <2>5, <2>6
    <3>2. \A j \in 1 .. n - 1 : PaidIn(tokens[j], Owed(tokens[j]))'
      BY <1>3, <2>6 DEF AllPaidIn, PaidIn
    <3> QED
      BY <2>2, <3>1, <3>2 DEF AllPaidIn
  <2>11. InitUnderway(tokens, weights, balances, fee, n)'
    BY <2>5, <2>6, <2>7, <2>8, <2>9, <2>10 DEF InitUnderway
  <2> QED
    BY <2>11
<1>4. call.todo # <<>>
  BY DEF Step, JoinToken, ExitToken, InitToken, InitEnd, ApprovePool, Take, TakeDeposit, Give,
         StoreRecords, ChangeShares, Doing
<1> QED
  BY <1>2, <1>3, <1>4 DEF InitUnderway

-----------------------------------------------------------------------------
(***************************************************************************)
(* Every entry point starts an invocation that is on its way.              *)
(***************************************************************************)
LEMMA BeginKeeps ==
  ASSUME SeenOK, Begin
  PROVE  CallOK' /\ SeenStays /\ Underway'
<1>1. call = NoCall
  BY DEF Begin
<1>2. CASE \E user \in Users, tokens \in InitTokens, weights \in InitWeights,
              balances \in InitBalances, fee \in SwapFees :
             BeginInit(user, tokens, weights, balances, fee)
  BY <1>1, <1>2, InitBegins
<1>3. CASE \E user \in Users, shares \in Amounts, limits \in [Bound -> MaxLimits] :
             BeginJoin(user, shares, limits)
  BY <1>1, <1>3, JoinBegins
<1>4. CASE \E user \in Users, shares \in Amounts, limits \in [Bound -> MinLimits] :
             BeginExit(user, shares, limits)
  BY <1>1, <1>4, ExitBegins
<1>5. CASE \E user \in Users, in, out \in Tokens, amount \in TokenAmounts, price \in MaxLimits :
             \/ \E limit \in MinLimits : BeginSwapIn(user, in, amount, out, limit, price)
             \/ \E limit \in MaxLimits : BeginSwapOut(user, in, limit, out, amount, price)
  BY <1>1, <1>5, SwapInBegins, SwapOutBegins
<1>6. CASE \E user \in Users, token \in Tokens, amount \in TokenAmounts :
             \/ \E limit \in MinLimits : BeginDepositIn(user, token, amount, limit)
             \/ \E limit \in MaxLimits : BeginWithdrawOut(user, token, amount, limit)
  BY <1>1, <1>6, DepositInBegins, WithdrawOutBegins
<1>7. CASE \E user \in Users, token \in Tokens, shares \in Amounts :
             \/ \E limit \in MaxLimits : BeginDepositOut(user, token, shares, limit)
             \/ \E limit \in MinLimits : BeginWithdrawIn(user, token, shares, limit)
  BY <1>1, <1>7, DepositOutBegins, WithdrawInBegins
<1> QED
  BY <1>2, <1>3, <1>4, <1>5, <1>6, <1>7 DEF Begin

-----------------------------------------------------------------------------
(***************************************************************************)
(* An invocation that has nothing left to do, and what others see of it.   *)
(***************************************************************************)
Finished ==
  /\ MovedBut({}) /\ Stored /\ WithinMost
  /\ IsBook(call.local) /\ Tell(replayed, call.local)
  /\ controller = NoController => DOMAIN call.local = {}
  /\ lpBalance \in [Addresses -> Int] /\ totalShares \in Int
  /\ lpBalance[call.user] - call.saved.lpBalance[call.user] >= call.shares

\* What was done becomes seen.
Shown ==
  /\ SeenShares' = lpBalance /\ SeenTotal' = totalShares /\ SeenController' = controller
  /\ SeenFee' = swapFee /\ SeenRecords' = records /\ SeenLedgers' = tokenBalance
  /\ SeenReplayed' = replayed
  /\ UNCHANGED <<freeze, allowances, ledger>>

LEMMA ReturnShows ==
  ASSUME Return
  PROVE  Shown /\ call' = NoCall
BY DEF Return, Shown, vars, SeenShares, SeenTotal, SeenController, SeenFee, SeenRecords,
       SeenLedgers, SeenReplayed

LEMMA SavedTypes ==
  ASSUME SeenOK, CallOK, call # NoCall
  PROVE  /\ call.saved.lpBalance \in [Addresses -> Int] /\ call.saved.totalShares \in Int
         /\ call.saved.tokenBalance \in [Tokens -> [Addresses -> Int]]
         /\ call.saved.controller = NoController => DOMAIN call.saved.records = {}
         /\ call.user \in Addresses /\ Pool \in Addresses /\ call.user # Pool
<1>1. call.user \in Addresses /\ Pool \in Addresses /\ call.user # Pool
  BY PoolIsNoUser DEF CallOK, Addresses
<1> QED
  BY <1>1 DEF SeenOK, SeenShares, SeenTotal, SeenLedgers, SeenController, SeenRecords

LEMMA NotIssuedFacts ==
  ASSUME SeenOK, CallOK, call # NoCall, NotIssued
  PROVE  /\ lpBalance \in [Addresses -> Int] /\ totalShares \in Int
         /\ lpBalance[call.user] - call.saved.lpBalance[call.user] = 0
BY SavedTypes DEF NotIssued

LEMMA IssuedFacts ==
  ASSUME SeenOK, CallOK, call # NoCall, NEW amount \in Int, Issued(amount)
  PROVE  /\ lpBalance \in [Addresses -> Int] /\ totalShares \in Int
         /\ lpBalance[call.user] - call.saved.lpBalance[call.user] = amount
BY SavedTypes DEF Issued, Received

LEMMA RedeemedFacts ==
  ASSUME SeenOK, CallOK, call # NoCall, NEW amount \in Int, Redeemed(amount)
  PROVE  /\ lpBalance \in [Addresses -> Int] /\ totalShares \in Int
         /\ lpBalance[call.user] - call.saved.lpBalance[call.user] = -amount
BY SavedTypes DEF Redeemed, Received, Spent

\* Once nothing is in waiting, the tokens are as after one payment of all.
LEMMA AllMoved ==
  ASSUME SeenOK, CallOK, call # NoCall, MovedBut({}), NEW amounts,
         \A t \in Tokens : t \in DOMAIN amounts => amounts[t] = Owed(t),
         \A t \in Tokens \ DOMAIN amounts : Owed(t) = 0
  PROVE  tokenBalance = Atomic!AfterPaying(call.user, amounts)
<1> DEFINE old == call.saved.tokenBalance
           new == [t \in Tokens |->
                     IF t \in DOMAIN amounts
                       THEN [old[t] EXCEPT ![call.user] = @ - amounts[t], ![Pool] = @ + amounts[t]]
                       ELSE old[t]]
<1>1. Atomic!AfterPaying(call.user, amounts) = new
  BY DEF Atomic!AfterPaying
<1>2. tokenBalance = [t \in Tokens |-> tokenBalance[t]]
  BY DEF MovedBut
<1>3. ASSUME NEW t \in Tokens
      PROVE  tokenBalance[t] = new[t]
  <2>1. tokenBalance[t] = [old[t] EXCEPT ![call.user] = @ - Owed(t), ![Pool] = @ + Owed(t)]
    BY DEF MovedBut
  <2>2. CASE t \in DOMAIN amounts
    BY <2>1, <2>2
  <2>3. CASE t \notin DOMAIN amounts
    <3>1. Owed(t) = 0 /\ old[t] \in [Addresses -> Int]
      BY <2>3, SavedTypes
    <3>2. \A x \in Int : x - 0 = x /\ x + 0 = x
      OBVIOUS
    <3>3. [old[t] EXCEPT ![call.user] = @ - 0, ![Pool] = @ + 0] = old[t]
      BY <3>1, <3>2, SavedTypes
    <3>4. tokenBalance[t] = old[t]
      BY <2>1, <3>1, <3>3
    <3> QED
      BY <2>3, <3>4
  <2> QED
    BY <2>2, <2>3
<1> HIDE DEF new
<1>4. new = [t \in Tokens |-> new[t]]
  BY DEF new
<1> QED
  BY <1>1, <1>2, <1>3, <1>4

LEMMA FinishedSeen ==
  ASSUME CallOK, call # NoCall, Finished, Shown
  PROVE  SeenOK'
<1>1. /\ SeenShares' \in [Addresses -> Int] /\ SeenTotal' \in Int
      /\ SeenLedgers' \in [Tokens -> [Addresses -> Int]]
      /\ IsBook(SeenRecords')
      /\ SeenController' = NoController => DOMAIN SeenRecords' = {}
      /\ Tell(SeenReplayed', SeenRecords')
  BY DEF Shown, Finished, Stored, MovedBut
<1> QED
  BY <1>1 DEF SeenOK, Tell, Recorded

LEMMA FinishedWithinLimits ==
  ASSUME SeenOK, CallOK, call # NoCall, Finished
  PROVE  /\ \A t \in Tokens :
              call.saved.tokenBalance[t][call.user] - tokenBalance[t][call.user] <= call.most[t]
         /\ lpBalance[call.user] - call.saved.lpBalance[call.user] >= call.shares
<1>1. IsBook(call.saved.records) /\ \A t \in Tokens : Owed(t) \in Int
  BY OwedIsInteger DEF Finished
<1>2. ASSUME NEW t \in Tokens
      PROVE  call.saved.tokenBalance[t][call.user] - tokenBalance[t][call.user] <= call.most[t]
  <2>1. /\ call.saved.tokenBalance[t] \in [Addresses -> Int]
        /\ tokenBalance[t] =
             [call.saved.tokenBalance[t] EXCEPT ![call.user] = @ - Owed(t), ![Pool] = @ + Owed(t)]
    BY SavedTypes DEF Finished, MovedBut
  <2>2. tokenBalance[t][call.user] = call.saved.tokenBalance[t][call.user] - Owed(t)
    BY <2>1, SavedTypes
  <2>3. call.saved.tokenBalance[t][call.user] - tokenBalance[t][call.user] = Owed(t)
    BY <1>1, <2>1, <2>2, SavedTypes
  <2> QED
    BY <2>3 DEF Finished, WithinMost
<1> QED
  BY <1>2 DEF Finished

-----------------------------------------------------------------------------
(***************************************************************************)
(* What each kind of invocation has done by its end is what Atomic does in *)
(* one step.                                                               *)
(***************************************************************************)
LEMMA SwapEnds ==
  ASSUME SeenOK, CallOK, call # NoCall, call.todo = <<>>, NEW in, NEW amountIn, NEW out,
         NEW amountOut, NEW limit, NEW store,
         SwapUnderway(in, amountIn, out, amountOut, limit, store)
  PROVE  Finished /\ (Shown => Atomic!SwapNext)
<1>1. /\ SwapTerms(in, amountIn, out, amountOut) /\ TermsKept /\ NotIssued
      /\ Tell(replayed, call.local) /\ MovedBut({}) /\ Stored
      /\ PaidIn(in, amountIn) /\ PaidOut(out, amountOut)
  BY DEF SwapUnderway
<1>2. /\ in \in Tokens /\ out \in Tokens /\ in # out
      /\ IsBook(call.local) /\ DOMAIN call.local = DOMAIN call.saved.records
      /\ \A t : t # in /\ t # out => Owed(t) = 0
      /\ Owed(out) \in Int
  BY <1>1, SwapBooks, OwedIsInteger
<1>3. Finished
  <2>1. /\ lpBalance \in [Addresses -> Int] /\ totalShares \in Int
        /\ lpBalance[call.user] - call.saved.lpBalance[call.user] >= call.shares
    BY <1>1, NotIssuedFacts DEF SwapTerms
  <2>2. WithinMost
    BY <1>1 DEF SwapTerms
  <2>3. controller = NoController => DOMAIN call.local = {}
    BY <1>1, <1>2, SavedTypes DEF TermsKept
  <2> QED
    BY <1>1, <1>2, <2>1, <2>2, <2>3 DEF Finished
<1>4. ASSUME Shown
      PROVE  Atomic!SwapNext
  <2> DEFINE user == call.user
  <2>1. user \in Users
    BY DEF CallOK
  <2>2. Atomic!CanPull(in, user, amountIn) /\ Atomic!CanPush(out, amountOut)
    BY <1>1 DEF Atomic!CanPull, Atomic!CanPush, PaidIn, PaidOut
  <2>3. SeenRecords' = Atomic!AfterSwap(in, amountIn, out, amountOut)
    <3>1. SeenRecords' = Changed(Changed(call.saved.records, in, amountIn), out, -amountOut)
      BY <1>1, <1>4 DEF Shown, Stored, SwapTerms
    <3> QED
      BY <3>1, SameConstants DEF Atomic!AfterSwap
  <2>4. SeenLedgers' = Atomic!AfterPaying(user, [t \in {in, out} |->
                                                   IF t = in THEN amountIn ELSE -amountOut])
    <3> DEFINE amounts == [t \in {in, out} |-> IF t = in THEN amountIn ELSE -amountOut]
    <3>1. amountIn = Owed(in) /\ amountOut = -Owed(out)
      BY <1>1 DEF SwapTerms
    <3>2. -amountOut = Owed(out)
      BY <1>2, <3>1
    <3>3. DOMAIN amounts = {in, out} /\ amounts[in] = Owed(in) /\ amounts[out] = Owed(out)
      BY <1>2, <3>1, <3>2
    <3> HIDE DEF amounts
    <3>4. tokenBalance = Atomic!AfterPaying(user, amounts)
      BY <1>1, <1>2, <3>3, AllMoved
    <3> QED
      BY <1>4, <3>4 DEF Shown, amounts
  <2>5. /\ UNCHANGED <<SeenController, SeenFee, freeze>>
        /\ UNCHANGED <<SeenShares, SeenTotal, allowances, ledger>>
    BY <1>1, <1>4 DEF Shown, TermsKept, NotIssued, SeenController, SeenFee, SeenShares, SeenTotal
  <2>6. Atomic!Swap(user, in, amountIn, out, amountOut)
    BY <2>2, <2>3, <2>4, <2>5 DEF Atomic!Swap, Atomic!tokenVars, SeenController, SeenFee,
          SeenShares, SeenTotal, SeenRecords, SeenLedgers
  <2>7. CASE amountIn \in TokenAmounts /\ \E floor \in MinLimits, price \in MaxLimits :
               amountOut \in Atomic!SwapInQuote(in, amountIn, out, floor, price)
    BY <1>2, <2>1, <2>6, <2>7 DEF Atomic!SwapNext, Atomic!SwapCall, Atomic!SwapExactAmountIn
  <2>8. CASE amountOut \in TokenAmounts /\ \E cap \in MaxLimits, price \in MaxLimits :
               amountIn \in Atomic!SwapOutQuote(in, cap, out, amountOut, price)
    BY <1>2, <2>1, <2>6, <2>8 DEF Atomic!SwapNext, Atomic!SwapCall, Atomic!SwapExactAmountOut
  <2> QED
    BY <1>1, <2>7, <2>8 DEF SwapTerms
<1> QED
  BY <1>3, <1>4

LEMMA IssuedIsMinted ==
  ASSUME CallOK, call # NoCall, NEW amount, Issued(amount), Shown
  PROVE  Atomic!MintShares(call.user, amount)
BY SameConstants
DEF Issued, Shown, Atomic!MintShares, Atomic!CanReceive, CanReceive, Atomic!Received, Received,
    SeenTotal, SeenShares

LEMMA RedeemedIsBurned ==
  ASSUME CallOK, call # NoCall, NEW amount, Redeemed(amount), Shown
  PROVE  Atomic!RedeemShares(call.user, amount)
BY SameConstants
DEF Redeemed, Shown, Atomic!RedeemShares, Atomic!CanReceive, CanReceive, Atomic!Received,
    Received, Atomic!CanSpend, CanSpend, Atomic!Spent, Spent, SeenTotal, SeenShares

\* The books of an invocation that changes the balance of one token.
LEMMA OneTokenBooks ==
  ASSUME SeenOK, call # NoCall, NEW token \in DOMAIN call.saved.records, NEW change \in Int,
         call.local = Changed(call.saved.records, token, change)
  PROVE  /\ token \in Tokens
         /\ IsBook(call.local) /\ DOMAIN call.local = DOMAIN call.saved.records
         /\ \A t : t # token => Owed(t) = 0
<1> DEFINE recs == call.saved.records
<1>1. IsBook(recs) /\ token \in Tokens
  BY DEF SeenOK, SeenRecords, IsBook
<1> HIDE DEF recs
<1>2. /\ IsBook(Changed(recs, token, change)) /\ DOMAIN Changed(recs, token, change) = DOMAIN recs
      /\ \A t : Recorded(recs, t) \in Int
      /\ \A t : t # token => Recorded(Changed(recs, token, change), t) = Recorded(recs, t)
  BY <1>1, ChangedBook DEF recs
<1>3. \A t : t # token => Owed(t) = 0
  BY <1>2 DEF Owed, recs
<1> QED
  BY <1>1, <1>2, <1>3 DEF recs

LEMMA DepositEnds ==
  ASSUME SeenOK, CallOK, call # NoCall, call.todo = <<>>, NEW token, NEW amount, NEW limit,
         NEW shares \in Int, DepositUnderway(token, amount, limit, shares)
  PROVE  Finished /\ (Shown => Atomic!DepositNext)
<1>1. /\ DepositTerms(token, amount, shares) /\ TermsKept /\ Tell(replayed, call.local)
      /\ MovedBut({}) /\ Stored /\ Issued(shares) /\ PaidIn(token, amount)
  BY DEF DepositUnderway
<1>2. token \in Tokens /\ amount \in Int /\ amount = Owed(token)
  BY <1>1, OwedIsInteger DEF DepositTerms, IsBook
<1>3. /\ IsBook(call.local) /\ DOMAIN call.local = DOMAIN call.saved.records
      /\ \A t : t # token => Owed(t) = 0
  BY <1>1, <1>2, OneTokenBooks DEF DepositTerms
<1>4. Finished
  <2>1. /\ lpBalance \in [Addresses -> Int] /\ totalShares \in Int
        /\ lpBalance[call.user] - call.saved.lpBalance[call.user] = shares
    BY <1>1, IssuedFacts
  <2>2. WithinMost /\ call.shares <= shares
    BY <1>1 DEF DepositTerms
  <2>3. controller = NoController => DOMAIN call.local = {}
    BY <1>1, <1>3, SavedTypes DEF TermsKept
  <2>4. lpBalance[call.user] - call.saved.lpBalance[call.user] >= call.shares
    BY <2>1, <2>2
  <2> QED
    BY <1>1, <1>3, <2>1, <2>2, <2>3, <2>4 DEF Finished
<1>5. ASSUME Shown
      PROVE  Atomic!DepositNext
  <2> DEFINE user == call.user
  <2>1. user \in Users
    BY DEF CallOK
  <2>2. Atomic!CanPull(token, user, amount)
    BY <1>1 DEF Atomic!CanPull, PaidIn
  <2>3. SeenRecords' = Atomic!Changed(SeenRecords, token, amount)
    <3>1. SeenRecords' = Changed(call.saved.records, token, amount)
      BY <1>1, <1>5 DEF Shown, Stored, DepositTerms
    <3> QED
      BY <3>1, SameConstants DEF SeenRecords
  <2>4. SeenLedgers' = Atomic!AfterPaying(user, [t \in {token} |-> amount])
    <3> DEFINE amounts == [t \in {token} |-> amount]
    <3>1. DOMAIN amounts = {token} /\ amounts[token] = Owed(token)
      BY <1>2
    <3> HIDE DEF amounts
    <3>2. tokenBalance = Atomic!AfterPaying(user, amounts)
      BY <1>1, <1>3, <3>1, AllMoved
    <3> QED
      BY <1>5, <3>2 DEF Shown, amounts
  <2>5. UNCHANGED <<SeenController, SeenFee, freeze>>
    BY <1>1, <1>5 DEF Shown, TermsKept, SeenController, SeenFee
  <2>6. Atomic!MintShares(user, shares)
    BY <1>1, <1>5, IssuedIsMinted
  <2>7. Atomic!Deposit(user, token, amount, shares)
    BY <2>2, <2>3, <2>4, <2>5, <2>6
    DEF Atomic!Deposit, SeenController, SeenFee, SeenRecords, SeenLedgers
  <2>8. CASE amount \in TokenAmounts /\ \E floor \in MinLimits :
               shares \in Atomic!DepInQuote(token, amount, floor)
    BY <1>2, <2>1, <2>7, <2>8 DEF Atomic!DepositNext, Atomic!DepositCall, Atomic!DepToknAmtInGetLpToknsOut
  <2>9. CASE shares \in Amounts /\ \E cap \in MaxLimits :
               amount \in Atomic!DepOutQuote(token, shares, cap)
    BY <1>2, <2>1, <2>7, <2>9 DEF Atomic!DepositNext, Atomic!DepositCall, Atomic!DepLpToknAmtOutGetToknIn
  <2> QED
    BY <1>1, <2>8, <2>9 DEF DepositTerms
<1> QED
  BY <1>4, <1>5

LEMMA WithdrawEnds ==
  ASSUME SeenOK, CallOK, call # NoCall, call.todo = <<>>, NEW token, NEW amount,
         NEW shares \in Int, WithdrawUnderway(token, amount, shares)
  PROVE  Finished /\ (Shown => Atomic!WithdrawNext)
<1> DEFINE change == -amount
<1>1. /\ WithdrawTerms(token, amount, shares) /\ TermsKept /\ Tell(replayed, call.local)
      /\ MovedBut({}) /\ Stored /\ Redeemed(shares) /\ PaidOut(token, amount)
  BY DEF WithdrawUnderway
<1>2. token \in Tokens /\ amount = -Owed(token) /\ Owed(token) \in Int /\ amount \in Int
  BY <1>1, OwedIsInteger DEF WithdrawTerms, IsBook
<1>3. change \in Int /\ change = Owed(token) /\ token \in DOMAIN call.saved.records
      /\ call.local = Changed(call.saved.records, token, change)
  BY <1>1, <1>2 DEF WithdrawTerms
<1>4. /\ IsBook(call.local) /\ DOMAIN call.local = DOMAIN call.saved.records
      /\ \A t : t # token => Owed(t) = 0
  <2> HIDE DEF change
  <2> QED
    BY <1>3, OneTokenBooks
<1>5. Finished
  <2>1. /\ lpBalance \in [Addresses -> Int] /\ totalShares \in Int
        /\ lpBalance[call.user] - call.saved.lpBalance[call.user] = -shares
    BY <1>1, RedeemedFacts
  <2>2. WithinMost /\ call.shares <= -shares
    BY <1>1 DEF WithdrawTerms
  <2>3. controller = NoController => DOMAIN call.local = {}
    BY <1>1, <1>4, SavedTypes DEF TermsKept
  <2>4. lpBalance[call.user] - call.saved.lpBalance[call.user] >= call.shares
    BY <2>1, <2>2
  <2> QED
    BY <1>1, <1>4, <2>1, <2>2, <2>3, <2>4 DEF Finished
<1>6. ASSUME Shown
      PROVE  Atomic!WithdrawNext
  <2> DEFINE user == call.user
  <2>1. user \in Users
    BY DEF CallOK
  <2>2. Atomic!CanPush(token, amount)
    BY <1>1 DEF Atomic!CanPush, PaidOut
  <2>3. SeenRecords' = Atomic!Changed(SeenRecords, token, -amount)
    <3>1. SeenRecords' = Changed(call.saved.records, token, -amount)
      BY <1>1, <1>6 DEF Shown, Stored, WithdrawTerms
    <3> QED
      BY <3>1, SameConstants DEF SeenRecords
  <2>4. SeenLedgers' = Atomic!AfterPaying(user, [t \in {token} |-> -amount])
    <3> DEFINE amounts == [t \in {token} |-> change]
    <3>1. DOMAIN amounts = {token} /\ amounts[token] = Owed(token)
      BY <1>3
    <3> HIDE DEF amounts
    <3>2. tokenBalance = Atomic!AfterPaying(user, amounts)
      BY <1>1, <1>4, <3>1, AllMoved
    <3> QED
      BY <1>6, <3>2 DEF Shown, amounts
  <2>5. UNCHANGED <<SeenController, SeenFee, freeze>>
    BY <1>1, <1>6 DEF Shown, TermsKept, SeenController, SeenFee
  <2>6. Atomic!RedeemShares(user, shares)
    BY <1>1, <1>6, RedeemedIsBurned
  <2>7. Atomic!Withdraw(user, token, amount, shares)
    BY <2>2, <2>3, <2>4, <2>5, <2>6
    DEF Atomic!Withdraw, SeenController, SeenFee, SeenRecords, SeenLedgers
  <2>8. CASE shares \in Amounts /\ \E floor \in MinLimits :
               amount \in Atomic!WdrInQuote(token, shares, floor)
    BY <1>2, <2>1, <2>7, <2>8 DEF Atomic!WithdrawNext, Atomic!WithdrawCall, Atomic!WdrToknAmtInGetLpToknsOut
  <2>9. CASE amount \in TokenAmounts /\ \E cap \in MaxLimits :
               shares \in Atomic!WdrOutQuote(token, amount, cap)
    BY <1>2, <2>1, <2>7, <2>9 DEF Atomic!WithdrawNext, Atomic!WithdrawCall, Atomic!WdrToknAmtOutGetLpToknsIn
  <2> QED
    BY <1>1, <2>8, <2>9 DEF WithdrawTerms
<1> QED
  BY <1>5, <1>6

\* At most one amount is due for a token.
LEMMA OneIsDue ==
  \A record, ratio, limit :
    /\ \A x \in JoinDue(record, ratio, limit) : Atomic!The(JoinDue(record, ratio, limit)) = x
    /\ \A x \in ExitDue(record, ratio, limit) : Atomic!The(ExitDue(record, ratio, limit)) = x
<1>1. \A result, x : x \in result /\ (\A y \in result : y = x) => Atomic!The(result) = x
  BY DEF Atomic!The
<1>2. \A record, ratio, limit : \A x, y \in JoinDue(record, ratio, limit) : x = y
  BY DEF JoinDue, CalcJoinDepositAmount, DownscaleCeil, Checked
<1>3. \A record, ratio, limit : \A x, y \in ExitDue(record, ratio, limit) : x = y
  BY DEF ExitDue, CalcExitWithdrawalAmount, DownscaleFloor, Checked
<1>4. ASSUME NEW record, NEW ratio, NEW limit
      PROVE  /\ \A x \in JoinDue(record, ratio, limit) :
                  Atomic!The(JoinDue(record, ratio, limit)) = x
             /\ \A x \in ExitDue(record, ratio, limit) :
                  Atomic!The(ExitDue(record, ratio, limit)) = x
  <2> DEFINE J == JoinDue(record, ratio, limit)
             E == ExitDue(record, ratio, limit)
  <2>1. (\A x, y \in J : x = y) /\ (\A x, y \in E : x = y)
    BY <1>2, <1>3
  <2> HIDE DEF J, E
  <2>2. (\A x \in J : Atomic!The(J) = x) /\ (\A x \in E : Atomic!The(E) = x)
    BY <1>1, <2>1
  <2> QED
    BY <2>2 DEF J, E
<1> QED
  BY <1>4

\* The records of a loop that has been through all tokens.
LEMMA LoopBooks ==
  ASSUME SeenOK, CallOK, call # NoCall, BalancesOnly, Tell(replayed, call.local)
  PROVE  /\ IsBook(call.saved.records) /\ IsBook(call.local)
         /\ DOMAIN call.saved.records \subseteq Tokens
         /\ DOMAIN call.local = DOMAIN call.saved.records
         /\ \A t : Owed(t) \in Int
         /\ \A t : t \notin DOMAIN call.saved.records => Owed(t) = 0
         /\ call.local = [t \in DOMAIN call.saved.records |->
                            [call.saved.records[t] EXCEPT !.balance = @ + Owed(t)]]
<1>1. /\ IsBook(call.saved.records) /\ IsBook(call.local)
      /\ \A t : Owed(t) \in Int
      /\ \A t : t \notin DOMAIN call.saved.records => Owed(t) = 0
  BY BalancesBook
<1>2. /\ DOMAIN call.saved.records \subseteq Tokens
      /\ DOMAIN call.local = DOMAIN call.saved.records
      /\ call.local = [t \in DOMAIN call.local |-> call.local[t]]
  BY <1>1 DEF BalancesOnly, IsBook
<1>3. \A t \in DOMAIN call.local :
        call.local[t] = [call.saved.records[t] EXCEPT !.balance = @ + Owed(t)]
  BY DEF BalancesOnly
<1> QED
  BY <1>1, <1>2, <1>3

LEMMA JoinEnds ==
  ASSUME SeenOK, CallOK, call # NoCall, call.todo = <<>>, NEW shares, NEW ratio, NEW limits,
         NEW left, JoinUnderway(shares, ratio, limits, left)
  PROVE  Finished /\ (Shown => Atomic!JoinNext)
<1> DEFINE recs == call.saved.records
<1>1. left = {} /\ JoinTerms(shares, ratio, limits, left)
  BY DEF JoinUnderway
<1>2. /\ TermsKept /\ Tell(replayed, call.local)
      /\ MovedBut({}) /\ Stored /\ Issued(shares) /\ AllPaidIn(DOMAIN recs)
  BY <1>1 DEF JoinUnderway
<1>3. /\ shares \in Amounts /\ limits \in [DOMAIN recs -> MaxLimits]
      /\ ratio \in Atomic!JoinRatios(shares) /\ BalancesOnly
      /\ call.most = Agreed(limits) /\ call.shares = shares
      /\ \A t \in DOMAIN recs : Owed(t) \in JoinDue(recs[t], ratio, limits[t])
  BY <1>1 DEF JoinTerms
<1>4. /\ DOMAIN recs \subseteq Tokens /\ IsBook(call.local) /\ DOMAIN call.local = DOMAIN recs
      /\ \A t : Owed(t) \in Int
      /\ \A t : t \notin DOMAIN recs => Owed(t) = 0
      /\ call.local = [t \in DOMAIN recs |-> [recs[t] EXCEPT !.balance = @ + Owed(t)]]
  BY <1>2, <1>3, LoopBooks
<1>5. Finished
  <2>1. shares \in Int
    BY <1>3, AmountsAreIntegers
  <2>2. /\ lpBalance \in [Addresses -> Int] /\ totalShares \in Int
        /\ lpBalance[call.user] - call.saved.lpBalance[call.user] = shares
    BY <1>2, <2>1, IssuedFacts
  <2>3. lpBalance[call.user] - call.saved.lpBalance[call.user] >= call.shares
    BY <1>3, <2>1, <2>2
  <2>4. WithinMost
    <3>1. ASSUME NEW t \in Tokens
          PROVE  Owed(t) <= call.most[t]
      <4>1. CASE t \in DOMAIN recs
        <5>1. Owed(t) <= limits[t]
          BY <1>3, <4>1 DEF JoinDue
        <5>2. call.most[t] = limits[t]
          BY <1>3, <4>1 DEF Agreed
        <5> QED
          BY <5>1, <5>2
      <4>2. CASE t \notin DOMAIN recs
        <5>1. Owed(t) = 0 /\ call.most[t] = 0
          BY <1>3, <1>4, <4>2 DEF Agreed
        <5> QED
          BY <5>1
      <4> QED
        BY <4>1, <4>2
    <3> QED
      BY <3>1 DEF WithinMost
  <2>5. controller = NoController => DOMAIN call.local = {}
    BY <1>2, <1>4, SavedTypes DEF TermsKept
  <2> QED
    BY <1>2, <1>4, <2>2, <2>3, <2>4, <2>5 DEF Finished
<1>6. ASSUME Shown
      PROVE  Atomic!JoinNext
  <2> DEFINE user     == call.user
             due      == [t \in DOMAIN recs |-> Atomic!JoinDue(recs[t], ratio, limits[t])]
             deposits == [t \in DOMAIN recs |-> Atomic!The(due[t])]
  <2>1. user \in Users
    BY DEF CallOK
  <2>2. \A t \in DOMAIN recs : due[t] # {} /\ deposits[t] = Owed(t)
    <3>1. \A t \in DOMAIN recs :
            Atomic!JoinDue(recs[t], ratio, limits[t]) = JoinDue(recs[t], ratio, limits[t])
      BY SameJoinsAndExits
    <3>2. ASSUME NEW t \in DOMAIN recs
          PROVE  due[t] # {} /\ deposits[t] = Owed(t)
      <4>1. due[t] = JoinDue(recs[t], ratio, limits[t]) /\ deposits[t] = Atomic!The(due[t])
        BY <3>1
      <4>2. Owed(t) \in JoinDue(recs[t], ratio, limits[t])
        BY <1>3
      <4>3. Atomic!The(JoinDue(recs[t], ratio, limits[t])) = Owed(t)
        BY <4>2, OneIsDue
      <4> QED
        BY <4>1, <4>2, <4>3
    <3> QED
      BY <3>2
  <2>3. \A t \in DOMAIN recs : Atomic!CanPull(t, user, deposits[t])
    <3> HIDE DEF deposits, due
    <3> QED
      BY <1>2, <2>2 DEF AllPaidIn, PaidIn, Atomic!CanPull
  <2>4. SeenRecords' = [t \in DOMAIN recs |-> [recs[t] EXCEPT !.balance = @ + deposits[t]]]
    <3> HIDE DEF deposits, due
    <3>1. SeenRecords' = call.local
      BY <1>2, <1>6 DEF Shown, Stored
    <3> QED
      BY <1>4, <2>2, <3>1
  <2>5. SeenLedgers' = Atomic!AfterPaying(user, deposits)
    <3>1. DOMAIN deposits = DOMAIN recs
      OBVIOUS
    <3> HIDE DEF deposits, due
    <3>2. tokenBalance = Atomic!AfterPaying(user, deposits)
      BY <1>2, <1>4, <2>2, <3>1, AllMoved
    <3> QED
      BY <1>6, <3>2 DEF Shown
  <2>6. UNCHANGED <<SeenController, SeenFee, freeze>>
    BY <1>2, <1>6 DEF Shown, TermsKept, SeenController, SeenFee
  <2>7. Atomic!MintShares(user, shares)
    BY <1>2, <1>6, IssuedIsMinted
  <2>8. Atomic!JoinPool(user, shares, limits)
    <3>1. Atomic!Bound = DOMAIN recs
      BY DEF Atomic!Bound
    <3>2. SeenRecords = recs
      BY DEF SeenRecords
    <3> QED
      BY Zenon, <1>3, <2>2, <2>3, <2>4, <2>5, <2>6, <2>7, <3>1, <3>2
      DEF Atomic!JoinPool, SeenController, SeenFee, SeenRecords, SeenLedgers
  <2>9. limits \in [Atomic!Bound -> MaxLimits]
    BY <1>3 DEF Atomic!Bound
  <2> QED
    BY <1>3, <2>1, <2>8, <2>9 DEF Atomic!JoinNext, Atomic!JoinCall
<1> QED
  BY <1>5, <1>6

LEMMA ExitEnds ==
  ASSUME SeenOK, CallOK, call # NoCall, call.todo = <<>>, NEW shares, NEW ratio, NEW limits,
         NEW left, ExitUnderway(shares, ratio, limits, left)
  PROVE  Finished /\ (Shown => Atomic!ExitNext)
<1> DEFINE recs == call.saved.records
<1>1. left = {} /\ ExitTerms(shares, ratio, limits, left)
  BY DEF ExitUnderway
<1>2. /\ TermsKept /\ Tell(replayed, call.local)
      /\ MovedBut({}) /\ Stored /\ Redeemed(shares) /\ AllPaidOut(DOMAIN recs)
  BY <1>1 DEF ExitUnderway
<1>3. /\ shares \in Amounts /\ limits \in [DOMAIN recs -> MinLimits]
      /\ ratio \in Atomic!ExitRatios(shares) /\ BalancesOnly
      /\ call.most = Agreed([t \in DOMAIN recs |-> -limits[t]]) /\ call.shares = -shares
      /\ \A t \in DOMAIN recs : -Owed(t) \in ExitDue(recs[t], ratio, limits[t])
  BY <1>1 DEF ExitTerms
<1>4. /\ DOMAIN recs \subseteq Tokens /\ IsBook(call.local) /\ DOMAIN call.local = DOMAIN recs
      /\ IsBook(recs)
      /\ \A t : Owed(t) \in Int
      /\ \A t : t \notin DOMAIN recs => Owed(t) = 0
      /\ call.local = [t \in DOMAIN recs |-> [recs[t] EXCEPT !.balance = @ + Owed(t)]]
  BY <1>2, <1>3, LoopBooks
<1>5. Finished
  <2>1. shares \in Int
    BY <1>3, AmountsAreIntegers
  <2>2. /\ lpBalance \in [Addresses -> Int] /\ totalShares \in Int
        /\ lpBalance[call.user] - call.saved.lpBalance[call.user] = -shares
    BY <1>2, <2>1, RedeemedFacts
  <2>3. lpBalance[call.user] - call.saved.lpBalance[call.user] >= call.shares
    BY <1>3, <2>1, <2>2
  <2>4. WithinMost
    <3>1. ASSUME NEW t \in Tokens
          PROVE  Owed(t) <= call.most[t]
      <4>1. CASE t \in DOMAIN recs
        <5>1. limits[t] \in Int /\ Owed(t) \in Int
          BY <1>3, <1>4, <4>1, LimitsAreIntegers
        <5>2. limits[t] <= -Owed(t)
          BY <1>3, <4>1, <5>1 DEF ExitDue
        <5>3. call.most[t] = -limits[t]
          BY <1>3, <4>1 DEF Agreed
        <5> QED
          BY <5>1, <5>2, <5>3
      <4>2. CASE t \notin DOMAIN recs
        <5>1. Owed(t) = 0 /\ call.most[t] = 0
          BY <1>3, <1>4, <4>2 DEF Agreed
        <5> QED
          BY <5>1
      <4> QED
        BY <4>1, <4>2
    <3> QED
      BY <3>1 DEF WithinMost
  <2>5. controller = NoController => DOMAIN call.local = {}
    BY <1>2, <1>4, SavedTypes DEF TermsKept
  <2> QED
    BY <1>2, <1>4, <2>2, <2>3, <2>4, <2>5 DEF Finished
<1>6. ASSUME Shown
      PROVE  Atomic!ExitNext
  <2> DEFINE user    == call.user
             due     == [t \in DOMAIN recs |-> Atomic!ExitDue(recs[t], ratio, limits[t])]
             payouts == [t \in DOMAIN recs |-> Atomic!The(due[t])]
             changes == [t \in DOMAIN recs |-> -payouts[t]]
  <2>1. user \in Users
    BY DEF CallOK
  <2>2. \A t \in DOMAIN recs : due[t] # {} /\ payouts[t] = -Owed(t)
    <3>1. \A t \in DOMAIN recs :
            Atomic!ExitDue(recs[t], ratio, limits[t]) = ExitDue(recs[t], ratio, limits[t])
      BY SameJoinsAndExits
    <3>2. ASSUME NEW t \in DOMAIN recs
          PROVE  due[t] # {} /\ payouts[t] = -Owed(t)
      <4>1. due[t] = ExitDue(recs[t], ratio, limits[t]) /\ payouts[t] = Atomic!The(due[t])
        BY <3>1
      <4>2. -Owed(t) \in ExitDue(recs[t], ratio, limits[t])
        BY <1>3
      <4>3. Atomic!The(ExitDue(recs[t], ratio, limits[t])) = -Owed(t)
        BY <4>2, OneIsDue
      <4> QED
        BY <4>1, <4>2, <4>3
    <3> QED
      BY <3>2
  <2>3. \A t \in DOMAIN recs : Atomic!CanPush(t, payouts[t])
    <3> HIDE DEF payouts, due
    <3> QED
      BY <1>2, <2>2 DEF AllPaidOut, PaidOut, Atomic!CanPush
  <2>4. SeenRecords' = [t \in DOMAIN recs |-> [recs[t] EXCEPT !.balance = @ - payouts[t]]]
    <3> HIDE DEF payouts, due
    <3>1. SeenRecords' = call.local
      BY <1>2, <1>6 DEF Shown, Stored
    <3>2. ASSUME NEW t \in DOMAIN recs
          PROVE  [recs[t] EXCEPT !.balance = @ + Owed(t)]
                   = [recs[t] EXCEPT !.balance = @ - payouts[t]]
      <4>1. recs[t].balance \in Int /\ Owed(t) \in Int /\ payouts[t] = -Owed(t)
        BY <1>4, <2>2 DEF IsBook, BookRecord
      <4>2. recs[t].balance + Owed(t) = recs[t].balance - payouts[t]
        BY <4>1
      <4> QED
        BY <4>2
    <3> QED
      BY <1>4, <3>1, <3>2
  <2>5. SeenLedgers' = Atomic!AfterPaying(user, changes)
    <3>1. DOMAIN changes = DOMAIN recs /\ \A t \in DOMAIN recs : changes[t] = -payouts[t]
      OBVIOUS
    <3> HIDE DEF payouts, due, changes
    <3>2. \A t \in DOMAIN recs : changes[t] = Owed(t)
      BY <1>4, <2>2, <3>1
    <3>3. tokenBalance = Atomic!AfterPaying(user, changes)
      BY <1>2, <1>4, <3>1, <3>2, AllMoved
    <3> QED
      BY <1>6, <3>3 DEF Shown
  <2>6. UNCHANGED <<SeenController, SeenFee, freeze>>
    BY <1>2, <1>6 DEF Shown, TermsKept, SeenController, SeenFee
  <2>7. Atomic!RedeemShares(user, shares)
    BY <1>2, <1>6, RedeemedIsBurned
  <2>8. Atomic!ExitPool(user, shares, limits)
    <3>1. Atomic!Bound = DOMAIN recs
      BY DEF Atomic!Bound
    <3>2. SeenRecords = recs
      BY DEF SeenRecords
    <3> QED
      BY ZenonT(120), <1>3, <2>2, <2>3, <2>4, <2>5, <2>6, <2>7, <3>1, <3>2
      DEF Atomic!ExitPool, SeenController, SeenFee, SeenRecords, SeenLedgers
  <2>9. limits \in [Atomic!Bound -> MinLimits]
    BY <1>3 DEF Atomic!Bound
  <2> QED
    BY <1>3, <2>1, <2>8, <2>9 DEF Atomic!ExitNext, Atomic!ExitCall
<1> QED
  BY <1>5, <1>6

LEMMA InitEnds ==
  ASSUME SeenOK, CallOK, call # NoCall, call.todo = <<>>,
         NEW tokens \in InitTokens, NEW weights \in InitWeights, NEW balances \in InitBalances,
         NEW fee \in SwapFees, NEW n \in 0 .. Len(tokens),
         InitUnderway(tokens, weights, balances, fee, n)
  PROVE  Finished /\ (Shown => Atomic!InitNext)
<1> DEFINE place(t) == CHOOSE i \in DOMAIN tokens : tokens[i] = t
           deposits == [t \in {tokens[i] : i \in DOMAIN tokens} |-> balances[place(t)]]
           opened   == [t \in DOMAIN deposits |->
                          [balance |-> deposits[t], weight |-> weights[place(t)],
                           scalar |-> Scalar[t]]]
<1>1. /\ InitTerms(tokens, weights, balances, fee) /\ Listed(n, tokens, weights, balances)
      /\ n = Len(tokens) /\ AddUp(weights)
      /\ MovedBut({}) /\ Stored /\ Issued(INIT_POOL_SUPPLY)
      /\ controller = call.user /\ swapFee = fee
      /\ AllPaidIn({tokens[j] : j \in 1 .. n}) /\ Tell(replayed, call.local)
  BY DEF InitUnderway
<1>2. /\ DOMAIN tokens = 1 .. n /\ n \in Nat
      /\ \A j \in 1 .. n : tokens[j] \in Tokens /\ weights[j] \in Int /\ balances[j] \in Int
  BY <1>1, VectorFacts DEF InitTerms
<1>3. /\ DOMAIN call.saved.records = {}
      /\ \A j \in 1 .. n : Owed(tokens[j]) = balances[j]
      /\ \A t : t \notin DOMAIN call.local => Owed(t) = 0
  BY <1>1, InitOwed
<1>4. /\ DOMAIN call.local = {tokens[j] : j \in 1 .. n}
      /\ \A j, k \in 1 .. n : tokens[j] = tokens[k] => j = k
      /\ \A j \in 1 .. n :
           /\ weights[j] \in MIN_WEIGHT .. MAX_WEIGHT /\ balances[j] >= MIN_BALANCE
           /\ Scalar[tokens[j]] > 0
           /\ call.local[tokens[j]] = [balance |-> balances[j], weight |-> weights[j],
                                       scalar |-> Scalar[tokens[j]]]
  BY <1>1 DEF Listed
<1>5. \A j \in 1 .. n : place(tokens[j]) = j
  <2> TAKE j \in 1 .. n
  <2>1. \E i \in DOMAIN tokens : tokens[i] = tokens[j]
    BY <1>2
  <2>2. place(tokens[j]) \in DOMAIN tokens /\ tokens[place(tokens[j])] = tokens[j]
    BY <2>1
  <2> HIDE DEF place
  <2> QED
    BY <1>2, <1>4, <2>2
<1> HIDE DEF place
<1>6. /\ \A t : t \in DOMAIN deposits <=> \E j \in 1 .. n : t = tokens[j]
      /\ \A j \in 1 .. n : deposits[tokens[j]] = balances[j]
  BY <1>2, <1>5
<1>7. \A j \in 1 .. n : opened[tokens[j]] = [balance |-> balances[j], weight |-> weights[j],
                                             scalar |-> Scalar[tokens[j]]]
  <2> HIDE DEF deposits
  <2> QED
    BY <1>5, <1>6
<1>8. DOMAIN opened = DOMAIN deposits /\ opened = [t \in DOMAIN deposits |-> opened[t]]
  OBVIOUS
<1>9. call.most = Agreed(deposits)
  BY <1>1 DEF InitTerms, GivenTo, place
<1> HIDE DEF deposits, opened
<1>10. /\ DOMAIN call.local \subseteq Tokens /\ DOMAIN call.local = DOMAIN deposits
       /\ \A t \in DOMAIN call.local : \E j \in 1 .. n : t = tokens[j]
  <2>1. \A t : t \in DOMAIN call.local <=> \E j \in 1 .. n : t = tokens[j]
    BY <1>4
  <2>2. \A t : t \in DOMAIN call.local <=> t \in DOMAIN deposits
    BY <1>6, <2>1
  <2>3. DOMAIN call.local = DOMAIN deposits
    BY <2>2
  <2> QED
    BY <1>2, <2>1, <2>3
<1>14. /\ \A t \in Tokens : t \in DOMAIN deposits => deposits[t] = Owed(t)
       /\ \A t \in Tokens \ DOMAIN deposits : Owed(t) = 0
  BY <1>3, <1>6, <1>10
<1>11. call.local = opened
  <2>1. IsBook(call.local)
    BY <1>1 DEF Listed
  <2>2. call.local = [t \in DOMAIN call.local |-> call.local[t]]
    BY <2>1 DEF IsBook
  <2>3. ASSUME NEW t \in DOMAIN call.local
        PROVE  call.local[t] = opened[t]
    <3>1. PICK j \in 1 .. n : t = tokens[j]
      BY <1>10
    <3>2. call.local[tokens[j]] = opened[tokens[j]]
      BY <1>4, <1>7
    <3> QED
      BY <3>1, <3>2
  <2> QED
    BY <1>8, <1>10, <2>2, <2>3
<1>12. Finished
  <2>1. INIT_POOL_SUPPLY \in Int
    BY PoolAssumption
  <2>2. /\ lpBalance \in [Addresses -> Int] /\ totalShares \in Int
        /\ lpBalance[call.user] - call.saved.lpBalance[call.user] = INIT_POOL_SUPPLY
    BY <1>1, <2>1, IssuedFacts
  <2>3. lpBalance[call.user] - call.saved.lpBalance[call.user] >= call.shares
    BY <1>1, <2>1, <2>2 DEF InitTerms
  <2>4. WithinMost
    <3>1. ASSUME NEW t \in Tokens
          PROVE  Owed(t) = call.most[t] /\ Owed(t) \in Int
      <4>1. Owed(t) = call.most[t]
        BY <1>9, <1>14 DEF Agreed
      <4> QED
        BY <1>1, <4>1, OwedIsInteger
    <3> QED
      BY <3>1 DEF WithinMost
  <2>5. controller # NoController
    BY <1>1, PoolAssumption DEF CallOK
  <2>6. IsBook(call.local)
    BY <1>1 DEF Listed
  <2> QED
    BY <1>1, <2>2, <2>3, <2>4, <2>5, <2>6 DEF Finished
<1>13. ASSUME Shown
       PROVE  Atomic!InitNext
  <2> DEFINE user == call.user
  <2>1. user \in Users
    BY DEF CallOK
  <2>2. ~Atomic!Initialized
    BY <1>1 DEF Atomic!Initialized, InitTerms
  <2>3. /\ Len(tokens) \in 2 .. 8 /\ Len(weights) = Len(tokens) /\ Len(balances) = Len(tokens)
        /\ fee \in MIN_FEE .. Atomic!MAX_FEE
    BY <1>1, SameConstants DEF InitTerms
  <2>4. Atomic!NoDuplicates(tokens)
    BY <1>2, <1>4 DEF Atomic!NoDuplicates
  <2>5. \A j \in DOMAIN tokens :
          /\ weights[j] \in Atomic!MIN_WEIGHT .. Atomic!MAX_WEIGHT
          /\ balances[j] >= MIN_BALANCE
          /\ Scalar[tokens[j]] > 0
          /\ Atomic!CanPull(tokens[j], user, balances[j])
    <3>1. \A j \in 1 .. n : PaidIn(tokens[j], balances[j])
      BY <1>1, <1>3 DEF AllPaidIn
    <3>2. \A j \in 1 .. n : Atomic!CanPull(tokens[j], user, balances[j])
      BY <3>1 DEF PaidIn, Atomic!CanPull
    <3> QED
      BY <1>2, <1>4, <3>2, SameConstants
  <2>6. Atomic!FoldFunction(+, 0, weights) = STROOP
    <3>1. FoldFunction(+, 0, weights) = STROOP
      BY Zenon, <1>1 DEF AddUp
    <3>2. Atomic!FoldFunction(+, 0, weights) = FoldFunction(+, 0, weights)
      BY Zenon, SameConstants
    <3> QED
      BY Zenon, <3>1, <3>2
  <2>7. Atomic!MintShares(user, INIT_POOL_SUPPLY)
    BY <1>1, <1>13, IssuedIsMinted
  <2>8. SeenFee' = fee /\ SeenController' = user /\ UNCHANGED freeze
    BY <1>1, <1>13 DEF Shown
  <2>9. SeenRecords' = opened
    BY <1>1, <1>11, <1>13 DEF Shown, Stored
  <2>10. SeenLedgers' = Atomic!AfterPaying(user, deposits)
    <3>1. tokenBalance = Atomic!AfterPaying(user, deposits)
      BY <1>1, <1>14, AllMoved
    <3> QED
      BY <1>13, <3>1 DEF Shown
  <2>11. Atomic!InitPool(user, tokens, weights, balances, fee)
    BY Zenon, <2>2, <2>3, <2>4, <2>5, <2>6, <2>7, <2>8, <2>9, <2>10
    DEF Atomic!InitPool, SeenFee, SeenController, SeenRecords, SeenLedgers, opened, deposits, place
  <2> QED
    BY <2>1, <2>11 DEF Atomic!InitNext, Atomic!InitCall
<1> QED
  BY <1>12, <1>13

-----------------------------------------------------------------------------
(***************************************************************************)
(* The steps that are none of an invocation's: nothing happens, it is      *)
(* rolled back, and what needs no token call.                              *)
(***************************************************************************)
\* While nothing happens at all, nothing that is said of an invocation changes.
LEMMA NothingHappens ==
  ASSUME UNCHANGED callVars
  PROVE  /\ SeenStays
         /\ \A t : Owed(t)' = Owed(t)
         /\ \A W : MovedBut(W)' <=> MovedBut(W)
         /\ \A t, amount : PaidIn(t, amount)' <=> PaidIn(t, amount)
         /\ \A t, amount : PaidOut(t, amount)' <=> PaidOut(t, amount)
         /\ \A a : Issued(a)' <=> Issued(a)
         /\ \A a : Redeemed(a)' <=> Redeemed(a)
         /\ (NotStored' <=> NotStored) /\ (Stored' <=> Stored) /\ (NotIssued' <=> NotIssued)
         /\ (TermsKept' <=> TermsKept) /\ (WithinMost' <=> WithinMost)
         /\ (BalancesOnly' <=> BalancesOnly)
<1>1. /\ call' = call /\ replayed' = replayed /\ UNCHANGED vars
      /\ lpBalance' = lpBalance /\ totalShares' = totalShares /\ controller' = controller
      /\ swapFee' = swapFee /\ records' = records /\ tokenBalance' = tokenBalance
      /\ UNCHANGED <<freeze, allowances, ledger>>
  BY DEF callVars, vars
<1>2. SeenStays
  BY <1>1 DEF SeenStays, SeenShares, SeenTotal, SeenController, SeenFee, SeenRecords,
              SeenLedgers, SeenReplayed
<1>3. \A t : Owed(t)' = Owed(t)
  BY <1>1 DEF Owed, Recorded
<1>4. \A W : MovedBut(W)' <=> MovedBut(W)
  BY <1>1, <1>3 DEF MovedBut
<1>5. /\ \A t, amount : PaidIn(t, amount)' <=> PaidIn(t, amount)
      /\ \A t, amount : PaidOut(t, amount)' <=> PaidOut(t, amount)
  BY <1>1 DEF PaidIn, PaidOut
<1>6. /\ \A a : Issued(a)' <=> Issued(a)
      /\ \A a : Redeemed(a)' <=> Redeemed(a)
  BY <1>1 DEF Issued, Redeemed
<1>7. /\ (NotStored' <=> NotStored) /\ (Stored' <=> Stored) /\ (NotIssued' <=> NotIssued)
      /\ (TermsKept' <=> TermsKept) /\ (WithinMost' <=> WithinMost)
  BY <1>1, <1>3 DEF NotStored, Stored, NotIssued, TermsKept, WithinMost
<1>8. BalancesOnly' <=> BalancesOnly
  BY <1>1, <1>3 DEF BalancesOnly, IsBook
<1> QED
  BY <1>2, <1>3, <1>4, <1>5, <1>6, <1>7, <1>8

LEMMA SwapRests ==
  ASSUME UNCHANGED callVars, NEW in, NEW amountIn, NEW out, NEW amountOut, NEW limit, NEW store,
         SwapUnderway(in, amountIn, out, amountOut, limit, store)
  PROVE  SwapUnderway(in, amountIn, out, amountOut, limit, store)'
<1>1. call' = call /\ replayed' = replayed
  BY DEF callVars
<1>2. SeenStays
  BY NothingHappens
<1>3. /\ SwapTerms(in, amountIn, out, amountOut)
      /\ Tell(replayed, call.local)
  BY DEF SwapUnderway
<1>4. SwapTerms(in, amountIn, out, amountOut)'
  BY <1>1, <1>2, <1>3, SwapQuotesStay, NothingHappens DEF SwapTerms
<1>5. Tell(replayed, call.local)'
  BY <1>1, <1>3 DEF Tell
<1> QED
  BY <1>1, <1>4, <1>5, NothingHappens DEF SwapUnderway

LEMMA DepositRests ==
  ASSUME UNCHANGED callVars, NEW token, NEW amount, NEW limit, NEW shares,
         DepositUnderway(token, amount, limit, shares)
  PROVE  DepositUnderway(token, amount, limit, shares)'
<1>1. call' = call /\ replayed' = replayed
  BY DEF callVars
<1>2. SeenStays
  BY NothingHappens
<1>3. DepositTerms(token, amount, shares) /\ Tell(replayed, call.local)
  BY DEF DepositUnderway
<1>4. DepositTerms(token, amount, shares)'
  BY <1>1, <1>2, <1>3, OneTokenQuotesStay, NothingHappens DEF DepositTerms
<1>5. Tell(replayed, call.local)'
  BY <1>1, <1>3 DEF Tell
<1> QED
  BY <1>1, <1>4, <1>5, NothingHappens DEF DepositUnderway

LEMMA WithdrawRests ==
  ASSUME UNCHANGED callVars, NEW token, NEW amount, NEW shares,
         WithdrawUnderway(token, amount, shares)
  PROVE  WithdrawUnderway(token, amount, shares)'
<1>1. call' = call /\ replayed' = replayed
  BY DEF callVars
<1>2. SeenStays
  BY NothingHappens
<1>3. WithdrawTerms(token, amount, shares) /\ Tell(replayed, call.local)
  BY DEF WithdrawUnderway
<1>4. WithdrawTerms(token, amount, shares)'
  BY <1>1, <1>2, <1>3, OneTokenQuotesStay, NothingHappens DEF WithdrawTerms
<1>5. Tell(replayed, call.local)'
  BY <1>1, <1>3 DEF Tell
<1> QED
  BY <1>1, <1>4, <1>5, NothingHappens DEF WithdrawUnderway

LEMMA JoinRests ==
  ASSUME UNCHANGED callVars, NEW shares, NEW ratio, NEW limits, NEW left,
         JoinUnderway(shares, ratio, limits, left)
  PROVE  JoinUnderway(shares, ratio, limits, left)'
<1>1. call' = call /\ replayed' = replayed
  BY DEF callVars
<1>2. SeenStays
  BY NothingHappens
<1>3. JoinTerms(shares, ratio, limits, left) /\ Tell(replayed, call.local)
  BY DEF JoinUnderway
<1>4. JoinTerms(shares, ratio, limits, left)'
  BY <1>1, <1>2, <1>3, RatiosStay, NothingHappens DEF JoinTerms
<1>5. Tell(replayed, call.local)'
  BY <1>1, <1>3 DEF Tell
<1>6. \A tokens : AllPaidIn(tokens)' <=> AllPaidIn(tokens)
  BY NothingHappens DEF AllPaidIn, PaidIn
<1> QED
  BY <1>1, <1>4, <1>5, <1>6, NothingHappens DEF JoinUnderway

LEMMA ExitRests ==
  ASSUME UNCHANGED callVars, NEW shares, NEW ratio, NEW limits, NEW left,
         ExitUnderway(shares, ratio, limits, left)
  PROVE  ExitUnderway(shares, ratio, limits, left)'
<1>1. call' = call /\ replayed' = replayed
  BY DEF callVars
<1>2. SeenStays
  BY NothingHappens
<1>3. ExitTerms(shares, ratio, limits, left) /\ Tell(replayed, call.local)
  BY DEF ExitUnderway
<1>4. ExitTerms(shares, ratio, limits, left)'
  BY <1>1, <1>2, <1>3, RatiosStay, NothingHappens DEF ExitTerms
<1>5. Tell(replayed, call.local)'
  BY <1>1, <1>3 DEF Tell
<1>6. \A tokens : AllPaidOut(tokens)' <=> AllPaidOut(tokens)
  BY NothingHappens DEF AllPaidOut, PaidOut
<1> QED
  BY <1>1, <1>4, <1>5, <1>6, NothingHappens DEF ExitUnderway

LEMMA InitRests ==
  ASSUME UNCHANGED callVars, NEW tokens, NEW weights, NEW balances, NEW fee, NEW n,
         InitUnderway(tokens, weights, balances, fee, n)
  PROVE  InitUnderway(tokens, weights, balances, fee, n)'
<1>1. call' = call /\ replayed' = replayed /\ controller' = controller /\ swapFee' = swapFee
  BY DEF callVars, vars
<1>2. InitTerms(tokens, weights, balances, fee)' /\ Listed(n, tokens, weights, balances)'
  BY <1>1 DEF InitUnderway, InitTerms, Listed, IsBook
<1>3. /\ Tell(replayed, call.local)' <=> Tell(replayed, call.local)
      /\ Tell(replayed, call.saved.records)' <=> Tell(replayed, call.saved.records)
  BY <1>1 DEF Tell
<1>4. \A ts : AllPaidIn(ts)' <=> AllPaidIn(ts)
  BY NothingHappens DEF AllPaidIn, PaidIn
<1> HIDE DEF AddUp
<1> QED
  BY <1>1, <1>2, <1>3, <1>4, NothingHappens DEF InitUnderway

LEMMA StepKeeps ==
  ASSUME SeenOK, CallOK, call # NoCall, Underway, [Step]_callVars
  PROVE  Underway'
<1>3. CASE \E in, out \in Tokens, limit \in Limits :
             \E amountIn \in {Owed(in)}, amountOut \in {-Owed(out)},
                store \in {StoringAll, Storing({in, out})} :
               SwapUnderway(in, amountIn, out, amountOut, limit, store)
  <2>1. PICK in \in Tokens, out \in Tokens, limit \in Limits :
               \E amountIn \in {Owed(in)}, amountOut \in {-Owed(out)},
                  store \in {StoringAll, Storing({in, out})} :
                 SwapUnderway(in, amountIn, out, amountOut, limit, store)
    BY <1>3
  <2>2. PICK amountIn \in {Owed(in)}, amountOut \in {-Owed(out)},
             store \in {StoringAll, Storing({in, out})} :
               SwapUnderway(in, amountIn, out, amountOut, limit, store)
    BY <2>1
  <2>3. SwapUnderway(in, amountIn, out, amountOut, limit, store)'
    BY <2>2, SwapSteps, SwapRests
  <2>4. amountIn = Owed(in)' /\ amountOut = -(Owed(out)')
    BY <2>3 DEF SwapUnderway, SwapTerms
  <2> QED
    BY <2>2, <2>3, <2>4 DEF Underway
<1>4. CASE \E token \in Tokens, limit \in Limits : \E amount \in {Owed(token)}, shares \in Int :
             DepositUnderway(token, amount, limit, shares)
  <2>1. PICK token \in Tokens, limit \in Limits : \E amount \in {Owed(token)}, shares \in Int :
               DepositUnderway(token, amount, limit, shares)
    BY <1>4
  <2>2. PICK amount \in {Owed(token)}, shares \in Int :
               DepositUnderway(token, amount, limit, shares)
    BY <2>1
  <2>3. DepositUnderway(token, amount, limit, shares)'
    BY <2>2, DepositSteps, DepositRests
  <2>4. amount = Owed(token)'
    BY <2>3 DEF DepositUnderway, DepositTerms
  <2> QED
    BY <2>3, <2>4 DEF Underway
<1>5. CASE \E token \in Tokens : \E amount \in {-Owed(token)}, shares \in Int :
             WithdrawUnderway(token, amount, shares)
  <2>1. PICK token \in Tokens : \E amount \in {-Owed(token)}, shares \in Int :
               WithdrawUnderway(token, amount, shares)
    BY <1>5
  <2>2. PICK amount \in {-Owed(token)}, shares \in Int : WithdrawUnderway(token, amount, shares)
    BY <2>1
  <2>3. WithdrawUnderway(token, amount, shares)'
    BY <2>2, WithdrawSteps, WithdrawRests
  <2>4. amount = -(Owed(token)')
    BY <2>3 DEF WithdrawUnderway, WithdrawTerms
  <2> QED
    BY <2>3, <2>4 DEF Underway
<1>6. CASE \E shares \in Amounts : \E ratio \in Atomic!JoinRatios(shares),
             limits \in [DOMAIN call.saved.records -> MaxLimits],
             left \in SUBSET DOMAIN call.saved.records : JoinUnderway(shares, ratio, limits, left)
  <2>1. PICK shares \in Amounts : \E ratio \in Atomic!JoinRatios(shares),
             limits \in [DOMAIN call.saved.records -> MaxLimits],
             left \in SUBSET DOMAIN call.saved.records : JoinUnderway(shares, ratio, limits, left)
    BY <1>6
  <2>2. PICK ratio \in Atomic!JoinRatios(shares),
             limits \in [DOMAIN call.saved.records -> MaxLimits],
             left \in SUBSET DOMAIN call.saved.records : JoinUnderway(shares, ratio, limits, left)
    BY <2>1
  <2>3. PICK rest \in SUBSET left : JoinUnderway(shares, ratio, limits, rest)'
    BY <2>2, JoinSteps, JoinRests
  <2>4. /\ ratio \in Atomic!JoinRatios(shares)' /\ rest \in SUBSET DOMAIN call'.saved.records
        /\ limits \in [DOMAIN call'.saved.records -> MaxLimits]
    BY <2>3 DEF JoinUnderway, JoinTerms
  <2> QED
    BY <2>3, <2>4 DEF Underway
<1>7. CASE \E shares \in Amounts : \E ratio \in Atomic!ExitRatios(shares),
             limits \in [DOMAIN call.saved.records -> MinLimits],
             left \in SUBSET DOMAIN call.saved.records : ExitUnderway(shares, ratio, limits, left)
  <2>1. PICK shares \in Amounts : \E ratio \in Atomic!ExitRatios(shares),
             limits \in [DOMAIN call.saved.records -> MinLimits],
             left \in SUBSET DOMAIN call.saved.records : ExitUnderway(shares, ratio, limits, left)
    BY <1>7
  <2>2. PICK ratio \in Atomic!ExitRatios(shares),
             limits \in [DOMAIN call.saved.records -> MinLimits],
             left \in SUBSET DOMAIN call.saved.records : ExitUnderway(shares, ratio, limits, left)
    BY <2>1
  <2>3. PICK rest \in SUBSET left : ExitUnderway(shares, ratio, limits, rest)'
    BY <2>2, ExitSteps, ExitRests
  <2>4. /\ ratio \in Atomic!ExitRatios(shares)' /\ rest \in SUBSET DOMAIN call'.saved.records
        /\ limits \in [DOMAIN call'.saved.records -> MinLimits]
    BY <2>3 DEF ExitUnderway, ExitTerms
  <2> QED
    BY <2>3, <2>4 DEF Underway
<1>8. CASE \E tokens \in InitTokens, weights \in InitWeights, balances \in InitBalances,
              fee \in SwapFees : \E n \in 0 .. Len(tokens) :
                InitUnderway(tokens, weights, balances, fee, n)
  <2>1. PICK tokens \in InitTokens, weights \in InitWeights, balances \in InitBalances,
             fee \in SwapFees : \E n \in 0 .. Len(tokens) :
               InitUnderway(tokens, weights, balances, fee, n)
    BY <1>8
  <2>2. PICK n \in 0 .. Len(tokens) : InitUnderway(tokens, weights, balances, fee, n)
    BY <2>1
  <2>3. \E m \in 0 .. Len(tokens) : InitUnderway(tokens, weights, balances, fee, m)'
    BY <2>2, InitSteps, InitRests
  <2> QED
    BY <2>3 DEF Underway
<1> QED
  BY <1>3, <1>4, <1>5, <1>6, <1>7, <1>8 DEF Underway

\* An invocation that has nothing left to do has done one step of Atomic.
LEMMA CallEnds ==
  ASSUME SeenOK, CallOK, call # NoCall, Underway, call.todo = <<>>
  PROVE  Finished /\ (Shown => Atomic!PoolNext)
<1>1. CASE \E in, out \in Tokens, limit \in Limits :
             \E amountIn \in {Owed(in)}, amountOut \in {-Owed(out)},
                store \in {StoringAll, Storing({in, out})} :
               SwapUnderway(in, amountIn, out, amountOut, limit, store)
  BY <1>1, SwapEnds DEF Atomic!PoolNext
<1>2. CASE \E token \in Tokens, limit \in Limits : \E amount \in {Owed(token)}, shares \in Int :
             DepositUnderway(token, amount, limit, shares)
  BY <1>2, DepositEnds DEF Atomic!PoolNext
<1>3. CASE \E token \in Tokens : \E amount \in {-Owed(token)}, shares \in Int :
             WithdrawUnderway(token, amount, shares)
  BY <1>3, WithdrawEnds DEF Atomic!PoolNext
<1>4. CASE \E shares \in Amounts : \E ratio \in Atomic!JoinRatios(shares),
             limits \in [DOMAIN call.saved.records -> MaxLimits],
             left \in SUBSET DOMAIN call.saved.records : JoinUnderway(shares, ratio, limits, left)
  BY <1>4, JoinEnds DEF Atomic!PoolNext
<1>5. CASE \E shares \in Amounts : \E ratio \in Atomic!ExitRatios(shares),
             limits \in [DOMAIN call.saved.records -> MinLimits],
             left \in SUBSET DOMAIN call.saved.records : ExitUnderway(shares, ratio, limits, left)
  BY <1>5, ExitEnds DEF Atomic!PoolNext
<1>6. CASE \E tokens \in InitTokens, weights \in InitWeights, balances \in InitBalances,
              fee \in SwapFees : \E n \in 0 .. Len(tokens) :
                InitUnderway(tokens, weights, balances, fee, n)
  BY <1>6, InitEnds DEF Atomic!PoolNext
<1> QED
  BY <1>1, <1>2, <1>3, <1>4, <1>5, <1>6 DEF Underway

\* What is rolled back has not been seen.
LEMMA RollbackHides ==
  ASSUME call # NoCall, Rollback, call' = NoCall
  PROVE  SeenStays
BY DEF Rollback, SeenStays, SeenShares, SeenTotal, SeenController, SeenFee, SeenRecords,
       SeenLedgers, SeenReplayed

LEMMA UnseenIsNoStep ==
  ASSUME SeenStays
  PROVE  UNCHANGED Atomic!vars
BY DEF SeenStays, Atomic!vars, SeenShares, SeenTotal, SeenController, SeenFee, SeenRecords,
       SeenLedgers

\* The holders of shares do at Atomic what they do at the pool.
LEMMA SameHolderSteps ==
  ASSUME call = NoCall, call' = NoCall, HolderNext
  PROVE  Atomic!HolderNext
<1>1. \A v : Atomic!Checked(v) = Checked(v)
  BY SameConstants
<1> USE <1>1 DEF Atomic!HolderNext, Atomic!HolderCall, Atomic!Addresses, Addresses, Atomic!CanSpend, CanSpend,
      Atomic!Spent, Spent, Atomic!CanReceive, CanReceive, Atomic!Received, Received,
      Atomic!Live, Live
<1>2. \A from, to, amount : MoveShares(from, to, amount) => Atomic!MoveShares(from, to, amount)
  BY DEF MoveShares, Atomic!MoveShares
<1>3. \A from, amount : DestroyShares(from, amount) => Atomic!DestroyShares(from, amount)
  BY DEF DestroyShares, Atomic!DestroyShares
<1>4. \A from, spender, amount, until :
        WriteAllowance(from, spender, amount, until)
          => Atomic!WriteAllowance(from, spender, amount, until)
  <2>1. \A entry : Atomic!TempSetLiveUntil(entry) = TempSetLiveUntil(entry)
    BY DEF TempSetLiveUntil, Atomic!TempSetLiveUntil
  <2>2. \A until, n : Atomic!TempExtendTtl(until, n) = TempExtendTtl(until, n)
    BY DEF TempExtendTtl, Atomic!TempExtendTtl
  <2>3. \A n : Atomic!CanLiveFor(n) <=> CanLiveFor(n)
    BY DEF CanLiveFor, Atomic!CanLiveFor
  <2> QED
    BY <2>1, <2>2, <2>3 DEF WriteAllowance, Atomic!WriteAllowance
<1>5. \A from, spender, amount :
        SpendAllowance(from, spender, amount) => Atomic!SpendAllowance(from, spender, amount)
  <2>1. \A from, spender : Atomic!ReadAllowance(from, spender) = ReadAllowance(from, spender)
    BY DEF ReadAllowance, Atomic!ReadAllowance
  <2> QED
    BY <1>4, <2>1 DEF SpendAllowance, Atomic!SpendAllowance
<1>6. CASE \E from \in Users, spender \in Spenders, amount \in Amounts, until \in 0 .. MaxLedger :
             Approve(from, spender, amount, until)
  BY <1>4, <1>6 DEF Approve, Atomic!Approve
<1>7. CASE \E from \in Users, to \in Addresses, amount \in Amounts : Transfer(from, to, amount)
  BY <1>2, <1>7 DEF Transfer, Atomic!Transfer
<1>8. CASE \E spender \in Spenders, from \in Users, to \in Addresses, amount \in Amounts :
             TransferFrom(spender, from, to, amount)
  BY <1>2, <1>5, <1>8, TokenAssumption DEF TransferFrom, Atomic!TransferFrom
<1>9. CASE \E from \in Users, amount \in Amounts : Burn(from, amount)
  BY <1>3, <1>9 DEF Burn, Atomic!Burn
<1>10. CASE \E spender \in Spenders, from \in Users, amount \in Amounts :
              BurnFrom(spender, from, amount)
  BY <1>3, <1>5, <1>10, TokenAssumption DEF BurnFrom, Atomic!BurnFrom
<1>11. CASE AdvanceLedger
  BY <1>11 DEF AdvanceLedger, Atomic!AdvanceLedger
<1> QED
  BY <1>6, <1>7, <1>8, <1>9, <1>10, <1>11, HolderNextCases

LEMMA HoldersKeepTypes ==
  ASSUME lpBalance \in [Addresses -> Int], totalShares \in Int, HolderNext
  PROVE  lpBalance' \in [Addresses -> Int] /\ totalShares' \in Int
<1>1. Amounts \subseteq Int /\ Users \subseteq Addresses
  BY AmountsAreIntegers DEF Addresses
<1>2. \A from, to \in Addresses, amount \in Int :
        MoveShares(from, to, amount) => lpBalance' \in [Addresses -> Int]
  BY DEF MoveShares, Spent, Received
<1>3. \A from \in Addresses, amount \in Int :
        DestroyShares(from, amount) => lpBalance' \in [Addresses -> Int] /\ totalShares' \in Int
  BY DEF DestroyShares, Spent
<1> QED
  BY <1>1, <1>2, <1>3, HolderNextCases
  DEF Approve, Transfer, TransferFrom, Burn, BurnFrom, AdvanceLedger

LEMMA AtOnceIsAtomic ==
  ASSUME AtOnce
  PROVE  Atomic!Next
<1>1. call = NoCall /\ call' = NoCall
  BY DEF AtOnce
<1>2. CASE AdminNext
  <2>1. Atomic!AdminNext
    BY <1>1, <1>2 DEF AdminNext, SetController, SetFreezeStatus, Atomic!AdminNext,
       Atomic!SetController, Atomic!SetFreezeStatus, tokenVars, Atomic!tokenVars
  <2> QED
    BY <2>1 DEF Atomic!Next
<1>3. CASE DonateNext
  <2>1. PICK user \in Users, token \in Tokens, amount \in TokenAmounts : Donate(user, token, amount)
    BY <1>3 DEF DonateNext
  <2>2. Atomic!Donate(user, token, amount)
    BY <1>1, <2>1 DEF Donate, Atomic!Donate, CanPull, Atomic!CanPull, AfterPaying,
       Atomic!AfterPaying, poolVars, Atomic!poolVars, tokenVars, Atomic!tokenVars
  <2> QED
    BY <2>2 DEF Atomic!Next, Atomic!DonateNext
<1>4. CASE HolderStep
  <2>1. Atomic!HolderNext
    BY <1>1, <1>4, SameHolderSteps DEF HolderStep
  <2>2. Atomic!HolderStep
    BY <1>1, <1>4, <2>1 DEF HolderStep, Atomic!HolderStep
  <2> QED
    BY <2>2 DEF Atomic!Next
<1> QED
  BY <1>2, <1>3, <1>4 DEF AtOnce

LEMMA AtOnceKeeps ==
  ASSUME SeenOK, AtOnce
  PROVE  SeenOK' /\ call' = NoCall
<1>1. call = NoCall /\ call' = NoCall /\ replayed' = replayed
  BY DEF AtOnce
<1>2. /\ lpBalance \in [Addresses -> Int] /\ totalShares \in Int
      /\ tokenBalance \in [Tokens -> [Addresses -> Int]]
      /\ IsBook(records) /\ Tell(replayed, records)
      /\ controller = NoController => DOMAIN records = {}
  BY <1>1 DEF SeenOK, SeenShares, SeenTotal, SeenLedgers, SeenRecords, SeenReplayed, SeenController
<1>3. records' = records
  BY DEF AtOnce, AdminNext, SetController, SetFreezeStatus, DonateNext, Donate, poolVars, HolderStep
<1>4. controller' = NoController => DOMAIN records = {}
  <2>1. CASE AdminNext
    BY <1>2, <2>1, PoolAssumption DEF AdminNext, SetController, SetFreezeStatus
  <2>2. CASE DonateNext \/ HolderStep
    BY <1>2, <2>2 DEF DonateNext, Donate, poolVars, HolderStep
  <2> QED
    BY <2>1, <2>2 DEF AtOnce
<1>5. lpBalance' \in [Addresses -> Int] /\ totalShares' \in Int
  <2>1. CASE AdminNext \/ DonateNext
    BY <1>2, <2>1 DEF AdminNext, SetController, SetFreezeStatus, DonateNext, Donate, tokenVars
  <2>2. CASE HolderStep
    BY <1>2, <2>2, HoldersKeepTypes DEF HolderStep
  <2> QED
    BY <2>1, <2>2 DEF AtOnce
<1>6. tokenBalance' \in [Tokens -> [Addresses -> Int]]
  <2>1. CASE AdminNext \/ HolderStep
    BY <1>2, <2>1 DEF AdminNext, SetController, SetFreezeStatus, HolderStep
  <2>2. CASE DonateNext
    <3>1. PICK user \in Users, token \in Tokens, amount \in TokenAmounts :
                 Donate(user, token, amount)
      BY <2>2 DEF DonateNext
    <3>2. amount \in Int /\ user \in Addresses /\ Pool \in Addresses
      BY InputsAreIntegers DEF Addresses
    <3> DEFINE paid == [tokenBalance[token] EXCEPT ![user] = @ - amount, ![Pool] = @ + amount]
    <3>3. paid \in [Addresses -> Int]
      BY <1>2, <3>2
    <3>4. tokenBalance' = [t \in Tokens |-> IF t = token THEN paid ELSE tokenBalance[t]]
      BY <3>1 DEF Donate, AfterPaying
    <3> HIDE DEF paid
    <3> QED
      BY <1>2, <3>3, <3>4
  <2> QED
    BY <2>1, <2>2 DEF AtOnce
<1>7. /\ SeenShares' = lpBalance' /\ SeenTotal' = totalShares' /\ SeenController' = controller'
      /\ SeenRecords' = records /\ SeenLedgers' = tokenBalance' /\ SeenReplayed' = replayed
  BY <1>1, <1>3 DEF SeenShares, SeenTotal, SeenController, SeenRecords, SeenLedgers, SeenReplayed
<1>8. /\ SeenShares' \in [Addresses -> Int] /\ SeenTotal' \in Int
      /\ SeenLedgers' \in [Tokens -> [Addresses -> Int]] /\ IsBook(SeenRecords')
      /\ SeenController' = NoController => DOMAIN SeenRecords' = {}
      /\ Tell(SeenReplayed', SeenRecords')
  BY <1>2, <1>4, <1>5, <1>6, <1>7
<1> QED
  BY <1>1, <1>8 DEF SeenOK, Tell, Recorded

-----------------------------------------------------------------------------
(***************************************************************************)
(* The theorems.                                                           *)
(***************************************************************************)
LEMMA InvocationStarts ==
  ASSUME InvocationInit
  PROVE  InvocationOK /\ Atomic!Init
<1>1. Init /\ call = NoCall /\ replayed = [t \in Tokens |-> 0]
  BY DEF InvocationInit
<1>2. SeenOK
  <2>1. SeenShares \in [Addresses -> Int] /\ SeenTotal \in Int
    BY <1>1 DEF SeenShares, SeenTotal, Init, TokenInit
  <2>2. SeenLedgers \in [Tokens -> [Addresses -> Int]]
    <3>1. ASSUME NEW t \in Tokens, NEW a \in Addresses
          PROVE  (IF a = Pool THEN 0 ELSE Endowment[t][a]) \in Int
      BY PoolAssumption DEF Addresses
    <3> QED
      BY <1>1, <3>1 DEF SeenLedgers, Init
  <2>3. DOMAIN SeenRecords = {} /\ SeenRecords = [t \in {} |-> 0]
    BY <1>1 DEF SeenRecords, Init
  <2>4. IsBook(SeenRecords)
    BY <2>3 DEF IsBook
  <2>5. Tell(SeenReplayed, SeenRecords)
    BY <1>1, <2>3 DEF Tell, SeenReplayed, Recorded
  <2> QED
    BY <2>1, <2>2, <2>3, <2>4, <2>5 DEF SeenOK
<1>3. Atomic!Init
  BY <1>1 DEF Init, Atomic!Init, TokenInit, Atomic!TokenInit, Addresses, Atomic!Addresses,
              NoAllowance, Atomic!NoAllowance
<1> QED
  BY <1>1, <1>2, <1>3 DEF InvocationOK

\* Every step keeps the invariant, and is a step of Atomic or none.
LEMMA InvocationSteps ==
  ASSUME InvocationOK, [InvocationNext]_callVars
  PROVE  InvocationOK' /\ [Atomic!Next]_(Atomic!vars)
<1>1. SeenOK /\ (call # NoCall => CallOK /\ Underway)
  BY DEF InvocationOK
<1>2. CASE Begin
  <2>1. CallOK' /\ SeenStays /\ Underway'
    BY <1>1, <1>2, BeginKeeps
  <2> QED
    BY <1>1, <2>1, SeenOKStays, UnseenIsNoStep DEF InvocationOK
<1>3. CASE Step
  <2>1. call # NoCall
    BY <1>3 DEF Step, JoinToken, ExitToken, InitToken, InitEnd, ApprovePool, Take, TakeDeposit,
                Give, StoreRecords, ChangeShares, Doing
  <2>2. CallOK' /\ SeenStays
    BY <1>1, <1>3, <2>1, StepKeepsCall
  <2>3. Underway'
    BY <1>1, <1>3, <2>1, StepKeeps
  <2> QED
    BY <1>1, <2>2, <2>3, SeenOKStays, UnseenIsNoStep DEF InvocationOK
<1>4. CASE Return
  <2>1. call # NoCall /\ call.todo = <<>>
    BY <1>4 DEF Return
  <2>2. Finished /\ (Shown => Atomic!PoolNext)
    BY <1>1, <2>1, CallEnds
  <2>3. Shown /\ call' = NoCall
    BY <1>4, ReturnShows
  <2>4. SeenOK'
    BY <1>1, <2>1, <2>2, <2>3, FinishedSeen
  <2> QED
    BY <2>2, <2>3, <2>4 DEF InvocationOK, Atomic!Next
<1>5. CASE Trap \/ Refuse
  <2>1. call # NoCall /\ Rollback /\ call' = NoCall
    BY <1>5 DEF Trap, Refuse
  <2>2. SeenStays
    BY <2>1, RollbackHides
  <2> QED
    BY <1>1, <2>1, <2>2, SeenOKStays, UnseenIsNoStep DEF InvocationOK
<1>6. CASE AtOnce
  BY <1>1, <1>6, AtOnceKeeps, AtOnceIsAtomic DEF InvocationOK
<1>7. CASE UNCHANGED callVars
  <2>1. SeenStays
    BY <1>7, NothingHappens
  <2>2. call' = call /\ outcome' = outcome
    BY <1>7 DEF callVars
  <2>3. call # NoCall => CallOK'
    BY <1>1, <2>2 DEF CallOK
  <2>4. call # NoCall => Underway'
    BY <1>1, <1>7, StepKeeps
  <2> QED
    BY <1>1, <2>1, <2>2, <2>3, <2>4, SeenOKStays, UnseenIsNoStep DEF InvocationOK
<1> QED
  BY <1>2, <1>3, <1>4, <1>5, <1>6, <1>7 DEF InvocationNext

LEMMA InvocationSound == InvocationSpec => []InvocationOK
<1>1. InvocationInit => InvocationOK
  BY InvocationStarts
<1>2. InvocationOK /\ [InvocationNext]_callVars => InvocationOK'
  BY InvocationSteps
<1> QED
  BY <1>1, <1>2, PTL DEF InvocationSpec

\* EventsTellTheRecords: an indexer that adds up the events of join, exit,
\* swap, deposit and withdraw knows the balance on record of every token, for
\* any tokens, users and amounts and with a panic after any effect.
THEOREM EventsAreTrue == InvocationSpec => []EventsTellTheRecords
<1>1. InvocationOK => EventsTellTheRecords
  BY DEF InvocationOK, SeenOK, SeenReplayed, SeenRecords, IsBook, Tell, Recorded,
         EventsTellTheRecords, Bound
<1> QED
  BY <1>1, InvocationSound, PTL

\* InvocationsAreAtomic: executed effect by effect, with token calls that may
\* refuse in between and panics that are rolled back, the pool implements the
\* one of CometPool, whose entry points each take one step.
THEOREM InvocationsImplementPool == InvocationSpec => InvocationsAreAtomic
<1>1. InvocationInit => Atomic!Init
  BY InvocationStarts
<1>2. InvocationOK /\ [InvocationNext]_callVars => [Atomic!Next]_(Atomic!vars)
  BY InvocationSteps
<1>3. InvocationSpec => Atomic!Spec
  BY <1>1, <1>2, InvocationSound, PTL DEF InvocationSpec, Atomic!Spec
<1> QED
  BY <1>3 DEF InvocationsAreAtomic

\* LimitsHold: by the end of an invocation its caller has paid at most, and
\* been paid at least, what his arguments say, of every token and of shares.
THEOREM LimitsAreKept == InvocationSpec => LimitsHold
<1> DEFINE Within ==
             LET paid(t) == call.saved.tokenBalance[t][call.user] - tokenBalance[t][call.user]
             IN /\ \A t \in Tokens : paid(t) <= call.most[t]
                /\ lpBalance[call.user] - call.saved.lpBalance[call.user] >= call.shares
<1>1. InvocationOK /\ [InvocationNext]_callVars => [outcome' = "done" /\ call # NoCall => Within]_callVars
  <2> SUFFICES ASSUME InvocationOK, [InvocationNext]_callVars, outcome' = "done", call # NoCall
               PROVE  Within
    OBVIOUS
  <2>1. SeenOK /\ CallOK /\ Underway
    BY DEF InvocationOK
  <2>2. Return
    <3>1. outcome = "none"
      BY <2>1 DEF CallOK
    <3>2. outcome' # outcome
      BY <3>1
    <3>3. ~Step
      BY <3>2 DEF Step, JoinToken, ExitToken, InitToken, InitEnd, ApprovePool, Take,
                  TakeDeposit, Give, StoreRecords, ChangeShares
    <3> QED
      BY <3>2, <3>3 DEF InvocationNext, Begin, Trap, Refuse, AtOnce, callVars
  <2>3. call.todo = <<>>
    BY <2>2 DEF Return
  <2>4. Finished
    BY <2>1, <2>3, CallEnds
  <2> QED
    BY <2>1, <2>4, FinishedWithinLimits
<1>2. InvocationSpec => [][outcome' = "done" /\ call # NoCall => Within]_callVars
  BY <1>1, InvocationSound, PTL DEF InvocationSpec
<1> QED
  BY <1>2 DEF LimitsHold
=============================================================================
