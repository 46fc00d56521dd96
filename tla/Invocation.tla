----------------------------- MODULE Invocation -----------------------------
(***************************************************************************)
(* The invocations of the pool step by step.  CometPool takes an entry     *)
(* point as one step; here the variables of CometPool are what the         *)
(* invocation that is being executed has written so far.  It reads the     *)
(* storage, calls the tokens one by one, each of which may refuse, and     *)
(* writes its results in the order of call_logic/init.rs and pool.rs.  If  *)
(* anything panics the host puts back what was there before.               *)
(*                                                                         *)
(* What a user signs is fixed before the invocation is executed: its       *)
(* arguments, and the approvals it will make at the tokens, among them the *)
(* ledger they expire in.  In between others use the pool.                 *)
(***************************************************************************)
EXTENDS CometPool

CONSTANT ApprovalPeriod   \* the 100000 ledgers of token_utility.rs:16

ASSUME InvocationAssumption == ApprovalPeriod \in Nat \ {0}

VARIABLES
  call,        \* the invocation that is being executed, with what is left to do
  approvals,   \* external: what the pool may still take from users, by token
  replayed,    \* history: the balances that the pool's events add up to
  outcome      \* history: how the last invocation has ended

callVars == <<vars, call, approvals, replayed, outcome>>

\* No invocation is being executed: a record unlike that of any call.
NoCall == [user |-> NoController]

\* What the host puts back if the invocation panics.
State == [lpBalance |-> lpBalance, totalShares |-> totalShares, controller |-> controller,
          swapFee |-> swapFee, records |-> records, tokenBalance |-> tokenBalance,
          approvals |-> approvals, replayed |-> replayed]

\* Mutant of Expiry: it is rounded down.
ExpiryRoundedDown(sequence) == (sequence \div ApprovalPeriod) * ApprovalPeriod

\* The ledger that the approvals of pull_underlying expire in.
Expiry(sequence) == (sequence \div ApprovalPeriod + 1) * ApprovalPeriod
-----------------------------------------------------------------------------
(***************************************************************************)
(* What is left to do of an invocation is a sequence of effects.           *)
(***************************************************************************)
\* Mutant of Pull: what has been approved is moved, and not what is due.
PullTheLimit(token, amount, limit) ==
  <<[do |-> "approve", token |-> token, amount |-> limit],
    [do |-> "take", token |-> token, amount |-> limit]>>

Pull(token, amount, limit) ==
  <<[do |-> "approve", token |-> token, amount |-> limit],
    [do |-> "take", token |-> token, amount |-> amount]>>

Push(token, amount) == <<[do |-> "give", token |-> token, amount |-> amount]>>

Mint(amount)   == <<[do |-> "mint", amount |-> amount]>>
Redeem(amount) == <<[do |-> "redeem", amount |-> amount]>>
StoreAll       == <<[do |-> "store all"]>>
Store(tokens)  == <<[do |-> "store", tokens |-> tokens]>>

JoinLoop(ratio, tokens, limits) ==
  <<[do |-> "join", ratio |-> ratio, tokens |-> tokens, limits |-> limits]>>
ExitLoop(ratio, tokens, limits) ==
  <<[do |-> "exit", ratio |-> ratio, tokens |-> tokens, limits |-> limits]>>
InitLoop(i, tokens, weights, balances, fee) ==
  <<[do |-> "init", i |-> i, tokens |-> tokens, weights |-> weights, balances |-> balances,
     fee |-> fee]>>

Effect == Head(call.todo)

Doing(what) == call # NoCall /\ call.todo # <<>> /\ Effect.do = what

Continue(todo, local) == call' = [call EXCEPT !.todo = todo, !.local = local]

Done == Continue(Tail(call.todo), call.local)

\* The events of the pool, as the changes to the balances that they report.
Publish(changes) ==
  replayed' = [t \in Tokens |-> IF t \in DOMAIN changes THEN replayed[t] + changes[t]
                                                        ELSE replayed[t]]

\* Mutant of SwapEvent: the two amounts are exchanged.
SwapEventExchanged(tokenIn, amountIn, tokenOut, amountOut) ==
  [t \in {tokenIn, tokenOut} |-> IF t = tokenIn THEN amountOut ELSE -amountIn]

SwapEvent(tokenIn, amountIn, tokenOut, amountOut) ==
  [t \in {tokenIn, tokenOut} |-> IF t = tokenIn THEN amountIn ELSE -amountOut]

TokenEvent(token, amount) == [t \in {token} |-> amount]
-----------------------------------------------------------------------------
(***************************************************************************)
(* Up to the first token call or write every entry point only reads: it    *)
(* computes the amounts, which are what the quotes of CometPool say.       *)
(* most[t] is the most of t that the caller has agreed to pay, negative    *)
(* for the least to be paid; shares is the least change to his shares.     *)
(* willBeAccepted is history: whether CometPool would take the same step   *)
(* at once.                                                                *)
(***************************************************************************)
Start(user, most, shares, local, todo, willBeAccepted) ==
  /\ \E signedAt \in 1 .. ledger :
       call' = [user |-> user, signedAt |-> signedAt, most |-> most, shares |-> shares,
                accepted |-> willBeAccepted, saved |-> State, local |-> local, todo |-> todo]
  /\ outcome' = "none"
  /\ UNCHANGED <<vars, approvals>>

\* A change to some of the tokens, of all.
Agreed(changes) == [t \in Tokens |-> IF t \in DOMAIN changes THEN changes[t] ELSE 0]

GivenTo(tokens, amounts) ==
  [t \in {tokens[i] : i \in DOMAIN tokens} |->
     amounts[CHOOSE i \in DOMAIN tokens : tokens[i] = t]]

BeginInit(user, tokens, weights, balances, fee) ==
  /\ ~Initialized
  /\ Len(tokens) \in 2 .. 8
  /\ Len(weights) = Len(tokens) /\ Len(balances) = Len(tokens)
  /\ fee \in MIN_FEE .. MAX_FEE
  /\ Start(user, Agreed(GivenTo(tokens, balances)), INIT_POOL_SUPPLY, <<>>,
           InitLoop(1, tokens, weights, balances, fee),
           ENABLED InitPool(user, tokens, weights, balances, fee))
  /\ UNCHANGED replayed

BeginJoin(user, poolAmountOut, maxAmountsIn) ==
  \E ratio \in JoinRatios(poolAmountOut) :
    /\ Start(user, Agreed(maxAmountsIn), poolAmountOut, records,
             JoinLoop(ratio, Bound, maxAmountsIn) \o StoreAll \o Mint(poolAmountOut),
             ENABLED JoinPool(user, poolAmountOut, maxAmountsIn))
    /\ UNCHANGED replayed

BeginExit(user, poolAmountIn, minAmountsOut) ==
  \E ratio \in ExitRatios(poolAmountIn) :
    /\ Start(user, Agreed([t \in Bound |-> -minAmountsOut[t]]), -poolAmountIn, records,
             Redeem(poolAmountIn) \o ExitLoop(ratio, Bound, minAmountsOut) \o StoreAll,
             ENABLED ExitPool(user, poolAmountIn, minAmountsOut))
    /\ UNCHANGED replayed

BeginSwapIn(user, tokenIn, amountIn, tokenOut, minAmountOut, maxPrice) ==
  \E amountOut \in SwapInQuote(tokenIn, amountIn, tokenOut, minAmountOut, maxPrice) :
    /\ Start(user, Agreed([t \in {tokenIn, tokenOut} |->
                             IF t = tokenIn THEN amountIn ELSE -minAmountOut]),
             0, AfterSwap(tokenIn, amountIn, tokenOut, amountOut),
             Pull(tokenIn, amountIn, amountIn) \o Push(tokenOut, amountOut) \o StoreAll,
             ENABLED SwapExactAmountIn(user, tokenIn, amountIn, tokenOut, minAmountOut, maxPrice))
    /\ Publish(SwapEvent(tokenIn, amountIn, tokenOut, amountOut))

\* It reads the records anew before it stores the two.
BeginSwapOut(user, tokenIn, maxAmountIn, tokenOut, amountOut, maxPrice) ==
  \E amountIn \in SwapOutQuote(tokenIn, maxAmountIn, tokenOut, amountOut, maxPrice) :
    /\ Start(user, Agreed([t \in {tokenIn, tokenOut} |->
                             IF t = tokenIn THEN maxAmountIn ELSE -amountOut]),
             0, AfterSwap(tokenIn, amountIn, tokenOut, amountOut),
             Pull(tokenIn, amountIn, maxAmountIn) \o Push(tokenOut, amountOut)
               \o Store({tokenIn, tokenOut}),
             ENABLED SwapExactAmountOut(user, tokenIn, maxAmountIn, tokenOut, amountOut, maxPrice))
    /\ Publish(SwapEvent(tokenIn, amountIn, tokenOut, amountOut))

BeginDepositIn(user, token, amountIn, minPoolAmountOut) ==
  \E poolAmountOut \in DepInQuote(token, amountIn, minPoolAmountOut) :
    /\ Start(user, Agreed([t \in {token} |-> amountIn]), minPoolAmountOut,
             Changed(records, token, amountIn),
             StoreAll \o Pull(token, amountIn, amountIn) \o Mint(poolAmountOut),
             ENABLED DepToknAmtInGetLpToknsOut(user, token, amountIn, minPoolAmountOut))
    /\ Publish(TokenEvent(token, amountIn))

BeginDepositOut(user, token, poolAmountOut, maxAmountIn) ==
  \E amountIn \in DepOutQuote(token, poolAmountOut, maxAmountIn) :
    /\ Start(user, Agreed([t \in {token} |-> maxAmountIn]), poolAmountOut,
             Changed(records, token, amountIn),
             StoreAll \o Pull(token, amountIn, maxAmountIn) \o Mint(poolAmountOut),
             ENABLED DepLpToknAmtOutGetToknIn(user, token, poolAmountOut, maxAmountIn))
    /\ Publish(TokenEvent(token, amountIn))

BeginWithdrawIn(user, token, poolAmountIn, minAmountOut) ==
  \E amountOut \in WdrInQuote(token, poolAmountIn, minAmountOut) :
    /\ Start(user, Agreed([t \in {token} |-> -minAmountOut]), -poolAmountIn,
             Changed(records, token, -amountOut),
             Redeem(poolAmountIn) \o Push(token, amountOut) \o StoreAll,
             ENABLED WdrToknAmtInGetLpToknsOut(user, token, poolAmountIn, minAmountOut))
    /\ Publish(TokenEvent(token, -amountOut))

BeginWithdrawOut(user, token, amountOut, maxPoolAmountIn) ==
  \E poolAmountIn \in WdrOutQuote(token, amountOut, maxPoolAmountIn) :
    /\ Start(user, Agreed([t \in {token} |-> -amountOut]), -maxPoolAmountIn,
             Changed(records, token, -amountOut),
             Redeem(poolAmountIn) \o Push(token, amountOut) \o StoreAll,
             ENABLED WdrToknAmtOutGetLpToknsIn(user, token, amountOut, maxPoolAmountIn))
    /\ Publish(TokenEvent(token, -amountOut))
-----------------------------------------------------------------------------
(***************************************************************************)
(* The loops.  The tokens come in the order of the vector that init has    *)
(* stored: some order.                                                     *)
(***************************************************************************)
JoinToken ==
  /\ Doing("join")
  /\ \E token \in Effect.tokens :
     \E deposit \in JoinDue(call.local[token], Effect.ratio, Effect.limits[token]) :
       LET left == Effect.tokens \ {token}
       IN /\ Continue(Pull(token, deposit, Effect.limits[token])
                        \o (IF left = {} THEN <<>> ELSE JoinLoop(Effect.ratio, left, Effect.limits))
                        \o Tail(call.todo),
                      Changed(call.local, token, deposit))
          /\ Publish(TokenEvent(token, deposit))
  /\ UNCHANGED <<vars, approvals, outcome>>

ExitToken ==
  /\ Doing("exit")
  /\ \E token \in Effect.tokens :
     \E payout \in ExitDue(call.local[token], Effect.ratio, Effect.limits[token]) :
       LET left == Effect.tokens \ {token}
       IN /\ Continue(Push(token, payout)
                        \o (IF left = {} THEN <<>> ELSE ExitLoop(Effect.ratio, left, Effect.limits))
                        \o Tail(call.todo),
                      Changed(call.local, token, -payout))
          /\ Publish(TokenEvent(token, -payout))
  /\ UNCHANGED <<vars, approvals, outcome>>

InitToken ==
  /\ Doing("init")
  /\ Effect.i <= Len(Effect.tokens)
  /\ LET token   == Effect.tokens[Effect.i]
         weight  == Effect.weights[Effect.i]
         balance == Effect.balances[Effect.i]
     IN /\ token \notin DOMAIN call.local
        /\ weight \in MIN_WEIGHT .. MAX_WEIGHT
        /\ balance >= MIN_BALANCE
        /\ Scalar[token] > 0
        /\ Continue(<<[do |-> "deposit", token |-> token, amount |-> balance],
                      [Effect EXCEPT !.i = @ + 1]>>,
                    [t \in DOMAIN call.local \cup {token} |->
                       IF t = token
                         THEN [balance |-> balance, weight |-> weight, scalar |-> Scalar[token]]
                         ELSE call.local[t]])
  /\ UNCHANGED <<vars, approvals, replayed, outcome>>

\* After the loop.  Indexers learn the first balances from the arguments.
InitEnd ==
  /\ Doing("init")
  /\ Effect.i > Len(Effect.tokens)
  /\ FoldFunction(+, 0, Effect.weights) = STROOP
  /\ MintShares(call.user, INIT_POOL_SUPPLY)
  /\ swapFee' = Effect.fee
  /\ records' = call.local
  /\ controller' = call.user
  /\ Publish(GivenTo(Effect.tokens, Effect.balances))
  /\ Done
  /\ UNCHANGED <<freeze, tokenBalance, approvals, outcome>>
-----------------------------------------------------------------------------
(***************************************************************************)
(* Calls of the bound tokens (external, SEP-41).  A token accepts an       *)
(* approval if the user has signed exactly it.                             *)
(***************************************************************************)
Signed(expiry) == Expiry(call.signedAt) = expiry

ApprovePool ==
  /\ Doing("approve")
  /\ Effect.amount >= 0 /\ Expiry(ledger) >= ledger
  /\ Signed(Expiry(ledger))
  /\ approvals' = [approvals EXCEPT ![Effect.token][call.user] =
                     [amount |-> Effect.amount, until |-> Expiry(ledger)]]
  /\ Done
  /\ UNCHANGED <<vars, replayed, outcome>>

Take ==
  /\ Doing("take")
  /\ approvals[Effect.token][call.user].until >= ledger
  /\ approvals[Effect.token][call.user].amount >= Effect.amount
  /\ CanPull(Effect.token, call.user, Effect.amount)
  /\ approvals' = [approvals EXCEPT ![Effect.token][call.user].amount = @ - Effect.amount]
  /\ tokenBalance' = AfterPaying(call.user, TokenEvent(Effect.token, Effect.amount))
  /\ Done
  /\ UNCHANGED <<tokenVars, poolVars, replayed, outcome>>

\* init has the token move the deposit itself, without an approval.
TakeDeposit ==
  /\ Doing("deposit")
  /\ CanPull(Effect.token, call.user, Effect.amount)
  /\ tokenBalance' = AfterPaying(call.user, TokenEvent(Effect.token, Effect.amount))
  /\ Done
  /\ UNCHANGED <<tokenVars, poolVars, approvals, replayed, outcome>>

Give ==
  /\ Doing("give")
  /\ CanPush(Effect.token, Effect.amount)
  /\ tokenBalance' = AfterPaying(call.user, TokenEvent(Effect.token, -Effect.amount))
  /\ Done
  /\ UNCHANGED <<tokenVars, poolVars, approvals, replayed, outcome>>
-----------------------------------------------------------------------------
(***************************************************************************)
(* The pool's own storage                                                  *)
(***************************************************************************)
StoreRecords ==
  /\ \/ Doing("store all") /\ records' = call.local
     \/ /\ Doing("store")
        /\ records' = [t \in Bound |-> IF t \in Effect.tokens THEN call.local[t] ELSE records[t]]
  /\ Done
  /\ UNCHANGED <<tokenVars, controller, swapFee, freeze, tokenBalance>>
  /\ UNCHANGED <<approvals, replayed, outcome>>

ChangeShares ==
  /\ \/ Doing("mint") /\ MintShares(call.user, Effect.amount)
     \/ Doing("redeem") /\ RedeemShares(call.user, Effect.amount)
  /\ Done
  /\ UNCHANGED <<poolVars, tokenBalance, approvals, replayed, outcome>>

Step == \/ JoinToken \/ ExitToken \/ InitToken \/ InitEnd
        \/ ApprovePool \/ Take \/ TakeDeposit \/ Give
        \/ StoreRecords \/ ChangeShares
-----------------------------------------------------------------------------
(***************************************************************************)
(* The ends of an invocation                                               *)
(***************************************************************************)
Return ==
  /\ call # NoCall /\ call.todo = <<>>
  /\ call' = NoCall
  /\ outcome' = "done"
  /\ UNCHANGED <<vars, approvals, replayed>>

Rollback ==
  /\ lpBalance' = call.saved.lpBalance /\ totalShares' = call.saved.totalShares
  /\ controller' = call.saved.controller /\ swapFee' = call.saved.swapFee
  /\ records' = call.saved.records
  /\ tokenBalance' = call.saved.tokenBalance /\ approvals' = call.saved.approvals
  /\ replayed' = call.saved.replayed
  /\ UNCHANGED <<freeze, allowances, ledger>>

\* A check fails: of the pool, of a token, or of what the user has signed.
Trap ==
  /\ call # NoCall /\ call.todo # <<>> /\ ~ENABLED Step
  /\ Rollback
  /\ call' = NoCall
  /\ outcome' = "trapped"

\* A token refuses for a reason of its own, or the budget is used up.
Refuse ==
  /\ call # NoCall
  /\ Rollback
  /\ call' = NoCall
  /\ outcome' = "refused"
-----------------------------------------------------------------------------
InvocationInit ==
  /\ Init
  /\ call = NoCall
  /\ approvals = [t \in Tokens |-> [u \in Users |-> [amount |-> 0, until |-> 0]]]
  /\ replayed = [t \in Tokens |-> 0]
  /\ outcome = "none"

Begin ==
  /\ call = NoCall
  /\ \/ \E user \in Users, tokens \in InitTokens, weights \in InitWeights,
           balances \in InitBalances, fee \in SwapFees :
          BeginInit(user, tokens, weights, balances, fee)
     \/ \E user \in Users, shares \in Amounts, limits \in [Bound -> MaxLimits] :
          BeginJoin(user, shares, limits)
     \/ \E user \in Users, shares \in Amounts, limits \in [Bound -> MinLimits] :
          BeginExit(user, shares, limits)
     \/ \E user \in Users, in, out \in Tokens, amount \in TokenAmounts, price \in MaxLimits :
          \/ \E limit \in MinLimits : BeginSwapIn(user, in, amount, out, limit, price)
          \/ \E limit \in MaxLimits : BeginSwapOut(user, in, limit, out, amount, price)
     \/ \E user \in Users, token \in Tokens, amount \in TokenAmounts :
          \/ \E limit \in MinLimits : BeginDepositIn(user, token, amount, limit)
          \/ \E limit \in MaxLimits : BeginWithdrawOut(user, token, amount, limit)
     \/ \E user \in Users, token \in Tokens, shares \in Amounts :
          \/ \E limit \in MaxLimits : BeginDepositOut(user, token, shares, limit)
          \/ \E limit \in MinLimits : BeginWithdrawIn(user, token, shares, limit)

\* Invocations that call no token, and what happens past the pool.
AtOnce ==
  /\ call = NoCall
  /\ AdminNext \/ DonateNext \/ HolderStep
  /\ UNCHANGED <<call, approvals, replayed, outcome>>

InvocationNext == Begin \/ Step \/ Return \/ Trap \/ Refuse \/ AtOnce

\* The host executes a transaction to its end within the ledger it is in.
HostFairness == WF_callVars(Step \/ Return \/ Trap)

InvocationSpec == InvocationInit /\ [][InvocationNext]_callVars /\ HostFairness
-----------------------------------------------------------------------------
(***************************************************************************)
(* Properties                                                              *)
(***************************************************************************)

\* The pool of CometPool, of which an invocation that is being executed has
\* not happened and one that panics never happens.
Atomic == INSTANCE CometPool WITH
  lpBalance    <- IF call = NoCall THEN lpBalance ELSE call.saved.lpBalance,
  totalShares  <- IF call = NoCall THEN totalShares ELSE call.saved.totalShares,
  controller   <- IF call = NoCall THEN controller ELSE call.saved.controller,
  swapFee      <- IF call = NoCall THEN swapFee ELSE call.saved.swapFee,
  records      <- IF call = NoCall THEN records ELSE call.saved.records,
  tokenBalance <- IF call = NoCall THEN tokenBalance ELSE call.saved.tokenBalance

\* Executed effect by effect, with panics after any of them, the pool behaves
\* like one whose invocations happen at once: the order in which the handlers
\* write records, call tokens and mint or burn cannot be observed, and the
\* records read a second time by swap_exact_amount_out are the same.
InvocationsAreAtomic == Atomic!Spec

\* Whatever others do between signing and execution, whoever is charged pays
\* no more, and is paid no less, than his arguments say, of every token and
\* of shares, with what earlier calls have left approved (token_utility.rs:17).
LimitsHold ==
  [][outcome' = "done" /\ call # NoCall =>
       LET paid(t) == call.saved.tokenBalance[t][call.user] - tokenBalance[t][call.user]
       IN /\ \A t \in Tokens : paid(t) <= call.most[t]
          /\ lpBalance[call.user] - call.saved.lpBalance[call.user] >= call.shares]_callVars

AcceptedAsSigned ==
  IF call = NoCall THEN FALSE ELSE call.accepted /\ Signed(Expiry(ledger))

\* An invocation that the pool accepts when its arguments are checked takes
\* effect unless a token refuses: what it approves covers what it then takes,
\* and it never fails half way, if the approvals are the ones signed.
AcceptedCallsTakeEffect == AcceptedAsSigned ~> (outcome \in {"done", "refused"})

\* The events tell the truth: whoever adds them up knows every balance on
\* record, with no event of an invocation that has failed among them.
EventsTellTheRecords == call = NoCall => \A t \in Bound : replayed[t] = records[t].balance

\* What the comment at token_utility.rs:15 says the rounding is for: that a
\* call is executed in a later ledger than it was signed for is no reason for
\* it to fail.
SequenceMismatchIsAvoided ==
  [][call # NoCall /\ outcome' = "trapped" => ~call.accepted]_callVars
=============================================================================
