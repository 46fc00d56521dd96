-------------------------- MODULE CometPoolProofs --------------------------
(***************************************************************************)
(* The pool, for every finite set of users, every set of tokens, every     *)
(* endowment, every argument and every scale of the numbers: its types and *)
(* solvency, that a frozen pool only pays out, that the total of shares is *)
(* their sum, that joins and exits dilute nobody, that no token is ever    *)
(* drained, that the pool implements the vault, that whoever holds every   *)
(* share may withdraw everything, and that an operation priced by a whole  *)
(* power or by a single term of the series costs the others nothing.       *)
(***************************************************************************)
EXTENDS CometPool, LPTokenProofs, CometMathProofs

(***************************************************************************)
(* Payments                                                                *)
(***************************************************************************)
LEMMA AfterPayingEffect ==
  ASSUME tokenBalance \in [Tokens -> [Addresses -> Nat]],
         NEW user \in Users, NEW S \in SUBSET Tokens, NEW amounts \in [S -> Int],
         \A t \in S : /\ amounts[t] <= tokenBalance[t][user]
                      /\ -amounts[t] <= tokenBalance[t][Pool]
  PROVE  /\ AfterPaying(user, amounts) \in [Tokens -> [Addresses -> Nat]]
         /\ \A t \in S : AfterPaying(user, amounts)[t][Pool]
                           = tokenBalance[t][Pool] + amounts[t]
         /\ \A t \in Tokens \ S : AfterPaying(user, amounts)[t] = tokenBalance[t]
<1> DEFINE paid(t) == [tokenBalance[t] EXCEPT ![user] = @ - amounts[t],
                                              ![Pool] = @ + amounts[t]]
           table == AfterPaying(user, amounts)
<1>1. user \in Addresses /\ Pool \in Addresses /\ user # Pool
  BY PoolIsNoUser DEF Addresses
<1>2. ASSUME NEW t \in S
      PROVE  paid(t) \in [Addresses -> Nat]
             /\ paid(t)[Pool] = tokenBalance[t][Pool] + amounts[t]
  <2>1. tokenBalance[t] \in [Addresses -> Nat] /\ amounts[t] \in Int
    OBVIOUS
  <2>2. tokenBalance[t][user] - amounts[t] \in Nat
        /\ tokenBalance[t][Pool] + amounts[t] \in Nat
    BY <1>1, <2>1
  <2> QED
    BY <1>1, <2>1, <2>2
<1>3. \A t \in S : table[t] = paid(t)
  BY DEF AfterPaying
<1>4. \A t \in Tokens \ S : table[t] = tokenBalance[t]
  BY DEF AfterPaying
<1>5. table \in [Tokens -> [Addresses -> Nat]]
  <2>1. table = [t \in Tokens |-> table[t]]
    BY DEF AfterPaying
  <2>2. \A t \in Tokens : table[t] \in [Addresses -> Nat]
    <3> SUFFICES ASSUME NEW t \in Tokens PROVE table[t] \in [Addresses -> Nat]
      OBVIOUS
    <3>1. CASE t \in S
      BY <3>1, <1>2, <1>3, Zenon
    <3>2. CASE t \notin S
      BY <3>2, <1>4
    <3> QED
      BY <3>1, <3>2
  <2> HIDE DEF table
  <2> QED
    BY <2>1, <2>2
<1>6. \A t \in S : table[t][Pool] = tokenBalance[t][Pool] + amounts[t]
  BY <1>2, <1>3, Zenon
<1> QED
  BY <1>4, <1>5, <1>6

-----------------------------------------------------------------------------
(***************************************************************************)
(* A handler that moves tokens keeps both invariants when it changes the   *)
(* record of every token it moves by the amount it moves, takes no more    *)
(* from its caller than the caller has, and pays no more than is on record.*)
(***************************************************************************)
LEMMA Settlement ==
  ASSUME TypeOK, Solvent,
         NEW user \in Users, NEW S \in SUBSET Bound, NEW amounts \in [S -> Int],
         \A t \in S : /\ amounts[t] <= tokenBalance[t][user]
                      /\ -amounts[t] <= records[t].balance,
         NEW R, records' \in [Bound -> R],
         \A t \in S : records'[t] = [records[t] EXCEPT !.balance = @ + amounts[t]],
         \A t \in Bound \ S : records'[t] = records[t],
         tokenBalance' = AfterPaying(user, amounts),
         UNCHANGED <<controller, swapFee, freeze>>,
         TokenTypeOK'
  PROVE  TypeOK' /\ Solvent'
<1>1. /\ Bound \subseteq Tokens
      /\ \A t \in Bound : /\ records[t] \in Record
                          /\ tokenBalance[t][Pool] \in Nat
                          /\ records[t].balance \in Nat
                          /\ records[t].balance <= tokenBalance[t][Pool]
  BY DEF TypeOK, Solvent, Record, Addresses
<1>2. \A t \in S : -amounts[t] <= tokenBalance[t][Pool]
  BY <1>1
<1>3. /\ AfterPaying(user, amounts) \in [Tokens -> [Addresses -> Nat]]
      /\ \A t \in S : AfterPaying(user, amounts)[t][Pool] = tokenBalance[t][Pool] + amounts[t]
      /\ \A t \in Tokens \ S : AfterPaying(user, amounts)[t] = tokenBalance[t]
  <2>1. tokenBalance \in [Tokens -> [Addresses -> Nat]] /\ S \in SUBSET Tokens
    BY <1>1 DEF TypeOK
  <2> QED
    BY <1>2, <2>1, AfterPayingEffect
<1>4. \A t \in S : /\ records'[t] \in Record
                   /\ records'[t].balance = records[t].balance + amounts[t]
  <2> SUFFICES ASSUME NEW t \in S
               PROVE  /\ records'[t] \in Record
                      /\ records'[t].balance = records[t].balance + amounts[t]
    OBVIOUS
  <2>1. records[t] \in Record /\ amounts[t] \in Int /\ records[t].balance + amounts[t] \in Nat
    BY <1>1
  <2>2. records'[t] = [records[t] EXCEPT !.balance = records[t].balance + amounts[t]]
    OBVIOUS
  <2> QED
    BY <2>1, <2>2 DEF Record
<1>5. Bound' = Bound /\ records' \in [Bound -> Record]
  BY <1>1, <1>4 DEF Bound
<1>6. ASSUME NEW t \in Bound
      PROVE  records'[t].balance <= AfterPaying(user, amounts)[t][Pool]
  <2>1. /\ records[t].balance \in Nat /\ tokenBalance[t][Pool] \in Nat
        /\ records[t].balance <= tokenBalance[t][Pool]
    BY <1>1
  <2>2. CASE t \in S
    <3>1. /\ records'[t].balance = records[t].balance + amounts[t] /\ amounts[t] \in Int
          /\ AfterPaying(user, amounts)[t][Pool] = tokenBalance[t][Pool] + amounts[t]
      BY <1>3, <1>4, <2>2
    <3> QED
      BY <2>1, <3>1
  <2>3. CASE t \notin S
    <3>1. records'[t] = records[t] /\ AfterPaying(user, amounts)[t] = tokenBalance[t]
      BY <1>1, <1>3, <2>3
    <3> QED
      BY <2>1, <3>1
  <2> QED
    BY <2>2, <2>3
<1>7. TypeOK'
  BY <1>1, <1>3, <1>5 DEF TypeOK
<1> QED
  BY <1>5, <1>6, <1>7 DEF Solvent

\* The same for the common case of one token.
LEMMA SettlementOfOne ==
  ASSUME TypeOK, Solvent,
         NEW user \in Users, NEW token \in Bound, NEW amount \in Int,
         amount <= tokenBalance[token][user],
         -amount <= records[token].balance,
         records' = Changed(records, token, amount),
         tokenBalance' = AfterPaying(user, [t \in {token} |-> amount]),
         UNCHANGED <<controller, swapFee, freeze>>,
         TokenTypeOK'
  PROVE  TypeOK' /\ Solvent'
<1> DEFINE S       == {token}
           amounts == [t \in S |-> amount]
<1>1. S \in SUBSET Bound /\ amounts \in [S -> Int]
  OBVIOUS
<1>2. records = [t \in Bound |-> records[t]]
  BY DEF TypeOK, Bound
<1> DEFINE R == {records'[t] : t \in Bound}
<1>3. records' \in [Bound -> R]
  BY <1>2 DEF Changed
<1>4. \A t \in S : records'[t] = [records[t] EXCEPT !.balance = @ + amounts[t]]
  BY <1>2 DEF Changed
<1>5. \A t \in Bound \ S : records'[t] = records[t]
  BY <1>2 DEF Changed
<1>6. \A t \in S : amounts[t] <= tokenBalance[t][user] /\ -amounts[t] <= records[t].balance
  OBVIOUS
<1>7. tokenBalance' = AfterPaying(user, amounts)
  OBVIOUS
<1> HIDE DEF amounts, S, R
<1> QED
  BY <1>1, <1>3, <1>4, <1>5, <1>6, <1>7, Settlement

-----------------------------------------------------------------------------
(***************************************************************************)
(* One lemma for each handler.                                             *)
(***************************************************************************)
LEMMA TheIsOne == \A result : result # {} => The(result) \in result
BY DEF The

LEMMA RecordFacts ==
  ASSUME TypeOK, NEW t \in Bound
  PROVE  /\ t \in Tokens
         /\ records[t] \in Record
         /\ records[t].balance \in Nat
         /\ tokenBalance[t] \in [Addresses -> Nat]
BY DEF TypeOK, Record

LEMMA PoolTokenType ==
  ASSUME TypeOK, UNCHANGED tokenVars
  PROVE  TokenTypeOK'
BY DEF TypeOK, TokenTypeOK, tokenVars

\* What is due to and from the pool in the loops of join_pool and exit_pool.
LEMMA DueFacts ==
  \A record, ratio, limit :
    /\ \A deposit \in JoinDue(record, ratio, limit) : deposit \in Int /\ deposit > 0
    /\ \A payout \in ExitDue(record, ratio, limit) :
         payout \in Int /\ payout > 0 /\ payout <= record.balance
BY CalcJoinDepositFits, CalcExitWithdrawalFits DEF JoinDue, ExitDue

LEMMA JoinPoolSafe ==
  ASSUME TypeOK, Solvent, NEW user \in Users, NEW shares \in Amounts, NEW limits,
         JoinPool(user, shares, limits)
  PROVE  TypeOK' /\ Solvent'
<1>1. PICK ratio \in JoinRatios(shares) :
        LET due      == [t \in Bound |-> JoinDue(records[t], ratio, limits[t])]
            deposits == [t \in Bound |-> The(due[t])]
        IN /\ \A t \in Bound : due[t] # {} /\ CanPull(t, user, deposits[t])
           /\ records' = [t \in Bound |-> [records[t] EXCEPT !.balance = @ + deposits[t]]]
           /\ tokenBalance' = AfterPaying(user, deposits)
  BY DEF JoinPool
<1> DEFINE deposits == [t \in Bound |-> The(JoinDue(records[t], ratio, limits[t]))]
           R        == {records'[t] : t \in Bound}
<1>2. TokenTypeOK'
  BY AmountsAreIntegers, PoolIsNoUser, MintSharesType DEF JoinPool, TypeOK
<1>3. /\ \A t \in Bound : /\ JoinDue(records[t], ratio, limits[t]) # {}
                          /\ CanPull(t, user, deposits[t])
      /\ records' = [t \in Bound |-> [records[t] EXCEPT !.balance = @ + deposits[t]]]
      /\ tokenBalance' = AfterPaying(user, deposits)
  BY <1>1
<1>4. deposits \in [Bound -> Int]
  BY <1>3, TheIsOne, DueFacts
<1>5. UNCHANGED <<controller, swapFee, freeze>>
  BY DEF JoinPool
<1> HIDE DEF deposits
<1>6. \A t \in Bound : /\ deposits[t] <= tokenBalance[t][user]
                       /\ -deposits[t] <= records[t].balance
  BY <1>3, <1>4, RecordFacts, PoolIsNoUser DEF CanPull
<1>7. records' \in [Bound -> R]
  BY <1>3
<1>8. \A t \in Bound : records'[t] = [records[t] EXCEPT !.balance = @ + deposits[t]]
  BY <1>3
<1> HIDE DEF R
<1> QED
  BY <1>2, <1>3, <1>4, <1>5, <1>6, <1>7, <1>8, Settlement

LEMMA ExitPoolSafe ==
  ASSUME TypeOK, Solvent, NEW user \in Users, NEW shares \in Amounts, NEW limits,
         ExitPool(user, shares, limits)
  PROVE  TypeOK' /\ Solvent'
<1>1. PICK ratio \in ExitRatios(shares) :
        LET due     == [t \in Bound |-> ExitDue(records[t], ratio, limits[t])]
            payouts == [t \in Bound |-> The(due[t])]
        IN /\ \A t \in Bound : due[t] # {}
           /\ records' = [t \in Bound |-> [records[t] EXCEPT !.balance = @ - payouts[t]]]
           /\ tokenBalance' = AfterPaying(user, [t \in Bound |-> -payouts[t]])
  BY DEF ExitPool
<1> DEFINE payouts == [t \in Bound |-> The(ExitDue(records[t], ratio, limits[t]))]
           amounts == [t \in Bound |-> -payouts[t]]
           R       == {records'[t] : t \in Bound}
<1>2. TokenTypeOK'
  BY AmountsAreIntegers, PoolIsNoUser, RedeemSharesType DEF ExitPool, TypeOK
<1>3. /\ \A t \in Bound : ExitDue(records[t], ratio, limits[t]) # {}
      /\ records' = [t \in Bound |-> [records[t] EXCEPT !.balance = @ - payouts[t]]]
      /\ tokenBalance' = AfterPaying(user, amounts)
  BY <1>1
<1>4. /\ payouts \in [Bound -> Int]
      /\ \A t \in Bound : payouts[t] > 0 /\ payouts[t] <= records[t].balance
  BY <1>3, TheIsOne, DueFacts
<1>5. UNCHANGED <<controller, swapFee, freeze>>
  BY DEF ExitPool
<1> HIDE DEF payouts
<1>6. amounts \in [Bound -> Int]
  BY <1>4
<1>7. \A t \in Bound : /\ amounts[t] <= tokenBalance[t][user]
                       /\ -amounts[t] <= records[t].balance
  BY <1>3, <1>4, RecordFacts, PoolIsNoUser
<1>8. records' \in [Bound -> R]
  BY <1>3
<1>9. ASSUME NEW t \in Bound
      PROVE  records'[t] = [records[t] EXCEPT !.balance = @ + amounts[t]]
  <2>1. records[t].balance - payouts[t] = records[t].balance + amounts[t]
    BY <1>4, RecordFacts
  <2> QED
    BY <1>3, <2>1
<1> HIDE DEF amounts, R
<1> QED
  BY <1>2, <1>3, <1>5, <1>6, <1>7, <1>8, <1>9, Settlement

LEMMA DepositSafe ==
  ASSUME TypeOK, Solvent, NEW user \in Users, NEW token \in Bound,
         NEW amount \in Int, NEW shares \in Int, Deposit(user, token, amount, shares)
  PROVE  TypeOK' /\ Solvent'
<1>1. TokenTypeOK'
  BY PoolIsNoUser, MintSharesType DEF Deposit, TypeOK
<1>2. /\ records' = Changed(records, token, amount)
      /\ tokenBalance' = AfterPaying(user, [t \in {token} |-> amount])
      /\ UNCHANGED <<controller, swapFee, freeze>>
  BY DEF Deposit
<1>3. amount <= tokenBalance[token][user] /\ -amount <= records[token].balance
  BY RecordFacts, PoolIsNoUser DEF Deposit, CanPull
<1> QED
  BY <1>1, <1>2, <1>3, SettlementOfOne

LEMMA WithdrawSafe ==
  ASSUME TypeOK, Solvent, NEW user \in Users, NEW token \in Bound,
         NEW amount \in Int, NEW shares \in Int,
         amount <= records[token].balance, Withdraw(user, token, amount, shares)
  PROVE  TypeOK' /\ Solvent'
<1> DEFINE paid == -amount
<1>1. TokenTypeOK'
  BY PoolIsNoUser, RedeemSharesType DEF Withdraw, TypeOK
<1>2. /\ records' = Changed(records, token, paid)
      /\ tokenBalance' = AfterPaying(user, [t \in {token} |-> paid])
      /\ UNCHANGED <<controller, swapFee, freeze>>
  BY DEF Withdraw
<1>3. paid \in Int /\ paid <= tokenBalance[token][user] /\ -paid <= records[token].balance
  BY RecordFacts, PoolIsNoUser DEF Withdraw, CanPush
<1> HIDE DEF paid
<1> QED
  BY <1>1, <1>2, <1>3, SettlementOfOne

\* What a quote promises: integers, of tokens that are bound, and no payout
\* that exceeds what is on record.
LEMMA SwapQuoteFacts ==
  \A in, amount, out, limit, price :
    /\ \A amountOut \in SwapInQuote(in, amount, out, limit, price) :
         /\ in \in Bound /\ out \in Bound /\ in # out /\ ~freeze
         /\ amountOut \in Int /\ amountOut <= records[out].balance
    /\ \A amountIn \in SwapOutQuote(in, limit, out, amount, price) :
         /\ in \in Bound /\ out \in Bound /\ in # out /\ ~freeze
         /\ amountIn \in Int /\ amount <= records[out].balance
<1> TAKE in, amount, out, limit, price
<1>1. \A amountIn, amountOut :
        FairSwap(in, amountIn, out, amountOut, price) => records[out].balance >= amountOut
  BY DEF FairSwap
<1>2. ASSUME NEW amountOut \in SwapInQuote(in, amount, out, limit, price)
      PROVE  /\ in \in Bound /\ out \in Bound /\ in # out /\ ~freeze
             /\ amountOut \in CalcTokenOutGivenTokenIn(records[in], records[out], amount, swapFee)
             /\ FairSwap(in, amount, out, amountOut, price)
  BY Zenon DEF SwapInQuote
<1>3. ASSUME NEW amountIn \in SwapOutQuote(in, limit, out, amount, price)
      PROVE  /\ in \in Bound /\ out \in Bound /\ in # out /\ ~freeze
             /\ amountIn \in CalcTokenInGivenTokenOut(records[in], records[out], amount, swapFee)
             /\ FairSwap(in, amountIn, out, amount, price)
  BY Zenon DEF SwapOutQuote
<1>4. \A x, y : x >= y <=> y <= x
  OBVIOUS
<1> QED
  BY <1>1, <1>2, <1>3, <1>4, CalcTokenOutFits, CalcTokenInFits

LEMMA OneTokenQuoteFacts ==
  \A token, given, limit :
    /\ \A shares \in DepInQuote(token, given, limit) :
         token \in Bound /\ shares \in Int /\ ~freeze
    /\ \A amount \in DepOutQuote(token, given, limit) :
         token \in Bound /\ amount \in Int /\ ~freeze
    /\ \A amount \in WdrInQuote(token, given, limit) :
         token \in Bound /\ amount \in Int /\ amount <= records[token].balance
    /\ \A shares \in WdrOutQuote(token, given, limit) :
         token \in Bound /\ shares \in Int /\ given <= records[token].balance
<1> TAKE token, given, limit
<1>1. ASSUME NEW shares \in DepInQuote(token, given, limit)
      PROVE  token \in Bound /\ shares \in Int /\ ~freeze
  BY CalcLpOutFits DEF DepInQuote
<1>2. ASSUME NEW amount \in DepOutQuote(token, given, limit)
      PROVE  token \in Bound /\ amount \in Int /\ ~freeze
  BY CalcDepositFits DEF DepOutQuote
<1>3. ASSUME NEW amount \in WdrInQuote(token, given, limit)
      PROVE  token \in Bound /\ amount \in Int /\ amount <= records[token].balance
  BY CalcWithdrawalFits DEF WdrInQuote
<1>4. ASSUME NEW shares \in WdrOutQuote(token, given, limit)
      PROVE  token \in Bound /\ shares \in Int /\ given <= records[token].balance
  BY CalcLpInFits DEF WdrOutQuote
<1> QED
  BY <1>1, <1>2, <1>3, <1>4

LEMMA SwapSafe ==
  ASSUME TypeOK, Solvent, NEW user \in Users, NEW in \in Bound, NEW out \in Bound,
         in # out, NEW amountIn \in Int, NEW amountOut \in Int,
         amountOut <= records[out].balance, Swap(user, in, amountIn, out, amountOut)
  PROVE  TypeOK' /\ Solvent'
<1> DEFINE S       == {in, out}
           amounts == [t \in S |-> IF t = in THEN amountIn ELSE -amountOut]
           R       == {records'[t] : t \in Bound}
<1>1. /\ records' = Changed(Changed(records, in, amountIn), out, -amountOut)
      /\ tokenBalance' = AfterPaying(user, amounts)
      /\ UNCHANGED <<controller, swapFee, freeze>>
      /\ UNCHANGED tokenVars
      /\ CanPull(in, user, amountIn) /\ CanPush(out, amountOut)
  BY DEF Swap, AfterSwap
<1>2. TokenTypeOK'
  BY <1>1, PoolTokenType
<1>3. S \in SUBSET Bound /\ amounts \in [S -> Int]
  OBVIOUS
<1>4. records = [t \in Bound |-> records[t]]
  BY DEF TypeOK, Bound
<1>5. records' \in [Bound -> R]
  BY <1>1, <1>4 DEF Changed
<1>6. /\ records'[in] = [records[in] EXCEPT !.balance = @ + amountIn]
      /\ records'[out] = [records[out] EXCEPT !.balance = @ + (-amountOut)]
      /\ \A t \in Bound \ S : records'[t] = records[t]
  BY <1>1, <1>4 DEF Changed
<1>7. \A t \in S : records'[t] = [records[t] EXCEPT !.balance = @ + amounts[t]]
  BY <1>6
<1>8. \A t \in S : amounts[t] <= tokenBalance[t][user] /\ -amounts[t] <= records[t].balance
  <2>1. amountIn <= tokenBalance[in][user] /\ -amountIn <= records[in].balance
    BY <1>1, RecordFacts, PoolIsNoUser DEF CanPull
  <2>2. -amountOut <= tokenBalance[out][user] /\ -(-amountOut) <= records[out].balance
    BY <1>1, RecordFacts, PoolIsNoUser DEF CanPush
  <2> QED
    BY <2>1, <2>2
<1>9. tokenBalance' = AfterPaying(user, amounts) /\ UNCHANGED <<controller, swapFee, freeze>>
  BY <1>1
<1> HIDE DEF S, amounts, R
<1> QED
  BY <1>2, <1>3, <1>5, <1>6, <1>7, <1>8, <1>9, Settlement

LEMMA InputsAreIntegers ==
  /\ Amounts \subseteq Int /\ TokenAmounts \subseteq Int
  /\ SwapFees \subseteq Int
  /\ \A balances \in InitBalances : /\ DOMAIN balances = 1 .. Len(balances)
                                    /\ \A i \in DOMAIN balances : balances[i] \in Int
<1>1. I128 \subseteq Int
  BY I128Assumption DEF I128
<1>2. SwapFees \subseteq I128 /\ TokenAmounts \subseteq I128 /\ InitBalances \subseteq Seq(I128)
  BY PoolAssumption
<1>3. ASSUME NEW balances \in InitBalances
      PROVE  /\ DOMAIN balances = 1 .. Len(balances)
             /\ \A i \in DOMAIN balances : balances[i] \in Int
  <2>1. balances \in Seq(I128)
    BY <1>2
  <2>2. DOMAIN balances = 1 .. Len(balances)
    BY <2>1
  <2>3. \A i \in 1 .. Len(balances) : balances[i] \in I128
    BY <2>1
  <2> QED
    BY <1>1, <2>2, <2>3
<1> QED
  BY <1>1, <1>2, <1>3, AmountsAreIntegers

LEMMA DonateSafe ==
  ASSUME TypeOK, Solvent, NEW user \in Users, NEW token \in Tokens,
         NEW amount \in TokenAmounts, Donate(user, token, amount)
  PROVE  TypeOK' /\ Solvent'
<1> DEFINE S       == {token}
           amounts == [t \in S |-> amount]
<1>1. /\ tokenBalance' = AfterPaying(user, amounts)
      /\ UNCHANGED poolVars /\ UNCHANGED tokenVars
      /\ CanPull(token, user, amount)
  BY DEF Donate
<1>2. /\ S \in SUBSET Tokens /\ amounts \in [S -> Int]
      /\ \A t \in S : amounts[t] <= tokenBalance[t][user] /\ amounts[t] >= 0
      /\ tokenBalance \in [Tokens -> [Addresses -> Nat]]
  BY <1>1, InputsAreIntegers DEF CanPull, TypeOK
<1>3. \A t \in S : -amounts[t] <= tokenBalance[t][Pool]
  BY <1>2 DEF Addresses
<1> HIDE DEF S, amounts
<1>4. /\ tokenBalance' \in [Tokens -> [Addresses -> Nat]]
      /\ \A t \in S : tokenBalance'[t][Pool] = tokenBalance[t][Pool] + amounts[t]
      /\ \A t \in Tokens \ S : tokenBalance'[t] = tokenBalance[t]
  <2>1. /\ tokenBalance \in [Tokens -> [Addresses -> Nat]] /\ user \in Users
        /\ S \in SUBSET Tokens /\ amounts \in [S -> Int]
        /\ \A t \in S : /\ amounts[t] <= tokenBalance[t][user]
                        /\ -amounts[t] <= tokenBalance[t][Pool]
    BY <1>2, <1>3
  <2>2. tokenBalance' = AfterPaying(user, amounts)
    BY <1>1
  <2>3. /\ AfterPaying(user, amounts) \in [Tokens -> [Addresses -> Nat]]
        /\ \A t \in S : AfterPaying(user, amounts)[t][Pool]
                          = tokenBalance[t][Pool] + amounts[t]
        /\ \A t \in Tokens \ S : AfterPaying(user, amounts)[t] = tokenBalance[t]
    BY ONLY <2>1, AfterPayingEffect
  <2> QED
    BY <2>2, <2>3
<1>5. TokenTypeOK'
  BY <1>1, PoolTokenType
<1>6. records' = records /\ Bound' = Bound /\ TypeOK'
  BY <1>1, <1>4, <1>5 DEF TypeOK, poolVars, Bound
<1>7. ASSUME NEW t \in Bound PROVE records[t].balance <= tokenBalance'[t][Pool]
  <2>1. /\ t \in Tokens /\ records[t].balance \in Nat /\ tokenBalance[t][Pool] \in Nat
        /\ records[t].balance <= tokenBalance[t][Pool]
    BY RecordFacts DEF Solvent, Addresses
  <2>2. CASE t \in S
    <3>1. /\ tokenBalance'[t][Pool] = tokenBalance[t][Pool] + amounts[t]
          /\ amounts[t] \in Nat
      BY <1>2, <1>4, <2>2
    <3> QED
      BY <2>1, <3>1
  <2>3. CASE t \notin S
    BY <1>4, <2>1, <2>3
  <2> QED
    BY <2>2, <2>3
<1> QED
  BY <1>6, <1>7 DEF Solvent

\* Everything on record after init is what init has just been paid.
LEMMA InitPoolSafe ==
  ASSUME TypeOK, Solvent, NEW user \in Users, NEW tokens \in InitTokens,
         NEW weights \in InitWeights, NEW balances \in InitBalances, NEW fee \in SwapFees,
         InitPool(user, tokens, weights, balances, fee)
  PROVE  TypeOK' /\ Solvent'
<1> DEFINE place(t) == CHOOSE i \in DOMAIN tokens : tokens[i] = t
           S        == {tokens[i] : i \in DOMAIN tokens}
           deposits == [t \in S |-> balances[place(t)]]
<1>1. /\ fee \in MIN_FEE .. MAX_FEE
      /\ Len(weights) = Len(tokens) /\ Len(balances) = Len(tokens)
      /\ \A i \in DOMAIN tokens : /\ weights[i] \in MIN_WEIGHT .. MAX_WEIGHT
                                  /\ balances[i] >= MIN_BALANCE
                                  /\ Scalar[tokens[i]] > 0
                                  /\ CanPull(tokens[i], user, balances[i])
      /\ MintShares(user, INIT_POOL_SUPPLY)
      /\ swapFee' = fee
      /\ records' = [t \in DOMAIN deposits |-> [balance |-> deposits[t],
                                                weight  |-> weights[place(t)],
                                                scalar  |-> Scalar[t]]]
      /\ tokenBalance' = AfterPaying(user, deposits)
      /\ controller' = user
      /\ freeze' = freeze
  BY DEF InitPool
<1>2. /\ tokens \in Seq(Tokens) /\ DOMAIN balances = 1 .. Len(balances)
      /\ \A i \in DOMAIN balances : balances[i] \in Int
      /\ MIN_BALANCE \in Nat /\ MIN_FEE \in Nat /\ INIT_POOL_SUPPLY \in Int
      /\ Scalar \in [Tokens -> Nat] /\ fee \in Int
  BY InputsAreIntegers, PoolAssumption
<1>3. ASSUME NEW t \in S
      PROVE  /\ t \in Tokens /\ place(t) \in DOMAIN tokens /\ tokens[place(t)] = t
             /\ place(t) \in DOMAIN balances
  BY <1>1, <1>2
<1>4. ASSUME NEW t \in S
      PROVE  /\ deposits[t] \in Nat /\ weights[place(t)] \in MIN_WEIGHT .. MAX_WEIGHT
             /\ Scalar[t] \in Nat \ {0}
             /\ CanPull(t, user, deposits[t])
  <2>1. /\ balances[place(t)] \in Int /\ balances[place(t)] >= MIN_BALANCE
        /\ weights[place(t)] \in MIN_WEIGHT .. MAX_WEIGHT
        /\ Scalar[t] \in Nat /\ Scalar[t] > 0
        /\ CanPull(t, user, balances[place(t)])
    BY <1>1, <1>2, <1>3
  <2>2. deposits[t] = balances[place(t)]
    OBVIOUS
  <2>3. CanPull(t, user, deposits[t])
    BY <2>1, <2>2
  <2> HIDE DEF place, deposits
  <2>4. deposits[t] \in Nat
    BY <1>2, <2>1, <2>2
  <2> QED
    BY <2>1, <2>3, <2>4
<1>5. TokenTypeOK'
  BY <1>1, <1>2, PoolIsNoUser, MintSharesType DEF TypeOK
<1>6. S \in SUBSET Tokens /\ deposits \in [S -> Int]
  <2>1. deposits = [t \in S |-> deposits[t]]
    OBVIOUS
  <2> HIDE DEF S, place, deposits
  <2>2. \A t \in S : t \in Tokens
    BY <1>3
  <2>3. \A t \in S : deposits[t] \in Int
    BY <1>4
  <2> QED
    BY <2>1, <2>2, <2>3
<1>7. \A t \in S : records'[t].balance = deposits[t] /\ records'[t] \in Record
  BY <1>1, <1>4 DEF Record
<1>8. Bound' = S /\ records' \in [S -> Record]
  BY <1>1, <1>7 DEF Bound
<1> HIDE DEF S, place, deposits
<1>9. \A t \in S : /\ deposits[t] <= tokenBalance[t][user]
                   /\ -deposits[t] <= tokenBalance[t][Pool]
  BY <1>4, <1>6, PoolIsNoUser DEF CanPull, TypeOK, Addresses
<1>10. tokenBalance \in [Tokens -> [Addresses -> Nat]]
  BY DEF TypeOK
<1>11. /\ tokenBalance' \in [Tokens -> [Addresses -> Nat]]
       /\ \A t \in S : tokenBalance'[t][Pool] = tokenBalance[t][Pool] + deposits[t]
  BY <1>1, <1>6, <1>9, <1>10, AfterPayingEffect
<1>12. swapFee' \in 0 .. MAX_FEE /\ controller' \in Users \cup {NoController} /\ freeze' \in BOOLEAN
  BY <1>1, <1>2, MathAssumption DEF MAX_FEE, TypeOK
<1>13. TypeOK'
  BY <1>5, <1>6, <1>8, <1>11, <1>12 DEF TypeOK
<1>14. \A t \in S : records'[t].balance <= tokenBalance'[t][Pool]
  BY <1>4, <1>6, <1>7, <1>10, <1>11 DEF Addresses
<1> QED
  BY <1>8, <1>13, <1>14 DEF Solvent

LEMMA SwapNextSafe ==
  ASSUME TypeOK, Solvent, SwapNext
  PROVE  TypeOK' /\ Solvent'
<1>1. PICK user \in Users, in, out \in Tokens, amount \in TokenAmounts, price \in MaxLimits :
        \/ \E limit \in MinLimits : SwapExactAmountIn(user, in, amount, out, limit, price)
        \/ \E limit \in MaxLimits : SwapExactAmountOut(user, in, limit, out, amount, price)
  BY DEF SwapNext, SwapCall
<1>2. amount \in Int
  BY InputsAreIntegers
<1>3. CASE \E limit \in MinLimits : SwapExactAmountIn(user, in, amount, out, limit, price)
  <2> PICK limit \in MinLimits : SwapExactAmountIn(user, in, amount, out, limit, price)
    BY <1>3
  <2>1. PICK amountOut \in SwapInQuote(in, amount, out, limit, price) :
          Swap(user, in, amount, out, amountOut)
    BY DEF SwapExactAmountIn
  <2> QED
    BY <1>2, <2>1, SwapQuoteFacts, SwapSafe
<1>4. CASE \E limit \in MaxLimits : SwapExactAmountOut(user, in, limit, out, amount, price)
  <2> PICK limit \in MaxLimits : SwapExactAmountOut(user, in, limit, out, amount, price)
    BY <1>4
  <2>1. PICK amountIn \in SwapOutQuote(in, limit, out, amount, price) :
          Swap(user, in, amountIn, out, amount)
    BY DEF SwapExactAmountOut
  <2> QED
    BY <1>2, <2>1, SwapQuoteFacts, SwapSafe
<1> QED
  BY <1>1, <1>3, <1>4

LEMMA DepositNextSafe ==
  ASSUME TypeOK, Solvent, DepositNext
  PROVE  TypeOK' /\ Solvent'
<1>1. PICK user \in Users, token \in Tokens :
        \/ \E amount \in TokenAmounts, limit \in MinLimits :
             DepToknAmtInGetLpToknsOut(user, token, amount, limit)
        \/ \E shares \in Amounts, limit \in MaxLimits :
             DepLpToknAmtOutGetToknIn(user, token, shares, limit)
  BY DEF DepositNext, DepositCall
<1>2. CASE \E amount \in TokenAmounts, limit \in MinLimits :
             DepToknAmtInGetLpToknsOut(user, token, amount, limit)
  <2> PICK amount \in TokenAmounts, limit \in MinLimits :
         DepToknAmtInGetLpToknsOut(user, token, amount, limit)
    BY <1>2
  <2>1. PICK shares \in DepInQuote(token, amount, limit) : Deposit(user, token, amount, shares)
    BY DEF DepToknAmtInGetLpToknsOut
  <2> QED
    BY <2>1, InputsAreIntegers, OneTokenQuoteFacts, DepositSafe
<1>3. CASE \E shares \in Amounts, limit \in MaxLimits :
             DepLpToknAmtOutGetToknIn(user, token, shares, limit)
  <2> PICK shares \in Amounts, limit \in MaxLimits :
         DepLpToknAmtOutGetToknIn(user, token, shares, limit)
    BY <1>3
  <2>1. PICK amount \in DepOutQuote(token, shares, limit) : Deposit(user, token, amount, shares)
    BY DEF DepLpToknAmtOutGetToknIn
  <2> QED
    BY <2>1, InputsAreIntegers, OneTokenQuoteFacts, DepositSafe
<1> QED
  BY <1>1, <1>2, <1>3

LEMMA WithdrawNextSafe ==
  ASSUME TypeOK, Solvent, WithdrawNext
  PROVE  TypeOK' /\ Solvent'
<1>1. PICK user \in Users, token \in Tokens :
        \/ \E shares \in Amounts, limit \in MinLimits :
             WdrToknAmtInGetLpToknsOut(user, token, shares, limit)
        \/ \E amount \in TokenAmounts, limit \in MaxLimits :
             WdrToknAmtOutGetLpToknsIn(user, token, amount, limit)
  BY DEF WithdrawNext, WithdrawCall
<1>2. CASE \E shares \in Amounts, limit \in MinLimits :
             WdrToknAmtInGetLpToknsOut(user, token, shares, limit)
  <2> PICK shares \in Amounts, limit \in MinLimits :
         WdrToknAmtInGetLpToknsOut(user, token, shares, limit)
    BY <1>2
  <2>1. PICK amount \in WdrInQuote(token, shares, limit) : Withdraw(user, token, amount, shares)
    BY DEF WdrToknAmtInGetLpToknsOut
  <2> QED
    BY <2>1, InputsAreIntegers, OneTokenQuoteFacts, WithdrawSafe
<1>3. CASE \E amount \in TokenAmounts, limit \in MaxLimits :
             WdrToknAmtOutGetLpToknsIn(user, token, amount, limit)
  <2> PICK amount \in TokenAmounts, limit \in MaxLimits :
         WdrToknAmtOutGetLpToknsIn(user, token, amount, limit)
    BY <1>3
  <2>1. PICK shares \in WdrOutQuote(token, amount, limit) : Withdraw(user, token, amount, shares)
    BY DEF WdrToknAmtOutGetLpToknsIn
  <2> QED
    BY <2>1, InputsAreIntegers, OneTokenQuoteFacts, WithdrawSafe
<1> QED
  BY <1>1, <1>2, <1>3
-----------------------------------------------------------------------------
(***************************************************************************)
(* The inductive invariant is TypeOK /\ Solvent: neither part is inductive *)
(* alone, a payout being bounded by the record and not by the ledger.      *)
(***************************************************************************)
LEMMA InitSafe == Init => TypeOK /\ Solvent
<1> SUFFICES ASSUME Init PROVE TypeOK /\ Solvent
  OBVIOUS
<1>1. TokenTypeOK
  BY TokenInitType DEF Init
<1>2. Bound = {} /\ records \in [Bound -> Record]
  BY DEF Init, Bound
<1>3. MAX_FEE \in Nat
  BY MathAssumption DEF MAX_FEE
<1>4. tokenBalance \in [Tokens -> [Addresses -> Nat]]
  BY PoolAssumption DEF Init, Addresses
<1>5. controller \in Users \cup {NoController} /\ freeze \in BOOLEAN
  BY DEF Init
<1>6. swapFee \in 0 .. MAX_FEE
  BY <1>3 DEF Init
<1>7. Bound \subseteq Tokens
  BY <1>2
<1> QED
  BY <1>1, <1>2, <1>4, <1>5, <1>6, <1>7 DEF TypeOK, Solvent

LEMMA NextSafe == TypeOK /\ Solvent /\ [Next]_vars => TypeOK' /\ Solvent'
<1> SUFFICES ASSUME TypeOK, Solvent, [Next]_vars PROVE TypeOK' /\ Solvent'
  OBVIOUS
<1>1. CASE InitNext
  BY <1>1, InitPoolSafe DEF InitNext, InitCall
<1>2. CASE JoinNext
  BY <1>2, JoinPoolSafe DEF JoinNext, JoinCall
<1>3. CASE ExitNext
  BY <1>3, ExitPoolSafe DEF ExitNext, ExitCall
<1>4. CASE SwapNext
  BY <1>4, SwapNextSafe
<1>5. CASE DepositNext
  BY <1>5, DepositNextSafe
<1>6. CASE WithdrawNext
  BY <1>6, WithdrawNextSafe
<1>7. CASE AdminNext
  <2>1. /\ UNCHANGED <<swapFee, records, tokenBalance>> /\ UNCHANGED tokenVars
        /\ controller' \in Users \cup {NoController} /\ freeze' \in BOOLEAN
    BY <1>7 DEF AdminNext, SetController, SetFreezeStatus, TypeOK
  <2>2. TokenTypeOK'
    BY <2>1, PoolTokenType
  <2> QED
    BY <2>1, <2>2 DEF TypeOK, Solvent, Bound
<1>8. CASE DonateNext
  BY <1>8, DonateSafe DEF DonateNext
<1>9. CASE HolderStep
  <2>1. TokenTypeOK'
    BY <1>9, HolderNextType DEF HolderStep, TypeOK
  <2> QED
    BY <1>9, <2>1 DEF HolderStep, TypeOK, Solvent, Bound
<1>10. CASE UNCHANGED vars
  <2>1. UNCHANGED tokenVars /\ UNCHANGED <<controller, swapFee, freeze, records, tokenBalance>>
    BY <1>10 DEF vars, tokenVars
  <2>2. TokenTypeOK'
    BY <2>1, PoolTokenType
  <2> QED
    BY <2>1, <2>2 DEF TypeOK, Solvent, Bound
<1>11. Next \/ UNCHANGED vars
  OBVIOUS
<1> QED
  BY <1>1, <1>2, <1>3, <1>4, <1>5, <1>6, <1>7, <1>8, <1>9, <1>10, <1>11 DEF Next, PoolNext

LEMMA SafeForever == Spec => [](TypeOK /\ Solvent)
<1> QED
  BY InitSafe, NextSafe, PTL DEF Spec

\* The pool's storage and the bound tokens' ledgers keep their types: no
\* record is ever negative, no balance of a token is ever overdrawn, and a
\* bound token keeps a weight within the limits and a usable scalar.
THEOREM PoolTypeCorrect == Spec => []TypeOK
BY SafeForever, PTL

\* However many tokens are bound, whatever the scale of the numbers and
\* whatever callers pass, the pool holds what it has on record: the handlers
\* of pool.rs never write a record that the transfers they make do not match.
THEOREM PoolSolvent == Spec => []Solvent
BY SafeForever, PTL
-----------------------------------------------------------------------------
(***************************************************************************)
(* A frozen pool only pays out.                                            *)
(***************************************************************************)

\* Only a pool that has been initialised can be frozen: until init there is no
\* controller whose authorisation set_freeze_status could have.
FrozenIsInitialized == freeze => Initialized

OnlyPaysOut ==
  /\ totalShares' <= totalShares
  /\ \A t \in Bound : records'[t].balance <= records[t].balance

LEMMA FrozenIsInitializedInit == Init => FrozenIsInitialized
BY DEF Init, FrozenIsInitialized

LEMMA ControllerAndFlagStay ==
  ASSUME [Next]_vars
  PROVE  InitNext \/ AdminNext \/ UNCHANGED <<controller, freeze>>
<1>1. JoinNext => UNCHANGED <<controller, freeze>>
  BY DEF JoinNext, JoinCall, JoinPool
<1>2. ExitNext => UNCHANGED <<controller, freeze>>
  BY DEF ExitNext, ExitCall, ExitPool
<1>3. SwapNext => UNCHANGED <<controller, freeze>>
  <2>1. \A user, in, amountIn, out, amountOut :
          Swap(user, in, amountIn, out, amountOut) => UNCHANGED <<controller, freeze>>
    BY DEF Swap
  <2> QED
    BY <2>1 DEF SwapNext, SwapCall, SwapExactAmountIn, SwapExactAmountOut
<1>4. DepositNext => UNCHANGED <<controller, freeze>>
  BY DEF DepositNext, DepositCall, DepToknAmtInGetLpToknsOut, DepLpToknAmtOutGetToknIn, Deposit
<1>5. WithdrawNext => UNCHANGED <<controller, freeze>>
  BY DEF WithdrawNext, WithdrawCall, WdrToknAmtInGetLpToknsOut, WdrToknAmtOutGetLpToknsIn, Withdraw
<1>6. DonateNext => UNCHANGED <<controller, freeze>>
  BY DEF DonateNext, Donate, poolVars
<1>7. HolderStep => UNCHANGED <<controller, freeze>>
  BY DEF HolderStep
<1>8. UNCHANGED vars => UNCHANGED <<controller, freeze>>
  BY DEF vars
<1>9. Next \/ UNCHANGED vars
  OBVIOUS
<1> QED
  BY <1>1, <1>2, <1>3, <1>4, <1>5, <1>6, <1>7, <1>8, <1>9 DEF Next, PoolNext

LEMMA FrozenIsInitializedNext ==
  ASSUME FrozenIsInitialized, [Next]_vars
  PROVE  FrozenIsInitialized'
<1>1. NoController \notin Users
  BY PoolAssumption
<1>2. CASE InitNext
  <2> PICK user \in Users, tokens \in InitTokens, weights \in InitWeights,
           balances \in InitBalances, fee \in SwapFees :
         InitPool(user, tokens, weights, balances, fee)
    BY <1>2 DEF InitNext, InitCall
  <2>1. controller' = user
    BY DEF InitPool
  <2> QED
    BY <1>1, <2>1 DEF Initialized, FrozenIsInitialized
<1>3. CASE AdminNext
  BY <1>1, <1>3 DEF AdminNext, SetController, SetFreezeStatus, Initialized, FrozenIsInitialized
<1>4. CASE UNCHANGED <<controller, freeze>>
  BY <1>4 DEF Initialized, FrozenIsInitialized
<1> QED
  BY <1>2, <1>3, <1>4, ControllerAndFlagStay

\* A pool is initialised by init and by nothing else: until then there is no
\* controller who could name another.
LEMMA OnlyInitInitializes ==
  ASSUME [Next]_vars, ~Initialized, ~InitNext
  PROVE  ~Initialized'
<1>1. CASE AdminNext
  BY <1>1, PoolAssumption DEF AdminNext, SetController, SetFreezeStatus, Initialized
<1>2. CASE UNCHANGED <<controller, freeze>>
  BY <1>2 DEF Initialized
<1> QED
  BY <1>1, <1>2, ControllerAndFlagStay

-----------------------------------------------------------------------------
LEMMA ExitOnlyPaysOut ==
  ASSUME TypeOK, ExitNext
  PROVE  OnlyPaysOut
<1>1. PICK user \in Users, shares \in Amounts, limits \in [Bound -> MinLimits] :
        ExitPool(user, shares, limits)
  BY DEF ExitNext, ExitCall
<1>2. totalShares' <= totalShares
  BY <1>1, AmountsAreIntegers DEF ExitPool, RedeemShares, TypeOK, TokenTypeOK
<1>3. PICK ratio \in ExitRatios(shares) :
        LET due     == [t \in Bound |-> ExitDue(records[t], ratio, limits[t])]
            payouts == [t \in Bound |-> The(due[t])]
        IN /\ \A t \in Bound : due[t] # {}
           /\ records' = [t \in Bound |-> [records[t] EXCEPT !.balance = @ - payouts[t]]]
  BY <1>1 DEF ExitPool
<1> DEFINE payout(t) == The(ExitDue(records[t], ratio, limits[t]))
<1>4. ASSUME NEW t \in Bound
      PROVE  records'[t].balance <= records[t].balance
  <2>1. /\ ExitDue(records[t], ratio, limits[t]) # {}
        /\ records'[t] = [records[t] EXCEPT !.balance = @ - payout(t)]
    BY <1>3
  <2>2. payout(t) \in Int /\ payout(t) > 0
    BY <2>1, TheIsOne, DueFacts
  <2>3. records[t] \in Record /\ records[t].balance \in Nat
    BY RecordFacts
  <2> HIDE DEF payout
  <2>4. records'[t].balance = records[t].balance - payout(t)
    BY <2>1, <2>3 DEF Record
  <2> QED
    BY <2>1, <2>2, <2>3, <2>4
<1> QED
  BY <1>2, <1>4 DEF OnlyPaysOut

LEMMA WithdrawOnlyPaysOut ==
  ASSUME TypeOK, NEW user \in Users, NEW token \in Bound,
         NEW amount \in Int, NEW shares \in Int, Withdraw(user, token, amount, shares)
  PROVE  OnlyPaysOut
<1>1. totalShares' <= totalShares
  BY DEF Withdraw, RedeemShares, TypeOK, TokenTypeOK
<1>2. amount >= 0
  BY RecordFacts DEF Withdraw, CanPush, Addresses
<1>3. ASSUME NEW t \in Bound
      PROVE  records'[t].balance <= records[t].balance
  <2>1. records \in [Bound -> Record] /\ records[t] \in Record /\ records[t].balance \in Nat
    BY RecordFacts DEF TypeOK
  <2>2. records'[t] = IF t = token THEN [records[t] EXCEPT !.balance = @ + (-amount)]
                                   ELSE records[t]
    BY <2>1 DEF Withdraw, Changed
  <2>3. CASE t = token
    <3>1. records'[t].balance = records[t].balance + (-amount)
      BY <2>1, <2>2, <2>3 DEF Record
    <3> QED
      BY <1>2, <2>1, <3>1
  <2>4. CASE t # token
    BY <2>1, <2>2, <2>4
  <2> QED
    BY <2>3, <2>4
<1> QED
  BY <1>1, <1>3 DEF OnlyPaysOut

LEMMA WithdrawNextOnlyPaysOut ==
  ASSUME TypeOK, WithdrawNext
  PROVE  OnlyPaysOut
<1>1. PICK user \in Users, token \in Tokens :
        \/ \E shares \in Amounts, limit \in MinLimits :
             WdrToknAmtInGetLpToknsOut(user, token, shares, limit)
        \/ \E amount \in TokenAmounts, limit \in MaxLimits :
             WdrToknAmtOutGetLpToknsIn(user, token, amount, limit)
  BY DEF WithdrawNext, WithdrawCall
<1>2. CASE \E shares \in Amounts, limit \in MinLimits :
             WdrToknAmtInGetLpToknsOut(user, token, shares, limit)
  <2> PICK shares \in Amounts, limit \in MinLimits :
         WdrToknAmtInGetLpToknsOut(user, token, shares, limit)
    BY <1>2
  <2>1. PICK amount \in WdrInQuote(token, shares, limit) : Withdraw(user, token, amount, shares)
    BY DEF WdrToknAmtInGetLpToknsOut
  <2> QED
    BY <2>1, InputsAreIntegers, OneTokenQuoteFacts, WithdrawOnlyPaysOut
<1>3. CASE \E amount \in TokenAmounts, limit \in MaxLimits :
             WdrToknAmtOutGetLpToknsIn(user, token, amount, limit)
  <2> PICK amount \in TokenAmounts, limit \in MaxLimits :
         WdrToknAmtOutGetLpToknsIn(user, token, amount, limit)
    BY <1>3
  <2>1. PICK shares \in WdrOutQuote(token, amount, limit) : Withdraw(user, token, amount, shares)
    BY DEF WdrToknAmtOutGetLpToknsIn
  <2> QED
    BY <2>1, InputsAreIntegers, OneTokenQuoteFacts, WithdrawOnlyPaysOut
<1> QED
  BY <1>1, <1>2, <1>3

\* Holders may burn shares, which lowers the total, and do nothing else to it.
LEMMA HoldersOnlyBurn ==
  ASSUME TokenTypeOK, HolderNext
  PROVE  totalShares' <= totalShares
<1>1. totalShares \in Int /\ Amounts \subseteq Int
  BY AmountsAreIntegers DEF TokenTypeOK
<1>2. CASE \E from \in Users, amount \in Amounts : Burn(from, amount)
  BY <1>1, <1>2 DEF Burn, DestroyShares
<1>3. CASE \E spender \in Spenders, from \in Users, amount \in Amounts :
             BurnFrom(spender, from, amount)
  BY <1>1, <1>3 DEF BurnFrom, DestroyShares
<1>4. CASE UNCHANGED totalShares
  BY <1>1, <1>4
<1>5. CASE \E from \in Users, spender \in Spenders, amount \in Amounts,
              until \in 0 .. MaxLedger : Approve(from, spender, amount, until)
  BY <1>4, <1>5 DEF Approve
<1>6. CASE \E from \in Users, to \in Addresses, amount \in Amounts : Transfer(from, to, amount)
  BY <1>4, <1>6 DEF Transfer
<1>7. CASE \E spender \in Spenders, from \in Users, to \in Addresses, amount \in Amounts :
             TransferFrom(spender, from, to, amount)
  BY <1>4, <1>7 DEF TransferFrom
<1>8. CASE AdvanceLedger
  BY <1>4, <1>8 DEF AdvanceLedger
<1> QED
  BY <1>2, <1>3, <1>5, <1>6, <1>7, <1>8, HolderNextCases
-----------------------------------------------------------------------------
LEMMA InitIsFirst == InitNext => ~Initialized
<1>1. \A user, tokens, weights, balances, fee :
        InitPool(user, tokens, weights, balances, fee) => ~Initialized
  <2> TAKE user, tokens, weights, balances, fee
  <2> HAVE InitPool(user, tokens, weights, balances, fee)
  <2> QED
    BY DEF InitPool
<1> QED
  BY <1>1 DEF InitNext, InitCall

LEMMA FrozenNext ==
  TypeOK /\ FrozenIsInitialized /\ [Next]_vars => [freeze => OnlyPaysOut]_vars
<1> SUFFICES ASSUME TypeOK, FrozenIsInitialized, Next, freeze
             PROVE  OnlyPaysOut
  OBVIOUS
<1>1. ~InitNext
  BY InitIsFirst DEF FrozenIsInitialized
<1>2. ~JoinNext
  BY DEF JoinNext, JoinCall, JoinPool, JoinRatios
<1>3. ~SwapNext
  BY SwapQuoteFacts DEF SwapNext, SwapCall, SwapExactAmountIn, SwapExactAmountOut
<1>4. ~DepositNext
  BY OneTokenQuoteFacts
  DEF DepositNext, DepositCall, DepToknAmtInGetLpToknsOut, DepLpToknAmtOutGetToknIn
<1>5. CASE ExitNext
  BY <1>5, ExitOnlyPaysOut
<1>6. CASE WithdrawNext
  BY <1>6, WithdrawNextOnlyPaysOut
<1>7. \A t \in Bound : records[t].balance \in Nat
  BY RecordFacts
<1>8. totalShares \in Int
  BY DEF TypeOK, TokenTypeOK
<1>9. CASE AdminNext
  <2>1. UNCHANGED <<records, totalShares>>
    BY <1>9 DEF AdminNext, SetController, SetFreezeStatus, tokenVars
  <2> QED
    BY <1>7, <1>8, <2>1 DEF OnlyPaysOut
<1>10. CASE DonateNext
  <2>1. UNCHANGED <<records, totalShares>>
    BY <1>10 DEF DonateNext, Donate, poolVars, tokenVars
  <2> QED
    BY <1>7, <1>8, <2>1 DEF OnlyPaysOut
<1>11. CASE HolderStep
  <2>1. UNCHANGED records /\ totalShares' <= totalShares
    BY <1>11, HoldersOnlyBurn DEF HolderStep, TypeOK
  <2> QED
    BY <1>7, <2>1 DEF OnlyPaysOut
<1> QED
  BY <1>1, <1>2, <1>3, <1>4, <1>5, <1>6, <1>9, <1>10, <1>11 DEF Next, PoolNext

\* While a pool is frozen no balance on record grows and no share is created,
\* whoever calls whatever entry point with whatever arguments: each of the five
\* entry points that take tokens checks the flag, and init, which does not, has
\* had its only call before the flag can be set.
THEOREM FrozenPoolOnlyPaysOut == Spec => FrozenOnlyPaysOut
<1>1. Init => FrozenIsInitialized
  BY FrozenIsInitializedInit
<1>2. FrozenIsInitialized /\ [Next]_vars => FrozenIsInitialized'
  BY FrozenIsInitializedNext
<1>3. TypeOK /\ FrozenIsInitialized /\ [Next]_vars => [freeze => OnlyPaysOut]_vars
  BY FrozenNext
<1>4. Spec => [][freeze => OnlyPaysOut]_vars
  BY <1>1, <1>2, <1>3, PoolTypeCorrect, PTL DEF Spec
<1>5. [freeze => OnlyPaysOut]_vars
      => [freeze => /\ totalShares' <= totalShares
                    /\ \A t \in Bound : records'[t].balance <= records[t].balance]_vars
  BY DEF OnlyPaysOut
<1> QED
  BY <1>4, <1>5, PTL DEF FrozenOnlyPaysOut
-----------------------------------------------------------------------------
(***************************************************************************)
(* The total of shares, in the pool.                                       *)
(***************************************************************************)

\* To the share token a step of the pool is a mint, a redemption, a holder's
\* step, or none at all.
LEMMA PoolStepsTheToken ==
  ASSUME [Next]_vars
  PROVE  \/ \E to \in Users, amount \in Int : MintShares(to, amount)
         \/ \E from \in Users, amount \in Int : RedeemShares(from, amount)
         \/ HolderNext
         \/ UNCHANGED tokenVars
<1>1. CASE InitNext
  <2>1. INIT_POOL_SUPPLY \in Int
    BY PoolAssumption
  <2>2. PICK user \in Users, tokens \in InitTokens, weights \in InitWeights,
             balances \in InitBalances, fee \in SwapFees :
               InitPool(user, tokens, weights, balances, fee)
    BY <1>1 DEF InitNext, InitCall
  <2>3. MintShares(user, INIT_POOL_SUPPLY)
    BY <2>2 DEF InitPool
  <2> QED
    BY <2>1, <2>3
<1>2. CASE JoinNext
  BY <1>2, InputsAreIntegers DEF JoinNext, JoinCall, JoinPool
<1>3. CASE ExitNext
  BY <1>3, InputsAreIntegers DEF ExitNext, ExitCall, ExitPool
<1>4. CASE SwapNext
  <2>1. \A user, in, amountIn, out, amountOut :
          Swap(user, in, amountIn, out, amountOut) => UNCHANGED tokenVars
    BY DEF Swap
  <2> QED
    BY <1>4, <2>1 DEF SwapNext, SwapCall, SwapExactAmountIn, SwapExactAmountOut
<1>5. CASE DepositNext
  BY <1>5, OneTokenQuoteFacts, InputsAreIntegers
  DEF DepositNext, DepositCall, DepToknAmtInGetLpToknsOut, DepLpToknAmtOutGetToknIn, Deposit
<1>6. CASE WithdrawNext
  BY <1>6, OneTokenQuoteFacts, InputsAreIntegers
  DEF WithdrawNext, WithdrawCall, WdrToknAmtInGetLpToknsOut, WdrToknAmtOutGetLpToknsIn, Withdraw
<1>7. CASE AdminNext
  BY <1>7 DEF AdminNext, SetController, SetFreezeStatus
<1>8. CASE DonateNext
  BY <1>8 DEF DonateNext, Donate
<1>9. CASE HolderStep
  BY <1>9 DEF HolderStep
<1>10. CASE UNCHANGED vars
  BY <1>10 DEF vars, tokenVars
<1> QED
  BY <1>1, <1>2, <1>3, <1>4, <1>5, <1>6, <1>7, <1>8, <1>9, <1>10 DEF Next, PoolNext

LEMMA PoolNextSum ==
  TypeOK /\ SupplyIsSumOfShares /\ [Next]_vars => SupplyIsSumOfShares'
<1> SUFFICES ASSUME TypeOK, SupplyIsSumOfShares, [Next]_vars PROVE SupplyIsSumOfShares'
  OBVIOUS
<1>1. TokenTypeOK
  BY DEF TypeOK
<1>2. CASE \E to \in Users, amount \in Int : MintShares(to, amount)
  BY <1>1, <1>2, PoolIsNoUser, SumOfMinted
<1>3. CASE \E from \in Users, amount \in Int : RedeemShares(from, amount)
  BY <1>1, <1>3, PoolIsNoUser, SumOfRedeemed
<1>4. CASE HolderNext
  BY <1>1, <1>4, HolderNextSum
<1>5. CASE UNCHANGED tokenVars
  BY <1>5 DEF tokenVars, SupplyIsSumOfShares
<1> QED
  BY <1>2, <1>3, <1>4, <1>5, PoolStepsTheToken

LEMMA SumForever == Spec => [](TypeOK /\ SupplyIsSumOfShares)
<1>1. Init => SupplyIsSumOfShares
  BY TokenInitSum DEF Init
<1> QED
  BY <1>1, PoolNextSum, PoolTypeCorrect, PTL DEF Spec

\* The total that the pool divides every payout by is the number of shares
\* there are, whichever handlers and holders have minted, pulled, burned and
\* moved shares before.
THEOREM PoolTotalIsSum == Spec => []SupplyIsSumOfShares
BY SumForever, PTL
-----------------------------------------------------------------------------
(***************************************************************************)
(* What a share stands for.                                                *)
(***************************************************************************)
PerShareNeverFalls ==
  \A t \in Bound : records'[t].balance * totalShares >= records[t].balance * totalShares'

LEMMA ShareOfMore ==
  ASSUME NEW b \in Nat, NEW d \in Int, NEW s \in Nat, NEW a \in Int, b * a <= d * s
  PROVE  (b + d) * s >= b * (s + a)
<1>1. (b + d) * s = b * s + d * s /\ b * (s + a) = b * s + b * a
  OBVIOUS
<1> QED
  BY <1>1

LEMMA ShareOfLess ==
  ASSUME NEW b \in Nat, NEW d \in Int, NEW s \in Nat, NEW a \in Int, d * s <= b * a
  PROVE  (b - d) * s >= b * (s - a)
<1>1. (b - d) * s = b * s - d * s /\ b * (s - a) = b * s - b * a
  OBVIOUS
<1> QED
  BY <1>1

LEMMA ShareOfSame ==
  ASSUME NEW b \in Nat, NEW s \in Nat, NEW left \in Int, left <= s
  PROVE  b * s >= b * left
<1>1. left * b <= s * b
  BY TimesKeepsOrder
<1> QED
  BY <1>1

LEMMA JoinDilutesNobody ==
  ASSUME TypeOK, totalShares \in Nat, JoinNext
  PROVE  PerShareNeverFalls
<1>1. PICK user \in Users, shares \in Amounts, limits \in [Bound -> MaxLimits] :
        JoinPool(user, shares, limits)
  BY DEF JoinNext, JoinCall
<1>2. shares \in Int /\ totalShares' = totalShares + shares
  BY <1>1, AmountsAreIntegers DEF JoinPool, MintShares
<1>3. PICK ratio \in JoinRatios(shares) :
        LET due      == [t \in Bound |-> JoinDue(records[t], ratio, limits[t])]
            deposits == [t \in Bound |-> The(due[t])]
        IN /\ \A t \in Bound : due[t] # {}
           /\ records' = [t \in Bound |-> [records[t] EXCEPT !.balance = @ + deposits[t]]]
  BY <1>1 DEF JoinPool
<1>4. ratio \in CalcJoinRatio(totalShares, shares)
  BY <1>3 DEF JoinRatios
<1> DEFINE deposit(t) == The(JoinDue(records[t], ratio, limits[t]))
<1> SUFFICES ASSUME NEW t \in Bound
             PROVE  records'[t].balance * totalShares >= records[t].balance * totalShares'
  BY DEF PerShareNeverFalls
<1>5. /\ JoinDue(records[t], ratio, limits[t]) # {}
      /\ records'[t] = [records[t] EXCEPT !.balance = @ + deposit(t)]
  BY <1>3
<1>6. deposit(t) \in CalcJoinDepositAmount(records[t], ratio) /\ deposit(t) \in Int
  BY <1>5, TheIsOne, CalcJoinDepositFits DEF JoinDue
<1>7. records[t] \in Record /\ records[t].balance \in Nat /\ records[t].scalar \in Nat \ {0}
  BY RecordFacts DEF Record
<1> HIDE DEF deposit
<1>8. records[t].balance * shares <= deposit(t) * totalShares
  BY <1>2, <1>4, <1>6, <1>7, JoinDepositCoversTheShares
<1>9. records'[t].balance = records[t].balance + deposit(t)
  BY <1>5, <1>7 DEF Record
<1> QED
  BY <1>2, <1>6, <1>7, <1>8, <1>9, ShareOfMore

LEMMA ExitDilutesNobody ==
  ASSUME TypeOK, totalShares \in Nat, ExitNext
  PROVE  PerShareNeverFalls
<1>1. PICK user \in Users, shares \in Amounts, limits \in [Bound -> MinLimits] :
        ExitPool(user, shares, limits)
  BY DEF ExitNext, ExitCall
<1>2. shares \in Int /\ totalShares' = totalShares - shares
  BY <1>1, AmountsAreIntegers DEF ExitPool, RedeemShares
<1>3. PICK ratio \in ExitRatios(shares) :
        LET due     == [t \in Bound |-> ExitDue(records[t], ratio, limits[t])]
            payouts == [t \in Bound |-> The(due[t])]
        IN /\ \A t \in Bound : due[t] # {}
           /\ records' = [t \in Bound |-> [records[t] EXCEPT !.balance = @ - payouts[t]]]
  BY <1>1 DEF ExitPool
<1>4. ratio \in CalcExitRatio(totalShares, shares)
  BY <1>3 DEF ExitRatios
<1> DEFINE payout(t) == The(ExitDue(records[t], ratio, limits[t]))
<1> SUFFICES ASSUME NEW t \in Bound
             PROVE  records'[t].balance * totalShares >= records[t].balance * totalShares'
  BY DEF PerShareNeverFalls
<1>5. /\ ExitDue(records[t], ratio, limits[t]) # {}
      /\ records'[t] = [records[t] EXCEPT !.balance = @ - payout(t)]
  BY <1>3
<1>6. payout(t) \in CalcExitWithdrawalAmount(records[t], ratio) /\ payout(t) \in Int
  BY <1>5, TheIsOne, CalcExitWithdrawalFits DEF ExitDue
<1>7. records[t] \in Record /\ records[t].balance \in Nat /\ records[t].scalar \in Nat \ {0}
  BY RecordFacts DEF Record
<1> HIDE DEF payout
<1>8. payout(t) * totalShares <= records[t].balance * shares
  BY <1>2, <1>4, <1>6, <1>7, ExitWithdrawalLeavesTheRest
<1>9. records'[t].balance = records[t].balance - payout(t)
  BY <1>5, <1>7 DEF Record
<1> QED
  BY <1>2, <1>6, <1>7, <1>8, <1>9, ShareOfLess

LEMMA BurnsDiluteNobody ==
  ASSUME TypeOK, totalShares \in Nat, HolderStep, totalShares' \in Int
  PROVE  PerShareNeverFalls
<1>1. UNCHANGED records /\ totalShares' <= totalShares
  BY HoldersOnlyBurn DEF HolderStep, TypeOK
<1> SUFFICES ASSUME NEW t \in Bound
             PROVE  records'[t].balance * totalShares >= records[t].balance * totalShares'
  BY DEF PerShareNeverFalls
<1>2. records'[t].balance = records[t].balance /\ records[t].balance \in Nat
  BY <1>1, RecordFacts
<1> QED
  BY <1>1, <1>2, ShareOfSame

LEMMA NobodyIsDiluted ==
  TypeOK /\ SupplyIsSumOfShares /\ [Next]_vars
    => [JoinNext \/ ExitNext \/ HolderStep => PerShareNeverFalls]_vars
<1> SUFFICES ASSUME TypeOK, SupplyIsSumOfShares, [Next]_vars, JoinNext \/ ExitNext \/ HolderStep
             PROVE  PerShareNeverFalls
  OBVIOUS
<1>1. totalShares \in Nat
  BY SharesAreBounded DEF TypeOK
<1>2. CASE HolderStep
  <2>1. TokenTypeOK'
    BY <1>2, HolderNextType DEF HolderStep, TypeOK
  <2> QED
    BY <1>1, <1>2, <2>1, BurnsDiluteNobody DEF TokenTypeOK
<1> QED
  BY <1>1, <1>2, JoinDilutesNobody, ExitDilutesNobody

\* Whoever joins or leaves with all tokens, or burns shares, leaves behind at
\* least as much of every single token per share as there was: at every scale,
\* since the two roundings of a price both favour the pool.
THEOREM JoinsAndExitsDiluteNobody == Spec => JoinAndExitNeverDilute
<1>1. Spec => [][JoinNext \/ ExitNext \/ HolderStep => PerShareNeverFalls]_vars
  BY SumForever, NobodyIsDiluted, PTL DEF Spec
<1>2. [JoinNext \/ ExitNext \/ HolderStep => PerShareNeverFalls]_vars
      => [totalShares' # totalShares /\ (JoinNext \/ ExitNext \/ HolderStep) =>
            \A t \in Bound :
              records'[t].balance * totalShares >= records[t].balance * totalShares']_vars
  BY DEF PerShareNeverFalls
<1> QED
  BY <1>1, <1>2, PTL DEF JoinAndExitNeverDilute
-----------------------------------------------------------------------------
(***************************************************************************)
(* A pool without shares.                                                  *)
(***************************************************************************)
LEMMA NoJoinWithoutShares ==
  ASSUME totalShares = 0, JoinNext
  PROVE  FALSE
<1>1. \A shares : JoinRatios(shares) = {}
  BY DEF JoinRatios, CalcJoinRatio
<1> QED
  BY <1>1 DEF JoinNext, JoinCall, JoinPool

LEMMA DepositsMintNothingFromNothing ==
  ASSUME TypeOK, totalShares = 0, DepositNext
  PROVE  totalShares' = 0
<1>1. PICK user \in Users, token \in Tokens :
        \/ \E amount \in TokenAmounts, limit \in MinLimits :
             DepToknAmtInGetLpToknsOut(user, token, amount, limit)
        \/ \E shares \in Amounts, limit \in MaxLimits :
             DepLpToknAmtOutGetToknIn(user, token, shares, limit)
  BY DEF DepositNext, DepositCall
<1>2. CASE \E amount \in TokenAmounts, limit \in MinLimits :
             DepToknAmtInGetLpToknsOut(user, token, amount, limit)
  <2> PICK amount \in TokenAmounts, limit \in MinLimits :
         DepToknAmtInGetLpToknsOut(user, token, amount, limit)
    BY <1>2
  <2>1. PICK shares \in DepInQuote(token, amount, limit) : Deposit(user, token, amount, shares)
    BY DEF DepToknAmtInGetLpToknsOut
  <2>2. /\ token \in Bound
        /\ shares \in CalcLpTokenAmountGivenTokenDepositsIn(records[token], 0, amount, swapFee)
    BY <2>1 DEF DepInQuote
  <2>3. records[token].weight \in Nat
    BY <2>2, RecordFacts, MathAssumption DEF Record, MIN_WEIGHT, MAX_WEIGHT
  <2>4. shares = 0
    BY <2>2, <2>3, NothingIsMintedFromNothing
  <2> QED
    BY <2>1, <2>4 DEF Deposit, MintShares
<1>3. CASE \E shares \in Amounts, limit \in MaxLimits :
             DepLpToknAmtOutGetToknIn(user, token, shares, limit)
  <2>1. 0 * STROOP_SCALAR = 0
    BY MathAssumption
  <2>2. \A shares, limit : DepOutQuote(token, shares, limit) = {}
    BY <2>1 DEF DepOutQuote, CalcTokenDepositsInGivenLpTokenAmount
  <2> QED
    BY <1>3, <2>2 DEF DepLpToknAmtOutGetToknIn
<1> QED
  BY <1>1, <1>2, <1>3

LEMMA NothingFromNothing ==
  ASSUME TypeOK, [Next]_vars, Initialized, totalShares = 0
  PROVE  totalShares' <= 0
<1>1. ~InitNext
  BY InitIsFirst
<1>2. ~JoinNext
  BY NoJoinWithoutShares
<1>3. CASE DepositNext
  BY <1>3, DepositsMintNothingFromNothing
<1>4. CASE ExitNext
  BY <1>4, ExitOnlyPaysOut DEF OnlyPaysOut
<1>5. CASE WithdrawNext
  BY <1>5, WithdrawNextOnlyPaysOut DEF OnlyPaysOut
<1>6. CASE HolderStep
  BY <1>6, HoldersOnlyBurn DEF HolderStep, TypeOK
<1>7. SwapNext => UNCHANGED totalShares
  <2>1. \A user, in, amountIn, out, amountOut :
          Swap(user, in, amountIn, out, amountOut) => UNCHANGED totalShares
    BY DEF Swap, tokenVars
  <2> QED
    BY <2>1 DEF SwapNext, SwapCall, SwapExactAmountIn, SwapExactAmountOut
<1>8. AdminNext \/ DonateNext \/ UNCHANGED vars => UNCHANGED totalShares
  BY DEF AdminNext, SetController, SetFreezeStatus, DonateNext, Donate, tokenVars, vars
<1>9. Next \/ UNCHANGED vars
  OBVIOUS
<1> QED
  BY <1>1, <1>2, <1>3, <1>4, <1>5, <1>6, <1>7, <1>8, <1>9 DEF Next, PoolNext

LEMMA TotalIsNatural == Spec => [](totalShares \in Nat)
<1>1. TypeOK /\ SupplyIsSumOfShares => totalShares \in Nat
  BY SharesAreBounded DEF TypeOK
<1> QED
  BY <1>1, SumForever, PTL

\* A pool whose last share is gone never has a share again, whatever its
\* records still hold and whatever is deposited: a join and a deposit for a
\* given number of shares divide by the total, and the power function, however
\* it rounds, returns a number, which all the shares there are, none, make none.
THEOREM NoSharesForever == Spec => ZeroSupplyIsFinal
<1>1. TypeOK /\ (totalShares \in Nat)' /\ [Next]_vars
        => [Initialized /\ totalShares = 0 => totalShares' = 0]_vars
  <2>1. \A n \in Nat : n <= 0 => n = 0
    OBVIOUS
  <2> QED
    BY <2>1, NothingFromNothing
<1>2. Spec => [][Initialized /\ totalShares = 0 => totalShares' = 0]_vars
  BY <1>1, PoolTypeCorrect, TotalIsNatural, PTL DEF Spec
<1> QED
  BY <1>2, PTL DEF ZeroSupplyIsFinal
-----------------------------------------------------------------------------
(***************************************************************************)
(* The pool implements the vault: every step of CometPool is a step of     *)
(* Vault on what the pool has on record, or leaves it unchanged.  From     *)
(* that, and from where tokens are first bound, follow what init settles,  *)
(* whom a step affects, and that no bound token is ever drained.           *)
(***************************************************************************)
\* The values of Vault's variables booked and terms.
Booked == [t \in Bound |-> records[t].balance]
Terms  == [fee |-> swapFee, weight |-> [t \in Bound |-> records[t].weight],
           scalar |-> [t \in Bound |-> records[t].scalar]]

\* What is booked moves between the pool and the user, under the same terms.
BooksMove(user) ==
  /\ DOMAIN Booked' = DOMAIN Booked
  /\ Promise!Moves(user, [t \in DOMAIN Booked |-> Booked'[t] - Booked[t]])
  /\ Terms' = Terms

\* Tokens are bound by init alone, which leaves a controller behind.
BoundByInit == ~Initialized => Bound = {}
-----------------------------------------------------------------------------
(***************************************************************************)
(* Shares                                                                  *)
(***************************************************************************)
LEMMA MintIssues ==
  ASSUME TokenTypeOK, NEW to \in Users, NEW amount \in Int, MintShares(to, amount)
  PROVE  Promise!IssuesTo(to) /\ totalShares' >= totalShares
<1>1. /\ amount >= 0 /\ totalShares' = totalShares + amount /\ totalShares \in Int
      /\ lpBalance' = [lpBalance EXCEPT ![to] = @ + amount]
  BY DEF MintShares, Received, TokenTypeOK
<1>2. amount = totalShares' - totalShares /\ totalShares' >= totalShares
  BY <1>1
<1> QED
  BY <1>1, <1>2 DEF Promise!IssuesTo

LEMMA RedeemIssues ==
  ASSUME TokenTypeOK, NEW from \in Users, NEW amount \in Int, RedeemShares(from, amount)
  PROVE  Promise!IssuesTo(from) /\ totalShares' <= totalShares
<1> DEFINE pulled == Received(Spent(lpBalance, from, amount), Pool, amount)
           change == totalShares' - totalShares
<1>1. /\ amount >= 0 /\ totalShares' = totalShares - amount /\ totalShares \in Int
      /\ lpBalance' = Spent(pulled, Pool, amount)
      /\ lpBalance \in [Addresses -> Nat]
  BY DEF RedeemShares, TokenTypeOK
<1>2. from \in Addresses /\ Pool \in Addresses /\ from # Pool
  BY PoolIsNoUser DEF Addresses
<1>3. change = -amount /\ totalShares' <= totalShares
  BY <1>1
<1>4. /\ DOMAIN lpBalance' = Addresses
      /\ lpBalance' = [a \in Addresses |-> lpBalance'[a]]
      /\ lpBalance'[from] = lpBalance[from] - amount
      /\ lpBalance'[Pool] = (lpBalance[Pool] + amount) - amount
      /\ \A a \in Addresses \ {from, Pool} : lpBalance'[a] = lpBalance[a]
  BY <1>1, <1>2 DEF Spent, Received
<1>5. lpBalance'[Pool] = lpBalance[Pool] /\ lpBalance'[from] = lpBalance[from] + change
  BY <1>1, <1>2, <1>3, <1>4
<1>6. \A a \in Addresses :
        lpBalance'[a] = IF a = from THEN lpBalance[from] + change ELSE lpBalance[a]
  BY <1>4, <1>5
<1> HIDE DEF change
<1>7. lpBalance' = [lpBalance EXCEPT ![from] = @ + change]
  BY <1>1, <1>2, <1>4, <1>6
<1> QED
  BY <1>3, <1>7 DEF Promise!IssuesTo, change
-----------------------------------------------------------------------------
(***************************************************************************)
(* Tokens                                                                  *)
(***************************************************************************)

\* A handler that pays amounts and adds them to the records moves what is
\* booked, and touches neither the weights nor the scalars.
LEMMA BookedMoves ==
  ASSUME TypeOK, NEW user \in Users, NEW S \in SUBSET Bound, NEW amounts \in [S -> Int],
         NEW R, records' \in [Bound -> R],
         \A t \in S : records'[t] = [records[t] EXCEPT !.balance = @ + amounts[t]],
         \A t \in Bound \ S : records'[t] = records[t],
         tokenBalance' = AfterPaying(user, amounts),
         UNCHANGED swapFee
  PROVE  /\ BooksMove(user)
         /\ \A t \in S : Booked'[t] = Booked[t] + amounts[t]
         /\ \A t \in Bound \ S : Booked'[t] = Booked[t]
<1> DEFINE change == [t \in DOMAIN Booked |-> Booked'[t] - Booked[t]]
<1>1. Bound' = Bound /\ DOMAIN Booked = Bound /\ DOMAIN Booked' = Bound
  BY DEF Bound, Booked
<1>2. \A t \in Bound : /\ records[t] \in Record /\ records[t].balance \in Nat
                       /\ t \in Tokens /\ tokenBalance[t] \in [Addresses -> Nat]
  BY RecordFacts
<1>3. ASSUME NEW t \in S
      PROVE  /\ records'[t].balance = records[t].balance + amounts[t]
             /\ records'[t].weight = records[t].weight
             /\ records'[t].scalar = records[t].scalar
  BY <1>2 DEF Record
<1>4. ASSUME NEW t \in Bound
      PROVE  /\ records'[t].weight = records[t].weight
             /\ records'[t].scalar = records[t].scalar
  BY <1>3
<1>5. Terms' = Terms
  BY <1>1, <1>4 DEF Terms
<1>6. \A t \in Bound : Booked[t] = records[t].balance /\ Booked'[t] = records'[t].balance
  BY <1>1 DEF Booked
<1>7. \A t \in S : Booked'[t] = Booked[t] + amounts[t]
  BY <1>3, <1>6
<1>8. \A t \in Bound \ S : Booked'[t] = Booked[t]
  BY <1>6
<1>9. /\ \A t \in S : change[t] = amounts[t]
      /\ \A t \in Bound \ S : change[t] = 0
      /\ DOMAIN change = Bound
  BY <1>1, <1>2, <1>6, <1>7, <1>8
<1>10. ASSUME NEW t \in Tokens
       PROVE  AfterPaying(user, amounts)[t]
                = IF t \in DOMAIN change
                    THEN [tokenBalance[t] EXCEPT ![user] = @ - change[t], ![Pool] = @ + change[t]]
                    ELSE tokenBalance[t]
  <2> HIDE DEF change
  <2>1. AfterPaying(user, amounts)[t]
          = IF t \in S
              THEN [tokenBalance[t] EXCEPT ![user] = @ - amounts[t], ![Pool] = @ + amounts[t]]
              ELSE tokenBalance[t]
    BY DEF AfterPaying
  <2>2. CASE t \in S
    BY <1>9, <2>1, <2>2
  <2>3. CASE t \in Bound \ S
    <3>1. tokenBalance[t] \in [Addresses -> Nat] /\ user \in Addresses /\ Pool \in Addresses
          /\ user # Pool
      BY <1>2, <2>3, PoolIsNoUser DEF Addresses
    <3>2. [tokenBalance[t] EXCEPT ![user] = @ - 0, ![Pool] = @ + 0] = tokenBalance[t]
      BY <3>1
    <3> QED
      BY <1>9, <2>1, <2>3, <3>2
  <2>4. CASE t \notin Bound
    BY <1>9, <2>1, <2>4
  <2> QED
    BY <2>2, <2>3, <2>4
<1>11. Promise!Moves(user, change)
  <2> HIDE DEF change
  <2>1. tokenBalance' = [t \in Tokens |-> AfterPaying(user, amounts)[t]]
    BY DEF AfterPaying
  <2> QED
    BY <1>10, <2>1 DEF Promise!Moves
<1> QED
  BY <1>1, <1>5, <1>7, <1>8, <1>11 DEF BooksMove
-----------------------------------------------------------------------------
(***************************************************************************)
(* The handlers                                                            *)
(***************************************************************************)

\* The conditions of Settle put together from its parts.
LEMMA SettleOf ==
  ASSUME NEW user \in Users, Initialized,
         BooksMove(user), Promise!IssuesTo(user),
         freeze => /\ \A t \in DOMAIN Booked : Booked'[t] <= Booked[t]
                   /\ totalShares' <= totalShares,
         UNCHANGED <<controller, freeze>>
  PROVE  Promise!Settle(user)
BY DEF BooksMove, Promise!Settle, Initialized, Booked, Terms

LEMMA JoinSettles ==
  ASSUME TypeOK, NEW user \in Users, NEW shares \in Amounts, NEW limits,
         JoinPool(user, shares, limits)
  PROVE  Promise!Settle(user)
<1>1. PICK ratio \in JoinRatios(shares) :
        LET due      == [t \in Bound |-> JoinDue(records[t], ratio, limits[t])]
            deposits == [t \in Bound |-> The(due[t])]
        IN /\ \A t \in Bound : due[t] # {}
           /\ records' = [t \in Bound |-> [records[t] EXCEPT !.balance = @ + deposits[t]]]
           /\ tokenBalance' = AfterPaying(user, deposits)
  BY DEF JoinPool
<1> DEFINE deposits == [t \in Bound |-> The(JoinDue(records[t], ratio, limits[t]))]
           R        == {records'[t] : t \in Bound}
<1>2. Initialized /\ ~freeze
  BY <1>1 DEF JoinRatios
<1>3. /\ \A t \in Bound : JoinDue(records[t], ratio, limits[t]) # {}
      /\ records' = [t \in Bound |-> [records[t] EXCEPT !.balance = @ + deposits[t]]]
      /\ tokenBalance' = AfterPaying(user, deposits)
  BY <1>1
<1>4. deposits \in [Bound -> Int]
  BY <1>3, TheIsOne, DueFacts
<1>5. UNCHANGED <<controller, swapFee, freeze>>
  BY DEF JoinPool
<1>6. Promise!IssuesTo(user)
  BY AmountsAreIntegers, MintIssues DEF JoinPool, TypeOK
<1> HIDE DEF deposits
<1>7. records' \in [Bound -> R]
  BY <1>3
<1>8. \A t \in Bound : records'[t] = [records[t] EXCEPT !.balance = @ + deposits[t]]
  BY <1>3
<1> HIDE DEF R
<1>9. BooksMove(user)
  BY <1>3, <1>4, <1>5, <1>7, <1>8, BookedMoves
<1> QED
  BY <1>2, <1>5, <1>6, <1>9, SettleOf

LEMMA ExitSettles ==
  ASSUME TypeOK, NEW user \in Users, NEW shares \in Amounts, NEW limits,
         ExitPool(user, shares, limits)
  PROVE  Promise!Settle(user)
<1>1. PICK ratio \in ExitRatios(shares) :
        LET due     == [t \in Bound |-> ExitDue(records[t], ratio, limits[t])]
            payouts == [t \in Bound |-> The(due[t])]
        IN /\ \A t \in Bound : due[t] # {}
           /\ records' = [t \in Bound |-> [records[t] EXCEPT !.balance = @ - payouts[t]]]
           /\ tokenBalance' = AfterPaying(user, [t \in Bound |-> -payouts[t]])
  BY DEF ExitPool
<1> DEFINE payouts == [t \in Bound |-> The(ExitDue(records[t], ratio, limits[t]))]
           amounts == [t \in Bound |-> -payouts[t]]
           R       == {records'[t] : t \in Bound}
<1>2. Initialized
  BY <1>1 DEF ExitRatios
<1>3. /\ \A t \in Bound : ExitDue(records[t], ratio, limits[t]) # {}
      /\ records' = [t \in Bound |-> [records[t] EXCEPT !.balance = @ - payouts[t]]]
      /\ tokenBalance' = AfterPaying(user, amounts)
  BY <1>1
<1>4. payouts \in [Bound -> Int] /\ \A t \in Bound : payouts[t] > 0
  BY <1>3, TheIsOne, DueFacts
<1>5. UNCHANGED <<controller, swapFee, freeze>>
  BY DEF ExitPool
<1>6. Promise!IssuesTo(user) /\ totalShares' <= totalShares
  BY AmountsAreIntegers, RedeemIssues DEF ExitPool, TypeOK
<1> HIDE DEF payouts
<1>7. amounts \in [Bound -> Int] /\ \A t \in Bound : amounts[t] < 0
  BY <1>4
<1>8. records' \in [Bound -> R]
  BY <1>3
<1>9. ASSUME NEW t \in Bound
      PROVE  records'[t] = [records[t] EXCEPT !.balance = @ + amounts[t]]
  <2>1. records[t].balance - payouts[t] = records[t].balance + amounts[t]
    BY <1>4, RecordFacts
  <2> QED
    BY <1>3, <2>1
<1>10. tokenBalance' = AfterPaying(user, amounts) /\ UNCHANGED swapFee
  BY <1>3, <1>5
<1> HIDE DEF amounts, R
<1>11. Bound \in SUBSET Bound /\ \A t \in Bound \ Bound : records'[t] = records[t]
  OBVIOUS
<1>12. /\ BooksMove(user)
       /\ \A t \in Bound : Booked'[t] = Booked[t] + amounts[t]
  BY <1>7, <1>8, <1>9, <1>10, <1>11, BookedMoves
<1>13. \A t \in DOMAIN Booked : Booked'[t] <= Booked[t]
  BY <1>7, <1>12, RecordFacts DEF Booked
<1> QED
  BY <1>2, <1>5, <1>6, <1>12, <1>13, SettleOf

\* One token: a deposit or a withdrawal of amount, negative for the latter.
LEMMA OneTokenMoves ==
  ASSUME TypeOK, NEW user \in Users, NEW token \in Bound, NEW amount \in Int,
         records' = Changed(records, token, amount),
         tokenBalance' = AfterPaying(user, [t \in {token} |-> amount]),
         UNCHANGED swapFee
  PROVE  /\ BooksMove(user)
         /\ amount <= 0 => \A t \in DOMAIN Booked : Booked'[t] <= Booked[t]
<1> DEFINE S       == {token}
           amounts == [t \in S |-> amount]
           R       == {records'[t] : t \in Bound}
<1>1. S \in SUBSET Bound /\ amounts \in [S -> Int]
  OBVIOUS
<1>2. records = [t \in Bound |-> records[t]]
  BY DEF TypeOK, Bound
<1>3. records' \in [Bound -> R]
  BY <1>2 DEF Changed
<1>4. \A t \in S : records'[t] = [records[t] EXCEPT !.balance = @ + amounts[t]]
  BY <1>2 DEF Changed
<1>5. \A t \in Bound \ S : records'[t] = records[t]
  BY <1>2 DEF Changed
<1>6. tokenBalance' = AfterPaying(user, amounts) /\ \A t \in S : amounts[t] = amount
  OBVIOUS
<1> HIDE DEF S, amounts, R
<1>7. /\ BooksMove(user)
      /\ \A t \in S : Booked'[t] = Booked[t] + amounts[t]
      /\ \A t \in Bound \ S : Booked'[t] = Booked[t]
  BY <1>1, <1>3, <1>4, <1>5, <1>6, BookedMoves
<1>8. DOMAIN Booked = Bound /\ \A t \in Bound : Booked[t] \in Int
  BY RecordFacts DEF Booked
<1>9. amount <= 0 => \A t \in DOMAIN Booked : Booked'[t] <= Booked[t]
  BY <1>6, <1>7, <1>8
<1> QED
  BY <1>7, <1>9

LEMMA DepositSettles ==
  ASSUME TypeOK, Initialized, ~freeze, NEW user \in Users, NEW token \in Bound,
         NEW amount \in Int, NEW shares \in Int, Deposit(user, token, amount, shares)
  PROVE  Promise!Settle(user)
<1>1. /\ records' = Changed(records, token, amount)
      /\ tokenBalance' = AfterPaying(user, [t \in {token} |-> amount])
      /\ UNCHANGED <<controller, swapFee, freeze>>
  BY DEF Deposit
<1>2. Promise!IssuesTo(user)
  BY MintIssues DEF Deposit, TypeOK
<1> QED
  BY <1>1, <1>2, OneTokenMoves, SettleOf

LEMMA WithdrawSettles ==
  ASSUME TypeOK, Initialized, NEW user \in Users, NEW token \in Bound,
         NEW amount \in Int, NEW shares \in Int, Withdraw(user, token, amount, shares)
  PROVE  Promise!Settle(user)
<1> DEFINE paid == -amount
<1>1. /\ records' = Changed(records, token, paid)
      /\ tokenBalance' = AfterPaying(user, [t \in {token} |-> paid])
      /\ UNCHANGED <<controller, swapFee, freeze>>
  BY DEF Withdraw
<1>2. paid \in Int /\ paid <= 0
  BY RecordFacts DEF Withdraw, CanPush, Addresses
<1>3. Promise!IssuesTo(user) /\ totalShares' <= totalShares
  BY RedeemIssues DEF Withdraw, TypeOK
<1> HIDE DEF paid
<1> QED
  BY <1>1, <1>2, <1>3, OneTokenMoves, SettleOf

LEMMA SwapSettles ==
  ASSUME TypeOK, Initialized, ~freeze, NEW user \in Users, NEW in \in Bound, NEW out \in Bound,
         in # out, NEW amountIn \in Int, NEW amountOut \in Int,
         Swap(user, in, amountIn, out, amountOut)
  PROVE  Promise!Settle(user)
<1> DEFINE S       == {in, out}
           amounts == [t \in S |-> IF t = in THEN amountIn ELSE -amountOut]
           R       == {records'[t] : t \in Bound}
<1>1. /\ records' = Changed(Changed(records, in, amountIn), out, -amountOut)
      /\ tokenBalance' = AfterPaying(user, amounts)
      /\ UNCHANGED <<controller, swapFee, freeze>>
      /\ UNCHANGED tokenVars
  BY DEF Swap, AfterSwap
<1>2. S \in SUBSET Bound /\ amounts \in [S -> Int]
  OBVIOUS
<1>3. records = [t \in Bound |-> records[t]]
  BY DEF TypeOK, Bound
<1>4. records' \in [Bound -> R]
  BY <1>1, <1>3 DEF Changed
<1>5. /\ records'[in] = [records[in] EXCEPT !.balance = @ + amountIn]
      /\ records'[out] = [records[out] EXCEPT !.balance = @ + (-amountOut)]
      /\ \A t \in Bound \ S : records'[t] = records[t]
  BY <1>1, <1>3 DEF Changed
<1>6. \A t \in S : records'[t] = [records[t] EXCEPT !.balance = @ + amounts[t]]
  BY <1>5
<1>7. Promise!IssuesTo(user)
  <2>1. lpBalance' = lpBalance /\ totalShares' = totalShares
    BY <1>1 DEF tokenVars
  <2>2. lpBalance[user] + (totalShares - totalShares) = lpBalance[user]
    BY PoolIsNoUser DEF TypeOK, TokenTypeOK
  <2>3. lpBalance = [lpBalance EXCEPT ![user] = lpBalance[user]]
    BY DEF TypeOK, TokenTypeOK
  <2> QED
    BY <2>1, <2>2, <2>3 DEF Promise!IssuesTo
<1>8. tokenBalance' = AfterPaying(user, amounts) /\ UNCHANGED <<controller, swapFee, freeze>>
  BY <1>1
<1> HIDE DEF S, amounts, R
<1>9. BooksMove(user)
  BY <1>2, <1>4, <1>5, <1>6, <1>8, BookedMoves
<1> QED
  BY <1>7, <1>8, <1>9, SettleOf

LEMMA InitOpens ==
  ASSUME TypeOK, NEW user \in Users, NEW tokens \in InitTokens,
         NEW weights \in InitWeights, NEW balances \in InitBalances, NEW fee \in SwapFees,
         InitPool(user, tokens, weights, balances, fee)
  PROVE  Promise!Open(user)
<1> DEFINE place(t) == CHOOSE i \in DOMAIN tokens : tokens[i] = t
           S        == {tokens[i] : i \in DOMAIN tokens}
           deposits == [t \in S |-> balances[place(t)]]
<1>1. /\ ~Initialized /\ Len(tokens) \in 2 .. 8
      /\ MintShares(user, INIT_POOL_SUPPLY)
      /\ records' = [t \in DOMAIN deposits |-> [balance |-> deposits[t],
                                                weight  |-> weights[place(t)],
                                                scalar  |-> Scalar[t]]]
      /\ tokenBalance' = AfterPaying(user, deposits)
      /\ controller' = user
      /\ freeze' = freeze
  BY DEF InitPool
<1>2. tokens \in Seq(Tokens) /\ INIT_POOL_SUPPLY \in Int
  BY PoolAssumption
<1>3. 1 \in DOMAIN tokens /\ S \subseteq Tokens /\ S # {}
  BY <1>1, <1>2
<1>4. Bound' = S /\ \A t \in S : records'[t].balance = deposits[t]
  BY <1>1 DEF Bound
<1>5. Booked' = deposits
  BY <1>4 DEF Booked
<1> HIDE DEF deposits
<1>6. Promise!Moves(user, Booked')
  BY <1>1, <1>5 DEF Promise!Moves, AfterPaying
<1>7. Promise!IssuesTo(user) /\ totalShares' >= totalShares
  BY <1>1, <1>2, MintIssues DEF TypeOK
<1>8. DOMAIN Booked' = S
  BY <1>4 DEF Booked
<1> HIDE DEF S
<1> QED
  BY <1>1, <1>3, <1>6, <1>7, <1>8 DEF Promise!Open, Booked, Initialized
-----------------------------------------------------------------------------
(***************************************************************************)
(* One step for each part of Next                                          *)
(***************************************************************************)
LEMMA SwapCallSettles ==
  ASSUME TypeOK, BoundByInit, NEW user \in Users, SwapCall(user)
  PROVE  Promise!Settle(user)
<1>1. PICK in, out \in Tokens, amount \in TokenAmounts, price \in MaxLimits :
        \/ \E limit \in MinLimits : SwapExactAmountIn(user, in, amount, out, limit, price)
        \/ \E limit \in MaxLimits : SwapExactAmountOut(user, in, limit, out, amount, price)
  BY DEF SwapCall
<1>2. amount \in Int
  BY InputsAreIntegers
<1>3. \A t \in Bound : Initialized
  BY DEF BoundByInit
<1>4. CASE \E limit \in MinLimits : SwapExactAmountIn(user, in, amount, out, limit, price)
  <2> PICK limit \in MinLimits : SwapExactAmountIn(user, in, amount, out, limit, price)
    BY <1>4
  <2>1. PICK amountOut \in SwapInQuote(in, amount, out, limit, price) :
          Swap(user, in, amount, out, amountOut)
    BY DEF SwapExactAmountIn
  <2>2. in \in Bound /\ out \in Bound /\ in # out /\ ~freeze /\ amountOut \in Int
    BY SwapQuoteFacts
  <2> QED
    BY <1>2, <1>3, <2>1, <2>2, SwapSettles
<1>5. CASE \E limit \in MaxLimits : SwapExactAmountOut(user, in, limit, out, amount, price)
  <2> PICK limit \in MaxLimits : SwapExactAmountOut(user, in, limit, out, amount, price)
    BY <1>5
  <2>1. PICK amountIn \in SwapOutQuote(in, limit, out, amount, price) :
          Swap(user, in, amountIn, out, amount)
    BY DEF SwapExactAmountOut
  <2>2. in \in Bound /\ out \in Bound /\ in # out /\ ~freeze /\ amountIn \in Int
    BY SwapQuoteFacts
  <2> QED
    BY <1>2, <1>3, <2>1, <2>2, SwapSettles
<1> QED
  BY <1>1, <1>4, <1>5

LEMMA DepositCallSettles ==
  ASSUME TypeOK, BoundByInit, NEW user \in Users, DepositCall(user)
  PROVE  Promise!Settle(user)
<1>1. PICK token \in Tokens :
        \/ \E amount \in TokenAmounts, limit \in MinLimits :
             DepToknAmtInGetLpToknsOut(user, token, amount, limit)
        \/ \E shares \in Amounts, limit \in MaxLimits :
             DepLpToknAmtOutGetToknIn(user, token, shares, limit)
  BY DEF DepositCall
<1>2. token \in Bound => Initialized
  BY DEF BoundByInit
<1>3. CASE \E amount \in TokenAmounts, limit \in MinLimits :
             DepToknAmtInGetLpToknsOut(user, token, amount, limit)
  <2> PICK amount \in TokenAmounts, limit \in MinLimits : DepToknAmtInGetLpToknsOut(user, token, amount, limit)
    BY <1>3
  <2>1. PICK shares \in DepInQuote(token, amount, limit) : Deposit(user, token, amount, shares)
    BY DEF DepToknAmtInGetLpToknsOut
  <2> QED
    BY <1>2, <2>1, InputsAreIntegers, OneTokenQuoteFacts, DepositSettles
<1>4. CASE \E shares \in Amounts, limit \in MaxLimits :
             DepLpToknAmtOutGetToknIn(user, token, shares, limit)
  <2> PICK shares \in Amounts, limit \in MaxLimits : DepLpToknAmtOutGetToknIn(user, token, shares, limit)
    BY <1>4
  <2>1. PICK amount \in DepOutQuote(token, shares, limit) : Deposit(user, token, amount, shares)
    BY DEF DepLpToknAmtOutGetToknIn
  <2> QED
    BY <1>2, <2>1, InputsAreIntegers, OneTokenQuoteFacts, DepositSettles
<1> QED
  BY <1>1, <1>3, <1>4

LEMMA WithdrawCallSettles ==
  ASSUME TypeOK, BoundByInit, NEW user \in Users, WithdrawCall(user)
  PROVE  Promise!Settle(user)
<1>1. PICK token \in Tokens :
        \/ \E shares \in Amounts, limit \in MinLimits :
             WdrToknAmtInGetLpToknsOut(user, token, shares, limit)
        \/ \E amount \in TokenAmounts, limit \in MaxLimits :
             WdrToknAmtOutGetLpToknsIn(user, token, amount, limit)
  BY DEF WithdrawCall
<1>2. token \in Bound => Initialized
  BY DEF BoundByInit
<1>3. CASE \E shares \in Amounts, limit \in MinLimits :
             WdrToknAmtInGetLpToknsOut(user, token, shares, limit)
  <2> PICK shares \in Amounts, limit \in MinLimits : WdrToknAmtInGetLpToknsOut(user, token, shares, limit)
    BY <1>3
  <2>1. PICK amount \in WdrInQuote(token, shares, limit) : Withdraw(user, token, amount, shares)
    BY DEF WdrToknAmtInGetLpToknsOut
  <2> QED
    BY <1>2, <2>1, InputsAreIntegers, OneTokenQuoteFacts, WithdrawSettles
<1>4. CASE \E amount \in TokenAmounts, limit \in MaxLimits :
             WdrToknAmtOutGetLpToknsIn(user, token, amount, limit)
  <2> PICK amount \in TokenAmounts, limit \in MaxLimits : WdrToknAmtOutGetLpToknsIn(user, token, amount, limit)
    BY <1>4
  <2>1. PICK shares \in WdrOutQuote(token, amount, limit) : Withdraw(user, token, amount, shares)
    BY DEF WdrToknAmtOutGetLpToknsIn
  <2> QED
    BY <1>2, <2>1, InputsAreIntegers, OneTokenQuoteFacts, WithdrawSettles
<1> QED
  BY <1>1, <1>3, <1>4

\* Each invocation of pool.rs and init.rs is a deal with the user who calls.
LEMMA PoolCallDeals ==
  ASSUME TypeOK, BoundByInit, NEW user \in Users, PoolCall(user)
  PROVE  Promise!Open(user) \/ Promise!Settle(user)
<1>1. CASE InitCall(user)
  BY <1>1, InitOpens DEF InitCall
<1>2. CASE JoinCall(user)
  BY <1>2, JoinSettles DEF JoinCall
<1>3. CASE ExitCall(user)
  BY <1>3, ExitSettles DEF ExitCall
<1>4. CASE SwapCall(user)
  BY <1>4, SwapCallSettles
<1>5. CASE DepositCall(user)
  BY <1>5, DepositCallSettles
<1>6. CASE WithdrawCall(user)
  BY <1>6, WithdrawCallSettles
<1> QED
  BY <1>1, <1>2, <1>3, <1>4, <1>5, <1>6 DEF PoolCall

LEMMA PoolNextDeals ==
  ASSUME TypeOK, BoundByInit, PoolNext
  PROVE  \E user \in Users : Promise!Open(user) \/ Promise!Settle(user)
<1>1. PICK user \in Users : PoolCall(user)
  BY DEF PoolNext, PoolCall, InitNext, JoinNext, ExitNext, SwapNext, DepositNext,
         WithdrawNext
<1> QED
  BY <1>1, PoolCallDeals

LEMMA AdminNextAdministers ==
  ASSUME TypeOK, AdminNext
  PROVE  \E user \in Users : Promise!Administer(user)
<1> USE DEF Promise!Administer, SetController, SetFreezeStatus, tokenVars, Bound
<1>1. PICK user \in Users : \/ \E manager \in Users : SetController(user, manager)
                            \/ \E val \in BOOLEAN : SetFreezeStatus(user, val)
  BY DEF AdminNext
<1>2. CASE \E manager \in Users : SetController(user, manager)
  BY <1>2 DEF TypeOK
<1>3. CASE \E val \in BOOLEAN : SetFreezeStatus(user, val)
  BY <1>1, <1>3
<1> QED
  BY <1>1, <1>2, <1>3

LEMMA DonateNextGives ==
  ASSUME TypeOK, DonateNext
  PROVE  \E user \in Users, token \in Tokens : Promise!Give(user, token)
<1>1. PICK user \in Users, token \in Tokens, amount \in TokenAmounts :
        Donate(user, token, amount)
  BY DEF DonateNext
<1> DEFINE given == tokenBalance'[token][Pool] - tokenBalance[token][Pool]
<1>2. /\ tokenBalance' = AfterPaying(user, [t \in {token} |-> amount])
      /\ amount \in Int /\ amount > 0
      /\ UNCHANGED poolVars /\ UNCHANGED tokenVars
  BY <1>1, InputsAreIntegers DEF Donate
<1>3. /\ tokenBalance[token] \in [Addresses -> Nat]
      /\ user \in Addresses /\ Pool \in Addresses /\ user # Pool
  BY PoolIsNoUser DEF TypeOK, Addresses
<1>4. tokenBalance'[token][Pool] = tokenBalance[token][Pool] + amount
  BY <1>2, <1>3 DEF AfterPaying
<1>5. given = amount /\ tokenBalance'[token][Pool] >= tokenBalance[token][Pool]
  BY <1>2, <1>3, <1>4
<1> HIDE DEF given
<1>6. Promise!Moves(user, [t \in {token} |-> given])
  BY <1>2, <1>5 DEF Promise!Moves, AfterPaying
<1>7. Promise!Give(user, token)
  BY <1>2, <1>5, <1>6 DEF Promise!Give, poolVars, tokenVars, given, Bound
<1> QED
  BY <1>7

LEMMA HolderStepTrades ==
  ASSUME TypeOK, HolderStep
  PROVE  Promise!Trade
BY HoldersOnlyBurn DEF HolderStep, TypeOK, Promise!Trade, Bound

\* Every step of the pool is a step of the vault, or none.
LEMMA NextIsVaultStep ==
  TypeOK /\ BoundByInit /\ [Next]_vars => [Promise!Next]_(Promise!vaultVars)
<1> SUFFICES ASSUME TypeOK, BoundByInit, [Next]_vars
             PROVE  [Promise!Next]_(Promise!vaultVars)
  OBVIOUS
<1>1. CASE PoolNext
  BY <1>1, PoolNextDeals DEF Promise!Next
<1>2. CASE AdminNext
  BY <1>2, AdminNextAdministers DEF Promise!Next
<1>3. CASE DonateNext
  BY <1>3, DonateNextGives DEF Promise!Next
<1>4. CASE HolderStep
  BY <1>4, HolderStepTrades DEF Promise!Next
<1>5. CASE UNCHANGED vars
  BY <1>5 DEF vars, Promise!vaultVars, Bound
<1> QED
  BY <1>1, <1>2, <1>3, <1>4, <1>5 DEF Next

LEMMA InitIsVaultInit == Init => Promise!Init
<1> SUFFICES ASSUME Init PROVE Promise!Init
  OBVIOUS
<1>1. Bound = {}
  BY DEF Init, Bound
<1>2. [t \in Bound |-> records[t].balance] = <<>>
  BY <1>1
<1>3. \A t \in Tokens : tokenBalance[t][Pool] = 0
  BY DEF Init, Addresses
<1>4. \A a \in Users \cup {Pool} : lpBalance[a] = 0
  BY DEF Init, TokenInit, Addresses
<1> QED
  BY <1>2, <1>3, <1>4 DEF Init, TokenInit, Promise!Init
-----------------------------------------------------------------------------
LEMMA BoundByInitNext ==
  ASSUME TypeOK, BoundByInit, [Next]_vars
  PROVE  BoundByInit'
<1>1. [Promise!Next]_(Promise!vaultVars)
  BY NextIsVaultStep
<1>2. /\ NoController \notin Users
      /\ Bound = DOMAIN Booked
      /\ Bound' = DOMAIN Booked'
  BY PoolAssumption DEF Booked
<1>3. CASE UNCHANGED Promise!vaultVars
  <2>1. controller' = controller /\ Booked' = Booked
    BY <1>3 DEF Promise!vaultVars, Booked
  <2> QED
    BY <1>2, <2>1 DEF BoundByInit, Initialized
<1>4. ASSUME NEW user \in Users, Promise!Open(user)
      PROVE  BoundByInit'
  BY <1>2, <1>4 DEF Promise!Open, BoundByInit, Initialized
<1>5. ASSUME NEW user \in Users, Promise!Settle(user)
      PROVE  BoundByInit'
  BY <1>2, <1>5 DEF Promise!Settle, BoundByInit, Initialized
<1>6. ASSUME NEW user \in Users, Promise!Administer(user)
      PROVE  BoundByInit'
  BY <1>2, <1>6 DEF Promise!Administer, BoundByInit, Initialized
<1>7. ASSUME NEW user \in Users, NEW token \in Tokens, Promise!Give(user, token)
      PROVE  BoundByInit'
  <2>1. controller' = controller /\ Booked' = Booked
    BY <1>7 DEF Promise!Give, Booked
  <2> QED
    BY <1>2, <2>1 DEF BoundByInit, Initialized
<1>8. CASE Promise!Trade
  <2>1. controller' = controller /\ Booked' = Booked
    BY <1>8 DEF Promise!Trade, Booked
  <2> QED
    BY <1>2, <2>1 DEF BoundByInit, Initialized
<1> QED
  BY <1>1, <1>3, <1>4, <1>5, <1>6, <1>7, <1>8 DEF Promise!Next

LEMMA BoundByInitForever == Spec => []BoundByInit
<1>1. Init => BoundByInit
  BY DEF Init, BoundByInit, Bound
<1>2. TypeOK /\ BoundByInit /\ [Next]_vars => BoundByInit'
  BY BoundByInitNext
<1> QED
  BY <1>1, <1>2, PoolTypeCorrect, PTL DEF Spec

\* The pool keeps the vault's promise: whatever amounts its entry points
\* compute and in whatever order they are called, each moves between the pool
\* and its caller exactly what it puts on record, and gives or takes shares of
\* nobody else.
THEOREM PoolImplementsVault == Spec => PoolIsAVault
<1>1. Init => Promise!Init
  BY InitIsVaultInit
<1>2. TypeOK /\ BoundByInit /\ [Next]_vars => [Promise!Next]_(Promise!vaultVars)
  BY NextIsVaultStep
<1>3. Spec => Promise!Spec
  BY <1>1, <1>2, PoolTypeCorrect, BoundByInitForever, PTL DEF Spec, Promise!Spec
<1> QED
  BY <1>3 DEF PoolIsAVault
-----------------------------------------------------------------------------
(***************************************************************************)
(* Whose shares and tokens a call changes                                  *)
(***************************************************************************)
LEMMA DealsLeaveOthersAlone ==
  ASSUME TypeOK, NEW user \in Users, NEW amounts, Promise!Moves(user, amounts),
         Promise!IssuesTo(user)
  PROVE  OthersKeepTheirs(user)
<1> SUFFICES ASSUME NEW other \in Users \ {user}
             PROVE  /\ lpBalance'[other] = lpBalance[other]
                    /\ \A t \in Tokens : tokenBalance'[t][other] = tokenBalance[t][other]
  BY DEF OthersKeepTheirs
<1>1. other \in Addresses /\ other # Pool /\ other # user
  BY PoolIsNoUser DEF Addresses
<1>2. lpBalance'[other] = lpBalance[other]
  BY <1>1 DEF Promise!IssuesTo, TypeOK, TokenTypeOK
<1>3. ASSUME NEW t \in Tokens
      PROVE  tokenBalance'[t][other] = tokenBalance[t][other]
  <2>1. tokenBalance[t] \in [Addresses -> Nat]
    BY DEF TypeOK
  <2> QED
    BY <1>1, <2>1 DEF Promise!Moves
<1> QED
  BY <1>2, <1>3

\* What moves in an invocation moves between the pool and the user who calls,
\* whichever entry point it is: it settles his own deal with the vault, or opens
\* the vault in his name, and never somebody else's.
THEOREM EveryCallIsItsCallersDeal ==
  Spec => [][\A user \in Users :
               PoolCall(user) => Promise!Open(user) \/ Promise!Settle(user)]_vars
<1> DEFINE Deals == \A user \in Users :
                      PoolCall(user) => Promise!Open(user) \/ Promise!Settle(user)
<1>1. TypeOK /\ BoundByInit => Deals
  BY PoolCallDeals
<1> HIDE DEF Deals
<1>2. TypeOK /\ BoundByInit /\ [Next]_vars => [Deals]_vars
  BY <1>1
<1>3. Spec => [][Deals]_vars
  BY <1>2, PoolTypeCorrect, BoundByInitForever, PTL DEF Spec
<1> QED
  BY <1>3 DEF Deals

\* A spender takes no more than the allowance he reads, and nobody else takes
\* anything.
LEMMA HoldersTakeWhatTheyMay ==
  ASSUME TokenTypeOK, NEW user \in Users, HolderCall(user), NEW other \in Users \ {user}
  PROVE  lpBalance[other] - lpBalance'[other] <= MayTake(user, other)
<1>1. /\ lpBalance \in [Addresses -> Nat] /\ user \in Addresses /\ other \in Addresses
      /\ Amounts \subseteq Int
      /\ \A owner \in Users : owner \in Addresses
  BY PoolIsNoUser, AmountsAreIntegers DEF TokenTypeOK
<1>2. MayTake(user, other) \in Nat
  BY ReadAllowanceType DEF MayTake
<1>3. \A amount \in Amounts : amount \in Int
  BY <1>1
<1>4. ASSUME NEW from \in Users, NEW to \in Addresses, NEW amount \in Amounts, amount >= 0,
             MoveShares(from, to, amount)
      PROVE  /\ lpBalance'[other] \in Int
             /\ lpBalance[other] - lpBalance'[other] <= amount
             /\ from # other => lpBalance[other] - lpBalance'[other] <= 0
  <2>1. lpBalance' = [[lpBalance EXCEPT ![from] = @ - amount] EXCEPT ![to] = @ + amount]
    BY <1>4 DEF MoveShares, Spent, Received
  <2>2. lpBalance'[other]
          = (IF other = from THEN lpBalance[other] - amount ELSE lpBalance[other])
              + (IF other = to THEN amount ELSE 0)
    BY <1>1, <1>3, <2>1
  <2> QED
    BY <1>1, <1>3, <1>4, <2>2
<1>5. ASSUME NEW from \in Users, NEW amount \in Amounts, amount >= 0,
             DestroyShares(from, amount)
      PROVE  /\ lpBalance'[other] \in Int
             /\ lpBalance[other] - lpBalance'[other] <= amount
             /\ from # other => lpBalance[other] - lpBalance'[other] <= 0
  <2>1. lpBalance' = [lpBalance EXCEPT ![from] = @ - amount]
    BY <1>5 DEF DestroyShares, Spent
  <2>2. lpBalance'[other] = IF other = from THEN lpBalance[other] - amount ELSE lpBalance[other]
    BY <1>1, <1>3, <2>1
  <2> QED
    BY <1>1, <1>3, <1>5, <2>2
<1>6. lpBalance[other] \in Nat
  BY <1>1
<1>7. ASSUME NEW from \in Users, NEW amount \in Amounts, amount >= 0, user \in Spenders,
             SpendAllowance(from, user, amount),
             lpBalance'[other] \in Int,
             lpBalance[other] - lpBalance'[other] <= amount,
             from # other => lpBalance[other] - lpBalance'[other] <= 0
      PROVE  lpBalance[other] - lpBalance'[other] <= MayTake(user, other)
  <2>1. from = other => amount <= MayTake(user, other)
    BY <1>7 DEF SpendAllowance, MayTake
  <2> QED
    BY <1>2, <1>3, <1>6, <1>7, <2>1
<1>8. CASE \E spender \in Spenders, amount \in Amounts, until \in 0 .. MaxLedger :
             Approve(user, spender, amount, until)
  <2>1. lpBalance' = lpBalance
    BY <1>8 DEF Approve
  <2> QED
    BY <1>2, <1>6, <2>1
<1>9. CASE \E to \in Addresses, amount \in Amounts : Transfer(user, to, amount)
  <2>1. lpBalance'[other] \in Int /\ lpBalance[other] - lpBalance'[other] <= 0
    BY <1>4, <1>9 DEF Transfer
  <2> QED
    BY <1>2, <1>6, <2>1
<1>10. CASE \E amount \in Amounts : Burn(user, amount)
  <2>1. lpBalance'[other] \in Int /\ lpBalance[other] - lpBalance'[other] <= 0
    BY <1>5, <1>10 DEF Burn
  <2> QED
    BY <1>2, <1>6, <2>1
<1>11. CASE user \in Spenders /\ \E from \in Users, amount \in Amounts, to \in Addresses :
              TransferFrom(user, from, to, amount)
  BY <1>4, <1>7, <1>11 DEF TransferFrom
<1>12. CASE user \in Spenders /\ \E from \in Users, amount \in Amounts :
              BurnFrom(user, from, amount)
  BY <1>5, <1>7, <1>12 DEF BurnFrom
<1> QED
  BY <1>8, <1>9, <1>10, <1>11, <1>12 DEF HolderCall

\* Whichever entry point of the pool a user calls, it changes the shares and the
\* tokens of nobody but that user; what he calls of the share token takes from
\* anybody else at most what that owner's allowance to him reads.
THEOREM NobodyElseIsAffected == Spec => OnlyTheCallerIsAffected
<1> DEFINE Pays(user)  == PoolCall(user) => OthersKeepTheirs(user)
           Takes(user) == HolderCall(user) => \A other \in Users \ {user} :
                            lpBalance[other] - lpBalance'[other] <= MayTake(user, other)
           ForEach     == \A user \in Users : Pays(user) /\ Takes(user)
<1>1. ASSUME TypeOK, BoundByInit, NEW user \in Users PROVE Pays(user)
  <2> SUFFICES ASSUME PoolCall(user) PROVE OthersKeepTheirs(user)
    OBVIOUS
  <2>1. Promise!Open(user) \/ Promise!Settle(user)
    BY <1>1, PoolCallDeals
  <2>2. PICK amounts : Promise!Moves(user, amounts) /\ Promise!IssuesTo(user)
    BY <2>1 DEF Promise!Open, Promise!Settle
  <2> QED
    BY <1>1, <2>2, DealsLeaveOthersAlone
<1>2. ASSUME TypeOK, NEW user \in Users PROVE Takes(user)
  BY <1>2, HoldersTakeWhatTheyMay DEF TypeOK
<1> HIDE DEF Pays, Takes
<1>3. TypeOK /\ BoundByInit => ForEach
  BY <1>1, <1>2
<1> HIDE DEF ForEach
<1>4. TypeOK /\ BoundByInit /\ [Next]_vars => [ForEach]_vars
  BY <1>3
<1>5. Spec => [][ForEach]_vars
  BY <1>4, PoolTypeCorrect, BoundByInitForever, PTL DEF Spec
<1>6. [ForEach]_vars
      => [\A user \in Users :
            /\ PoolCall(user) => OthersKeepTheirs(user)
            /\ HolderCall(user) => \A other \in Users \ {user} :
                 lpBalance[other] - lpBalance'[other] <= MayTake(user, other)]_vars
  BY DEF ForEach, Pays, Takes
<1> QED
  BY <1>5, <1>6, PTL DEF OnlyTheCallerIsAffected

TermsStay ==
  /\ DOMAIN records' = Bound
  /\ swapFee' = swapFee
  /\ \A t \in Bound : /\ records'[t].weight = records[t].weight
                      /\ records'[t].scalar = records[t].scalar

LEMMA SameTerms ==
  ASSUME DOMAIN Booked' = DOMAIN Booked, Terms' = Terms
  PROVE  TermsStay
<1>1. DOMAIN records' = Bound
  BY DEF Booked, Bound
<1>2. swapFee' = swapFee /\ Terms'.weight = Terms.weight /\ Terms'.scalar = Terms.scalar
  BY DEF Terms
<1>3. /\ \A t \in DOMAIN records' : Terms'.weight[t] = records'[t].weight
      /\ \A t \in DOMAIN records' : Terms'.scalar[t] = records'[t].scalar
      /\ \A t \in Bound : Terms.weight[t] = records[t].weight
      /\ \A t \in Bound : Terms.scalar[t] = records[t].scalar
  BY DEF Terms, Bound
<1> QED
  BY <1>1, <1>2, <1>3 DEF TermsStay

LEMMA TermsStayNext ==
  ASSUME TypeOK, BoundByInit, [Next]_vars, Initialized
  PROVE  TermsStay
<1>1. [Promise!Next]_(Promise!vaultVars)
  BY NextIsVaultStep
<1>2. DOMAIN Booked' = DOMAIN Booked /\ Terms' = Terms
  <2>1. CASE UNCHANGED Promise!vaultVars
    BY <2>1 DEF Promise!vaultVars, Booked, Terms
  <2>2. ASSUME NEW user \in Users
        PROVE  ~Promise!Open(user)
    BY DEF Promise!Open, Initialized
  <2>3. ASSUME NEW user \in Users, Promise!Settle(user)
        PROVE  DOMAIN Booked' = DOMAIN Booked /\ Terms' = Terms
    BY <2>3 DEF Promise!Settle, Booked, Terms
  <2>4. ASSUME NEW user \in Users, Promise!Administer(user)
        PROVE  DOMAIN Booked' = DOMAIN Booked /\ Terms' = Terms
    BY <2>4 DEF Promise!Administer, Booked, Terms
  <2>5. ASSUME NEW user \in Users, NEW token \in Tokens, Promise!Give(user, token)
        PROVE  DOMAIN Booked' = DOMAIN Booked /\ Terms' = Terms
    BY <2>5 DEF Promise!Give, Booked, Terms
  <2>6. CASE Promise!Trade
    BY <2>6 DEF Promise!Trade, Booked, Terms
  <2> QED
    BY <1>1, <2>1, <2>2, <2>3, <2>4, <2>5, <2>6 DEF Promise!Next
<1> QED
  BY <1>2, SameTerms

\* What init has settled is settled: no entry point, no holder of shares and no
\* controller changes which tokens are bound, a weight, a scalar or the fee.
THEOREM TermsAreFinal == Spec => InitIsFinal
<1>1. TypeOK /\ BoundByInit /\ [Next]_vars => [Initialized => TermsStay]_vars
  BY TermsStayNext
<1>2. Spec => [][Initialized => TermsStay]_vars
  BY <1>1, PoolTypeCorrect, BoundByInitForever, PTL DEF Spec
<1>3. [Initialized => TermsStay]_vars
      => [Initialized =>
            /\ DOMAIN records' = Bound
            /\ swapFee' = swapFee
            /\ \A t \in Bound : /\ records'[t].weight = records[t].weight
                                /\ records'[t].scalar = records[t].scalar]_vars
  BY DEF TermsStay
<1> QED
  BY <1>2, <1>3, PTL DEF InitIsFinal
-----------------------------------------------------------------------------
(***************************************************************************)
(* What init settles                                                       *)
(***************************************************************************)
Weights == [t \in Bound |-> records[t].weight]

\* The weights of the records are those of the vector that init was given,
\* once each, because no token is in its vector twice.
LEMMA InitWeightsAddUp ==
  ASSUME NEW user \in Users, NEW tokens \in InitTokens, NEW weights \in InitWeights,
         NEW balances \in InitBalances, NEW fee \in SwapFees,
         InitPool(user, tokens, weights, balances, fee)
  PROVE  /\ Bound' = {tokens[i] : i \in DOMAIN tokens}
         /\ SumFunction(Weights') = STROOP
<1> DEFINE D        == DOMAIN tokens
           place(t) == CHOOSE i \in D : tokens[i] = t
           S        == {tokens[i] : i \in D}
           n        == Len(tokens)
<1>1. /\ n = Len(weights)
      /\ \A i, j \in D : tokens[i] = tokens[j] => i = j
      /\ FoldFunction(+, 0, weights) = STROOP
      /\ DOMAIN records' = S
      /\ \A t \in S : records'[t].weight = weights[place(t)]
  BY DEF InitPool, NoDuplicates
<1>2. tokens \in Seq(Tokens) /\ weights \in Seq(Int)
  BY PoolAssumption, I128Assumption DEF I128
<1>3. /\ n \in Nat /\ D = 1 .. n
      /\ tokens \in [1 .. n -> Tokens] /\ weights \in [1 .. n -> Int]
  <2>1. n \in Nat /\ D = 1 .. n /\ tokens \in [1 .. n -> Tokens]
    BY <1>2
  <2>2. weights \in [1 .. Len(weights) -> Int]
    BY <1>2
  <2> QED
    BY <1>1, <2>1, <2>2
<1>4. IsFiniteSet(D)
  BY <1>3, FS_Interval
<1>5. tokens \in [D -> S] /\ weights \in [D -> Int]
  BY <1>3
<1>6. IsFiniteSet(S)
  <2>1. tokens \in Surjection(D, S)
    BY <1>5 DEF Surjection
  <2> QED
    BY <1>4, <2>1, FS_Surjection
<1>7. \A i \in D : records'[tokens[i]].weight = weights[i]
  BY <1>1
<1>8. Weights' = [t \in S |-> records'[t].weight] /\ Bound' = S
  BY <1>1 DEF Weights, Bound
<1>9. Weights' \in [S -> Int] /\ \A i \in D : weights[i] = Weights'[tokens[i]]
  BY <1>5, <1>7, <1>8
<1> HIDE DEF D, place, n
<1>10. SumFunctionOnSet(weights, D) = SumFunctionOnSet(Weights', S)
  <2> DEFINE g == Weights'
  <2>1. g \in [S -> Int] /\ \A i \in D : weights[i] = g[tokens[i]]
    BY <1>9
  <2>2. \A i, j \in D : tokens[i] = tokens[j] => i = j
    BY <1>1
  <2> HIDE DEF g
  <2>3. SumFunctionOnSet(weights, D) = SumFunctionOnSet(g, {tokens[i] : i \in D})
    <3> HIDE DEF S
    <3>1. /\ IsFiniteSet(D) /\ IsFiniteSet(S) /\ tokens \in [D -> S]
          /\ weights \in [D -> Int] /\ g \in [S -> Int]
          /\ \A i \in D : weights[i] = g[tokens[i]]
      BY <1>4, <1>5, <1>6, <2>1
    <3> QED
      BY ONLY <2>2, <3>1, SumOfRenamed
  <2> QED
    BY <2>3 DEF g
<1> HIDE DEF S
<1>11. SumFunctionOnSet(weights, D) = STROOP
  BY <1>1, <1>5 DEF FoldFunction, SumFunctionOnSet
<1>12. SumFunctionOnSet(Weights', S) = SumFunction(Weights')
  BY <1>9 DEF SumFunction
<1> QED
  BY <1>8, <1>10, <1>11, <1>12 DEF S, D

LEMMA InitIsWellFormed ==
  ASSUME InitNext
  PROVE  WellFormedPool'
<1>1. PICK user \in Users, tokens \in InitTokens, weights \in InitWeights,
           balances \in InitBalances, fee \in SwapFees :
             InitPool(user, tokens, weights, balances, fee)
  BY DEF InitNext, InitCall
<1>2. Bound' = {tokens[i] : i \in DOMAIN tokens} /\ SumFunction(Weights') = STROOP
  BY <1>1, InitWeightsAddUp
<1>3. /\ Len(tokens) \in 2 .. 8 /\ \A i, j \in DOMAIN tokens : tokens[i] = tokens[j] => i = j
      /\ swapFee' \in MIN_FEE .. MAX_FEE
  BY <1>1 DEF InitPool, NoDuplicates
<1>4. 1 \in DOMAIN tokens /\ 2 \in DOMAIN tokens
  BY <1>3, PoolAssumption
<1>5. tokens[1] # tokens[2] /\ tokens[1] \in Bound' /\ tokens[2] \in Bound'
  BY <1>2, <1>3, <1>4
<1> QED
  BY <1>2, <1>3, <1>5 DEF WellFormedPool, Weights

LEMMA WellFormedNext ==
  ASSUME TypeOK, BoundByInit, WellFormedPool, [Next]_vars
  PROVE  WellFormedPool'
<1>1. CASE InitNext
  BY <1>1, InitIsWellFormed
<1>2. CASE ~InitNext /\ ~Initialized
  BY <1>2, OnlyInitInitializes DEF WellFormedPool
<1>3. CASE Initialized
  <2>1. TermsStay
    BY <1>3, TermsStayNext
  <2>2. Bound' = Bound /\ swapFee' = swapFee /\ Weights' = Weights
    BY <2>1 DEF TermsStay, Bound, Weights
  <2>3. /\ \E t, u \in Bound : t # u
        /\ SumFunction(Weights) = STROOP
        /\ swapFee \in MIN_FEE .. MAX_FEE
    BY <1>3 DEF WellFormedPool, Weights
  <2> QED
    BY <2>2, <2>3 DEF WellFormedPool, Weights
<1> QED
  BY <1>1, <1>2, <1>3

\* A pool has at least two different tokens, weights that add up to one and a
\* fee within its bounds, whatever vectors init was called with and whatever
\* happened afterwards.
THEOREM PoolsAreWellFormed == Spec => []WellFormedPool
<1>1. Init => WellFormedPool
  BY DEF Init, WellFormedPool, Initialized
<1>2. TypeOK /\ BoundByInit /\ WellFormedPool /\ [Next]_vars => WellFormedPool'
  BY WellFormedNext
<1> QED
  BY <1>1, <1>2, PoolTypeCorrect, BoundByInitForever, PTL DEF Spec
-----------------------------------------------------------------------------
(***************************************************************************)
(* Balances that cannot be scaled                                          *)
(***************************************************************************)
Outgrown(t) == records[t].balance * records[t].scalar > I128Max

OutgrownStay == \A t \in Bound : Outgrown(t) => records'[t] = records[t]

Scalable(t) == CanUpscale(records[t].balance, records[t].scalar)

LEMMA ScalableIsNotOutgrown ==
  ASSUME TypeOK, NEW t \in Bound, Scalable(t)
  PROVE  ~Outgrown(t)
<1>1. records[t].balance * records[t].scalar \in Nat
  BY DEF TypeOK, Record
<1>2. records[t].balance * records[t].scalar \in I128
  BY DEF Scalable, CanUpscale, Checked
<1> QED
  BY <1>1, <1>2, I128Assumption DEF Outgrown, I128

\* A handler that has found a price for every token whose record it changes
\* changes none that is outgrown.
LEMMA ScalableChangesOnly ==
  ASSUME TypeOK, NEW S, \A t \in S \cap Bound : Scalable(t),
         \A t \in Bound \ S : records'[t] = records[t]
  PROVE  OutgrownStay
BY ScalableIsNotOutgrown DEF OutgrownStay

LEMMA DueScales ==
  \A t, ratio, limit :
    JoinDue(records[t], ratio, limit) # {} \/ ExitDue(records[t], ratio, limit) # {}
    => Scalable(t)
BY DEF JoinDue, ExitDue, CalcJoinDepositAmount, CalcExitWithdrawalAmount, Scalable

LEMMA SwapQuotesScale ==
  \A in, amount, out, limit, price :
    \/ SwapInQuote(in, amount, out, limit, price) # {}
    \/ SwapOutQuote(in, limit, out, amount, price) # {}
    => Scalable(in) /\ Scalable(out)
<1> TAKE in, amount, out, limit, price
<1>1. CalcTokenOutGivenTokenIn(records[in], records[out], amount, swapFee) # {}
      => Scalable(in) /\ Scalable(out)
  BY DEF CalcTokenOutGivenTokenIn, Scalable
<1>2. CalcTokenInGivenTokenOut(records[in], records[out], amount, swapFee) # {}
      => Scalable(in) /\ Scalable(out)
  BY DEF CalcTokenInGivenTokenOut, Scalable
<1>3. SwapInQuote(in, amount, out, limit, price) # {}
      => CalcTokenOutGivenTokenIn(records[in], records[out], amount, swapFee) # {}
  BY Zenon DEF SwapInQuote
<1>4. SwapOutQuote(in, limit, out, amount, price) # {}
      => CalcTokenInGivenTokenOut(records[in], records[out], amount, swapFee) # {}
  BY Zenon DEF SwapOutQuote
<1> QED
  BY <1>1, <1>2, <1>3, <1>4

LEMMA OneTokenQuotesScale ==
  \A token, given, limit :
    \/ DepInQuote(token, given, limit) # {} \/ DepOutQuote(token, given, limit) # {}
    \/ WdrInQuote(token, given, limit) # {} \/ WdrOutQuote(token, given, limit) # {}
    => Scalable(token)
<1> TAKE token, given, limit
<1>1. DepInQuote(token, given, limit) # {} => Scalable(token)
  BY DEF DepInQuote, CalcLpTokenAmountGivenTokenDepositsIn, Scalable
<1>2. DepOutQuote(token, given, limit) # {} => Scalable(token)
  BY DEF DepOutQuote, CalcTokenDepositsInGivenLpTokenAmount, Scalable
<1>3. WdrInQuote(token, given, limit) # {} => Scalable(token)
  BY DEF WdrInQuote, CalcTokenWithdrawalAmountGivenLpTokenAmount, Scalable
<1>4. WdrOutQuote(token, given, limit) # {} => Scalable(token)
  BY DEF WdrOutQuote, CalcLpTokenAmountGivenTokenWithdrawalAmount, Scalable
<1> QED
  BY <1>1, <1>2, <1>3, <1>4

LEMMA ChangedOnly ==
  ASSUME TypeOK, NEW S, NEW token \in S, NEW amount, records' = Changed(records, token, amount)
  PROVE  \A t \in Bound \ S : records'[t] = records[t]
BY DEF TypeOK, Changed

LEMMA JoinExitKeepOutgrown ==
  ASSUME TypeOK, JoinNext \/ ExitNext
  PROVE  OutgrownStay
<1>1. ASSUME NEW user, NEW shares, NEW limits, JoinPool(user, shares, limits)
      PROVE  \A t \in Bound : Scalable(t)
  BY <1>1, DueScales DEF JoinPool
<1>2. ASSUME NEW user, NEW shares, NEW limits, ExitPool(user, shares, limits)
      PROVE  \A t \in Bound : Scalable(t)
  BY <1>2, DueScales DEF ExitPool
<1>3. \A t \in Bound : Scalable(t)
  BY <1>1, <1>2 DEF JoinNext, JoinCall, ExitNext, ExitCall
<1> QED
  BY <1>3, ScalableChangesOnly

LEMMA SwapKeepsOutgrown ==
  ASSUME TypeOK, SwapNext
  PROVE  OutgrownStay
<1>1. PICK user, in, amountIn, out, amountOut :
        Swap(user, in, amountIn, out, amountOut) /\ Scalable(in) /\ Scalable(out)
  BY SwapQuotesScale DEF SwapNext, SwapCall, SwapExactAmountIn, SwapExactAmountOut
<1>2. \A t \in Bound \ {in, out} : records'[t] = records[t]
  BY <1>1 DEF Swap, AfterSwap, Changed, TypeOK
<1> QED
  BY <1>1, <1>2, ScalableChangesOnly

LEMMA OneTokenKeepsOutgrown ==
  ASSUME TypeOK, DepositNext \/ WithdrawNext
  PROVE  OutgrownStay
<1>1. CASE DepositNext
  <2>1. PICK user, token, amount, shares :
          Deposit(user, token, amount, shares) /\ Scalable(token)
    BY <1>1, OneTokenQuotesScale
    DEF DepositNext, DepositCall, DepToknAmtInGetLpToknsOut, DepLpToknAmtOutGetToknIn
  <2>2. \A t \in Bound \ {token} : records'[t] = records[t]
    BY <2>1, ChangedOnly DEF Deposit
  <2> QED
    BY <2>1, <2>2, ScalableChangesOnly
<1>2. CASE WithdrawNext
  <2>1. PICK user, token, amount, shares :
          Withdraw(user, token, amount, shares) /\ Scalable(token)
    BY <1>2, OneTokenQuotesScale
    DEF WithdrawNext, WithdrawCall, WdrToknAmtInGetLpToknsOut, WdrToknAmtOutGetLpToknsIn
  <2>2. \A t \in Bound \ {token} : records'[t] = records[t]
    BY <2>1, ChangedOnly DEF Withdraw
  <2> QED
    BY <2>1, <2>2, ScalableChangesOnly
<1> QED
  BY <1>1, <1>2

LEMMA OutgrownNext ==
  ASSUME TypeOK, BoundByInit, Next
  PROVE  OutgrownStay
<1>1. CASE InitNext
  <2>1. ~Initialized
    BY <1>1, InitIsFirst
  <2> QED
    BY <2>1 DEF BoundByInit, OutgrownStay
<1>2. CASE UNCHANGED records
  BY <1>2 DEF OutgrownStay
<1>3. AdminNext => UNCHANGED records
  BY DEF AdminNext, SetController, SetFreezeStatus
<1>4. DonateNext => UNCHANGED records
  BY DEF DonateNext, Donate, poolVars
<1>5. HolderStep => UNCHANGED records
  BY DEF HolderStep
<1> QED
  BY <1>1, <1>2, <1>3, <1>4, <1>5, JoinExitKeepOutgrown, SwapKeepsOutgrown,
     OneTokenKeepsOutgrown DEF Next, PoolNext

\* No entry point computes with a balance whose scaled value does not fit an
\* i128, or changes it on record: an upscaled product is never a wrapped one.
THEOREM OutgrownTokensAreLeftAlone == Spec => OutgrownTokensStay
<1>1. TypeOK /\ BoundByInit /\ [Next]_vars => [OutgrownStay]_vars
  BY OutgrownNext
<1>2. Spec => [][OutgrownStay]_vars
  BY <1>1, PoolTypeCorrect, BoundByInitForever, PTL DEF Spec
<1>3. [OutgrownStay]_vars
      => [\A t \in Bound : records[t].balance * records[t].scalar > I128Max =>
                           records'[t] = records[t]]_vars
  BY DEF OutgrownStay, Outgrown
<1> QED
  BY <1>2, <1>3, PTL DEF OutgrownTokensStay
-----------------------------------------------------------------------------
(***************************************************************************)
(* Shares of the pool's own address                                        *)
(***************************************************************************)
\* Holders may send shares to the pool's address; none of them can take any
\* from it, since it approves nobody.
LEMMA HoldersKeepThePools ==
  ASSUME TokenTypeOK, HolderNext
  PROVE  lpBalance'[Pool] >= lpBalance[Pool]
<1>1. /\ lpBalance \in [Addresses -> Nat] /\ Pool \in Addresses
      /\ Amounts \subseteq Int
      /\ \A user \in Users : user # Pool /\ user \in Addresses
  BY PoolIsNoUser, AmountsAreIntegers DEF TokenTypeOK, Addresses
<1>2. ASSUME NEW from \in Users, NEW to \in Addresses, NEW amount \in Amounts, amount >= 0,
             MoveShares(from, to, amount)
      PROVE  lpBalance'[Pool] >= lpBalance[Pool]
  <2>1. lpBalance' = [[lpBalance EXCEPT ![from] = @ - amount] EXCEPT ![to] = @ + amount]
    BY <1>2 DEF MoveShares, Spent, Received
  <2>2. lpBalance'[Pool] = IF to = Pool THEN lpBalance[Pool] + amount ELSE lpBalance[Pool]
    BY <1>1, <2>1
  <2> QED
    BY <1>1, <1>2, <2>2
<1>3. ASSUME NEW from \in Users, NEW amount \in Amounts, DestroyShares(from, amount)
      PROVE  lpBalance'[Pool] >= lpBalance[Pool]
  <2>1. lpBalance' = [lpBalance EXCEPT ![from] = @ - amount]
    BY <1>3 DEF DestroyShares, Spent
  <2>2. lpBalance'[Pool] = lpBalance[Pool]
    BY <1>1, <2>1
  <2> QED
    BY <1>1, <2>2
<1>4. CASE UNCHANGED lpBalance
  BY <1>1, <1>4
<1>5. (\E from \in Users, spender \in Spenders, amount \in Amounts, until \in 0 .. MaxLedger :
         Approve(from, spender, amount, until)) => UNCHANGED lpBalance
  BY DEF Approve
<1>6. AdvanceLedger => UNCHANGED lpBalance
  BY DEF AdvanceLedger
<1>7. CASE \E from \in Users, to \in Addresses, amount \in Amounts : Transfer(from, to, amount)
  BY <1>2, <1>7 DEF Transfer
<1>8. CASE \E spender \in Spenders, from \in Users, to \in Addresses, amount \in Amounts :
             TransferFrom(spender, from, to, amount)
  BY <1>2, <1>8 DEF TransferFrom
<1>9. CASE \E from \in Users, amount \in Amounts : Burn(from, amount)
  BY <1>3, <1>9 DEF Burn
<1>10. CASE \E spender \in Spenders, from \in Users, amount \in Amounts :
              BurnFrom(spender, from, amount)
  BY <1>3, <1>10 DEF BurnFrom
<1> QED
  BY <1>4, <1>5, <1>6, <1>7, <1>8, <1>9, <1>10, HolderNextCases

\* Shares that somebody has sent to the pool's address stay there: every
\* redemption burns exactly what it has pulled before, and nobody else can
\* spend for that address.
THEOREM PoolKeepsItsShares == Spec => SharesOfThePoolStay
<1>1. ASSUME TypeOK, BoundByInit, Next
      PROVE  lpBalance'[Pool] >= lpBalance[Pool]
  <2>1. lpBalance \in [Addresses -> Nat] /\ Pool \in Addresses /\ lpBalance[Pool] \in Nat
    BY <1>1 DEF TypeOK, TokenTypeOK, Addresses
  <2>2. CASE PoolNext
    <3>1. PICK user \in Users : Promise!IssuesTo(user)
      BY <1>1, <2>2, PoolNextDeals DEF Promise!Open, Promise!Settle
    <3>2. lpBalance'[Pool] = lpBalance[Pool]
      BY <2>1, <3>1, PoolIsNoUser DEF Promise!IssuesTo
    <3> QED
      BY <2>1, <3>2
  <2>3. CASE AdminNext \/ DonateNext
    <3>1. lpBalance' = lpBalance
      <4>1. AdminNext => lpBalance' = lpBalance
        BY DEF AdminNext, SetController, SetFreezeStatus, tokenVars
      <4>2. DonateNext => lpBalance' = lpBalance
        BY DEF DonateNext, Donate, tokenVars
      <4> QED
        BY <2>3, <4>1, <4>2
    <3> QED
      BY <2>1, <3>1
  <2>4. CASE HolderStep
    BY <1>1, <2>4, HoldersKeepThePools DEF HolderStep, TypeOK
  <2> QED
    BY <1>1, <2>2, <2>3, <2>4 DEF Next
<1>2. TypeOK /\ BoundByInit /\ [Next]_vars => [lpBalance'[Pool] >= lpBalance[Pool]]_vars
  BY <1>1
<1> QED
  BY <1>2, PoolTypeCorrect, BoundByInitForever, PTL DEF Spec, SharesOfThePoolStay
-----------------------------------------------------------------------------
(***************************************************************************)
(* No bound token is drained.  That none is by now is not inductive alone: *)
(* that a deposit cannot bring shares back into a drained pool comes from  *)
(* NothingFromNothing, and that the tokens after a step are those before   *)
(* it from TermsStay.                                                      *)
(***************************************************************************)
NothingEmptied == \A t \in Bound : records'[t].balance > 0

LEMMA WithinRatioIsLess ==
  ASSUME NEW amount \in Int, NEW balance \in Nat, balance > 0,
         WithinRatio(amount, balance, MAX_OUT_RATIO)
  PROVE  amount < balance
<1>1. STROOP \in Nat \ {0} /\ MAX_OUT_RATIO \in Nat /\ MAX_OUT_RATIO < STROOP
  BY MathAssumption, RatioAssumption DEF MAX_OUT_RATIO
<1> DEFINE r == MAX_OUT_RATIO
<1>2. PICK product \in Checked(balance * r) : amount <= product \div STROOP
  BY DEF WithinRatio, NarrowMulFloor
<1>3. product = balance * r
  BY <1>2 DEF Checked
<1> HIDE DEF r
<1>4. r \in Nat /\ r + 1 <= STROOP
  BY <1>1 DEF r
<1>5. (r + 1) * balance <= STROOP * balance
  BY <1>1, <1>4, TimesKeepsOrder
<1>6. balance * r < balance * STROOP
  BY <1>1, <1>4, <1>5
<1>7. product \in Int /\ product \div STROOP \in Int /\ (product \div STROOP) * STROOP <= product
  BY <1>1, <1>3, <1>4
<1> DEFINE q == product \div STROOP
<1>8. q \in Int /\ q * STROOP < balance * STROOP /\ amount <= q
  BY <1>1, <1>2, <1>3, <1>4, <1>6, <1>7
<1> HIDE DEF q
<1>9. q < balance
  <2> SUFFICES ASSUME balance <= q PROVE FALSE
    BY <1>8
  <2>1. balance * STROOP <= q * STROOP
    BY <1>1, <1>8, TimesKeepsOrder
  <2> QED
    BY <1>1, <1>8, <2>1
<1> QED
  BY <1>8, <1>9

\* There is no price of a token that the pool has none of.
LEMMA NoPriceOfNothing ==
  ASSUME NEW in, NEW out, NEW fee, out.balance = 0, out.weight \in Nat
  PROVE  CalcSpotPrice(in, out, fee) = {}
<1>1. STROOP \in Nat \ {0}
  BY MathAssumption
<1>2. \A d \in NarrowDivFloor(out.balance, out.weight, STROOP) : d = 0
  BY <1>1 DEF NarrowDivFloor, Checked
<1>3. \A n, d : d = 0 => NarrowDivFloor(n, d, STROOP) = {}
  BY DEF NarrowDivFloor
<1> QED
  BY <1>2, <1>3 DEF CalcSpotPrice

LEMMA OneTokenKept ==
  ASSUME TypeOK, \A t \in Bound : records[t].balance > 0,
         NEW token \in Bound, NEW amount \in Int, records[token].balance + amount > 0,
         records' = Changed(records, token, amount)
  PROVE  NothingEmptied
<1> SUFFICES ASSUME NEW t \in Bound PROVE records'[t].balance > 0
  BY DEF NothingEmptied
<1>1. records \in [Bound -> Record] /\ records[t] \in Record /\ records[t].balance \in Nat
  BY RecordFacts DEF TypeOK
<1>2. records'[t] = IF t = token THEN [records[t] EXCEPT !.balance = @ + amount]
                                 ELSE records[t]
  BY <1>1 DEF Changed
<1>3. CASE t = token
  BY <1>1, <1>2, <1>3 DEF Record
<1>4. CASE t # token
  BY <1>2, <1>4
<1> QED
  BY <1>3, <1>4

LEMMA DepositKeeps ==
  ASSUME TypeOK, \A t \in Bound : records[t].balance > 0,
         NEW user \in Users, NEW token \in Bound, NEW amount \in Int, NEW shares,
         Deposit(user, token, amount, shares)
  PROVE  NothingEmptied
<1>1. records[token].balance \in Nat /\ records[token].balance > 0
  BY RecordFacts
<1>2. amount >= 0 /\ records' = Changed(records, token, amount)
  BY RecordFacts, PoolIsNoUser DEF Deposit, CanPull
<1>3. records[token].balance + amount > 0
  BY <1>1, <1>2
<1> QED
  BY <1>2, <1>3, OneTokenKept

LEMMA WithdrawKeeps ==
  ASSUME TypeOK, \A t \in Bound : records[t].balance > 0,
         NEW user \in Users, NEW token \in Bound, NEW amount \in Int, NEW shares,
         WithinRatio(amount, records[token].balance, MAX_OUT_RATIO),
         Withdraw(user, token, amount, shares)
  PROVE  NothingEmptied
<1> DEFINE paid == -amount
<1>1. records[token].balance \in Nat /\ records[token].balance > 0
  BY RecordFacts
<1>2. amount < records[token].balance
  BY <1>1, WithinRatioIsLess
<1>3. paid \in Int /\ records[token].balance + paid > 0 /\ records' = Changed(records, token, paid)
  BY <1>1, <1>2 DEF Withdraw
<1> HIDE DEF paid
<1> QED
  BY <1>3, OneTokenKept

\* A swap is refused when there is no price after it.
LEMMA SwapKeeps ==
  ASSUME TypeOK, \A t \in Bound : records[t].balance > 0,
         NEW user \in Users, NEW in \in Bound, NEW out \in Bound, in # out,
         NEW amountIn \in Int, NEW amountOut \in Int, NEW price,
         FairSwap(in, amountIn, out, amountOut, price),
         Swap(user, in, amountIn, out, amountOut)
  PROVE  NothingEmptied
<1> SUFFICES ASSUME NEW t \in Bound PROVE records'[t].balance > 0
  BY DEF NothingEmptied
<1>1. /\ records \in [Bound -> Record] /\ records[t].balance > 0
      /\ records[t] \in Record /\ records[t].balance \in Nat
      /\ records[out] \in Record /\ records[out].balance \in Nat
      /\ records[out].weight \in MIN_WEIGHT .. MAX_WEIGHT
  BY RecordFacts DEF TypeOK, Record
<1> DEFINE after == AfterSwap(in, amountIn, out, amountOut)
<1>2. records' = after /\ amountIn >= 0
  BY RecordFacts, PoolIsNoUser DEF Swap, CanPull
<1>3. /\ after[in]  = [records[in] EXCEPT !.balance = @ + amountIn]
      /\ after[out] = [records[out] EXCEPT !.balance = @ + (-amountOut)]
      /\ t \notin {in, out} => after[t] = records[t]
  BY <1>1 DEF AfterSwap, Changed
<1>4. /\ after[out].balance = records[out].balance - amountOut
      /\ after[out].weight = records[out].weight
  BY <1>1, <1>3 DEF Record
<1>5. CASE t = out
  <2>1. records[out].balance >= amountOut
    BY DEF FairSwap
  <2>2. CalcSpotPrice(after[in], after[out], swapFee) # {}
    BY DEF FairSwap
  <2>3. after[out].weight \in Nat
    BY <1>1, <1>4, MathAssumption DEF MIN_WEIGHT, MAX_WEIGHT
  <2>4. after[out].balance # 0
    BY <2>2, <2>3, NoPriceOfNothing
  <2> QED
    BY <1>1, <1>2, <1>4, <1>5, <2>1, <2>4
<1>6. CASE t = in
  <2>1. after[in].balance = records[in].balance + amountIn
    BY <1>1, <1>3, <1>6 DEF Record
  <2> QED
    BY <1>1, <1>2, <1>6, <2>1
<1>7. CASE t \notin {in, out}
  BY <1>1, <1>2, <1>3, <1>7
<1> QED
  BY <1>5, <1>6, <1>7

LEMMA JoinKeeps ==
  ASSUME TypeOK, \A t \in Bound : records[t].balance > 0, JoinNext
  PROVE  NothingEmptied
<1>1. PICK user \in Users, shares \in Amounts, limits \in [Bound -> MaxLimits] :
        JoinPool(user, shares, limits)
  BY DEF JoinNext, JoinCall
<1>2. PICK ratio \in JoinRatios(shares) :
        LET due      == [t \in Bound |-> JoinDue(records[t], ratio, limits[t])]
            deposits == [t \in Bound |-> The(due[t])]
        IN /\ \A t \in Bound : due[t] # {}
           /\ records' = [t \in Bound |-> [records[t] EXCEPT !.balance = @ + deposits[t]]]
  BY <1>1 DEF JoinPool
<1> DEFINE deposit(t) == The(JoinDue(records[t], ratio, limits[t]))
<1> SUFFICES ASSUME NEW t \in Bound PROVE records'[t].balance > 0
  BY DEF NothingEmptied
<1>3. /\ JoinDue(records[t], ratio, limits[t]) # {}
      /\ records'[t] = [records[t] EXCEPT !.balance = @ + deposit(t)]
  BY <1>2
<1>4. deposit(t) \in Int /\ deposit(t) > 0
  BY <1>3, TheIsOne, DueFacts
<1>5. records[t] \in Record /\ records[t].balance \in Nat
  BY RecordFacts
<1> HIDE DEF deposit
<1>6. records'[t].balance = records[t].balance + deposit(t)
  BY <1>3, <1>5 DEF Record
<1> QED
  BY <1>4, <1>5, <1>6

\* An exit that leaves shares leaves of each token at least their part.
LEMMA ExitKeeps ==
  ASSUME TypeOK, totalShares \in Nat, totalShares' > 0,
         \A t \in Bound : records[t].balance > 0, ExitNext
  PROVE  NothingEmptied
<1>1. PerShareNeverFalls
  BY ExitDilutesNobody
<1> SUFFICES ASSUME NEW t \in Bound PROVE records'[t].balance > 0
  BY DEF NothingEmptied
<1>2. PICK user \in Users, shares \in Amounts, limits \in [Bound -> MinLimits] :
        ExitPool(user, shares, limits)
  BY DEF ExitNext, ExitCall
<1>3. PICK ratio \in ExitRatios(shares) :
        LET due     == [u \in Bound |-> ExitDue(records[u], ratio, limits[u])]
            payouts == [u \in Bound |-> The(due[u])]
        IN /\ \A u \in Bound : due[u] # {}
           /\ records' = [u \in Bound |-> [records[u] EXCEPT !.balance = @ - payouts[u]]]
  BY <1>2 DEF ExitPool
<1> DEFINE payout == The(ExitDue(records[t], ratio, limits[t]))
           left   == records'[t].balance
           b      == records[t].balance
           after  == totalShares'
<1>4. /\ ExitDue(records[t], ratio, limits[t]) # {}
      /\ records'[t] = [records[t] EXCEPT !.balance = @ - payout]
  BY <1>3
<1>5. payout \in Int /\ payout <= b
  BY <1>4, TheIsOne, DueFacts
<1>6. records[t] \in Record /\ b \in Nat /\ b > 0
  BY RecordFacts
<1> HIDE DEF payout
<1>7. left = b - payout
  BY <1>4, <1>6 DEF Record
<1>8. after \in Int
  BY <1>2, AmountsAreIntegers DEF ExitPool, RedeemShares, TypeOK, TokenTypeOK
<1>9. left * totalShares >= b * after /\ after > 0
  BY <1>1 DEF PerShareNeverFalls
<1> HIDE DEF left, b, after
<1>10. b * after > 0
  BY <1>6, <1>8, <1>9
<1>11. left \in Nat
  BY <1>5, <1>6, <1>7
<1>12. b * after \in Int
  BY <1>6, <1>8
<1>13. CASE left = 0
  <2>1. left * totalShares = 0
    BY <1>13
  <2> QED
    BY <1>9, <1>10, <1>12, <2>1
<1> QED
  BY <1>11, <1>13 DEF left

LEMMA InitKeeps ==
  ASSUME TypeOK, InitNext
  PROVE  \A t \in Bound' : records'[t].balance > 0
<1>1. PICK user \in Users, tokens \in InitTokens, weights \in InitWeights,
           balances \in InitBalances, fee \in SwapFees :
         InitPool(user, tokens, weights, balances, fee)
  BY DEF InitNext, InitCall
<1> DEFINE place(t) == CHOOSE i \in DOMAIN tokens : tokens[i] = t
           S        == {tokens[i] : i \in DOMAIN tokens}
           deposits == [t \in S |-> balances[place(t)]]
<1>2. /\ \A i \in DOMAIN tokens : balances[i] >= MIN_BALANCE
      /\ Len(balances) = Len(tokens)
      /\ records' = [t \in DOMAIN deposits |-> [balance |-> deposits[t],
                                                weight  |-> weights[place(t)],
                                                scalar  |-> Scalar[t]]]
  BY <1>1 DEF InitPool
<1>3. MIN_BALANCE \in Nat \ {0} /\ tokens \in Seq(Tokens)
  BY PoolAssumption
<1> SUFFICES ASSUME NEW t \in S PROVE records'[t].balance > 0
  BY <1>2 DEF Bound
<1>4. place(t) \in DOMAIN tokens
  OBVIOUS
<1>5. records'[t].balance = balances[place(t)]
  BY <1>2
<1> HIDE DEF place
<1>6. /\ DOMAIN tokens = 1 .. Len(tokens) /\ DOMAIN balances = 1 .. Len(balances)
      /\ \A i \in DOMAIN balances : balances[i] \in Int
  BY <1>3, InputsAreIntegers
<1>7. balances[place(t)] \in Int /\ balances[place(t)] >= MIN_BALANCE
  BY <1>2, <1>4, <1>6
<1> QED
  BY <1>3, <1>5, <1>7

LEMMA SwapNextKeeps ==
  ASSUME TypeOK, \A t \in Bound : records[t].balance > 0, SwapNext
  PROVE  NothingEmptied
<1>1. PICK user \in Users, in, out \in Tokens, amount \in TokenAmounts, price \in MaxLimits :
        \/ \E limit \in MinLimits : SwapExactAmountIn(user, in, amount, out, limit, price)
        \/ \E limit \in MaxLimits : SwapExactAmountOut(user, in, limit, out, amount, price)
  BY DEF SwapNext, SwapCall
<1>2. amount \in Int
  BY InputsAreIntegers
<1>3. CASE \E limit \in MinLimits : SwapExactAmountIn(user, in, amount, out, limit, price)
  <2> PICK limit \in MinLimits : SwapExactAmountIn(user, in, amount, out, limit, price)
    BY <1>3
  <2>1. PICK amountOut \in SwapInQuote(in, amount, out, limit, price) :
          Swap(user, in, amount, out, amountOut)
    BY DEF SwapExactAmountIn
  <2>2. FairSwap(in, amount, out, amountOut, price)
    BY <2>1, Zenon DEF SwapInQuote
  <2> QED
    BY <1>2, <2>1, <2>2, SwapQuoteFacts, SwapKeeps
<1>4. CASE \E limit \in MaxLimits : SwapExactAmountOut(user, in, limit, out, amount, price)
  <2> PICK limit \in MaxLimits : SwapExactAmountOut(user, in, limit, out, amount, price)
    BY <1>4
  <2>1. PICK amountIn \in SwapOutQuote(in, limit, out, amount, price) :
          Swap(user, in, amountIn, out, amount)
    BY DEF SwapExactAmountOut
  <2>2. FairSwap(in, amountIn, out, amount, price)
    BY <2>1, Zenon DEF SwapOutQuote
  <2> QED
    BY <1>2, <2>1, <2>2, SwapQuoteFacts, SwapKeeps
<1> QED
  BY <1>1, <1>3, <1>4

LEMMA DepositNextKeeps ==
  ASSUME TypeOK, \A t \in Bound : records[t].balance > 0, DepositNext
  PROVE  NothingEmptied
<1>1. PICK user \in Users, token \in Tokens :
        \/ \E amount \in TokenAmounts, limit \in MinLimits :
             DepToknAmtInGetLpToknsOut(user, token, amount, limit)
        \/ \E shares \in Amounts, limit \in MaxLimits :
             DepLpToknAmtOutGetToknIn(user, token, shares, limit)
  BY DEF DepositNext, DepositCall
<1>2. CASE \E amount \in TokenAmounts, limit \in MinLimits :
             DepToknAmtInGetLpToknsOut(user, token, amount, limit)
  BY <1>2, InputsAreIntegers, OneTokenQuoteFacts, DepositKeeps DEF DepToknAmtInGetLpToknsOut
<1>3. CASE \E shares \in Amounts, limit \in MaxLimits :
             DepLpToknAmtOutGetToknIn(user, token, shares, limit)
  BY <1>3, InputsAreIntegers, OneTokenQuoteFacts, DepositKeeps DEF DepLpToknAmtOutGetToknIn
<1> QED
  BY <1>1, <1>2, <1>3

LEMMA WithdrawNextKeeps ==
  ASSUME TypeOK, \A t \in Bound : records[t].balance > 0, WithdrawNext
  PROVE  NothingEmptied
<1>1. PICK user \in Users, token \in Tokens :
        \/ \E shares \in Amounts, limit \in MinLimits :
             WdrToknAmtInGetLpToknsOut(user, token, shares, limit)
        \/ \E amount \in TokenAmounts, limit \in MaxLimits :
             WdrToknAmtOutGetLpToknsIn(user, token, amount, limit)
  BY DEF WithdrawNext, WithdrawCall
<1>2. CASE \E shares \in Amounts, limit \in MinLimits :
             WdrToknAmtInGetLpToknsOut(user, token, shares, limit)
  <2> PICK shares \in Amounts, limit \in MinLimits :
         WdrToknAmtInGetLpToknsOut(user, token, shares, limit)
    BY <1>2
  <2>1. PICK amount \in WdrInQuote(token, shares, limit) : Withdraw(user, token, amount, shares)
    BY DEF WdrToknAmtInGetLpToknsOut
  <2>2. WithinRatio(amount, records[token].balance, MAX_OUT_RATIO)
    BY <2>1, Zenon DEF WdrInQuote
  <2> QED
    BY <2>1, <2>2, OneTokenQuoteFacts, WithdrawKeeps
<1>3. CASE \E amount \in TokenAmounts, limit \in MaxLimits :
             WdrToknAmtOutGetLpToknsIn(user, token, amount, limit)
  <2> PICK amount \in TokenAmounts, limit \in MaxLimits :
         WdrToknAmtOutGetLpToknsIn(user, token, amount, limit)
    BY <1>3
  <2>1. PICK shares \in WdrOutQuote(token, amount, limit) : Withdraw(user, token, amount, shares)
    BY DEF WdrToknAmtOutGetLpToknsIn
  <2>2. WithinRatio(amount, records[token].balance, MAX_OUT_RATIO)
    BY <2>1, Zenon DEF WdrOutQuote
  <2> QED
    BY <2>1, <2>2, InputsAreIntegers, OneTokenQuoteFacts, WithdrawKeeps
<1> QED
  BY <1>1, <1>2, <1>3

LEMMA NothingEmptiedNext ==
  ASSUME TypeOK, totalShares \in Nat, totalShares' > 0,
         \A t \in Bound : records[t].balance > 0, [Next]_vars, ~InitNext
  PROVE  NothingEmptied
<1>1. CASE UNCHANGED records
  BY <1>1 DEF NothingEmptied
<1>2. AdminNext \/ DonateNext \/ HolderStep \/ UNCHANGED vars => UNCHANGED records
  BY DEF AdminNext, SetController, SetFreezeStatus, DonateNext, Donate, poolVars, HolderStep, vars
<1>3. Next \/ UNCHANGED vars
  OBVIOUS
<1> QED
  BY <1>1, <1>2, <1>3, JoinKeeps, ExitKeeps, SwapNextKeeps, DepositNextKeeps, WithdrawNextKeeps
  DEF Next, PoolNext

LEMMA NoDrainedTokenNext ==
  ASSUME TypeOK, totalShares \in Nat, (totalShares \in Nat)', BoundByInit, BoundByInit',
         NoDrainedToken, [Next]_vars
  PROVE  NoDrainedToken'
<1> SUFFICES ASSUME totalShares' > 0 PROVE \A t \in Bound' : records'[t].balance > 0
  BY DEF NoDrainedToken
<1>1. CASE InitNext
  BY <1>1, InitKeeps
<1>2. CASE ~Initialized /\ ~InitNext
  BY <1>2, OnlyInitInitializes DEF BoundByInit
<1>3. CASE Initialized
  <2>1. totalShares > 0
    <3>1. CASE totalShares = 0
      BY <1>3, <3>1, NothingFromNothing
    <3> QED
      BY <3>1
  <2>2. \A t \in Bound : records[t].balance > 0
    BY <2>1 DEF NoDrainedToken
  <2>3. NothingEmptied
    BY <1>3, <2>2, InitIsFirst, NothingEmptiedNext
  <2>4. Bound' = Bound
    BY <1>3, TermsStayNext DEF TermsStay, Bound
  <2> QED
    BY <2>3, <2>4 DEF NothingEmptied
<1> QED
  BY <1>1, <1>2, <1>3

\* While there are shares no bound token is drained, at any scale, by any
\* number of swaps, withdrawals and exits: what leaves at once is less than
\* all there is, or there is no price afterwards, or shares are left whose
\* part stays.
THEOREM NothingIsDrained == Spec => []NoDrainedToken
<1>1. Init => NoDrainedToken
  BY DEF Init, Bound, NoDrainedToken
<1>2. TypeOK /\ totalShares \in Nat /\ (totalShares \in Nat)' /\ BoundByInit /\ BoundByInit'
        /\ NoDrainedToken /\ [Next]_vars => NoDrainedToken'
  BY NoDrainedTokenNext
<1> QED
  BY <1>1, <1>2, PoolTypeCorrect, TotalIsNatural, BoundByInitForever, PTL DEF Spec

-----------------------------------------------------------------------------
(***************************************************************************)
(* The last holder                                                         *)
(***************************************************************************)
\* An exit computes with numbers that are scaled up in an i128, and panics if
\* one does not fit (c_math.rs upscale).  Joins within all checks, and init
\* already, may bring a pool there.
ScalablePool ==
  /\ CanUpscale(totalShares, STROOP_SCALAR)
  /\ \A t \in Bound : Scalable(t)

LEMMA QuotientOfMultiple ==
  ASSUME NEW n \in Nat, NEW d \in Nat \ {0}
  PROVE  (n * d) \div d = n /\ (d * n) \div d = n
<1>1. n * d = d * n
  OBVIOUS
<1>2. (n * d) \div d = n
  OBVIOUS
<1> QED
  BY <1>1, <1>2

LEMMA RatioOfAllIsOne ==
  ASSUME NEW supply \in Nat \ {0}, CanUpscale(supply, STROOP_SCALAR)
  PROVE  BONE \in CalcExitRatio(supply, supply)
<1> DEFINE scaled == supply * STROOP_SCALAR
<1>1. scaled \in Nat \ {0} /\ BONE \in Nat
  BY MathAssumption, NumAssumption
<1>2. CalcExitRatio(supply, supply) = {(scaled * BONE) \div scaled}
  BY DEF CalcExitRatio, FixedDivFloor
<1> HIDE DEF scaled
<1> QED
  BY <1>1, <1>2, QuotientOfMultiple

LEMMA AllOfABalance ==
  ASSUME NEW record, record.balance \in Nat, record.scalar \in Nat \ {0},
         CanUpscale(record.balance, record.scalar)
  PROVE  CalcExitWithdrawalAmount(record, BONE) = {record.balance}
<1> DEFINE b == record.balance
           c == record.scalar
           scaled == b * c
<1>1. scaled \in Nat /\ BONE \in Nat \ {0} /\ b <= scaled
  BY NumAssumption
<1>2. scaled \in I128
  BY DEF CanUpscale, Checked
<1>3. b \in I128
  BY <1>1, <1>2, I128Assumption DEF I128
<1>4. CalcExitWithdrawalAmount(record, BONE)
        = Checked((((scaled * BONE) \div BONE) * 1) \div c)
  BY DEF CalcExitWithdrawalAmount, DownscaleFloor, FixedMulFloor, FixedDivFloor
<1>5. (scaled * BONE) \div BONE = scaled
  <2> HIDE DEF scaled
  <2> QED
    BY <1>1, QuotientOfMultiple
<1>6. (scaled * 1) \div c = b
  <2>1. (b * c) \div c = b
    BY QuotientOfMultiple
  <2>2. scaled * 1 = b * c
    BY <1>1
  <2> QED
    BY <2>1, <2>2
<1> HIDE DEF scaled, b, c
<1>7. CalcExitWithdrawalAmount(record, BONE) = Checked(b)
  BY <1>4, <1>5, <1>6
<1> QED
  BY <1>3, <1>7 DEF Checked, b

\* LastHolderGetsEverything: as long as exit_pool can compute at all, whoever
\* holds every share takes out every balance on record to the last unit, in
\* pools of any tokens, scalars and balances.  The two roundings down of an
\* exit, of the ratio and of the product with it, leave no dust behind.
THEOREM LastHolderIsPaidInFull == Spec => [](ScalablePool => LastHolderGetsEverything)
<1>1. TypeOK /\ totalShares \in Nat => (ScalablePool => LastHolderGetsEverything)
  <2> SUFFICES ASSUME TypeOK, totalShares \in Nat, ScalablePool, totalShares > 0
               PROVE  /\ BONE \in CalcExitRatio(totalShares, totalShares)
                      /\ \A t \in Bound :
                           CalcExitWithdrawalAmount(records[t], BONE) = {records[t].balance}
    BY DEF LastHolderGetsEverything
  <2>1. BONE \in CalcExitRatio(totalShares, totalShares)
    BY RatioOfAllIsOne DEF ScalablePool
  <2>2. ASSUME NEW t \in Bound
        PROVE  CalcExitWithdrawalAmount(records[t], BONE) = {records[t].balance}
    <3>1. records[t].balance \in Nat /\ records[t].scalar \in Nat \ {0}
      BY DEF TypeOK, Record
    <3> QED
      BY <3>1, AllOfABalance DEF ScalablePool, Scalable
  <2> QED
    BY <2>1, <2>2
<1> QED
  BY <1>1, PoolTypeCorrect, TotalIsNatural, PTL
-----------------------------------------------------------------------------
(***************************************************************************)
(* The value of the pool.  Both follow from the type invariant alone: the  *)
(* argument is in the arithmetic of CometMathProofs.                       *)
(***************************************************************************)
LEMMA PowIsInteger == \A x \in Int, n \in Nat : Pow(x, n) \in Int
BY PowRecursion

\* What a swap makes of the two balances.
LEMMA SwapMovesBalances ==
  ASSUME TypeOK, NEW user, NEW in \in Bound, NEW out \in Bound, in # out,
         NEW amountIn \in Int, NEW amountOut \in Int,
         Swap(user, in, amountIn, out, amountOut)
  PROVE  /\ records'[in].balance = records[in].balance + amountIn
         /\ records'[out].balance = records[out].balance - amountOut
<1> DEFINE after == AfterSwap(in, amountIn, out, amountOut)
<1>1. records \in [Bound -> Record] /\ records[in] \in Record /\ records[out] \in Record
  BY RecordFacts DEF TypeOK
<1>2. records' = after
  BY DEF Swap
<1>3. /\ after[in]  = [records[in] EXCEPT !.balance = @ + amountIn]
      /\ after[out] = [records[out] EXCEPT !.balance = @ + (-amountOut)]
  BY <1>1 DEF AfterSwap, Changed
<1> HIDE DEF after
<1> QED
  BY <1>1, <1>2, <1>3 DEF Record

LEMMA RecordParts ==
  ASSUME TypeOK, NEW t \in Bound
  PROVE  /\ records[t].balance \in Nat /\ records[t].scalar \in Nat \ {0}
         /\ records[t].weight \in MIN_WEIGHT .. MAX_WEIGHT
         /\ records[t].weight \in Nat \ {0}
         /\ swapFee \in 0 .. MAX_FEE
<1>1. records[t] \in Record
  BY RecordFacts
<1> QED
  BY <1>1, MathAssumption, WeightAssumption DEF Record, TypeOK, MIN_WEIGHT, MAX_WEIGHT

LEMMA SwapInKeepsValue ==
  ASSUME TypeOK, NEW in, NEW out, NEW k \in Nat, SwapInStep(in, out),
         records[in].weight = k * records[out].weight
  PROVE  ~ValueFalls(in, k, out)
<1>1. PICK user \in Users, amount \in TokenAmounts, limit \in MinLimits, price \in MaxLimits :
        SwapExactAmountIn(user, in, amount, out, limit, price)
  BY DEF SwapInStep
<1>2. PICK v \in SwapInQuote(in, amount, out, limit, price) : Swap(user, in, amount, out, v)
  BY <1>1 DEF SwapExactAmountIn
<1>3. /\ in \in Bound /\ out \in Bound /\ in # out /\ v \in Int
      /\ v \in CalcTokenOutGivenTokenIn(records[in], records[out], amount, swapFee)
      /\ amount > 0
  <2>1. /\ in \in Bound /\ out \in Bound /\ in # out /\ amount > 0
        /\ v \in CalcTokenOutGivenTokenIn(records[in], records[out], amount, swapFee)
    BY Zenon DEF SwapInQuote
  <2> QED
    BY <2>1, SwapQuoteFacts
<1>4. amount \in Nat
  BY <1>3, InputsAreIntegers
<1>5. /\ records'[in].balance = records[in].balance + amount
      /\ records'[out].balance = records[out].balance - v
  BY <1>2, <1>3, <1>4, SwapMovesBalances
<1>6. /\ records[in].balance \in Nat /\ records[in].scalar \in Nat \ {0}
      /\ records[out].balance \in Nat /\ records[out].scalar \in Nat \ {0}
      /\ records[out].weight \in Nat \ {0} /\ swapFee \in 0 .. MAX_FEE
  BY <1>3, RecordParts
<1>7. records[out].balance * Pow(records[in].balance, k)
        <= (records[out].balance - v) * Pow(records[in].balance + amount, k)
  BY <1>3, <1>4, <1>6, WholeSwapInKeepsTheValue
<1>8. PICK x \in Int, x2 \in Int : x = Pow(records[in].balance, k)
                                   /\ x2 = Pow(records'[in].balance, k)
  <2>1. records[in].balance \in Int /\ records'[in].balance \in Int
    BY <1>4, <1>5, <1>6
  <2> QED
    BY <2>1, PowIsInteger
<1>9. PICK y \in Int, y2 \in Int : y = records[out].balance /\ y2 = records'[out].balance
  BY <1>3, <1>5, <1>6
<1>10. y * x <= y2 * x2
  BY <1>5, <1>7, <1>8, <1>9
<1>11. ~(x2 * y2 < x * y)
  BY <1>10
<1> QED
  BY <1>8, <1>9, <1>11 DEF ValueFalls

LEMMA SwapOutKeepsValue ==
  ASSUME TypeOK, NEW in, NEW out, NEW k \in Nat, SwapOutStep(in, out),
         records[out].weight = k * records[in].weight
  PROVE  ~ValueFalls(out, k, in)
<1>1. PICK user \in Users, amount \in TokenAmounts, limit \in MaxLimits, price \in MaxLimits :
        SwapExactAmountOut(user, in, limit, out, amount, price)
  BY DEF SwapOutStep
<1>2. PICK v \in SwapOutQuote(in, limit, out, amount, price) : Swap(user, in, v, out, amount)
  BY <1>1 DEF SwapExactAmountOut
<1>3. /\ in \in Bound /\ out \in Bound /\ in # out /\ v \in Int
      /\ v \in CalcTokenInGivenTokenOut(records[in], records[out], amount, swapFee)
      /\ amount > 0
  <2>1. /\ in \in Bound /\ out \in Bound /\ in # out /\ amount > 0
        /\ v \in CalcTokenInGivenTokenOut(records[in], records[out], amount, swapFee)
    BY Zenon DEF SwapOutQuote
  <2> QED
    BY <2>1, SwapQuoteFacts
<1>4. amount \in Nat
  BY <1>3, InputsAreIntegers
<1>5. /\ records'[in].balance = records[in].balance + v
      /\ records'[out].balance = records[out].balance - amount
  BY <1>2, <1>3, <1>4, SwapMovesBalances
<1>6. /\ records[in].balance \in Nat /\ records[in].scalar \in Nat \ {0}
      /\ records[out].balance \in Nat /\ records[out].scalar \in Nat \ {0}
      /\ records[in].weight \in Nat \ {0} /\ swapFee \in 0 .. MAX_FEE
  BY <1>3, RecordParts
<1>7. /\ records[out].balance - amount \in Nat
      /\ records[in].balance * Pow(records[out].balance, k)
           <= (records[in].balance + v) * Pow(records[out].balance - amount, k)
  BY <1>3, <1>4, <1>6, WholeSwapOutKeepsTheValue
<1>8. PICK x \in Int, x2 \in Int : x = Pow(records[out].balance, k)
                                   /\ x2 = Pow(records'[out].balance, k)
  <2>1. records[out].balance \in Int /\ records'[out].balance \in Int
    BY <1>4, <1>5, <1>6
  <2> QED
    BY <2>1, PowIsInteger
<1>9. PICK y \in Int, y2 \in Int : y = records[in].balance /\ y2 = records'[in].balance
  BY <1>3, <1>5, <1>6
<1>10. y * x <= y2 * x2
  BY <1>5, <1>7, <1>8, <1>9
<1>11. ~(x2 * y2 < x * y)
  BY <1>10
<1> QED
  BY <1>8, <1>9, <1>11 DEF ValueFalls

\* What a deposit or a withdrawal of one token makes of its balance.
LEMMA OneTokenMovesBalance ==
  ASSUME TypeOK, NEW token \in Bound, NEW amount \in Int,
         records' = Changed(records, token, amount)
  PROVE  records'[token].balance = records[token].balance + amount
<1>1. records \in [Bound -> Record] /\ records[token] \in Record
  BY RecordFacts DEF TypeOK
<1>2. records'[token] = [records[token] EXCEPT !.balance = @ + amount]
  BY <1>1 DEF Changed
<1> QED
  BY <1>1, <1>2 DEF Record

\* What a withdrawal makes of the balance and of the supply.
LEMMA WithdrawalMovesBalance ==
  ASSUME TypeOK, NEW user, NEW token \in Bound, NEW amountOut \in Int, NEW shares,
         Withdraw(user, token, amountOut, shares)
  PROVE  /\ records'[token].balance = records[token].balance - amountOut
         /\ totalShares' = totalShares - shares
<1> DEFINE paid == -amountOut
<1>1. paid \in Int /\ records' = Changed(records, token, paid) /\ totalShares' = totalShares - shares
  BY DEF Withdraw, RedeemShares
<1>2. records'[token].balance = records[token].balance + paid
  <2> HIDE DEF paid
  <2> QED
    BY <1>1, OneTokenMovesBalance
<1>3. records[token].balance \in Nat
  BY RecordFacts
<1> QED
  BY <1>1, <1>2, <1>3

LEMMA DepositKeepsWorth ==
  ASSUME TypeOK, totalShares \in Nat, totalShares' \in Nat,
         NEW token, NEW k \in Nat, DepositForShares(token),
         k * records[token].weight = STROOP
  PROVE  ~WorthFalls(token, k)
<1>1. PICK user \in Users, shares \in Amounts, limit \in MaxLimits :
        DepLpToknAmtOutGetToknIn(user, token, shares, limit)
  BY DEF DepositForShares
<1>2. PICK v \in DepOutQuote(token, shares, limit) : Deposit(user, token, v, shares)
  BY <1>1 DEF DepLpToknAmtOutGetToknIn
<1>3. /\ token \in Bound /\ v \in Int /\ shares > 0
      /\ v \in CalcTokenDepositsInGivenLpTokenAmount(records[token], totalShares, shares, swapFee)
  BY CalcDepositFits DEF DepOutQuote
<1>4. shares \in Nat
  BY <1>3, InputsAreIntegers
<1>5. /\ records'[token].balance = records[token].balance + v
      /\ totalShares' = totalShares + shares
  BY <1>2, <1>3, OneTokenMovesBalance DEF Deposit, MintShares
<1>6. /\ records[token].balance \in Nat /\ records[token].scalar \in Nat \ {0}
      /\ records[token].weight \in MIN_WEIGHT .. MAX_WEIGHT /\ swapFee \in 0 .. MAX_FEE
  BY <1>3, RecordParts
<1>7. records[token].balance * Pow(totalShares + shares, k)
        <= (records[token].balance + v) * Pow(totalShares, k)
  BY <1>3, <1>4, <1>6, WholeDepositKeepsTheWorth
<1>8. PICK x \in Int, x2 \in Int : x = Pow(totalShares, k) /\ x2 = Pow(totalShares', k)
  BY <1>4, <1>5, PowIsInteger
<1>9. PICK y \in Int, y2 \in Int : y = records[token].balance /\ y2 = records'[token].balance
  BY <1>3, <1>5, <1>6
<1>10. ~(y2 * x < y * x2)
  BY <1>5, <1>7, <1>8, <1>9
<1> QED
  BY <1>8, <1>9, <1>10 DEF WorthFalls

LEMMA WithdrawKeepsWorth ==
  ASSUME TypeOK, totalShares \in Nat, totalShares' \in Nat,
         NEW token, NEW k \in Nat, WithdrawForShares(token),
         k * records[token].weight = STROOP
  PROVE  ~WorthFalls(token, k)
<1>1. PICK user \in Users, shares \in Amounts, limit \in MinLimits :
        WdrToknAmtInGetLpToknsOut(user, token, shares, limit)
  BY DEF WithdrawForShares
<1>2. PICK v \in WdrInQuote(token, shares, limit) : Withdraw(user, token, v, shares)
  BY <1>1 DEF WdrToknAmtInGetLpToknsOut
<1>3. /\ token \in Bound /\ v \in Int /\ shares > 0
      /\ v \in CalcTokenWithdrawalAmountGivenLpTokenAmount(records[token], totalShares, shares, swapFee)
  BY CalcWithdrawalFits DEF WdrInQuote
<1>4. shares \in Nat
  BY <1>3, InputsAreIntegers
<1>5. /\ records'[token].balance = records[token].balance - v
      /\ totalShares' = totalShares - shares
  BY <1>2, <1>3, WithdrawalMovesBalance
<1>6. /\ records[token].balance \in Nat /\ records[token].scalar \in Nat \ {0}
      /\ records[token].weight \in MIN_WEIGHT .. MAX_WEIGHT /\ swapFee \in 0 .. MAX_FEE
      /\ shares \in 0 .. totalShares
  BY <1>3, <1>4, <1>5, RecordParts
<1>7. records[token].balance * Pow(totalShares - shares, k)
        <= (records[token].balance - v) * Pow(totalShares, k)
  BY <1>3, <1>6, WholeWithdrawalKeepsTheWorth
<1>8. PICK x \in Int, x2 \in Int : x = Pow(totalShares, k) /\ x2 = Pow(totalShares', k)
  BY PowIsInteger
<1>9. PICK y \in Int, y2 \in Int : y = records[token].balance /\ y2 = records'[token].balance
  BY <1>3, <1>5, <1>6
<1>10. ~(y2 * x < y * x2)
  BY <1>5, <1>7, <1>8, <1>9
<1> QED
  BY <1>8, <1>9, <1>10 DEF WorthFalls

\* For every scale, fee, number of tokens and amount: a swap whose exponent is
\* a whole number leaves the invariant of the two tokens where it was or
\* higher.  The roundings of c_math.rs and c_powi suffice, without the fee.
THEOREM WholeSwapsLoseNothing == Spec => SwapsByWholePowersLoseNothing
<1> DEFINE A == \A in, out \in Bound, k \in 1 .. 9 :
                  /\ records[in].weight = k * records[out].weight /\ ValueFalls(in, k, out)
                       => ~SwapInStep(in, out)
                  /\ records[out].weight = k * records[in].weight /\ ValueFalls(out, k, in)
                       => ~SwapOutStep(in, out)
<1>1. TypeOK => A
  <2> SUFFICES ASSUME TypeOK, NEW in \in Bound, NEW out \in Bound, NEW k \in 1 .. 9
               PROVE  /\ records[in].weight = k * records[out].weight /\ ValueFalls(in, k, out)
                           => ~SwapInStep(in, out)
                      /\ records[out].weight = k * records[in].weight /\ ValueFalls(out, k, in)
                           => ~SwapOutStep(in, out)
    OBVIOUS
  <2>1. k \in Nat
    OBVIOUS
  <2> QED
    BY <2>1, SwapInKeepsValue, SwapOutKeepsValue, Zenon
<1>2. TypeOK => [A]_vars
  BY <1>1
<1>3. Spec => [][A]_vars
  <2> HIDE DEF A
  <2> QED
    BY <1>2, PoolTypeCorrect, PTL
<1> QED
  BY <1>3 DEF SwapsByWholePowersLoseNothing

\* For every scale and fee: where the weight of a token is the k-th part of
\* one, deposits and withdrawals of it for a given number of shares never
\* leave a share with less of it, to the power that its weight stands for.
THEOREM WholeDepositsAndWithdrawalsLoseNothing == Spec => SharesByWholePowersKeepTheirWorth
<1> DEFINE N == totalShares \in Nat
           A == \A token \in Bound, k \in 1 .. 10 :
                  k * records[token].weight = STROOP /\ WorthFalls(token, k)
                    => ~DepositForShares(token) /\ ~WithdrawForShares(token)
<1>1. TypeOK /\ N /\ N' => A
  <2> SUFFICES ASSUME TypeOK, N, N', NEW token \in Bound, NEW k \in 1 .. 10,
                      k * records[token].weight = STROOP, WorthFalls(token, k)
               PROVE  ~DepositForShares(token) /\ ~WithdrawForShares(token)
    OBVIOUS
  <2>1. k \in Nat
    OBVIOUS
  <2> QED
    BY <2>1, DepositKeepsWorth, WithdrawKeepsWorth, Zenon
<1>2. TypeOK /\ N /\ N' => [A]_vars
  BY <1>1
<1>3. Spec => [][A]_vars
  <2> HIDE DEF A, N
  <2>1. Spec => []N
    BY TotalIsNatural DEF N
  <2> QED
    BY <1>2, <2>1, PoolTypeCorrect, PTL
<1> QED
  BY <1>3 DEF SharesByWholePowersKeepTheirWorth

\* What the two conditions of the small steps say in numbers.
LEMMA BarelyMovesBy ==
  ASSUME NEW x \in Nat, NEW a \in Nat, NEW x2 \in Int, BarelyMoves(x, x2),
         x2 = x + a \/ x2 = x - a
  PROVE  /\ a * BONE <= CPOW_PRECISION * x /\ a * BONE <= CPOW_PRECISION * x2
         /\ 2 * a * BONE <= CPOW_PRECISION * x
<1>1. PICK one \in Nat, p \in Nat : one = BONE /\ p = CPOW_PRECISION
  BY NumAssumption
<1>2. Abs(x2 - x) = a
  BY DEF Abs
<1>3. 2 * a * one <= p * x /\ 2 * a * one <= p * x2
  BY <1>1, <1>2 DEF BarelyMoves
<1>4. a * one \in Nat /\ 2 * a * one = 2 * (a * one) /\ p * x \in Int /\ p * x2 \in Int
  OBVIOUS
<1> QED
  BY <1>1, <1>3, <1>4

LEMMA WeightsInLowestTerms ==
  ASSUME NEW a \in Nat, NEW b \in Nat, NEW d \in 1 .. a, IsGcd(d, a, b)
  PROVE  LET m == a \div d
             n == b \div d
         IN m \in Nat /\ n \in Nat /\ n * a = m * b
<1>1. d \in Nat \ {0} /\ a % d = 0 /\ b % d = 0
  BY DEF IsGcd
<1>2. PICK m \in Int, n \in Int : m = a \div d /\ n = b \div d
  BY <1>1
<1>3. a = m * d /\ b = n * d
  BY <1>1, <1>2
<1>4. m >= 0 /\ n >= 0
  <2>1. 0 * d <= m * d /\ 0 * d <= n * d
    BY <1>1, <1>3
  <2> QED
    BY <1>1, <1>2, <2>1, TimesReflectsOrder
<1>5. n * a = m * b
  <2>1. n * (m * d) = m * (n * d)
    BY <1>1
  <2> QED
    BY <1>3, <2>1
<1> QED
  BY <1>2, <1>4, <1>5

\* A step that is not worse for the exponents of the weights, whatever they
\* are, is not worse in lowest terms.
LEMMA ValueDoesNotFall ==
  ASSUME NEW x, NEW y, records[x].weight \in Nat, records[y].weight \in Nat,
         NEW bx \in Int, NEW by \in Int, NEW bx2 \in Int, NEW by2 \in Int,
         bx = records[x].balance, by = records[y].balance,
         bx2 = records'[x].balance, by2 = records'[y].balance,
         \A m, n \in Nat : n * records[x].weight = m * records[y].weight
           => Pow(bx, m) * Pow(by, n) <= Pow(bx2, m) * Pow(by2, n)
  PROVE  ~WeightedValueFalls(x, y)
<1> SUFFICES ASSUME WeightedValueFalls(x, y) PROVE FALSE
  OBVIOUS
<1>1. PICK d, m, n :
        /\ d \in 1 .. records[x].weight
        /\ m = records[x].weight \div d /\ n = records[y].weight \div d
        /\ IsGcd(d, records[x].weight, records[y].weight)
        /\ Pow(bx2, m) * Pow(by2, n) < Pow(bx, m) * Pow(by, n)
  BY Zenon DEF WeightedValueFalls
<1>2. m \in Nat /\ n \in Nat /\ n * records[x].weight = m * records[y].weight
  <2>1. PICK a \in Nat, b \in Nat : a = records[x].weight /\ b = records[y].weight
    OBVIOUS
  <2> QED
    BY <1>1, <2>1, WeightsInLowestTerms
<1>3. Pow(bx, m) * Pow(by, n) <= Pow(bx2, m) * Pow(by2, n)
  BY <1>2
<1>4. PICK p1 \in Int, p2 \in Int, p3 \in Int, p4 \in Int :
        p1 = Pow(bx, m) /\ p2 = Pow(by, n) /\ p3 = Pow(bx2, m) /\ p4 = Pow(by2, n)
  BY <1>2, PowIsInteger
<1>5. p1 * p2 \in Int /\ p3 * p4 \in Int
  OBVIOUS
<1> QED
  BY <1>1, <1>3, <1>4, <1>5

LEMMA WorthDoesNotFall ==
  ASSUME NEW token, records[token].weight \in Nat,
         NEW b \in Int, NEW b2 \in Int, NEW s \in Int, NEW s2 \in Int,
         b = records[token].balance, b2 = records'[token].balance,
         s = totalShares, s2 = totalShares',
         \A m, n \in Nat : n * records[token].weight = m * STROOP
           => Pow(b, m) * Pow(s2, n) <= Pow(b2, m) * Pow(s, n)
  PROVE  ~WeightedWorthFalls(token)
<1> SUFFICES ASSUME WeightedWorthFalls(token) PROVE FALSE
  OBVIOUS
<1>1. PICK d, m, n :
        /\ d \in 1 .. records[token].weight
        /\ m = records[token].weight \div d /\ n = STROOP \div d
        /\ IsGcd(d, records[token].weight, STROOP)
        /\ Pow(b2, m) * Pow(s, n) < Pow(b, m) * Pow(s2, n)
  BY Zenon DEF WeightedWorthFalls
<1>2. m \in Nat /\ n \in Nat /\ n * records[token].weight = m * STROOP
  <2>1. PICK a \in Nat, st \in Nat : a = records[token].weight /\ st = STROOP
    BY MathAssumption
  <2> QED
    BY <1>1, <2>1, WeightsInLowestTerms
<1>3. Pow(b, m) * Pow(s2, n) <= Pow(b2, m) * Pow(s, n)
  BY <1>2
<1>4. PICK p1 \in Int, p2 \in Int, p3 \in Int, p4 \in Int :
        p1 = Pow(b, m) /\ p2 = Pow(s2, n) /\ p3 = Pow(b2, m) /\ p4 = Pow(s, n)
  BY <1>2, PowIsInteger
<1>5. p1 * p2 \in Int /\ p3 * p4 \in Int
  OBVIOUS
<1> QED
  BY <1>1, <1>3, <1>4, <1>5

LEMMA SmallSwapInKeepsValue ==
  ASSUME TypeOK, NEW in, NEW out, SwapInStep(in, out),
         BarelyMoves(records[in].balance, records'[in].balance)
  PROVE  ~WeightedValueFalls(in, out)
<1>1. PICK user \in Users, amount \in TokenAmounts, limit \in MinLimits, price \in MaxLimits :
        SwapExactAmountIn(user, in, amount, out, limit, price)
  BY DEF SwapInStep
<1>2. PICK v \in SwapInQuote(in, amount, out, limit, price) : Swap(user, in, amount, out, v)
  BY <1>1 DEF SwapExactAmountIn
<1>3. /\ in \in Bound /\ out \in Bound /\ in # out /\ v \in Int
      /\ v \in CalcTokenOutGivenTokenIn(records[in], records[out], amount, swapFee)
      /\ amount > 0
  <2>1. /\ in \in Bound /\ out \in Bound /\ in # out /\ amount > 0
        /\ v \in CalcTokenOutGivenTokenIn(records[in], records[out], amount, swapFee)
    BY Zenon DEF SwapInQuote
  <2> QED
    BY <2>1, SwapQuoteFacts
<1>4. amount \in Nat
  BY <1>3, InputsAreIntegers
<1>5. /\ records'[in].balance = records[in].balance + amount
      /\ records'[out].balance = records[out].balance - v
  BY <1>2, <1>3, <1>4, SwapMovesBalances
<1>6. /\ records[in].balance \in Nat /\ records[in].scalar \in Nat \ {0}
      /\ records[out].balance \in Nat /\ records[out].scalar \in Nat \ {0}
      /\ records[in].weight \in Nat /\ records[out].weight \in Nat \ {0}
      /\ swapFee \in 0 .. MAX_FEE
  BY <1>3, RecordParts
<1>7. PICK x \in Int, x2 \in Int, y \in Int, y2 \in Int :
        /\ x \in Nat /\ x = records[in].balance /\ x2 = x + amount /\ x2 = records'[in].balance
        /\ y = records[out].balance /\ y2 = y - v /\ y2 = records'[out].balance
  <2>1. records[in].balance + amount \in Nat /\ records[out].balance - v \in Int
    BY <1>3, <1>4, <1>6
  <2> QED
    BY <1>5, <1>6, <2>1
<1>8. amount * BONE <= CPOW_PRECISION * (records[in].balance + amount)
  BY <1>4, <1>7, BarelyMovesBy
<1>9. ASSUME NEW m \in Nat, NEW n \in Nat, n * records[in].weight = m * records[out].weight
      PROVE  Pow(x, m) * Pow(y, n) <= Pow(x2, m) * Pow(y2, n)
  <2>1. Pow(y, n) * Pow(x, m) <= Pow(y2, n) * Pow(x2, m)
    BY <1>3, <1>4, <1>6, <1>7, <1>8, <1>9, SmallSwapIn
  <2>2. PICK p1 \in Int, p2 \in Int, p3 \in Int, p4 \in Int :
          p1 = Pow(x, m) /\ p2 = Pow(y, n) /\ p3 = Pow(x2, m) /\ p4 = Pow(y2, n)
    BY PowIsInteger
  <2> QED
    BY <2>1, <2>2
<1> QED
  BY <1>6, <1>7, <1>9, ValueDoesNotFall

LEMMA SmallSwapOutKeepsValue ==
  ASSUME TypeOK, NEW in, NEW out, SwapOutStep(in, out),
         BarelyMoves(records[out].balance, records'[out].balance)
  PROVE  ~WeightedValueFalls(in, out)
<1>1. PICK user \in Users, amount \in TokenAmounts, limit \in MaxLimits, price \in MaxLimits :
        SwapExactAmountOut(user, in, limit, out, amount, price)
  BY DEF SwapOutStep
<1>2. PICK v \in SwapOutQuote(in, limit, out, amount, price) : Swap(user, in, v, out, amount)
  BY <1>1 DEF SwapExactAmountOut
<1>3. /\ in \in Bound /\ out \in Bound /\ in # out /\ v \in Int
      /\ v \in CalcTokenInGivenTokenOut(records[in], records[out], amount, swapFee)
      /\ amount > 0
  <2>1. /\ in \in Bound /\ out \in Bound /\ in # out /\ amount > 0
        /\ v \in CalcTokenInGivenTokenOut(records[in], records[out], amount, swapFee)
    BY Zenon DEF SwapOutQuote
  <2> QED
    BY <2>1, SwapQuoteFacts
<1>4. amount \in Nat
  BY <1>3, InputsAreIntegers
<1>5. /\ records'[in].balance = records[in].balance + v
      /\ records'[out].balance = records[out].balance - amount
  BY <1>2, <1>3, <1>4, SwapMovesBalances
<1>6. /\ records[in].balance \in Nat /\ records[in].scalar \in Nat \ {0}
      /\ records[out].balance \in Nat /\ records[out].scalar \in Nat \ {0}
      /\ records[in].weight \in Nat \ {0} /\ records[out].weight \in Nat
      /\ swapFee \in 0 .. MAX_FEE
  BY <1>3, RecordParts
<1>7. PICK x \in Int, x2 \in Int, y \in Int, y2 \in Int :
        /\ x \in Nat /\ x = records[out].balance /\ x2 = x - amount /\ x2 = records'[out].balance
        /\ y = records[in].balance /\ y2 = y + v /\ y2 = records'[in].balance
  <2>1. records[out].balance - amount \in Int /\ records[in].balance + v \in Int
    BY <1>3, <1>4, <1>6
  <2> QED
    BY <1>5, <1>6, <2>1
<1>8. amount * BONE <= CPOW_PRECISION * (records[out].balance - amount)
  BY <1>4, <1>7, BarelyMovesBy
<1>9. ASSUME NEW m \in Nat, NEW n \in Nat, n * records[in].weight = m * records[out].weight
      PROVE  Pow(y, m) * Pow(x, n) <= Pow(y2, m) * Pow(x2, n)
  <2>1. m * records[out].weight = n * records[in].weight
    BY <1>9
  <2> QED
    BY <1>3, <1>4, <1>6, <1>7, <1>8, <2>1, SmallSwapOut
<1> QED
  BY <1>6, <1>7, <1>9, ValueDoesNotFall

LEMMA SmallDepositForSharesKeepsWorth ==
  ASSUME TypeOK, totalShares \in Nat, totalShares' \in Nat,
         NEW token, DepositForShares(token), BarelyMoves(totalShares, totalShares')
  PROVE  ~WeightedWorthFalls(token)
<1>1. PICK user \in Users, shares \in Amounts, limit \in MaxLimits :
        DepLpToknAmtOutGetToknIn(user, token, shares, limit)
  BY DEF DepositForShares
<1>2. PICK v \in DepOutQuote(token, shares, limit) : Deposit(user, token, v, shares)
  BY <1>1 DEF DepLpToknAmtOutGetToknIn
<1>3. /\ token \in Bound /\ v \in Int /\ shares > 0
      /\ v \in CalcTokenDepositsInGivenLpTokenAmount(records[token], totalShares, shares, swapFee)
  BY CalcDepositFits DEF DepOutQuote
<1>4. shares \in Nat
  BY <1>3, InputsAreIntegers
<1>5. /\ records'[token].balance = records[token].balance + v
      /\ totalShares' = totalShares + shares
  BY <1>2, <1>3, OneTokenMovesBalance DEF Deposit, MintShares
<1>6. /\ records[token].balance \in Nat /\ records[token].scalar \in Nat \ {0}
      /\ records[token].weight \in MIN_WEIGHT .. MAX_WEIGHT /\ swapFee \in 0 .. MAX_FEE
      /\ records[token].weight \in Nat
  BY <1>3, RecordParts
<1>7. PICK b \in Int, b2 \in Int, s \in Int, s2 \in Int :
        /\ b = records[token].balance /\ b2 = b + v /\ b2 = records'[token].balance
        /\ s = totalShares /\ s2 = s + shares /\ s2 = totalShares'
  <2>1. records[token].balance + v \in Int
    BY <1>3, <1>6
  <2> QED
    BY <1>5, <1>6, <2>1
<1>8. shares * BONE <= CPOW_PRECISION * totalShares
  <2>1. totalShares' \in Int
    OBVIOUS
  <2> QED
    BY <1>4, <1>5, <2>1, BarelyMovesBy
<1>9. ASSUME NEW m \in Nat, NEW n \in Nat, n * records[token].weight = m * STROOP
      PROVE  Pow(b, m) * Pow(s2, n) <= Pow(b2, m) * Pow(s, n)
  <2>1. m * STROOP = n * records[token].weight
    BY <1>9
  <2> QED
    BY <1>3, <1>4, <1>6, <1>7, <1>8, <2>1, SmallDepositForShares
<1> QED
  BY <1>6, <1>7, <1>9, WorthDoesNotFall

LEMMA SmallWithdrawalForSharesKeepsWorth ==
  ASSUME TypeOK, totalShares \in Nat, totalShares' \in Nat,
         NEW token, WithdrawForShares(token), BarelyMoves(totalShares, totalShares')
  PROVE  ~WeightedWorthFalls(token)
<1>1. PICK user \in Users, shares \in Amounts, limit \in MinLimits :
        WdrToknAmtInGetLpToknsOut(user, token, shares, limit)
  BY DEF WithdrawForShares
<1>2. PICK v \in WdrInQuote(token, shares, limit) : Withdraw(user, token, v, shares)
  BY <1>1 DEF WdrToknAmtInGetLpToknsOut
<1>3. /\ token \in Bound /\ v \in Int /\ shares > 0
      /\ v \in CalcTokenWithdrawalAmountGivenLpTokenAmount(records[token], totalShares, shares, swapFee)
  BY CalcWithdrawalFits DEF WdrInQuote
<1>4. shares \in Nat
  BY <1>3, InputsAreIntegers
<1>5. /\ records'[token].balance = records[token].balance - v
      /\ totalShares' = totalShares - shares
  BY <1>2, <1>3, WithdrawalMovesBalance
<1>6. /\ records[token].balance \in Nat /\ records[token].scalar \in Nat \ {0}
      /\ records[token].weight \in MIN_WEIGHT .. MAX_WEIGHT /\ swapFee \in 0 .. MAX_FEE
      /\ records[token].weight \in Nat /\ shares \in 0 .. totalShares
  BY <1>3, <1>4, <1>5, RecordParts
<1>7. PICK b \in Int, b2 \in Int, s \in Int, s2 \in Int :
        /\ b = records[token].balance /\ b2 = b - v /\ b2 = records'[token].balance
        /\ s = totalShares /\ s2 = s - shares /\ s2 = totalShares'
  <2>1. records[token].balance - v \in Int
    BY <1>3, <1>6
  <2> QED
    BY <1>5, <1>6, <2>1
<1>8. shares * BONE <= CPOW_PRECISION * totalShares
  <2>1. totalShares' \in Int
    OBVIOUS
  <2> QED
    BY <1>4, <1>5, <2>1, BarelyMovesBy
<1>9. ASSUME NEW m \in Nat, NEW n \in Nat, n * records[token].weight = m * STROOP
      PROVE  Pow(b, m) * Pow(s2, n) <= Pow(b2, m) * Pow(s, n)
  <2>1. m * STROOP = n * records[token].weight
    BY <1>9
  <2> QED
    BY <1>3, <1>4, <1>6, <1>7, <1>8, <2>1, SmallWithdrawalForShares
<1> QED
  BY <1>6, <1>7, <1>9, WorthDoesNotFall

LEMMA SmallDepositOfAmountKeepsWorth ==
  ASSUME TypeOK, totalShares \in Nat, totalShares' \in Nat,
         NEW token, DepositOfAmount(token),
         BarelyMoves(records[token].balance, records'[token].balance)
  PROVE  ~WeightedWorthFalls(token)
<1>1. PICK user \in Users, amount \in TokenAmounts, limit \in MinLimits :
        DepToknAmtInGetLpToknsOut(user, token, amount, limit)
  BY DEF DepositOfAmount
<1>2. PICK v \in DepInQuote(token, amount, limit) : Deposit(user, token, amount, v)
  BY <1>1 DEF DepToknAmtInGetLpToknsOut
<1>3. /\ token \in Bound /\ amount > 0
      /\ v \in CalcLpTokenAmountGivenTokenDepositsIn(records[token], totalShares, amount, swapFee)
  BY Zenon DEF DepInQuote
<1>4. amount \in Nat /\ amount \in Int
  BY <1>3, InputsAreIntegers
<1>5. /\ records'[token].balance = records[token].balance + amount
      /\ totalShares' = totalShares + v
  BY <1>2, <1>3, <1>4, OneTokenMovesBalance DEF Deposit, MintShares
<1>6. /\ records[token].balance \in Nat /\ records[token].scalar \in Nat \ {0}
      /\ records[token].weight \in MIN_WEIGHT .. MAX_WEIGHT /\ swapFee \in 0 .. MAX_FEE
      /\ records[token].weight \in Nat
  BY <1>3, RecordParts
<1>7. amount * BONE <= CPOW_PRECISION * records[token].balance
  <2>1. records'[token].balance \in Int
    BY <1>4, <1>5, <1>6
  <2> QED
    BY <1>4, <1>5, <1>6, <2>1, BarelyMovesBy
<1>8. ASSUME NEW m \in Nat, NEW n \in Nat, n * records[token].weight = m * STROOP
      PROVE  /\ v \in Int
             /\ Pow(totalShares + v, n) * Pow(records[token].balance, m)
                  <= Pow(totalShares, n) * Pow(records[token].balance + amount, m)
  BY <1>3, <1>4, <1>6, <1>7, <1>8, SmallDepositOfAmount
<1>9. PICK b \in Int, b2 \in Int, s \in Int, s2 \in Int :
        /\ b = records[token].balance /\ b2 = records[token].balance + amount
        /\ b2 = records'[token].balance
        /\ s = totalShares /\ s2 = totalShares + v /\ s2 = totalShares'
  <2>1. records[token].balance + amount \in Int /\ totalShares' \in Int
    BY <1>4, <1>6
  <2> QED
    BY <1>5, <1>6, <2>1
<1>10. ASSUME NEW m \in Nat, NEW n \in Nat, n * records[token].weight = m * STROOP
       PROVE  Pow(b, m) * Pow(s2, n) <= Pow(b2, m) * Pow(s, n)
  <2>1. Pow(s2, n) * Pow(b, m) <= Pow(s, n) * Pow(b2, m)
    BY <1>8, <1>9, <1>10
  <2>2. PICK p1 \in Int, p2 \in Int, p3 \in Int, p4 \in Int :
          p1 = Pow(b, m) /\ p2 = Pow(s2, n) /\ p3 = Pow(b2, m) /\ p4 = Pow(s, n)
    BY PowIsInteger
  <2> QED
    BY <2>1, <2>2
<1> QED
  BY <1>6, <1>9, <1>10, WorthDoesNotFall

LEMMA SmallWithdrawalOfAmountKeepsWorth ==
  ASSUME TypeOK, totalShares \in Nat, totalShares' \in Nat,
         NEW token, WithdrawOfAmount(token),
         BarelyMoves(records[token].balance, records'[token].balance)
  PROVE  ~WeightedWorthFalls(token)
<1>1. PICK user \in Users, amount \in TokenAmounts, limit \in MaxLimits :
        WdrToknAmtOutGetLpToknsIn(user, token, amount, limit)
  BY DEF WithdrawOfAmount
<1>2. PICK v \in WdrOutQuote(token, amount, limit) : Withdraw(user, token, amount, v)
  BY <1>1 DEF WdrToknAmtOutGetLpToknsIn
<1>3. /\ token \in Bound /\ amount > 0
      /\ v \in CalcLpTokenAmountGivenTokenWithdrawalAmount(records[token], totalShares, amount, swapFee)
  BY Zenon DEF WdrOutQuote
<1>4. amount \in Nat /\ amount \in Int
  BY <1>3, InputsAreIntegers
<1>5. /\ records'[token].balance = records[token].balance - amount
      /\ totalShares' = totalShares - v
  BY <1>2, <1>3, <1>4, WithdrawalMovesBalance
<1>6. /\ records[token].balance \in Nat /\ records[token].scalar \in Nat \ {0}
      /\ records[token].weight \in MIN_WEIGHT .. MAX_WEIGHT /\ swapFee \in 0 .. MAX_FEE
      /\ records[token].weight \in Nat
  BY <1>3, RecordParts
<1>7. 2 * amount * BONE <= CPOW_PRECISION * records[token].balance
  <2>1. records'[token].balance \in Int
    BY <1>4, <1>5, <1>6
  <2> QED
    BY <1>4, <1>5, <1>6, <2>1, BarelyMovesBy
<1>8. ASSUME NEW m \in Nat, NEW n \in Nat, n * records[token].weight = m * STROOP
      PROVE  Pow(totalShares - v, n) * Pow(records[token].balance, m)
               <= Pow(totalShares, n) * Pow(records[token].balance - amount, m)
  BY <1>3, <1>4, <1>6, <1>7, <1>8, SmallWithdrawalOfAmount
<1>9. PICK b \in Int, b2 \in Int, s \in Int, s2 \in Int :
        /\ b = records[token].balance /\ b2 = records[token].balance - amount
        /\ b2 = records'[token].balance
        /\ s = totalShares /\ s2 = totalShares - v /\ s2 = totalShares'
  <2>1. records[token].balance - amount \in Int /\ totalShares' \in Int
    BY <1>4, <1>6
  <2> QED
    BY <1>5, <1>6, <2>1
<1>10. ASSUME NEW m \in Nat, NEW n \in Nat, n * records[token].weight = m * STROOP
       PROVE  Pow(b, m) * Pow(s2, n) <= Pow(b2, m) * Pow(s, n)
  <2>1. Pow(s2, n) * Pow(b, m) <= Pow(s, n) * Pow(b2, m)
    BY <1>8, <1>9, <1>10
  <2>2. PICK p1 \in Int, p2 \in Int, p3 \in Int, p4 \in Int :
          p1 = Pow(b, m) /\ p2 = Pow(s2, n) /\ p3 = Pow(b2, m) /\ p4 = Pow(s, n)
    BY PowIsInteger
  <2> QED
    BY <2>1, <2>2
<1> QED
  BY <1>6, <1>9, <1>10, WorthDoesNotFall

\* For every scale, weight, fee and number of tokens: a swap so small that its
\* power is one term leaves the invariant of the two tokens, to the powers of
\* their weights, where it was or higher.  The quotient that is the exponent is
\* rounded (c_math.rs:51, 87), and so is the power: neither needs the fee.
THEOREM SmallSwapsAreHarmless == Spec => SmallSwapsLoseNothing
<1> DEFINE A == \A in, out \in Bound :
                  /\ BarelyMoves(records[in].balance, records'[in].balance)
                       /\ WeightedValueFalls(in, out)
                       => ~SwapInStep(in, out)
                  /\ BarelyMoves(records[out].balance, records'[out].balance)
                       /\ WeightedValueFalls(in, out)
                       => ~SwapOutStep(in, out)
<1>1. TypeOK => A
  BY SmallSwapInKeepsValue, SmallSwapOutKeepsValue, Zenon
<1>2. TypeOK => [A]_vars
  BY <1>1
<1>3. Spec => [][A]_vars
  <2> HIDE DEF A
  <2> QED
    BY <1>2, PoolTypeCorrect, PTL
<1> QED
  BY <1>3 DEF SmallSwapsLoseNothing

\* And a deposit or a withdrawal as small, in either direction of rounding,
\* leaves a share with as much of the token as before, to the power of its
\* weight, or more.
THEOREM SmallDepositsAndWithdrawalsAreHarmless == Spec => SmallSharesKeepTheirWorth
<1> DEFINE N == totalShares \in Nat
           A == \A token \in Bound :
                  /\ BarelyMoves(records[token].balance, records'[token].balance)
                       /\ (DepositOfAmount(token) \/ WithdrawOfAmount(token))
                       => ~WeightedWorthFalls(token)
                  /\ BarelyMoves(totalShares, totalShares')
                       /\ (DepositForShares(token) \/ WithdrawForShares(token))
                       => ~WeightedWorthFalls(token)
<1>1. TypeOK /\ N /\ N' => A
  BY SmallDepositOfAmountKeepsWorth, SmallWithdrawalOfAmountKeepsWorth,
     SmallDepositForSharesKeepsWorth, SmallWithdrawalForSharesKeepsWorth, Zenon
<1>2. TypeOK /\ N /\ N' => [A]_vars
  BY <1>1
<1>3. Spec => [][A]_vars
  <2> HIDE DEF A, N
  <2>1. Spec => []N
    BY TotalIsNatural DEF N
  <2> QED
    BY <1>2, <2>1, PoolTypeCorrect, PTL
<1> QED
  BY <1>3 DEF SmallSharesKeepTheirWorth
=============================================================================
