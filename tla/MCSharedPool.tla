---------------------------- MODULE MCSharedPool ----------------------------
(***************************************************************************)
(* Two users who race for the initialization of a pool, with good and bad  *)
(* arguments, and then use it, one of them also as a spender of the other. *)
(* Amounts may overflow: the largest i128 is just above what the pool      *)
(* begins with.  Every sequence of at most MaxSteps invocations.           *)
(***************************************************************************)
EXTENDS CometPool

CONSTANTS alice, bob, comet, tokenA, tokenB, tokenC, tokenD, MaxSteps

VARIABLE steps

TwoUsers     == {alice, bob}
OneSpender   == {bob}
FourTokens   == {tokenA, tokenB, tokenC, tokenD}
\* tokenD has more than 18 decimals
Scalars      == [t \in FourTokens |-> CASE t = tokenA -> 50 [] t = tokenD -> 0 [] OTHER -> 25]
Endowments   == [t \in FourTokens |-> [u \in TwoUsers |-> IF u = alice THEN 60 ELSE 40]]
Vectors      == {<<tokenA, tokenB>>, <<tokenA, tokenA>>, <<tokenA, tokenD>>, <<tokenB>>,
                 <<tokenB, tokenA, tokenB>>, <<tokenA, tokenB, tokenC>>}
SomeWeights  == {<<20, 30>>, <<25, 25>>, <<25, 30>>, <<50>>, <<20, 20, 10>>}
SomeDeposits == {<<30, 24>>, <<12, 1>>, <<50>>, <<10, 20, 30>>}
SomeShares   == {-1, 2, 10}
SomeAmounts  == {-1, 2}
Fees         == {0, 2}
Floors       == {-1, 0, 3}
Caps         == {2, 1000}

SharedInit == Init /\ steps = 0

SharedNext == Next /\ steps < MaxSteps /\ steps' = steps + 1

SharedSpec == SharedInit /\ [][SharedNext]_<<vars, steps>>
=============================================================================
