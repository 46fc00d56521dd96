---------------------------- MODULE MCCometPool ----------------------------
(***************************************************************************)
(* A pool of two tokens of equal weight, small enough to be explored to    *)
(* the end: at this scale almost every product and quotient is rounded.    *)
(***************************************************************************)
EXTENDS CometPool

CONSTANTS alice, comet, tokenA, tokenB

OneUser      == {alice}
TwoTokens    == {tokenA, tokenB}
Scalars      == [t \in TwoTokens |-> IF t = tokenA THEN 50 ELSE 25]
Endowments   == [t \in TwoTokens |-> [u \in OneUser |-> IF t = tokenA THEN 8 ELSE 14]]
NoSpender    == {}
BothTokens   == {<<tokenA, tokenB>>}
EqualWeights == {<<25, 25>>}
Deposits     == {<<6, 12>>}
SomeShares   == {1, 3, 9}
SomeAmounts  == {1, 3}
Fees         == {2}
AnyAmount    == {0}
AnyPrice     == {1000}

\* The value of the pool per share, to the power of the number of shares it
\* is computed from: with equal weights the invariant of the pool is the
\* product of its balances, and a share is worth its square root over the
\* supply.
ValueProduct(recs) == recs[tokenA].balance * recs[tokenB].balance

\* No operation, in whatever order with others, leaves a share worth less
\* than it was: not a swap, whose price is an approximated power; not a
\* deposit or withdrawal of one token, whose shares are; not a donation, a
\* burn or a transfer.
ShareValueNeverFalls ==
  [][Initialized /\ totalShares' > 0 =>
       ValueProduct(records') * totalShares * totalShares
         >= ValueProduct(records) * totalShares' * totalShares']_vars
=============================================================================
