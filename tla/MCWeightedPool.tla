--------------------------- MODULE MCWeightedPool ---------------------------
(***************************************************************************)
(* A pool of two tokens, one twice the weight of the other, explored to    *)
(* the end.  Unlike with equal weights, every price of a swap and every    *)
(* one-token deposit and withdrawal goes through the binomial series.      *)
(***************************************************************************)
EXTENDS CometPool

CONSTANTS alice, comet, light, heavy

OneUser      == {alice}
TwoTokens    == {light, heavy}
Scalars      == [t \in TwoTokens |-> IF t = light THEN 50 ELSE 25]
Endowments   == [t \in TwoTokens |-> [u \in OneUser |-> IF t = light THEN 9 ELSE 15]]
NoSpender    == {}
BothTokens   == {<<light, heavy>>}
OneToTwo     == {<<20, 40>>}
Deposits     == {<<6, 12>>}
SomeShares   == {1, 3, 6}
SomeAmounts  == {1, 2, 3}
Fees         == {1}
AnyAmount    == {0}
AnyPrice     == {1000}

\* The invariant of the pool, to the third power: light^1 * heavy^2.
ValueProduct(recs) == recs[light].balance * recs[heavy].balance * recs[heavy].balance

Cube(n) == n * n * n

\* No operation, in whatever order with others, leaves a share worth less
\* than it was, although every one-token price is a truncated and corrected
\* series: the roundings of c_math.rs and the fee cover all of its error.
WeightedShareValueNeverFalls ==
  [][Initialized /\ totalShares' > 0 =>
       ValueProduct(records') * Cube(totalShares)
         >= ValueProduct(records) * Cube(totalShares')]_vars
=============================================================================
