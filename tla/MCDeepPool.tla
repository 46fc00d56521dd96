----------------------------- MODULE MCDeepPool -----------------------------
(***************************************************************************)
(* A pool so deep that a unit is a small part of everything: the base of   *)
(* every power is within CPOW_PRECISION of one and its series ends on the  *)
(* first term.  At most MaxSteps invocations.                              *)
(***************************************************************************)
EXTENDS CometPool

CONSTANTS alice, comet, light, heavy, MaxSteps

VARIABLE steps

OneUser       == {alice}
TwoTokens     == {light, heavy}
Scalars       == [t \in TwoTokens |-> IF t = light THEN 36 ELSE 9]
Endowments    == [t \in TwoTokens |-> [u \in OneUser |-> IF t = light THEN 397 ELSE 1560]]
NoSpender     == {}
BothTokens    == {<<light, heavy>>}
TwoRatios     == {<<200, 400>>, <<300, 300>>}
TwoDeposits   == {<<392, 1540>>, <<385, 410>>}
SomeShares    == {1, 3}
SomeAmounts   == {1, 3, 5}
Fees          == {1}
AnyAmount     == {0}
AnyPrice      == {100000}

DeepInit == Init /\ steps = 0

\* Shares are looked at in the pool of equal weights and the smaller deposit.
\* The others are for trading only: what a share is worth in them is told by
\* powers that are out of TLC's range.
OnlyTrades ==
  Initialized /\ (records[light].weight # 300 \/ records[heavy].balance > 1000)
    => totalShares' = totalShares /\ \A t \in Bound : records'[t] # records[t]

DeepNext == Next /\ OnlyTrades /\ steps < MaxSteps /\ steps' = steps + 1

DeepSpec == DeepInit /\ [][DeepNext]_<<vars, steps>>
=============================================================================
