-------------------------- MODULE MCUpscaleComment --------------------------
(***************************************************************************)
(* One user and a pool of two tokens with 18 decimals, of one of which it  *)
(* holds more than 10^18, that is, more than one.                          *)
(***************************************************************************)
EXTENDS CometPool

CONSTANTS alice, comet, tokenA, tokenB

OneUser      == {alice}
NoSpender    == {}
TwoTokens    == {tokenA, tokenB}
Scalars      == [t \in TwoTokens |-> 1]
Endowments   == [t \in TwoTokens |-> [u \in OneUser |-> 4000]]
Vectors      == {<<tokenA, tokenB>>}
SomeWeights  == {<<25, 25>>}
SomeDeposits == {<<3000, 2000>>}
SomeShares   == {1}
SomeAmounts  == {100}
Fees         == {2}
Floors       == {0}
Caps         == {4000}
=============================================================================
