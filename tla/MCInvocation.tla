---------------------------- MODULE MCInvocation ----------------------------
(***************************************************************************)
(* Two users, one of whom lacks some of a token, and a pool of two tokens. *)
(* Every sequence of at most MaxCalls invocations, each executed step by   *)
(* step, over ledgers in which the expiration of approvals changes once.   *)
(***************************************************************************)
EXTENDS Invocation

CONSTANTS alice, bob, comet, tokenA, tokenB, MaxCalls

VARIABLE calls

TwoUsers     == {alice, bob}
NoSpender    == {}
TwoTokens    == {tokenA, tokenB}
Scalars      == [t \in TwoTokens |-> IF t = tokenA THEN 50 ELSE 25]
Endowments   == [t \in TwoTokens |-> [u \in TwoUsers |-> IF u = alice THEN 21 ELSE 2]]
Vectors      == {<<tokenA, tokenB>>, <<tokenB, tokenB>>}
SomeWeights  == {<<25, 25>>, <<25, 20>>}
SomeDeposits == {<<9, 18>>}
SomeShares   == {1}
SomeAmounts  == {3}
Fees         == {2}
Floors       == {1, 2}
Caps         == {5, 100}

CountedInit == InvocationInit /\ calls = 0

CountedNext ==
  \/ /\ Begin \/ AtOnce
     /\ calls' = IF ledger' = ledger THEN calls + 1 ELSE calls
     /\ calls' <= MaxCalls
  \/ (Step \/ Return \/ Trap \/ Refuse) /\ calls' = calls

CountedSpec == CountedInit /\ [][CountedNext]_<<callVars, calls>> /\ HostFairness
=============================================================================
