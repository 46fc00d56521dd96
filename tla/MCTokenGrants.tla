--------------------------- MODULE MCTokenGrants ---------------------------
(***************************************************************************)
(* Two holders, one of them the spender for both (for himself too), at     *)
(* most I128Max shares in all, and a few ledgers: enough for an entry to   *)
(* be rewritten while it lives, to die and to be written anew, and for an  *)
(* approval to reach the longest life there is.                            *)
(***************************************************************************)
EXTENDS TokenGrants

CONSTANTS alice, bob, comet

TwoUsers    == {alice, bob}
OneSpender  == {bob}
SomeAmounts == {-1, 0, 1, 2}
=============================================================================
