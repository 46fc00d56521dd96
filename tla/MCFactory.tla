----------------------------- MODULE MCFactory -----------------------------
(***************************************************************************)
(* Two users who create pools with the same salt, one contract that is not *)
(* the factory's, two versions of the code, and entries that outlive the   *)
(* ledgers nobody asks for them or do not.                                 *)
(***************************************************************************)
EXTENDS Factory

CONSTANTS alice, bob, salt1, other

TwoUsers == {alice, bob}
OneSalt  == {salt1}
OneOther == {other}
=============================================================================
