------------------------------- MODULE I128 -------------------------------
(***************************************************************************)
(* The amounts of the contracts are Rust i128 values.  The contracts are   *)
(* built with overflow-checks = true (Cargo.toml), so an operation whose   *)
(* result does not fit panics and the host rolls the invocation back.      *)
(***************************************************************************)
EXTENDS Integers

CONSTANT I128Max   \* 2^127 - 1 in the code, small in the checked instances

ASSUME I128Assumption == I128Max \in Nat \ {0}

I128 == (-I128Max - 1) .. I128Max

\* The result of an addition or multiplication: {v}, or {} when it panics.
Checked(v) == {v} \cap I128
=============================================================================
