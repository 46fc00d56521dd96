------------------------------- MODULE Powers -------------------------------
(***************************************************************************)
(* Exact integer powers, which the roundings of the code are compared      *)
(* with.  No contract computes one.                                        *)
(***************************************************************************)
EXTENDS Integers

\* x multiplied n times, as a function by recursion on n.
Pow(x, n) == LET power[k \in Nat] == IF k = 0 THEN 1 ELSE x * power[k - 1]
             IN power[n]
=============================================================================
