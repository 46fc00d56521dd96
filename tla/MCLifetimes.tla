---------------------------- MODULE MCLifetimes ----------------------------
(***************************************************************************)
(* One user, and the pool's own address as the second holder, over more    *)
(* ledgers than the longest life.                                          *)
(***************************************************************************)
EXTENDS Lifetimes

CONSTANT alice

OneUser   == {alice}
OneAmount == {1}
=============================================================================
