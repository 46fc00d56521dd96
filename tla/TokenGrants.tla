---------------------------- MODULE TokenGrants ----------------------------
(***************************************************************************)
(* What approve promises, next to what allowance.rs stores.                *)
(*                                                                         *)
(* grants is a history variable: for every owner and spender the amount    *)
(* that the owner's last approve left to the spender, less what the        *)
(* spender has moved since, and the last ledger of the approval.  It knows *)
(* nothing of storage entries and their lives.  The invariants say that    *)
(* the allowances of LPToken are always the grants: no entry is deleted    *)
(* while its approval lasts, none outlives it, and nothing is moved twice. *)
(***************************************************************************)
EXTENDS LPToken

VARIABLE grants

grantVars == <<tokenVars, grants>>

Granted(owner, spender) ==
  IF grants[<<owner, spender>>].until >= ledger THEN grants[<<owner, spender>>].amount ELSE 0

Approved(owner, spender, amount, until) ==
  grants' = [grants EXCEPT ![<<owner, spender>>] = [amount |-> amount, until |-> until]]

Used(owner, spender, amount) ==
  grants' = [grants EXCEPT ![<<owner, spender>>].amount = @ - amount]

GrantInit ==
  /\ TokenInit
  /\ grants = [pair \in Users \X Spenders |-> [amount |-> 0, until |-> 0]]

GrantNext ==
  \/ \E from \in Users, spender \in Spenders, amount \in Amounts, until \in 0 .. MaxLedger :
       Approve(from, spender, amount, until) /\ Approved(from, spender, amount, until)
  \/ \E spender \in Spenders, from \in Users, to \in Addresses, amount \in Amounts :
       TransferFrom(spender, from, to, amount) /\ Used(from, spender, amount)
  \/ \E spender \in Spenders, from \in Users, amount \in Amounts :
       BurnFrom(spender, from, amount) /\ Used(from, spender, amount)
  \/ \E from \in Users, to \in Addresses, amount \in Amounts :
       Transfer(from, to, amount) /\ UNCHANGED grants
  \/ \E from \in Users, amount \in Amounts : Burn(from, amount) /\ UNCHANGED grants
  \/ \E to \in Users, amount \in Amounts : MintShares(to, amount) /\ UNCHANGED grants
  \/ \E from \in Users, amount \in Amounts : RedeemShares(from, amount) /\ UNCHANGED grants
  \/ AdvanceLedger /\ UNCHANGED grants

GrantSpec == GrantInit /\ [][GrantNext]_grantVars
-----------------------------------------------------------------------------
(***************************************************************************)
(* Properties                                                              *)
(***************************************************************************)

\* What a spender may move is at every moment what was granted and not yet
\* used, up to and including the last ledger of the approval and not after:
\* the entry's life (allowance.rs:49-51) never ends before the approval does,
\* and an entry that outlives it is read as nothing (allowance.rs:10).
AllowanceIsTheGrant ==
  \A owner \in Users, spender \in Spenders : ReadAllowance(owner, spender) = Granted(owner, spender)

\* A spender never moves more than was granted, over any number of calls,
\* repeated approvals and expiries in between.
NeverOverspent == \A pair \in Users \X Spenders : grants[pair].amount >= 0
=============================================================================
