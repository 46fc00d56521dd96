------------------------------- MODULE Vault -------------------------------
(***************************************************************************)
(* What the pool promises to whoever's tokens it holds, whatever its       *)
(* prices are: a vault that keeps books of the tokens bound to it.  What   *)
(* is booked moves between the vault and one user, who asks for it; books  *)
(* and ledgers change together; the terms are settled once; a frozen vault *)
(* only pays out.  How much moves against how many shares is left open.    *)
(***************************************************************************)
EXTENDS Integers

CONSTANTS Users, Pool, Tokens, Nobody

VARIABLES
  owner, frozen,   \* who may freeze the vault, and whether he has
  terms,           \* what init settles: the fee, the weights, the scalars
  booked,          \* what the vault has on record of each bound token
  ledgers,         \* what the tokens themselves say
  shares, supply

vaultVars == <<owner, frozen, terms, booked, ledgers, shares, supply>>

\* The user pays the vault amounts[t] of each t, or is paid if it is negative.
Moves(user, amounts) ==
  ledgers' = [t \in Tokens |->
    IF t \in DOMAIN amounts
      THEN [ledgers[t] EXCEPT ![user] = @ - amounts[t], ![Pool] = @ + amounts[t]]
      ELSE ledgers[t]]

IssuesTo(user) == shares' = [shares EXCEPT ![user] = @ + (supply' - supply)]

Init ==
  /\ owner = Nobody /\ ~frozen
  /\ booked = <<>>   \* the function with no domain
  /\ supply = 0
  /\ \A a \in Users \cup {Pool} : shares[a] = 0
  /\ \A t \in Tokens : ledgers[t][Pool] = 0

Open(user) ==
  /\ owner = Nobody
  /\ owner' = user
  /\ DOMAIN booked' \subseteq Tokens /\ DOMAIN booked' # {}
  /\ Moves(user, booked')
  /\ IssuesTo(user)
  /\ supply' >= supply
  /\ UNCHANGED frozen

Settle(user) ==
  /\ owner # Nobody
  /\ DOMAIN booked' = DOMAIN booked
  /\ Moves(user, [t \in DOMAIN booked |-> booked'[t] - booked[t]])
  /\ IssuesTo(user)
  /\ frozen => /\ \A t \in DOMAIN booked : booked'[t] <= booked[t]
               /\ supply' <= supply
  /\ UNCHANGED <<owner, frozen, terms>>

Administer(user) ==
  /\ user = owner
  /\ owner' \in Users
  /\ frozen' \in BOOLEAN
  /\ UNCHANGED <<terms, booked, ledgers, shares, supply>>

Give(user, token) ==
  /\ ledgers'[token][Pool] >= ledgers[token][Pool]
  /\ Moves(user, [t \in {token} |-> ledgers'[token][Pool] - ledgers[token][Pool]])
  /\ UNCHANGED <<owner, frozen, terms, booked, shares, supply>>

\* Shares change hands or are burned.
Trade ==
  /\ supply' <= supply
  /\ UNCHANGED <<owner, frozen, terms, booked, ledgers>>

Next ==
  \/ \E user \in Users : Open(user) \/ Settle(user) \/ Administer(user)
  \/ \E user \in Users, token \in Tokens : Give(user, token)
  \/ Trade

Spec == Init /\ [][Next]_vaultVars
=============================================================================
