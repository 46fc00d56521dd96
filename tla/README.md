# A TLA+ model of the Comet contracts

Comet is a Balancer-style weighted automated market maker for Soroban (Stellar).
A *pool* contract holds two to eight SEP-41 tokens, sells each for any other at a
price set by their weights, and issues shares of itself, which are a SEP-41
token too: the pool is its own share token. A *factory* contract deploys pools.
This directory models the contracts in TLA+, checks the models with TLC on small
instances and proves many of their properties for all instances with TLAPS.

Paths below are relative to `src/contracts/src/` unless they start with `factory/`.

## 1. Inventory

| Component | Code | State | Operations |
|---|---|---|---|
| Power function | `c_num.rs` | none | `c_pow`, `c_powi`, `c_pow_approx`, `sub_no_negative` |
| Pool mathematics | `c_math.rs`, `c_consts.rs` | none | `calc_spot_price`, two swap prices, four one-token prices, join and exit ratio and amount, scaling |
| Share token | `c_pool/comet.rs` (`TokenInterface`), `allowance.rs`, `balance.rs`, `token_utility.rs` | balances and their total (persistent), allowances (temporary) | `approve`, `transfer`, `transfer_from`, `burn`, `burn_from`; mint, pull and burn for the pool |
| Pool | `c_pool/comet.rs`, `call_logic/init.rs`, `call_logic/pool.rs`, `metadata.rs` | controller, swap fee, freeze flag (instance); a record of balance, weight and scalar for each bound token (persistent) | `init`, `join_pool`, `exit_pool`, two swaps, two one-token deposits, two one-token withdrawals, `set_controller`, `set_freeze_status`, getters |
| Bound tokens | other contracts | their ledgers of balances and allowances | called by the pool: `approve`, `transfer_from`, `transfer`, `decimals` |
| Factory | `factory/src/` | hash of the pool's code, registered pools | `init`, `new_c_pool`, `is_c_pool` |
| Lifetimes of storage | `metadata.rs`, `storage_types.rs`, `balance.rs` | a time to live for each entry | `extend_ttl` on most reads and writes |

**How the components interact.** Users call the pool. A handler reads the pool's
storage, asks `c_math.rs` for a price (which asks `c_num.rs` for a power), calls
the bound tokens to move the payment and the payout, mints or burns shares in
the pool's own token storage, and writes the records back. The pool keeps its
*own* record of what it holds of every bound token and never asks the token.
Users call the share token and the bound tokens directly as well, without the
pool taking notice. The factory calls `init` of the pool it has just deployed.

**What is hard.**

- *Arithmetic.* Every price is a chain of roundings, each with a direction, over
  a power computed from a truncated series. An error of one unit in the wrong
  direction is harmless once and a loss when it is repeated.
- *Sequences.* Every call is atomic, but which calls follow each other, and by
  whom, is arbitrary. Balances can be driven to the edge by legal steps; the last
  share can be redeemed; shares and tokens can be sent to the pool's address
  past its handlers; the pool can be frozen at any moment.
- *Two books.* The records in the pool and the ledgers of the tokens, the total
  and the balances of shares: nothing in the code compares them.
- *Time.* Allowances live in storage that disappears by itself. All other entries
  are archived when nobody has extended them, each in its own time, and a call that
  touches one of these fails until somebody restores it. A call is signed in one
  ledger and executed in another, after calls of others.
- *Failure.* A handler calls tokens in the middle of its work, and each may refuse;
  so may the host, whose budget is limited. A handler that panics anywhere is rolled
  back by the host with all that it called. There are no threads, no messages that
  get lost, and no re-entry into the pool, which the host forbids.

**What makes each component correct.** The power function: a result on the side
of the real power its caller asked for, and never across one. The mathematics:
every amount rounded for the benefit of the pool. The share token: the total is
the sum of the balances, and an allowance is what was approved and not yet used.
The pool: it is solvent, no sequence of calls makes a share worth less, holders
can always leave, freezing and `init` do what they say. An invocation: it happens
completely or not at all, within the limits its user has signed. Storage: nothing is
forgotten, and a pool in use stays open. The factory: it registers nothing but pools
that it has initialised, and all of these.

## 2. Modules

```
I128 <- FixedPoint <- CometNum <- CometMath <-+
  ^                      ^                    |
  |                  MCCometNum               +-- CometPool <- MCCometPool, MCWeightedPool,
  +--- LPToken <------------------------------+    |    ^      MCDeepPool, MCSharedPool, MCUpscaleComment
         ^                                         |    |
         +-- TokenGrants <- MCTokenGrants     Vault     +-- Invocation <- MCInvocation

HostStorage <-+- Factory <- MCFactory
              +- Lifetimes <- MCLifetimes

SumTheorems <- LPTokenProofs <-+
              CometMathProofs <-+- CometPoolProofs <- InvocationProofs
CometMathProofs <- CometNumProofs;  SumTheorems <- LifetimesProofs;  FactoryProofs
Powers <- CometPool, MCCometNum, CometMathProofs
```

- **I128**, **FixedPoint** (external): the 128-bit numbers, whose overflow panics
  because `Cargo.toml` sets `overflow-checks = true`, and the rounding operations
  of the `soroban_fixed_point_math` crate. 256-bit numbers are plain integers:
  no expression of the code comes near their width.
- **CometNum** (`c_num.rs`), **CometMath** (`c_math.rs`): the arithmetic, rounding
  for rounding. An operator for a Rust function that can panic returns a set: `{v}`
  when the function returns `v`, `{}` when it panics. A handler that takes its
  price from an empty set is disabled, which is what a rollback amounts to. The
  scales are CONSTANTS: `BONE` (10^18 in the code), `STROOP` (10^7),
  `CPOW_PRECISION` and so on. The other constants of `c_consts.rs` are computed
  from them by the code's own formulas. The two loops of `c_num.rs` are
  recursive functions of one record, which holds the variables of the loop
  (`PowiState`, `SeriesState`), so that the proof modules can reason about them.
- **Powers**: `Pow(x, n)`, the power of an integer to a natural number. It models
  nothing of the code; properties compare the code's powers with it, and a power with
  the exponent m/n by comparing n-th powers.
- **LPToken**: the share token. `lpBalance`, `totalShares`, `allowances` and the
  number of the current `ledger`. An allowance carries its `liveUntil`: a
  temporary entry whose life is over cannot be told from one that never was. An
  action is one successful invocation by an address that authorised it;
  `HolderCall(user)` is all that one user may call, for himself or as a spender.
- **TokenGrants**: the abstract view of allowances. A history variable knows what
  each owner has granted and each spender has used, and nothing about storage;
  the invariant says that the stored allowances are always the same thing.
- **CometPool**: the pool over both. `controller`, `swapFee`, `freeze`, `records`,
  and `tokenBalance`, the ledgers of the bound tokens. One action for each entry
  point of `comet.rs`; `Swap`, `Deposit` and `Withdraw` are the parts that the two
  entry points of a kind have in common. `JoinCall(user)` and its like are those of one
  user, whom `require_auth` makes the one that authorised the call. `Donate` is a transfer to the pool's
  address behind its back, `HolderStep` is anything that holders do with their
  shares.
- **Vault** is the abstract specification of CometPool: a contract that keeps books of
  tokens, under terms settled once, with an owner who can freeze it. It says what may
  move together with what (tokens and books, shares and supply, all of one user), and
  leaves open how much: nothing of the mathematics is in it. Nor does it say who that
  user is; `OnlyTheCallerIsAffected` and `EveryCallIsItsCallersDeal` do. CometPool instantiates it
  by a refinement mapping in which `booked` is the balances on record.
- **Invocation** is CometPool executed step by step. `call` is the invocation that is
  being executed: its user, what he has agreed to, what the host puts back if it
  panics, the local variables, and in `todo` the sequence of effects that are still to
  come, in the order of the code: `Pull`, `Push`, `Mint`, `Redeem`, `StoreAll` and the
  loops of `join_pool`, `exit_pool` and `init`, which unfold token by token. `Begin…`
  is a handler up to its first effect, with the checks and amounts of CometPool's
  quotes; after that each effect is a step, which may trap (`Trap`), and between any
  two the host or a token may give up (`Refuse`), whereupon all is put back.
  `approvals` are the allowances at the bound tokens, which `pull_underlying` sets to
  the caller's limit and whose rest stays behind. `signedAt` is the ledger in which the
  user signed: a token accepts an approval only if he has signed it, expiration
  included. CometPool is its abstract specification: an invocation that is being
  executed has not happened yet. `replayed` adds up the events of the pool.
- **HostStorage** (external): persistent entries, their lives and their archiving.
- **Lifetimes** has the same entry points as CometPool and LPToken once more, but only
  as to which entries they read, write and extend: `lives` is the last ledger of each
  entry. Prices play no part, so that amounts are left open; shares do, since a missing
  entry is read as zero.
- **Factory**: `new_c_pool` in the three calls it makes to the host, `at` being the one
  that comes next, with what others do before, after and, from the tokens that the
  pool's `init` calls, in the middle of it. `committed` is what the host goes back to
  when the call panics, and what anybody can see. The address of a pool is the
  pair of salt and controller of which the code takes a hash.
- **MC…**: instances for TLC. **…Proofs**: theorems. CometPoolProofs has those about
  Vault too, LPTokenProofs those about TokenGrants, and CometNumProofs the two about
  MCCometNum, whose arguments are in CometMathProofs.

What the models leave out of these components: error codes, the name and
symbol of the token, and the field `index` of a record, which is written once and
read nowhere. The vectors of limits that `join_pool` and `exit_pool` take are
functions from the bound tokens: the check of their length is met by construction,
and that a limit of a join is positive follows from the deposit being positive and
within it. The checks of a handler are conjuncts whatever their order, since all
of them roll back alike.

## 3. Runs

Fairness is assumed in one place: `HostFairness` of Invocation, the weak fairness of
the steps of the invocation that is being executed. The host executes a transaction to
its end within the ledger it is in; a step that can be taken is taken, and nothing is
assumed about who calls what or when. No other specification needs fairness: nothing in
these contracts happens by itself, and a pool that nobody calls is a correct pool.
For the same reason the instances of the pool turn deadlock checking off: with the
funds and calls of a bounded instance used up, there is a state in which no call
succeeds. `token_grants`, `factory` and `lifetimes` have no such state.

| Run | States | What it shows |
|---|---|---|
| `power_function` | 856 | `c_pow` against the real power, for every base from 0.62 to 1.5 and eight exponents between 1/4 and 2. The comparison is exact: powers of integers, no real numbers. |
| `token_grants` | 40 000 | The share token alone, minting and redeeming anything at any time. Allowances are the grants; nothing is overspent; the total is the sum. |
| `pool_one_user` | 96 000 | A pool of two tokens with equal weights, explored to the end. |
| `pool_weighted` | 83 000 | A pool with weights 1 and 2, explored to the end: the value of a share never falls, nor is it lowered by any single operation whose power is a whole one. |
| `deep_pool` | 7 300 | Pools of hundreds of units: no swap of a few units between weights of 1 and 2 costs the pool anything, nor does, with equal weights, a one-token deposit or withdrawal. |
| `pool_shared` | 7 700 | Two users with a spender, bad input for `init`, an unsupported token, pools of two and of three tokens, amounts near the width of an integer, the controller handed on; every action of the specification happens. Three invocations deep. |
| `invocation` | 19 000 | Two users, every sequence of three invocations, each executed effect by effect with refusals and traps. |
| `factory` | 162 000 | Two users and one salt, two versions of the code, one contract that is not the factory's. |
| `lifetimes` | 1 182 000 | One user and the pool's own address as holders, seven ledgers, lives of up to three. |
| `sequence_mismatch` | (violation) | Two ledgers between which the expiration changes. |
| `upscale_comment` | (violation) | A pool of two tokens with 18 decimals. |
| `first_term_comment` | (violation) | The power with an exponent of 1.002. |

**power_function.** `NeverCrossesOne`: a result is never on the other side of 1
than the base, or the callers' `sub_no_negative` would panic. `RoundDownIsALowerBound`:
a power rounded down never exceeds the real one. Rounded up, it may fall short: the
code says "(almost)", and `RoundUpShortByLessThanTerms` says by how much: by no more
than one unit for each term of the series.
`FirstTermBoundsAreExact`: a series that ends on its first term, the case of a small
trade in a large pool, gives a true bound when it is rounded up; rounded down, it does if
the fraction of the exponent is not tiny (`FractionIsNotTiny`; at the code's scale, if it
is no less than 1/101). The scale is 120, so that every exponent is a whole number of units
(`RangeAssumption`) and the series ends after a varying number of terms, as it does at
10^18 with a precision of 10^8.

**token_grants.** Two holders, one of whom is the spender for both (himself
included), amounts from -1 to 2, four ledgers, new entries that live two ledgers
and at most three: an entry is rewritten while it lives, outlives its
approval, dies before it is written anew, and asks for a life that is too long.

**pool_one_user.** One user plays all parts: the pool keeps no books per user beside
the shares, so that whatever several users could do to the pool, one user with their
funds can. The scales are `STROOP` = 50, `BONE` = 2500, the tokens have different
scalars, the pool starts with nine shares and a handful of units of each token.
One unit of rounding is then some ten percent of everything, so that an error that
takes millions of calls at the real scale shows after a few. All states that are
reachable with the amounts given are explored, to any depth: until the user's
tokens or shares run out.
`Solvent`: records never exceed what the token's ledger says. `NoDrainedToken`: no
token reaches zero while shares exist. `LastHolderGetsEverything`: an exit with all
shares pays out all that is on record. `FrozenOnlyPaysOut`, `ZeroSupplyIsFinal`,
`SharesOfThePoolStay` are what they are called. `JoinAndExitNeverDilute`: of each
single token, the amount per share never falls by joins, exits and burns.
`ShareValueNeverFalls`: the product of the balances, which is the square of the
pool's value, per square of the shares never falls, by any operation at all.

**pool_weighted.** The same for the product with one balance squared, per cube of the
shares. Here the exponents are 1/3, 2/3, 1/2, 2, 3 and 3/2 and every one-token price
but the integer powers comes from the series. Seen on the way: the guards on the
spot price that follow a swap (`pool.rs:170-183`) are not redundant. With the price
of a swap deliberately computed upside down, in this instance they still reject
every swap that would cost the pool anything.
Over a sequence of operations the fee could make up for a unit lost in one of them; two
properties therefore look at single steps. `SwapsByWholePowersLoseNothing`: a swap from the
heavy token to the light one is priced by a power with exponent 2, and leaves the product of
the weighted balances where it was or higher. `SharesByWholePowersKeepTheirWorth`: the same
of one-token deposits and withdrawals for a given number of shares, where the weight of the
token is the k-th part of the whole.

**deep_pool.** What happens at the other end of the range: balances so large
that a trade moves the base of the power by no more than `CPOW_PRECISION`, so that the
series ends on its first term and is corrected by one unit (`c_num.rs:120`). `BarelyMoves`
is that condition, with room for the fee. `SmallSwapsLoseNothing` compares the products of
the balances to the powers of their weights in lowest terms, before and after one swap;
`SmallSharesKeepTheirWorth` does it for a token and the supply, after any of the four
one-token deposits and withdrawals, of which two round the series up and two down. Without
the correction by one unit the first is violated. Swaps are
looked at between weights of 1 and 2, shares in the pool of equal weights: the other pools
of the run are for trading only (`OnlyTrades`). Balances of a few hundred to about 1 500
are what 32 bits can raise to the third power together; four invocations, of amounts of
one to five units, follow one another. That every one of the six operations occurs among
them, small in this sense, was checked separately. The ratio of 1 to 2 has no rounding at
this scale; that of other weights is rounded, down or up (`c_math.rs:51` and `:87`), which
the theorems cover and the run does not.

**pool_shared.** `WellFormedPool` and `InitIsFinal` for vectors with duplicates, of
different and wrong lengths, with weights that add up to too much, with deposits
that are too small, and with a second `init` by another user.
`OnlyTheCallerIsAffected`, for each user: whichever entry point of the pool he calls, the
shares and tokens of the others stay as they are; and whatever he calls of the share token,
he takes from another no more than that owner's allowance to him reads at the time. Its
mutant lets a withdrawal charge and pay the controller instead of the caller: all that
moves is still of one user, but not of the right one. `PoolIsAVault`: every step is one that the abstract vault allows.
`OutgrownTokensStay`: the largest number is just above what the pool starts with, so
that joins and deposits carry a token past what `upscale` can multiply; from then on
nothing moves its balance any more. (That is the price of the overflow checks: the
holders can only leave by transferring shares.)

**invocation.** `InvocationsAreAtomic`: executed effect by effect, with panics anywhere,
the pool is the one of CometPool; in particular, what is read before a token call and
written after it, or read a second time (`pool.rs:296`), is not stale. `LimitsHold`:
whoever is charged pays no more and gets no less than he has signed, of every token and
of shares, whatever was executed in between and whatever was left of earlier approvals.
`AcceptedCallsTakeEffect` (liveness): an invocation whose checks pass, and whose
approvals are the ones signed, ends with its effect unless a token refuses: no handler
runs into a check of its own half way. `EventsTellTheRecords`: adding up the events of
the pool gives every balance on record.
One of the users has too little of a token for some calls; `ApprovalPeriod` is 2, so that
the expiration changes between the first ledger and the second.

**factory.** `RegisteredPoolsAreInitialised`: what is registered runs the factory's code,
was asked for by the user in its address and initialised for him by its own creation.
`CreationIsAllOrNothing`: at an address of the factory's there is a contract exactly if it
is registered, so that a failed creation can be retried with the same salt.
`FactoryPoolsAreNeverDenied`: `is_c_pool` may trap on an archived entry but never answers
no for a pool of the factory, nor yes for another contract.

**lifetimes.** `SharesAreNeverForgotten`: the total is the sum of the entries of holders
however they are archived and restored. `ExitsStayOpen`: a pool that somebody leaves with
`exit_pool` at least once in `SHARED_LIFETIME_THRESHOLD` ledgers (30 days) stays open to
exits without anybody restoring anything. The precondition is about `exit_pool` because
nothing else reads every entry that exits need: swaps and one-token operations
extend the records but not the vector of tokens, and joins not the pool's own balance of
shares. With lives of two and three ledgers, entries of all kinds are archived in every
combination.

**Findings.** Three runs show that the code does not do what a comment says.
`sequence_mismatch`: `token_utility.rs:15` says that rounding the expiration avoids a
mismatch between simulation and execution; it makes one rare, but a call that is signed
before a multiple of 100000 and executed in or after it approves for another ledger than
the signed one and fails. `upscale_comment`: `c_math.rs:287` says that `upscale` fails
beyond 10^18 * scalar; it fails beyond what fits an i128, which for a token with 18
decimals is far more, and for one with few decimals less. `first_term_comment`:
`c_num.rs:121` says that what a series of one term leaves out is below one unit. It is
less than `CPOW_PRECISION^2 / (2 * BONE)` times something that grows as the fraction of
the exponent shrinks. In a pool with weights 0.5005 and 0.4995 the exponent is 1.002, and
the first term of its series is within the precision for bases up to 1.5; what is left out
is then worth several units, and a power rounded down is above the real one. No price of
the pool is wrong because of it: those that round down have a weight as their exponent,
whose fraction is never tiny (`PrecisionAssumption`), and those that round up are exact
whatever the fraction.

Every property has a mutant: a definition next to the one it replaces, with a
mistake that such code could have, under which TLC finds the property violated.

**Bounds.** `MaxLedger` bounds the ledgers looked at, `MaxSteps` the invocations in
`pool_shared` and `deep_pool`, `MaxCalls` those in `invocation` (changes of the ledger not
counted); three are enough for a pool to be made, used by another, and used again with what is left
approved. In `lifetimes`, `MaxShares` bounds the shares. Everything else is bounded by the
funds of the users. Amounts and limits are taken from small sets in the `MC` modules. In
the three runs about value the limits that callers set are always wide enough, since a limit
can only forbid a step; `pool_shared` passes limits that are met, missed and refused as
negative.

## 4. Proofs

TLAPS proves, for every value of the constants that meets the named assumptions of the
modules (`I128Assumption`, `NumAssumption`, `MathAssumption`, `RatioAssumption`,
`WeightAssumption`, `PrecisionAssumption`, `TokenAssumption`, `PoolAssumption`;
`StorageAssumption`, `LifetimesAssumption`, `KeysAssumption`, `FactoryAssumption`,
`InvocationAssumption`, `RangeAssumption`; TLC evaluates them on the instances). They say
of which type a constant is, that there are finitely many users (there is a sum over
them), that scales are positive and related as in `c_consts.rs`, that what may leave a
balance at once (`MAX_OUT_RATIO`) is less than all of it, that no token weighs nothing,
that the precision of the series suits the smallest weight (9 * (10^8 + 1)^2 is at most
10^18), and how the thresholds are ordered. Nothing is assumed about prices.

**Types and solvency.**

- `TokenTypeCorrect` (LPTokenProofs): `TokenSpec => []TokenTypeOK`. No balance of
  shares and no allowance is negative although callers may pass negative amounts, and an
  entry of an allowance never lives longer than the host allows. The type invariant is
  inductive. The case that needs an argument is `WriteAllowance`: the life of an
  entry is prolonged by a length that has been checked against the limit.
- `PoolTypeCorrect`, `PoolSolvent` (CometPoolProofs): `Spec => []TypeOK` and
  `Spec => []Solvent`. Neither is inductive alone: a payout is checked against the
  record, and only solvency says that the token's ledger can bear it; solvency in
  turn needs the amounts to be integers and the records to be of their type. So the
  inductive invariant is the conjunction. The lemma `Settlement` is the core: a
  handler that changes each record by what it moves of the token, takes no more
  than its caller has and pays no more than is on record keeps both. What remains
  for each handler is to show that it is such a settlement. About the prices it
  is only used that they are integers (CometMathProofs): the pool is solvent
  however wrong the mathematics might be.
- `FrozenPoolOnlyPaysOut` (CometPoolProofs): `Spec => FrozenOnlyPaysOut`. Five
  entry points check the flag themselves; `init` does not, and needs the invariant
  that a frozen pool is initialised: before `init` there is no controller, so
  nobody's authorisation can set the flag. For the three entry points that remain it
  is shown that an amount paid out is never negative.

**Sums and shares.**

- `TotalIsSum` (LPTokenProofs), `PoolTotalIsSum` (CometPoolProofs): the total of shares
  is the sum of the balances, `SupplyIsSumOfShares`, of the token alone and in the pool.
  SumTheorems shows what a sum over a finite domain does when one term changes. The sum
  is a fold, defined by recursion; that the recursion defines anything, and what, is
  shown by looking at a smallest subset of the domain for which it would not, since an
  induction theorem over an arbitrary formula is not to be had from the installed
  provers.
- `JoinsAndExitsDiluteNobody` (CometPoolProofs): `JoinAndExitNeverDilute`. That the total
  is never negative comes from `PoolTotalIsSum`; the rest is arithmetic (CometMathProofs):
  a ratio rounded up and a product rounded up again cover the shares minted, rounded down
  twice they stay below the shares redeemed, whatever the scales are.
- `NoSharesForever` (CometPoolProofs): `ZeroSupplyIsFinal`. A join and a deposit for a
  given number of shares divide by the total. The other deposit multiplies a power by
  the total, and a number times nothing is nothing: so the power function has to be
  shown to return a number. CometMathProofs does it for loops in general (a function
  defined by the recursion of a loop exists, and has its values where they belong, if
  some rank falls with every iteration) and then for the two of `c_num.rs`: `n` is
  halved, and the number of terms is capped.
- `NothingIsDrained` (CometPoolProofs): `NoDrainedToken`. It is inductive together with
  the types, `PoolTotalIsSum` and what is bound before and after `init`. A swap leaves
  something because there has to be a price afterwards; a withdrawal because it is
  within `MAX_OUT_RATIO`; an exit because it dilutes nobody and shares are left; and a
  drained pool without shares gets none again, by the previous theorem.

**The vault.**

- `PoolImplementsVault` (CometPoolProofs): `Spec => PoolIsAVault`, the refinement. Every
  entry point is shown to be an `Open`, a `Settle`, an `Administer`, a `Give` or a `Trade`
  of the vault, under the mapping; the type invariant and solvency are needed for the
  amounts to be numbers, and that no token is bound before `init`.
  `TermsAreFinal` (`InitIsFinal`) follows from it, since the vault never changes its terms.
- `EveryCallIsItsCallersDeal` (CometPoolProofs): the vault only says that somebody opens
  it or settles with it. For each user and each entry point the lemma `PoolCallDeals` shows
  that it is the user who calls, and this is what `NobodyElseIsAffected`
  (`OnlyTheCallerIsAffected`) rests on: a deal moves nothing of anybody but the user it is
  with. What a user calls of the share token is no deal; there the argument is that a
  spending call is refused beyond what the allowance reads, and that an allowance is never
  negative, so that a call that takes nothing is within it too.
- `PoolKeepsItsShares` (`SharesOfThePoolStay`) and `OutgrownTokensAreLeftAlone`
  (`OutgrownTokensStay`) are about single handlers: in the latter every price is shown to
  require that the balances it is computed from can be scaled.
- `PoolsAreWellFormed` (CometPoolProofs): `WellFormedPool`. `init` adds up a vector, the
  property a function on tokens; that the vector names no token twice makes the two
  sums one, by a renaming of the terms. Afterwards terms are final.

**Allowances, factory, lifetimes.**

- `AllowancesAreGrants`, `GrantsAreNotOverspent` (LPTokenProofs). The inductive
  invariant says of each pair of owner and spender that the entry has the grant's amount
  and expiration, and that an entry which still allows something lives at least until the
  approval ends; the last part is what makes it inductive, as the host may delete
  any entry at the end of its life.
- `FactoryTypeCorrect`, `RegisterIsTruthful`, `CreationIsAtomic`, `PoolsAreNeverDenied`
  (FactoryProofs). The invariant says of the state in the middle of a call what the
  properties say of a committed one, with one exception, the contract that is being
  created, about which it says what `at` knows: deployed but not initialised, then
  initialised but not registered.
- `PoolsInUseStayOpen` (LifetimesProofs): `ExitsStayOpen` for all thresholds and amounts
  that the named assumptions admit. The invariant is that every entry an exit extends
  lives at least until `lastExit` and the threshold; it is inductive because extensions
  never shorten a life.
- `NoSharesAreForgotten` (LifetimesProofs): `SharesAreNeverForgotten`, by the sums again.
  That an archived entry cannot be read, and so cannot be taken for a missing one, is what
  every step needs.

- `LifetimesTypeCorrect` (LifetimesProofs): `TypeOK`. That shares are never negative is
  not inductive: a burn is compared with the balance it is taken from, and nothing is
  compared with the total. `TypeInv` adds that an entry of shares exists for exactly the
  keys that have a life, and that the total is the sum; a sum of numbers of which one is
  large enough bears what is taken from that one.

**The power function.** `PowersNeverCrossOne` (CometNumProofs): `NeverCrossesOne`, for
every scale, precision, accepted base and nonnegative rational exponent. The two loops
have an invariant each. In `c_powi` all factors stay on the side of one that the base is
on. In the series the sides differ. For a base below one, no term after the first is
positive, so that the sum falls from one. For a base above one, the terms alternate in
sign and never grow in size; the invariant is that the sum is at least one with its last
term and without it. The roundings respect both, since the bounds they could cross are
whole numbers. The correction then takes away at most that last term, or adds a unit where
the first term has taken one away. The product of two numbers on one side of one, rounded
either way, stays there. `LoopResult` carries an invariant from the body of a loop to its
value, for any loop that the models write as a recursive function.

`OneTermIsExact` (CometNumProofs): `FirstTermBoundsAreExact`, for every scale, precision,
base and rational exponent the scale can express, of any whole part. Two facts about
numbers are behind it, stated without real powers: the weighted mean of r parts of x and n
- r parts of 1 is at least the geometric one, so that the line 1 + (r/n)(x - 1) lies above
the power (`AboveTheMean`), by induction over the number of parts in the form of
Bernoulli's inequality; and it lies above it by little if x is close to one (`SmallBend`,
`CurveBelow`), which is where the fraction must not be tiny. The whole part is a product
of rounded factors, and `CPowiBoundsThePower` bounds it from an invariant of the loop.

**What an operation leaves to the others.** Four theorems about single operations, for every
scale, fee, weight and amount (CometPoolProofs; the arithmetic is in CometMathProofs):

- `WholeSwapsLoseNothing` (`SwapsByWholePowersLoseNothing`) and
  `WholeDepositsAndWithdrawalsLoseNothing` (`SharesByWholePowersKeepTheirWorth`), where the
  exponent is a whole number.
- `SmallSwapsAreHarmless` (`SmallSwapsLoseNothing`) and
  `SmallDepositsAndWithdrawalsAreHarmless` (`SmallSharesKeepTheirWorth`), for any weights,
  where the trade is so small that the power is a single term.

Each of the six operations of `c_math.rs` is first described by the power it contains
(`SwapInByPower` and so on): what it pays or charges is bounded by the power, through the
multiplication, the fee and the scaling, and the base of the power by the quantities that
move. All these roundings turn out to point the same way. What is left is to put a bound
of the power in: that of `c_powi` in the one case, that of one term in the other. The
latter needs the exponent as well, which is a rounded quotient of weights; `SwapExponents`
and `ShareExponents` say on which side of the exact quotient it is, and
`ExponentToWeights` that this side is the pool's. The two deposits and withdrawals of a
given amount round the power down, which is exact only of fractions that are not tiny:
their exponents are weights, and by `PrecisionAssumption` no weight is. Neither kind of
operation needs the fee to be harmless. What lies between the two, prices by a series of
several terms, is only model-checked.

**The last holder.** `LastHolderIsPaidInFull` (CometPoolProofs): the property
`LastHolderGetsEverything` whenever `ScalablePool`, that is, when the total of shares and
the balances on record fit an i128 after they are scaled up. Without that condition it is
no theorem, and the code is not wrong about it: `calc_exit_ratio` and `upscale` panic
rather than compute with numbers that do not fit, and nobody can leave such a pool
(`OutgrownTokensStay`). With the constants of the code that is up to 1.7 * 10^20 whole
shares and as many whole tokens of each kind. Under the condition the ratio of all shares
to all shares is exactly `BONE`, although it is a quotient of a product that may exceed an
i128, and `BONE` times a balance is that balance after both roundings.

**Invocations.** All three safety properties of Invocation (InvocationProofs), for all
users, tokens, vectors of any length, arguments and approval periods:

- `InvocationsImplementPool`: `InvocationSpec => InvocationsAreAtomic`, the refinement of
  CometPool. A step in the middle of an invocation, and one that rolls it back, has to be
  a stutter; the `Return` at the end has to be *one* step of CometPool, with the state
  before the invocation as its first and the present one as its second state.
- `LimitsAreKept`: `LimitsHold`. `EventsAreTrue`: `EventsTellTheRecords`.

They follow from one inductive invariant, `InvocationOK`. Of what others see (`SeenOK`:
the variables between two invocations, `call.saved` during one) it says the types, and
that the events are true. Of an invocation under way it says at which point it is, as a
disjunction over the nine entry points (`Underway`: `JoinUnderway`, `SwapUnderway` and so
on), with one disjunct for each effect that may come next: what the remaining effects are,
and how far the variables have moved from the saved ones. Three operators say the latter.
`Owed(t)` is by how much the local record of a token differs from the saved one;
`MovedBut(waiting)` says that the ledgers have moved by just that for all tokens but those
still to be paid; `Stored`, `Issued` and `Redeemed` that records and shares are the old or
the new ones. The loops of `join_pool`, `exit_pool` and `init` add which tokens are left.
Together with the terms that the handler checked in its first step (`SwapTerms`,
`JoinTerms`, …), the last disjunct, with no effects left, is the action of CometPool
(`Finished`, `FinishedWithinLimits`). Nothing about solvency is used, and of prices only
that they are integers: both specifications take the same quotes.

**Only model-checked.**

- `ShareValueNeverFalls`, `WeightedShareValueNeverFalls`: that no sequence of operations
  makes a share worth less. For operations with whole exponents and for small ones the
  theorems above say more. In general the power is a sum of several
  terms, which rounded up may fall short of the real power; the fee then outweighs
  the error at a given scale, not at every scale.
- `RoundDownIsALowerBound`, `RoundUpShortByLessThanTerms` are about series of several
  terms. They do not hold for every value of the constants: of tiny fractions the first is
  false (`first_term_comment`), and far from one the series is cut off after 50 terms wherever
  it is then. What holds in between would need the binomial theorem for fractional
  exponents and an estimate of its tail.
- `AcceptedCallsTakeEffect` is liveness under fairness, which is out of the prover's
  reach.
- `SequenceMismatchIsAvoided`, `UpscaleFailsBeyondOne` and `OmittedTailIsBelowOneUnit` are
  false: the runs refute them.

## 5. Plan and what is left

The order in which the modules were written is that of section 2: the arithmetic and the
pool first, then what a pool is made of inside (Invocation) and around (Factory,
Lifetimes), and the abstract specifications last. Left to do, in this order: that the
pool's step-by-step execution keeps the solvency and the vault of CometPool, by the two
refinements together; the value of a share under operations priced by a series of several
terms, with an estimate of what they leave out; an abstract SEP-41 token for LPToken; a pool
with weights 1 and 4.

## 6. Not modelled

Error codes and token metadata, which nothing reads back, and the events of the share
token and the factory, which repeat the arguments of the call. The functions of
`metadata.rs` that nothing calls (`read_factory`, `read_finalize`, `read_public_swap` and
their writers). Authorisation itself: that `require_auth` admits only the address it names
is taken from the host, and each action names the user that has authorised it. Bound
tokens that do not do what SEP-41 says (that take a fee on transfers, or change balances
by themselves); that they refuse is modelled. The limit of the host on the instructions
of an invocation is `Refuse` of Invocation and `Panic` of Factory: that it may strike
anywhere, not where it does. The rent that extending a life costs. The hash from which the
factory's addresses are made is taken to have no collisions.
