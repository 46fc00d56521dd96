-------------------------- MODULE CometMathProofs --------------------------
(***************************************************************************)
(* Facts about the prices of CometMath, for every scale of the numbers:    *)
(* that they fit, and which way the proportional ones are rounded; that    *)
(* the power function, which is made of two loops, returns a number on the *)
(* same side of one as the base, and when that number is a bound of the    *)
(* real power; and what each of the six operations priced by a power       *)
(* leaves in the pool if its exponent is whole or its series has one term. *)
(***************************************************************************)
EXTENDS CometMath, Powers, WellFoundedInduction, TLAPS

LEMMA CheckedFits == \A v : Checked(v) \subseteq I128 /\ Checked(v) \subseteq Int
BY I128Assumption DEF Checked, I128

LEMMA DownscaleFits ==
  \A amount, scalar : /\ DownscaleFloor(amount, scalar) \subseteq Int
                      /\ DownscaleCeil(amount, scalar) \subseteq Int
BY CheckedFits DEF DownscaleFloor, DownscaleCeil

(***************************************************************************)
(* Whatever the power function answers, what a caller is charged or paid   *)
(* is an integer that fits an i128: the last step of every function checks *)
(* it.                                                                     *)
(***************************************************************************)
LEMMA CalcTokenOutFits ==
  \A in, out, amount, fee : CalcTokenOutGivenTokenIn(in, out, amount, fee) \subseteq Int
<1> SUFFICES ASSUME NEW in, NEW out, NEW amount, NEW fee,
                    NEW v \in CalcTokenOutGivenTokenIn(in, out, amount, fee)
             PROVE  v \in Int
  OBVIOUS
<1>1. PICK r : v \in DownscaleFloor(FixedMulFloor(out.balance * out.scalar, r, BONE), out.scalar)
  BY Zenon DEF CalcTokenOutGivenTokenIn
<1> QED
  BY <1>1, DownscaleFits, Zenon

LEMMA CalcTokenInFits ==
  \A in, out, amount, fee : CalcTokenInGivenTokenOut(in, out, amount, fee) \subseteq Int
<1> SUFFICES ASSUME NEW in, NEW out, NEW amount, NEW fee,
                    NEW v \in CalcTokenInGivenTokenOut(in, out, amount, fee)
             PROVE  v \in Int
  OBVIOUS
<1>1. PICK w : v \in DownscaleCeil(w, in.scalar)
  BY Zenon DEF CalcTokenInGivenTokenOut
<1> QED
  BY <1>1, DownscaleFits, Zenon

LEMMA CalcLpOutFits ==
  \A in, supply, amount, fee :
    CalcLpTokenAmountGivenTokenDepositsIn(in, supply, amount, fee) \subseteq Int
BY DownscaleFits DEF CalcLpTokenAmountGivenTokenDepositsIn

LEMMA CalcDepositFits ==
  \A in, supply, amount, fee :
    CalcTokenDepositsInGivenLpTokenAmount(in, supply, amount, fee) \subseteq Int
BY DownscaleFits DEF CalcTokenDepositsInGivenLpTokenAmount

LEMMA CalcLpInFits ==
  \A out, supply, amount, fee :
    CalcLpTokenAmountGivenTokenWithdrawalAmount(out, supply, amount, fee) \subseteq Int
BY DownscaleFits DEF CalcLpTokenAmountGivenTokenWithdrawalAmount

LEMMA CalcWithdrawalFits ==
  \A out, supply, amount, fee :
    CalcTokenWithdrawalAmountGivenLpTokenAmount(out, supply, amount, fee) \subseteq Int
BY DownscaleFits DEF CalcTokenWithdrawalAmountGivenLpTokenAmount

LEMMA CalcJoinDepositFits == \A in, ratio : CalcJoinDepositAmount(in, ratio) \subseteq Int
BY DownscaleFits DEF CalcJoinDepositAmount

LEMMA CalcExitWithdrawalFits ==
  \A out, ratio : CalcExitWithdrawalAmount(out, ratio) \subseteq Int
BY DownscaleFits DEF CalcExitWithdrawalAmount
-----------------------------------------------------------------------------
(***************************************************************************)
(* The roundings.                                                          *)
(***************************************************************************)

\* A floor is the only integer q with q * d <= n < (q + 1) * d.
LEMMA FloorBounds ==
  ASSUME NEW n \in Int, NEW d \in Nat \ {0}
  PROVE  /\ n \div d \in Int
         /\ (n \div d) * d <= n
         /\ n < (n \div d) * d + d
OBVIOUS

\* A ceiling, computed as the negated floor of the negated number.
LEMMA CeilBounds ==
  ASSUME NEW n \in Int, NEW d \in Nat \ {0}
  PROVE  /\ -((-n) \div d) \in Int
         /\ (-((-n) \div d)) * d >= n
         /\ (-((-n) \div d)) * d < n + d
<1> DEFINE m == -n
<1>1. m \in Int
  OBVIOUS
<1>2. m \div d \in Int /\ (m \div d) * d <= m /\ m < (m \div d) * d + d
  BY <1>1, FloorBounds
<1> HIDE DEF m
<1>3. m = -n
  BY DEF m
<1> DEFINE q == m \div d
<1>4. q \in Int /\ q * d <= m /\ m < q * d + d
  BY <1>2
<1> HIDE DEF q
<1>5. (-q) * d = -(q * d)
  BY <1>4
<1>6. -q \in Int /\ (-q) * d >= n /\ (-q) * d < n + d
  BY <1>3, <1>4, <1>5
<1> QED
  BY <1>6, <1>3 DEF q
-----------------------------------------------------------------------------
(***************************************************************************)
(* Joins and exits.  Rounded twice in the pool's favour, what is paid for  *)
(* a part of the shares is no less, and what is paid out for it no more,   *)
(* than that part of the balance.                                          *)
(***************************************************************************)
LEMMA TimesKeepsOrder ==
  ASSUME NEW x \in Int, NEW y \in Int, NEW k \in Nat, x <= y
  PROVE  x * k <= y * k
OBVIOUS

LEMMA TimesReflectsOrder ==
  ASSUME NEW x \in Int, NEW y \in Int, NEW k \in Nat \ {0}, x * k <= y * k
  PROVE  x <= y
<1> SUFFICES ASSUME y + 1 <= x PROVE FALSE
  OBVIOUS
<1>1. (y + 1) * k <= x * k
  BY TimesKeepsOrder
<1>2. (y + 1) * k = y * k + k
  OBVIOUS
<1> QED
  BY <1>1, <1>2

\* From a rounded ratio r of a to s, over one, and the rounded product m of it
\* with b: the bounds of d, the product brought back to the scale of b.
LEMMA RatioFromBelow ==
  ASSUME NEW a \in Int, NEW s \in Nat, NEW q \in Nat \ {0}, NEW one \in Nat \ {0},
         NEW b \in Nat, NEW c \in Nat \ {0}, NEW r \in Int, NEW m \in Int, NEW d \in Int,
         (a * q) * one <= r * (s * q), (b * c) * r <= m * one, m <= d * c
  PROVE  b * a <= d * s
<1>1. a * one <= r * s
  <2>1. (a * one) * q <= (r * s) * q
    OBVIOUS
  <2> QED
    BY <2>1, TimesReflectsOrder
<1>2. b * r <= d * one
  <2>1. m * one <= (d * c) * one
    BY TimesKeepsOrder
  <2>2. (b * r) * c <= (d * one) * c
    BY <2>1
  <2> QED
    BY <2>2, TimesReflectsOrder
<1>3. (b * r) * s <= (d * one) * s
  BY <1>2, TimesKeepsOrder
<1>4. (a * one) * b <= (r * s) * b
  BY <1>1, TimesKeepsOrder
<1>5. (b * a) * one <= (d * s) * one
  BY <1>3, <1>4
<1> QED
  BY <1>5, TimesReflectsOrder

LEMMA RatioFromAbove ==
  ASSUME NEW a \in Int, NEW s \in Nat, NEW q \in Nat \ {0}, NEW one \in Nat \ {0},
         NEW b \in Nat, NEW c \in Nat \ {0}, NEW r \in Int, NEW m \in Int, NEW d \in Int,
         r * (s * q) <= (a * q) * one, m * one <= (b * c) * r, d * c <= m
  PROVE  d * s <= b * a
<1>1. r * s <= a * one
  <2>1. (r * s) * q <= (a * one) * q
    OBVIOUS
  <2> QED
    BY <2>1, TimesReflectsOrder
<1>2. d * one <= b * r
  <2>1. (d * c) * one <= m * one
    BY TimesKeepsOrder
  <2>2. (d * one) * c <= (b * r) * c
    BY <2>1
  <2> QED
    BY <2>2, TimesReflectsOrder
<1>3. (d * one) * s <= (b * r) * s
  BY <1>2, TimesKeepsOrder
<1>4. (r * s) * b <= (a * one) * b
  BY <1>1, TimesKeepsOrder
<1>5. (d * s) * one <= (b * a) * one
  BY <1>3, <1>4
<1> QED
  BY <1>5, TimesReflectsOrder

LEMMA JoinDepositCoversTheShares ==
  ASSUME NEW supply \in Nat, NEW amount \in Int, NEW ratio \in CalcJoinRatio(supply, amount),
         NEW record, record.balance \in Nat, record.scalar \in Nat \ {0},
         NEW deposit \in CalcJoinDepositAmount(record, ratio)
  PROVE  record.balance * amount <= deposit * supply
<1> DEFINE b == record.balance
           c == record.scalar
           m == FixedMulCeil(b * c, ratio, BONE)
<1>1. BONE \in Nat \ {0} /\ STROOP_SCALAR \in Nat \ {0}
  BY NumAssumption, MathAssumption
<1>2. /\ supply # 0
      /\ ratio = FixedDivCeil(amount * STROOP_SCALAR, supply * STROOP_SCALAR, BONE)
  BY DEF CalcJoinRatio
<1>3. deposit = FixedDivCeil(m, c, 1)
  BY DEF CalcJoinDepositAmount, DownscaleCeil, Checked
<1> DEFINE n == (amount * STROOP_SCALAR) * BONE
           k == supply * STROOP_SCALAR
<1>4. n \in Int /\ k \in Nat \ {0}
  BY <1>1, <1>2
<1>5. ratio = -((-n) \div k)
  BY <1>2 DEF FixedDivCeil
<1> HIDE DEF n, k
<1>6. ratio \in Int /\ n <= ratio * k
  BY <1>4, <1>5, CeilBounds
<1>7. m \in Int /\ (b * c) * ratio <= m * BONE
  <2> DEFINE p == (b * c) * ratio
  <2>1. p \in Int
    BY <1>6
  <2>2. m = -((-p) \div BONE)
    BY DEF FixedMulCeil
  <2> HIDE DEF p, m
  <2>3. m \in Int /\ p <= m * BONE
    BY <1>1, <2>1, <2>2, CeilBounds
  <2> QED
    BY <2>3 DEF p
<1> HIDE DEF m
<1>8. deposit \in Int /\ m <= deposit * c
  <2>1. deposit = -((-m) \div c)
    BY <1>3, <1>7 DEF FixedDivCeil
  <2> QED
    BY <1>7, <2>1, CeilBounds
<1> QED
  BY <1>1, <1>6, <1>7, <1>8, RatioFromBelow DEF n, k

LEMMA ExitWithdrawalLeavesTheRest ==
  ASSUME NEW supply \in Nat, NEW amount \in Int, NEW ratio \in CalcExitRatio(supply, amount),
         NEW record, record.balance \in Nat, record.scalar \in Nat \ {0},
         NEW payout \in CalcExitWithdrawalAmount(record, ratio)
  PROVE  payout * supply <= record.balance * amount
<1> DEFINE b == record.balance
           c == record.scalar
           m == FixedMulFloor(b * c, ratio, BONE)
           n == (amount * STROOP_SCALAR) * BONE
           k == supply * STROOP_SCALAR
<1>1. BONE \in Nat \ {0} /\ STROOP_SCALAR \in Nat \ {0}
  BY NumAssumption, MathAssumption
<1>2. supply # 0 /\ ratio = n \div k
  BY DEF CalcExitRatio, FixedDivFloor
<1>3. payout = FixedDivFloor(m, c, 1)
  BY DEF CalcExitWithdrawalAmount, DownscaleFloor, Checked
<1>4. n \in Int /\ k \in Nat \ {0}
  BY <1>1, <1>2
<1> HIDE DEF n, k
<1>5. ratio \in Int /\ ratio * k <= n
  BY <1>2, <1>4, FloorBounds
<1>6. m \in Int /\ m * BONE <= (b * c) * ratio
  <2> DEFINE p == (b * c) * ratio
  <2>1. p \in Int
    BY <1>5
  <2>2. m = p \div BONE
    BY DEF FixedMulFloor
  <2> HIDE DEF p, m
  <2>3. m \in Int /\ m * BONE <= p
    BY <1>1, <2>1, <2>2, FloorBounds
  <2> QED
    BY <2>3 DEF p
<1> HIDE DEF m
<1>7. payout \in Int /\ payout * c <= m
  <2>1. payout = m \div c
    BY <1>3, <1>6 DEF FixedDivFloor
  <2> QED
    BY <1>6, <2>1, FloorBounds
<1> QED
  BY <1>1, <1>5, <1>6, <1>7, RatioFromAbove DEF n, k
-----------------------------------------------------------------------------
(***************************************************************************)
(* While loops.  A loop is a function defined by recursion, and is one in  *)
(* fact, with results where they belong, if every state that is not final  *)
(* is followed by one of lower rank.  Shown by looking at a smallest rank  *)
(* for which it would not be so.                                           *)
(***************************************************************************)
LEMMA SmallestNumber ==
  ASSUME NEW T \in SUBSET Nat, T # {}
  PROVE  \E n \in T : \A m \in T : n <= m
<1>1. PICK n \in T : \A m \in T : ~ (<<m, n>> \in OpToRel(<, Nat))
  BY NatLessThanWellFounded, WFMin, Zenon
<1>2. ASSUME NEW m \in T PROVE n <= m
  <2>1. m \in Nat /\ n \in Nat
    OBVIOUS
  <2>2. ~ (m < n)
    BY <1>1, <2>1, Zenon DEF OpToRel
  <2> QED
    BY <2>1, <2>2
<1> QED
  BY <1>2

Loop(f, S, R, final, out, next) ==
  /\ f \in [S -> R]
  /\ \A s \in S : f[s] = IF s \in final THEN out[s] ELSE f[next[s]]

Falls(S, R, final, out, next, rank) ==
  /\ rank \in [S -> Nat] /\ out \in [S -> R] /\ next \in [S -> S]
  /\ \A s \in S \ final : rank[next[s]] < rank[s]

Below(S, rank, k) == {s \in S : rank[s] < k}

LEMMA BelowIsClosed ==
  ASSUME NEW S, NEW R, NEW final, NEW out, NEW next, NEW rank,
         Falls(S, R, final, out, next, rank), NEW k \in Nat,
         NEW s \in Below(S, rank, k), s \notin final
  PROVE  next[s] \in Below(S, rank, k) /\ \A m \in Nat : k = m + 1 => next[s] \in Below(S, rank, m)
<1>1. s \in S /\ next[s] \in S /\ rank[s] \in Nat /\ rank[next[s]] \in Nat
      /\ rank[s] < k /\ rank[next[s]] < rank[s]
  BY DEF Falls, Below
<1> QED
  BY <1>1 DEF Below

LEMMA LoopsAgree ==
  ASSUME NEW S, NEW R, NEW final, NEW out, NEW next, NEW rank,
         Falls(S, R, final, out, next, rank), NEW k \in Nat, NEW m \in Nat, k <= m,
         NEW g, Loop(g, Below(S, rank, k), R, final, out, next),
         NEW h, Loop(h, Below(S, rank, m), R, final, out, next)
  PROVE  \A s \in Below(S, rank, k) : g[s] = h[s]
<1> DEFINE bad == {n \in Nat : \E s \in Below(S, rank, k) : rank[s] = n /\ g[s] # h[s]}
<1>1. \A s \in Below(S, rank, k) : s \in S /\ rank[s] \in Nat /\ s \in Below(S, rank, m)
  BY DEF Below, Falls
<1> SUFFICES ASSUME bad # {} PROVE FALSE
  BY <1>1
<1>2. bad \in SUBSET Nat
  OBVIOUS
<1> HIDE DEF bad
<1>3. PICK n \in bad : \A i \in bad : n <= i
  BY <1>2, SmallestNumber
<1>4. PICK s \in Below(S, rank, k) : rank[s] = n /\ g[s] # h[s]
  BY <1>3 DEF bad
<1>5. CASE s \in final
  BY <1>1, <1>4, <1>5 DEF Loop
<1>6. CASE s \notin final
  <2>1. next[s] \in Below(S, rank, k)
    BY <1>6, BelowIsClosed
  <2>2. rank[next[s]] < n /\ n \in Nat /\ rank[next[s]] \in Nat
    BY <1>1, <1>4, <1>6, <2>1 DEF Falls
  <2>3. rank[next[s]] \notin bad
    BY <1>3, <2>2
  <2>4. g[next[s]] = h[next[s]]
    BY <2>1, <2>2, <2>3 DEF bad
  <2> QED
    BY <1>1, <1>4, <1>6, <2>4 DEF Loop
<1> QED
  BY <1>5, <1>6

LEMMA ShortLoopsExist ==
  ASSUME NEW S, NEW R, NEW final, NEW out, NEW next, NEW rank,
         Falls(S, R, final, out, next, rank)
  PROVE  \A k \in Nat : \E g : Loop(g, Below(S, rank, k), R, final, out, next)
<1> DEFINE bad == {k \in Nat : ~ \E g : Loop(g, Below(S, rank, k), R, final, out, next)}
<1> SUFFICES ASSUME bad # {} PROVE FALSE
  OBVIOUS
<1>1. bad \in SUBSET Nat
  OBVIOUS
<1> HIDE DEF bad
<1>2. PICK k \in bad : \A i \in bad : k <= i
  BY <1>1, SmallestNumber
<1>3. k \in Nat /\ ~ \E g : Loop(g, Below(S, rank, k), R, final, out, next)
  BY <1>2 DEF bad
<1>4. CASE k = 0
  <2> DEFINE g == [s \in Below(S, rank, 0) |-> out[s]]
  <2>1. Below(S, rank, 0) = {}
    BY DEF Below, Falls
  <2>2. Loop(g, Below(S, rank, 0), R, final, out, next)
    BY <2>1 DEF Loop
  <2> HIDE DEF g
  <2> QED
    BY <1>3, <1>4, <2>2
<1>5. CASE k # 0
  <2> DEFINE j == k - 1
             B == Below(S, rank, k)
             C == Below(S, rank, j)
  <2>1. j \in Nat /\ k = j + 1 /\ ~ (k <= j)
    BY <1>3, <1>5
  <2> HIDE DEF j
  <2>2. PICK g : Loop(g, C, R, final, out, next)
    BY <1>2, <2>1 DEF bad
  <2> DEFINE h == [s \in B |-> IF s \in final THEN out[s] ELSE g[next[s]]]
  <2>3. ASSUME NEW s \in B, s \notin final
        PROVE  next[s] \in B /\ next[s] \in C
    BY <1>3, <2>1, <2>3, BelowIsClosed
  <2>4. \A s \in B : s \in S /\ out[s] \in R
    BY DEF Below, Falls
  <2> HIDE DEF B, C
  <2>5. h \in [B -> R]
    BY <2>2, <2>3, <2>4 DEF Loop
  <2>6. ASSUME NEW s \in B, s \notin final
        PROVE  h[s] = h[next[s]]
    <3>1. h[s] = g[next[s]] /\ next[s] \in B /\ next[s] \in C
      BY <2>3, <2>6
    <3>2. h[next[s]] = IF next[s] \in final THEN out[next[s]] ELSE g[next[next[s]]]
      BY <3>1
    <3>3. g[next[s]] = IF next[s] \in final THEN out[next[s]] ELSE g[next[next[s]]]
      BY <2>2, <3>1 DEF Loop
    <3> QED
      BY <3>1, <3>2, <3>3
  <2>7. Loop(h, B, R, final, out, next)
    BY <2>5, <2>6 DEF Loop
  <2> HIDE DEF h
  <2> QED
    BY <1>3, <2>7 DEF B
<1> QED
  BY <1>4, <1>5

LEMMA LoopsExist ==
  ASSUME NEW S, NEW R, NEW final, NEW out, NEW next, NEW rank,
         Falls(S, R, final, out, next, rank)
  PROVE  \E f : Loop(f, S, R, final, out, next)
<1> DEFINE part(k) == CHOOSE g : Loop(g, Below(S, rank, k), R, final, out, next)
           f       == [s \in S |-> part(rank[s] + 1)[s]]
<1>1. \A k \in Nat : Loop(part(k), Below(S, rank, k), R, final, out, next)
  BY ShortLoopsExist
<1> HIDE DEF part
<1>2. ASSUME NEW s \in S
      PROVE  /\ rank[s] + 1 \in Nat /\ s \in Below(S, rank, rank[s] + 1)
             /\ Loop(part(rank[s] + 1), Below(S, rank, rank[s] + 1), R, final, out, next)
  BY <1>1 DEF Falls, Below
<1>3. f \in [S -> R]
  BY <1>2 DEF Loop
<1>4. ASSUME NEW s \in S, s \in final
      PROVE  f[s] = out[s]
  BY <1>2, <1>4 DEF Loop
<1>5. ASSUME NEW s \in S, s \notin final
      PROVE  f[s] = f[next[s]]
  <2> DEFINE t == next[s]
             k == rank[t] + 1
             m == rank[s] + 1
  <2>1. t \in S /\ k <= m /\ k \in Nat /\ m \in Nat
    BY <1>5 DEF Falls
  <2>2. part(m)[s] = part(m)[t]
    BY <1>2, <1>5 DEF Loop
  <2>3. t \in Below(S, rank, k)
    BY <1>2, <2>1
  <2>4. /\ Loop(part(k), Below(S, rank, k), R, final, out, next)
        /\ Loop(part(m), Below(S, rank, m), R, final, out, next)
    BY <1>2, <2>1
  <2>5. f[s] = part(m)[s] /\ f[t] = part(k)[t]
    BY <2>1
  <2> HIDE DEF f, t, k, m
  <2>6. part(k)[t] = part(m)[t]
    BY <2>1, <2>3, <2>4, LoopsAgree
  <2> QED
    BY <2>2, <2>5, <2>6 DEF t
<1> QED
  BY <1>3, <1>4, <1>5 DEF Loop

\* A loop keeps an invariant I, and so ends in a final state that has it.
LEMMA LoopResult ==
  ASSUME NEW S, NEW R, NEW final, NEW out, NEW next, NEW rank,
         Falls(S, R, final, out, next, rank),
         NEW f, f = [s \in S |-> IF s \in final THEN out[s] ELSE f[next[s]]],
         NEW I \in SUBSET S, \A s \in I \ final : next[s] \in I
  PROVE  \A s \in I : \E e \in I \cap final : f[s] = out[e]
<1> DEFINE Ends(s) == \E e \in I \cap final : f[s] = out[e]
           bad == {n \in Nat : \E s \in I : rank[s] = n /\ ~Ends(s)}
<1>1. \A s \in I : s \in S /\ rank[s] \in Nat
  BY DEF Falls
<1>2. \A s \in I : f[s] = IF s \in final THEN out[s] ELSE f[next[s]]
  OBVIOUS
<1>3. \A s \in I \cap final : Ends(s)
  BY <1>2
<1>4. \A s \in I \ final : Ends(next[s]) => Ends(s)
  BY <1>2
<1> HIDE DEF Ends
<1> SUFFICES ASSUME bad # {} PROVE FALSE
  BY <1>1 DEF Ends
<1>5. bad \in SUBSET Nat
  OBVIOUS
<1> HIDE DEF bad
<1>6. PICK n \in bad : \A i \in bad : n <= i
  BY <1>5, SmallestNumber
<1>7. PICK s \in I : rank[s] = n /\ ~Ends(s)
  BY <1>6 DEF bad
<1>8. s \in I \ final /\ next[s] \in I /\ ~Ends(next[s])
  BY <1>3, <1>4, <1>7
<1>9. rank[next[s]] < n /\ rank[next[s]] \in Nat /\ n \in Nat
  BY <1>1, <1>7, <1>8 DEF Falls
<1>10. rank[next[s]] \in bad
  BY <1>8, <1>9 DEF bad
<1> QED
  BY <1>6, <1>9, <1>10
-----------------------------------------------------------------------------
(***************************************************************************)
(* Exact powers.  Induction is over a set, the smallest number that is not *)
(* in it being impossible.                                                 *)
(***************************************************************************)
\* Induction on the natural numbers, over a set.
LEMMA SetInduction ==
  ASSUME NEW T \in SUBSET Nat, 0 \in T, \A n \in T : n + 1 \in T
  PROVE  \A n \in Nat : n \in T
<1> SUFFICES ASSUME Nat \ T # {} PROVE FALSE
  OBVIOUS
<1>1. PICK n \in Nat \ T : \A m \in Nat \ T : n <= m
  BY SmallestNumber
<1>2. n # 0 /\ n - 1 \in Nat /\ ~ (n <= n - 1)
  BY <1>1
<1>3. n - 1 \in T
  BY <1>1, <1>2
<1>4. (n - 1) + 1 \in T
  BY <1>3
<1> QED
  BY <1>1, <1>4

PowersUpTo(g, x, n) ==
  /\ g \in [0 .. n -> Int] /\ g[0] = 1
  /\ \A i \in 0 .. n : i # 0 => g[i] = x * g[i - 1]

LEMMA PowersUpToExist ==
  ASSUME NEW x \in Int
  PROVE  \A n \in Nat : \E g : PowersUpTo(g, x, n)
<1> DEFINE T == {n \in Nat : \E g : PowersUpTo(g, x, n)}
<1>1. 0 \in T
  <2>1. PowersUpTo([i \in 0 .. 0 |-> 1], x, 0)
    BY DEF PowersUpTo
  <2> QED
    BY <2>1
<1>2. ASSUME NEW n \in T PROVE n + 1 \in T
  <2>1. PICK g : PowersUpTo(g, x, n)
    OBVIOUS
  <2> DEFINE h == [i \in 0 .. n + 1 |-> IF i = n + 1 THEN x * g[n] ELSE g[i]]
  <2>2. n \in Nat /\ n + 1 \in Nat
    OBVIOUS
  <2>3. g[n] \in Int /\ x * g[n] \in Int
    BY <2>1, <2>2 DEF PowersUpTo
  <2>4. h \in [0 .. n + 1 -> Int] /\ h[0] = 1
    BY <2>1, <2>2, <2>3 DEF PowersUpTo
  <2>5. ASSUME NEW i \in 0 .. n + 1, i # 0 PROVE h[i] = x * h[i - 1]
    <3>1. i - 1 \in 0 .. n /\ h[i - 1] = g[i - 1]
      BY <2>2, <2>5
    <3>2. CASE i = n + 1
      BY <2>2, <3>1, <3>2
    <3>3. CASE i \in 0 .. n
      <4>1. h[i] = g[i]
        BY <2>2, <3>3
      <4> QED
        BY <2>1, <2>5, <3>1, <3>3, <4>1 DEF PowersUpTo
    <3> QED
      BY <2>2, <3>2, <3>3
  <2>6. PowersUpTo(h, x, n + 1)
    BY <2>4, <2>5 DEF PowersUpTo
  <2> QED
    BY <2>2, <2>6
<1> HIDE DEF T
<1>3. \A n \in Nat : n \in T
  BY <1>1, <1>2, SetInduction DEF T
<1> QED
  BY <1>3 DEF T

LEMMA PowersUpToAgree ==
  ASSUME NEW x \in Int, NEW n \in Nat, NEW g, PowersUpTo(g, x, n),
         NEW h, PowersUpTo(h, x, n + 1)
  PROVE  \A i \in 0 .. n : g[i] = h[i]
<1> DEFINE T == {i \in Nat : i \in 0 .. n => g[i] = h[i]}
<1>1. 0 \in T
  BY DEF PowersUpTo
<1>2. ASSUME NEW i \in T PROVE i + 1 \in T
  <2>1. i \in Nat /\ i + 1 \in Nat /\ (i + 1) - 1 = i
    OBVIOUS
  <2>2. ASSUME i + 1 \in 0 .. n PROVE g[i + 1] = h[i + 1]
    <3>1. i \in 0 .. n /\ i + 1 \in 0 .. n + 1 /\ i + 1 # 0
      BY <2>1, <2>2
    <3>2. g[i + 1] = x * g[i] /\ h[i + 1] = x * h[i]
      BY <2>1, <2>2, <3>1 DEF PowersUpTo
    <3> QED
      BY <3>1, <3>2
  <2> QED
    BY <2>1, <2>2
<1> HIDE DEF T
<1>3. \A i \in Nat : i \in T
  BY <1>1, <1>2, SetInduction DEF T
<1> QED
  BY <1>3 DEF T

LEMMA PowRecursion ==
  ASSUME NEW x \in Int
  PROVE  /\ Pow(x, 0) = 1
         /\ \A n \in Nat : Pow(x, n) \in Int /\ Pow(x, n + 1) = x * Pow(x, n)
<1> DEFINE Is(f)   == f = [k \in Nat |-> IF k = 0 THEN 1 ELSE x * f[k - 1]]
           part(n) == CHOOSE g : PowersUpTo(g, x, n)
           whole   == [n \in Nat |-> part(n)[n]]
           power   == CHOOSE f : Is(f)
<1>1. \A n \in Nat : PowersUpTo(part(n), x, n)
  BY PowersUpToExist
<1> HIDE DEF part
<1>2. ASSUME NEW k \in Nat PROVE whole[k] = IF k = 0 THEN 1 ELSE x * whole[k - 1]
  <2>1. CASE k = 0
    BY <1>1, <2>1 DEF PowersUpTo
  <2>2. CASE k # 0
    <3>1. PICK j \in Nat : k = j + 1 /\ j = k - 1
      BY <2>2
    <3>2. part(k)[k] = x * part(k)[k - 1]
      BY <1>1, <2>2 DEF PowersUpTo
    <3>3. part(j)[j] = part(k)[j]
      BY <1>1, <3>1, PowersUpToAgree
    <3> QED
      BY <2>2, <3>1, <3>2, <3>3
  <2> QED
    BY <2>1, <2>2
<1>3. whole = [k \in Nat |-> IF k = 0 THEN 1 ELSE x * whole[k - 1]]
  BY <1>2
<1>4. Is(power)
  BY <1>3
<1>5. \A n \in Nat : Pow(x, n) = power[n]
  BY DEF Pow
<1> HIDE DEF power, whole
<1>6. \A k \in Nat : power[k] = IF k = 0 THEN 1 ELSE x * power[k - 1]
  BY <1>4
<1>7. power[0] = 1
  BY <1>6
<1>8. ASSUME NEW n \in Nat PROVE power[n + 1] = x * power[n]
  BY <1>6
<1> DEFINE T == {n \in Nat : power[n] \in Int}
<1>9. \A n \in Nat : n \in T
  <2>1. 0 \in T /\ \A n \in T : n + 1 \in T
    BY <1>7, <1>8
  <2> HIDE DEF T
  <2> QED
    BY <2>1, SetInduction DEF T
<1> QED
  BY <1>5, <1>7, <1>8, <1>9

LEMMA PowOfOne ==
  ASSUME NEW x \in Int
  PROVE  Pow(x, 1) = x
<1>1. Pow(x, 0 + 1) = x * Pow(x, 0) /\ Pow(x, 0) = 1
  BY PowRecursion
<1> QED
  BY <1>1

LEMMA PowIsPositive ==
  ASSUME NEW x \in Nat \ {0}
  PROVE  \A n \in Nat : Pow(x, n) \in Nat \ {0}
<1> DEFINE T == {n \in Nat : Pow(x, n) \in Nat \ {0}}
<1>1. 0 \in T
  BY PowRecursion
<1>2. ASSUME NEW n \in T PROVE n + 1 \in T
  <2>1. Pow(x, n + 1) = x * Pow(x, n)
    BY PowRecursion
  <2> QED
    BY <2>1
<1>3. T \in SUBSET Nat
  OBVIOUS
<1> HIDE DEF T
<1>4. \A n \in Nat : n \in T
  BY <1>1, <1>2, <1>3, SetInduction
<1> QED
  BY <1>4 DEF T

LEMMA PowIsNatural ==
  ASSUME NEW x \in Nat
  PROVE  \A n \in Nat : Pow(x, n) \in Nat
<1> DEFINE T == {n \in Nat : Pow(x, n) \in Nat}
<1>1. 0 \in T
  BY PowRecursion
<1>2. ASSUME NEW n \in T PROVE n + 1 \in T
  <2>1. Pow(x, n + 1) = x * Pow(x, n)
    BY PowRecursion
  <2> QED
    BY <2>1
<1>3. T \in SUBSET Nat
  OBVIOUS
<1> HIDE DEF T
<1>4. \A n \in Nat : n \in T
  BY <1>1, <1>2, <1>3, SetInduction
<1> QED
  BY <1>4 DEF T

LEMMA PowOfProduct ==
  ASSUME NEW x \in Int, NEW y \in Int
  PROVE  \A n \in Nat : Pow(x * y, n) = Pow(x, n) * Pow(y, n)
<1> DEFINE T == {n \in Nat : Pow(x * y, n) = Pow(x, n) * Pow(y, n)}
<1>1. 0 \in T
  BY PowRecursion
<1>2. ASSUME NEW n \in T PROVE n + 1 \in T
  <2>1. PICK p \in Int, q \in Int : p = Pow(x, n) /\ q = Pow(y, n)
    BY PowRecursion
  <2>2. Pow(x, n + 1) = x * p /\ Pow(y, n + 1) = y * q /\ Pow(x * y, n + 1) = (x * y) * (p * q)
    BY <2>1, PowRecursion
  <2>3. (x * y) * (p * q) = (x * p) * (y * q)
    OBVIOUS
  <2> QED
    BY <2>2, <2>3
<1>3. T \in SUBSET Nat
  OBVIOUS
<1> HIDE DEF T
<1>4. \A n \in Nat : n \in T
  BY <1>1, <1>2, <1>3, SetInduction
<1> QED
  BY <1>4 DEF T

LEMMA PowOfSum ==
  ASSUME NEW x \in Int, NEW m \in Nat
  PROVE  \A n \in Nat : Pow(x, m + n) = Pow(x, m) * Pow(x, n)
<1> DEFINE T == {n \in Nat : Pow(x, m + n) = Pow(x, m) * Pow(x, n)}
<1>1. 0 \in T
  BY PowRecursion
<1>2. ASSUME NEW n \in T PROVE n + 1 \in T
  <2>1. PICK p \in Int, q \in Int : p = Pow(x, m) /\ q = Pow(x, n)
    BY PowRecursion
  <2>2. (m + n) + 1 = m + (n + 1) /\ m + n \in Nat
    OBVIOUS
  <2>3. Pow(x, m + (n + 1)) = x * (p * q) /\ Pow(x, n + 1) = x * q
    BY <2>1, <2>2, PowRecursion
  <2>4. x * (p * q) = p * (x * q)
    OBVIOUS
  <2> QED
    BY <2>1, <2>3, <2>4
<1>3. T \in SUBSET Nat
  OBVIOUS
<1> HIDE DEF T
<1>4. \A n \in Nat : n \in T
  BY <1>1, <1>2, <1>3, SetInduction
<1> QED
  BY <1>4 DEF T

LEMMA PowOfPow ==
  ASSUME NEW x \in Int, NEW m \in Nat
  PROVE  \A n \in Nat : Pow(Pow(x, m), n) = Pow(x, m * n)
<1> DEFINE T == {n \in Nat : Pow(Pow(x, m), n) = Pow(x, m * n)}
<1>1. PICK p \in Int : p = Pow(x, m)
  BY PowRecursion
<1>2. 0 \in T
  BY <1>1, PowRecursion
<1>3. ASSUME NEW n \in T PROVE n + 1 \in T
  <2>1. m * n \in Nat /\ m * (n + 1) = m * n + m
    OBVIOUS
  <2>2. Pow(p, n + 1) = p * Pow(p, n)
    BY PowRecursion
  <2>3. Pow(x, m * n + m) = Pow(x, m * n) * p
    BY <1>1, <2>1, PowOfSum
  <2>4. Pow(x, m * n) \in Int
    BY <2>1, PowRecursion
  <2> QED
    BY <1>1, <2>1, <2>2, <2>3, <2>4
<1>4. T \in SUBSET Nat
  OBVIOUS
<1> HIDE DEF T
<1>5. \A n \in Nat : n \in T
  BY <1>2, <1>3, <1>4, SetInduction
<1> QED
  BY <1>5 DEF T

LEMMA ProductsKeepOrder ==
  ASSUME NEW a \in Nat, NEW b \in Nat, NEW c \in Nat, NEW d \in Nat, a <= b, c <= d
  PROVE  a * c <= b * d
<1>1. a * c <= b * c /\ c * b <= d * b
  BY TimesKeepsOrder
<1> QED
  BY <1>1

LEMMA PowKeepsOrder ==
  ASSUME NEW x \in Nat, NEW y \in Nat, x <= y
  PROVE  \A n \in Nat : Pow(x, n) <= Pow(y, n)
<1> DEFINE T == {n \in Nat : Pow(x, n) <= Pow(y, n)}
<1>1. 0 \in T
  BY PowRecursion
<1>2. ASSUME NEW n \in T PROVE n + 1 \in T
  <2>1. PICK p \in Nat, q \in Nat : p = Pow(x, n) /\ q = Pow(y, n)
    BY PowIsNatural
  <2>2. Pow(x, n + 1) = x * p /\ Pow(y, n + 1) = y * q
    BY <2>1, PowRecursion
  <2>3. x * p <= y * q
    BY <2>1, ProductsKeepOrder
  <2> QED
    BY <2>2, <2>3
<1>3. T \in SUBSET Nat
  OBVIOUS
<1> HIDE DEF T
<1>4. \A n \in Nat : n \in T
  BY <1>1, <1>2, <1>3, SetInduction
<1> QED
  BY <1>4 DEF T
-----------------------------------------------------------------------------
(***************************************************************************)
(* The power function returns a number.                                    *)
(***************************************************************************)
LEMMA RoundingsAreIntegers ==
  ASSUME NEW x \in Int, NEW y \in Int, NEW d \in Nat \ {0}
  PROVE  /\ FixedMulFloor(x, y, d) \in Int
         /\ FixedMulCeil(x, y, d) \in Int
         /\ \A n \in Nat \ {0} : FixedDivFloor(x, n, d) \in Int
<1>1. x * y \in Int /\ -(x * y) \in Int /\ x * d \in Int
  OBVIOUS
<1>2. (x * y) \div d \in Int /\ (-(x * y)) \div d \in Int
  BY <1>1
<1>3. \A n \in Nat \ {0} : (x * d) \div n \in Int
  BY <1>1
<1> QED
  BY <1>2, <1>3 DEF FixedMulFloor, FixedMulCeil, FixedDivFloor

LEMMA RoundedMulIsInteger ==
  ASSUME NEW x \in Int, NEW y \in Int, NEW roundUp
  PROVE  RoundedMul(x, y, roundUp) \in Int
BY NumAssumption, RoundingsAreIntegers DEF RoundedMul

\* The loop of c_powi: what holds before it and is kept by a step holds of the
\* state it ends in.
LEMMA CPowiKeeps ==
  ASSUME NEW base \in Int, NEW n \in Nat, NEW roundUp, NEW I \in SUBSET PowiState,
         [a |-> base, z |-> IF n % 2 # 0 THEN base ELSE BONE, n |-> n \div 2] \in I,
         \A s \in I : s.n # 0 => PowiStep(s, roundUp) \in I
  PROVE  \E s \in I : s.n = 0 /\ CPowi(base, n, roundUp) = s.z
<1> DEFINE S     == PowiState
           final == {s \in S : s.n = 0}
           out   == [s \in S |-> s.z]
           next  == [s \in S |-> IF s.n = 0 THEN s ELSE PowiStep(s, roundUp)]
           rank  == [s \in S |-> s.n]
           Is(f) == f = [s \in S |-> IF s.n = 0 THEN s.z ELSE f[PowiStep(s, roundUp)]]
           first == [a |-> base, z |-> IF n % 2 # 0 THEN base ELSE BONE, n |-> n \div 2]
<1>1. ASSUME NEW s \in S, s.n # 0
      PROVE  /\ PowiStep(s, roundUp) \in S
             /\ PowiStep(s, roundUp).n < s.n
  <2> DEFINE square == RoundedMul(s.a, s.a, roundUp)
  <2>1. s.a \in Int /\ s.z \in Int /\ s.n \in Nat
    BY DEF PowiState
  <2>2. square \in Int
    BY <2>1, RoundedMulIsInteger
  <2>3. PowiStep(s, roundUp) = [a |-> square,
                                z |-> IF s.n % 2 # 0 THEN RoundedMul(s.z, square, roundUp) ELSE s.z,
                                n |-> s.n \div 2]
    BY DEF PowiStep
  <2> HIDE DEF square
  <2>4. RoundedMul(s.z, square, roundUp) \in Int
    BY <2>1, <2>2, RoundedMulIsInteger
  <2>5. s.n \div 2 \in Nat /\ s.n \div 2 < s.n
    BY <1>1, <2>1
  <2> QED
    BY <2>1, <2>2, <2>3, <2>4, <2>5 DEF PowiState
<1>2. Falls(S, Int, final, out, next, rank)
  <2>1. rank \in [S -> Nat] /\ out \in [S -> Int]
    BY DEF PowiState
  <2>2. next \in [S -> S]
    BY <1>1
  <2>3. \A s \in S \ final : rank[next[s]] < rank[s]
    BY <1>1
  <2> QED
    BY <2>1, <2>2, <2>3 DEF Falls
<1>3. first \in I /\ I \in SUBSET S
  OBVIOUS
<1>4. \A s \in I \ final : next[s] \in I
  BY <1>3
<1>5. \A s \in I : (s \in final => s.n = 0) /\ out[s] = s.z
  BY <1>3
<1>6. \A f : [s \in S |-> IF s.n = 0 THEN s.z ELSE f[PowiStep(s, roundUp)]]
               = [s \in S |-> IF s \in final THEN out[s] ELSE f[next[s]]]
  BY Zenon
<1>7. CPowi(base, n, roundUp) = (CHOOSE f : Is(f))[first]
  BY DEF CPowi
<1>8. \E f : Is(f)
  <2>1. PICK f : Loop(f, S, Int, final, out, next)
    BY <1>2, LoopsExist
  <2>2. f = [s \in S |-> IF s \in final THEN out[s] ELSE f[next[s]]]
    BY <2>1 DEF Loop
  <2> QED
    BY <1>6, <2>2
<1> DEFINE loop == CHOOSE f : Is(f)
<1>9. Is(loop)
  BY <1>8
<1>10. loop = [s \in S |-> IF s \in final THEN out[s] ELSE loop[next[s]]]
  BY <1>6, <1>9
<1> HIDE DEF S, final, out, next, rank, Is, first, loop
<1>11. \A s \in I : \E e \in I \cap final : loop[s] = out[e]
  <2> DEFINE J == I
  <2>1. J \in SUBSET S /\ \A s \in J \ final : next[s] \in J
    BY <1>3, <1>4
  <2> HIDE DEF J
  <2>2. \A s \in J : \E e \in J \cap final : loop[s] = out[e]
    BY <1>2, <1>10, <2>1, LoopResult
  <2> QED
    BY <2>2 DEF J
<1> QED
  BY <1>3, <1>5, <1>7, <1>11 DEF loop

\* What holds of one and of the base and is kept by multiplication holds of
\* every power.
LEMMA CPowiStays ==
  ASSUME NEW Q \in SUBSET Int, NEW base \in Q, NEW n \in Nat, NEW roundUp,
         BONE \in Q, \A v \in Q, w \in Q : RoundedMul(v, w, roundUp) \in Q
  PROVE  CPowi(base, n, roundUp) \in Q
<1> DEFINE I == [a : Q, z : Q, n : Nat]
<1>1. I \in SUBSET PowiState
  BY DEF PowiState
<1>2. [a |-> base, z |-> IF n % 2 # 0 THEN base ELSE BONE, n |-> n \div 2] \in I
  <2>1. n \div 2 \in Nat
    OBVIOUS
  <2> QED
    BY <2>1
<1>3. ASSUME NEW s \in I, s.n # 0
      PROVE  PowiStep(s, roundUp) \in I
  <2> DEFINE square == RoundedMul(s.a, s.a, roundUp)
  <2>1. s.a \in Q /\ s.z \in Q /\ s.n \in Nat
    OBVIOUS
  <2>2. square \in Q /\ RoundedMul(s.z, square, roundUp) \in Q
    BY <2>1
  <2>3. PowiStep(s, roundUp) = [a |-> square,
                                z |-> IF s.n % 2 # 0 THEN RoundedMul(s.z, square, roundUp) ELSE s.z,
                                n |-> s.n \div 2]
    BY DEF PowiStep
  <2> HIDE DEF square
  <2>4. s.n \div 2 \in Nat
    BY <2>1
  <2> QED
    BY <2>1, <2>2, <2>3, <2>4
<1>4. base \in Int
  OBVIOUS
<1>5. \A s \in I : s.z \in Q
  OBVIOUS
<1> HIDE DEF I
<1>6. \E s \in I : s.n = 0 /\ CPowi(base, n, roundUp) = s.z
  BY <1>1, <1>2, <1>3, <1>4, CPowiKeeps
<1> QED
  BY <1>5, <1>6

LEMMA CPowiIsInteger ==
  ASSUME NEW base \in Int, NEW n \in Nat, NEW roundUp
  PROVE  CPowi(base, n, roundUp) \in Int
BY NumAssumption, RoundedMulIsInteger, CPowiStays

LEMMA NextTermIsInteger ==
  ASSUME NEW term \in Int, NEW i \in Nat \ {0}, NEW x \in Int, NEW exp \in Int
  PROVE  NextTerm(term, i, x, exp) \in Int
<1> DEFINE c      == exp - (i - 1) * BONE
           inner  == FixedMulFloor(c, x, BONE)
           scaled == FixedMulFloor(term, inner, BONE)
           d      == i * BONE
<1>1. BONE \in Nat \ {0} /\ c \in Int /\ d \in Nat \ {0}
  BY NumAssumption
<1>2. NextTerm(term, i, x, exp) = FixedDivFloor(scaled, d, BONE)
  BY DEF NextTerm
<1> HIDE DEF c, d
<1>3. inner \in Int
  BY <1>1, RoundingsAreIntegers
<1> HIDE DEF inner
<1>4. scaled \in Int
  BY <1>1, <1>3, RoundingsAreIntegers
<1> HIDE DEF scaled
<1> QED
  BY <1>1, <1>2, <1>4, RoundingsAreIntegers

LEMMA SeriesStepIsTyped ==
  ASSUME NEW s \in SeriesState, NEW x \in Int, NEW exp \in Int, s.iters # SeriesCap
  PROVE  SeriesStep(s, x, exp) \in SeriesState
<1> DEFINE i   == s.iters + 1
           new == NextTerm(s.term, i, x, exp)
<1>1. s.iters \in 0 .. SeriesCap /\ s.term \in Int /\ s.sum \in Int
  BY DEF SeriesState
<1>2. i \in Nat \ {0} /\ i \in 0 .. SeriesCap
  BY <1>1 DEF SeriesCap
<1>3. SeriesStep(s, x, exp) = [iters |-> i, term |-> new, sum |-> s.sum + new]
  BY DEF SeriesStep
<1> HIDE DEF i
<1>4. new \in Int
  BY <1>1, <1>2, NextTermIsInteger
<1> HIDE DEF new
<1> QED
  BY <1>1, <1>2, <1>3, <1>4 DEF SeriesState

\* What holds before the first term and is kept by adding one holds of the
\* sum, which has ended.
LEMMA PowSeriesStays ==
  ASSUME NEW base \in Int, NEW exp \in Int, NEW precision \in Int,
         NEW I \in SUBSET SeriesState,
         [iters |-> 0, term |-> BONE, sum |-> BONE] \in I,
         \A s \in I : ~SeriesEnds(s, precision) => SeriesStep(s, base - BONE, exp) \in I
  PROVE  /\ PowSeries(base, exp, precision) \in I
         /\ SeriesEnds(PowSeries(base, exp, precision), precision)
<1> DEFINE S     == SeriesState
           x     == base - BONE
           final == {s \in S : SeriesEnds(s, precision)}
           out   == [s \in S |-> s]
           next  == [s \in S |-> IF SeriesEnds(s, precision) THEN s ELSE SeriesStep(s, x, exp)]
           rank  == [s \in S |-> SeriesCap - s.iters]
           Is(f) == f = [s \in S |-> IF SeriesEnds(s, precision) THEN s
                                     ELSE f[SeriesStep(s, x, exp)]]
           first == [iters |-> 0, term |-> BONE, sum |-> BONE]
<1>1. ASSUME NEW s \in S, ~SeriesEnds(s, precision)
      PROVE  /\ SeriesStep(s, x, exp) \in S
             /\ SeriesStep(s, x, exp).iters = s.iters + 1
  <2>1. s.iters # SeriesCap /\ x \in Int
    BY <1>1, NumAssumption DEF SeriesEnds
  <2> QED
    BY <2>1, SeriesStepIsTyped DEF SeriesStep
<1>2. Falls(S, S, final, out, next, rank)
  <2>1. rank \in [S -> Nat] /\ out \in [S -> S]
    BY DEF SeriesState, SeriesCap
  <2>2. next \in [S -> S]
    BY <1>1
  <2>3. ASSUME NEW s \in S \ final PROVE rank[next[s]] < rank[s]
    <3>1. next[s] \in S /\ next[s].iters = s.iters + 1
      BY <1>1, <2>3
    <3>2. s.iters \in Int
      BY DEF SeriesState
    <3>3. rank[s] = SeriesCap - s.iters /\ rank[next[s]] = SeriesCap - next[s].iters
      BY <3>1
    <3> QED
      BY <3>1, <3>2, <3>3 DEF SeriesCap
  <2> QED
    BY <2>1, <2>2, <2>3 DEF Falls
<1>3. /\ first \in I
      /\ \A s \in I \ final : next[s] \in I
      /\ \A s \in I \cap final : out[s] = s /\ SeriesEnds(s, precision)
  OBVIOUS
<1>4. \A f : [s \in S |-> IF SeriesEnds(s, precision) THEN s ELSE f[SeriesStep(s, x, exp)]]
               = [s \in S |-> IF s \in final THEN out[s] ELSE f[next[s]]]
  BY Zenon
<1>5. PowSeries(base, exp, precision) = (CHOOSE f : Is(f))[first]
  BY DEF PowSeries
<1>6. \E f : Is(f)
  <2>1. PICK f : Loop(f, S, S, final, out, next)
    BY <1>2, LoopsExist
  <2>2. f = [s \in S |-> IF s \in final THEN out[s] ELSE f[next[s]]]
    BY <2>1 DEF Loop
  <2> QED
    BY <1>4, <2>2
<1> DEFINE loop == CHOOSE f : Is(f)
<1>7. Is(loop)
  BY <1>6
<1>8. loop = [s \in S |-> IF s \in final THEN out[s] ELSE loop[next[s]]]
  BY <1>4, <1>7
<1> HIDE DEF S, final, out, next, rank, Is, first, loop
<1>9. \A s \in I : \E e \in I \cap final : loop[s] = out[e]
  BY <1>2, <1>3, <1>8, LoopResult DEF S
<1> QED
  BY <1>3, <1>5, <1>9 DEF loop

LEMMA PowSeriesIsTyped ==
  ASSUME NEW base \in Int, NEW exp \in Int, NEW precision \in Int
  PROVE  PowSeries(base, exp, precision) \in SeriesState
<1>1. [iters |-> 0, term |-> BONE, sum |-> BONE] \in SeriesState
  BY NumAssumption DEF SeriesState, SeriesCap
<1>2. base - BONE \in Int
  BY NumAssumption
<1>3. \A s \in SeriesState :
        ~SeriesEnds(s, precision) => SeriesStep(s, base - BONE, exp) \in SeriesState
  BY <1>2, SeriesStepIsTyped DEF SeriesEnds
<1> QED
  BY <1>1, <1>3, PowSeriesStays

LEMMA CPowApproxIsInteger ==
  ASSUME NEW base \in Int, NEW exp \in Int, NEW precision \in Int, NEW roundUp
  PROVE  CPowApprox(base, exp, precision, roundUp) \in Int
<1> DEFINE series == PowSeries(base, exp, precision)
<1>1. series \in SeriesState
  BY PowSeriesIsTyped
<1>2. CPowApprox(base, exp, precision, roundUp)
        = series.sum + Correction(base - BONE, series, roundUp)
  BY DEF CPowApprox
<1> HIDE DEF series
<1>3. series.sum \in Int /\ series.term \in Int
  BY <1>1 DEF SeriesState
<1>4. Correction(base - BONE, series, roundUp) \in Int
  BY <1>3 DEF Correction
<1> QED
  BY <1>2, <1>3, <1>4

LEMMA CPowIsInteger ==
  ASSUME NEW base, NEW exp \in Nat, NEW roundUp
  PROVE  CPow(base, exp, roundUp) \subseteq Int
<1> SUFFICES ASSUME base \in MIN_CPOW_BASE .. MAX_CPOW_BASE
             PROVE  CPowValue(base, exp, roundUp) \in Int
  BY DEF CPow
<1> DEFINE int    == exp \div BONE
           remain == exp - int * BONE
           whole  == CPowi(base, int, roundUp)
           part   == CPowApprox(base, remain, CPOW_PRECISION, roundUp)
<1>1. base \in Int /\ BONE \in Nat \ {0} /\ CPOW_PRECISION \in Int
  BY NumAssumption DEF MIN_CPOW_BASE, MAX_CPOW_BASE
<1>2. int \in Nat
  BY <1>1
<1>3. CPowValue(base, exp, roundUp)
        = IF remain = 0 THEN whole ELSE RoundedMul(whole, part, roundUp)
  BY DEF CPowValue
<1>4. remain \in Int
  BY <1>1, <1>2
<1> HIDE DEF int, remain
<1>5. whole \in Int /\ part \in Int
  BY <1>1, <1>2, <1>4, CPowiIsInteger, CPowApproxIsInteger
<1> HIDE DEF whole, part
<1>6. RoundedMul(whole, part, roundUp) \in Int
  BY <1>5, RoundedMulIsInteger
<1> QED
  BY <1>3, <1>5, <1>6

\* What CometPool needs of it: no deposit of one token into a pool without
\* shares is worth a share, since all shares times any number are none.
LEMMA NothingIsMintedFromNothing ==
  ASSUME NEW in, in.weight \in Nat, NEW amount, NEW fee,
         NEW v \in CalcLpTokenAmountGivenTokenDepositsIn(in, 0, amount, fee)
  PROVE  v = 0
<1>1. STROOP_SCALAR \in Nat \ {0} /\ BONE \in Nat \ {0} /\ I128Max \in Nat
  BY MathAssumption, NumAssumption, I128Assumption
<1>2. 0 * STROOP_SCALAR = 0 /\ in.weight * STROOP_SCALAR \in Nat
  BY <1>1
<1> DEFINE powers == CPow(FixedDivFloor(in.balance * in.scalar
                                 + FixedMulFloor(amount * in.scalar, AfterFee(in.weight, fee), BONE),
                               in.balance * in.scalar, BONE),
                           in.weight * STROOP_SCALAR, FALSE)
           news   == {FixedMulFloor(p, 0 * STROOP_SCALAR, BONE) : p \in powers}
           mints  == UNION {SubNoNegative(n, 0 * STROOP_SCALAR) : n \in news}
<1>3. PICK minted \in mints : v \in DownscaleFloor(minted, STROOP_SCALAR)
  BY Zenon DEF CalcLpTokenAmountGivenTokenDepositsIn
<1>4. PICK p \in powers :
        minted \in SubNoNegative(FixedMulFloor(p, 0 * STROOP_SCALAR, BONE), 0 * STROOP_SCALAR)
  BY Zenon
<1>5. p \in Int
  BY <1>2, <1>4, CPowIsInteger
<1>6. FixedMulFloor(p, 0, BONE) = 0
  BY <1>1, <1>5 DEF FixedMulFloor
<1>7. minted = 0
  BY <1>2, <1>6, <1>4 DEF SubNoNegative
<1>8. FixedDivFloor(0, STROOP_SCALAR, 1) = 0
  BY <1>1 DEF FixedDivFloor
<1> QED
  BY <1>3, <1>7, <1>8 DEF DownscaleFloor, Checked
-----------------------------------------------------------------------------
(***************************************************************************)
(* A power is on the same side of one as its base.                         *)
(***************************************************************************)
LEMMA FloorIsMonotone ==
  ASSUME NEW m \in Int, NEW n \in Int, NEW d \in Nat \ {0}, m <= n
  PROVE  m \div d <= n \div d
OBVIOUS

LEMMA FloorOfMultiple ==
  ASSUME NEW k \in Int, NEW d \in Nat \ {0}
  PROVE  (k * d) \div d = k
OBVIOUS

\* A floor lies between the integers that the number lies between.
LEMMA FloorBetween ==
  ASSUME NEW n \in Int, NEW d \in Nat \ {0}, NEW j \in Int, NEW k \in Int,
         j * d <= n, n <= k * d
  PROVE  n \div d \in j .. k
<1>1. (j * d) \div d <= n \div d /\ n \div d <= (k * d) \div d
  BY FloorIsMonotone
<1>2. n \div d \in Int
  OBVIOUS
<1> QED
  BY <1>1, <1>2, FloorOfMultiple

LEMMA FloorAtLeast ==
  ASSUME NEW n \in Int, NEW d \in Nat \ {0}, NEW j \in Int, j * d <= n
  PROVE  n \div d >= j
<1>1. (j * d) \div d <= n \div d
  BY FloorIsMonotone
<1> QED
  BY <1>1, FloorOfMultiple

LEMMA FloorAtMost ==
  ASSUME NEW n \in Int, NEW d \in Nat \ {0}, NEW k \in Int, n <= k * d
  PROVE  n \div d <= k
<1>1. n \div d <= (k * d) \div d
  BY FloorIsMonotone
<1> QED
  BY <1>1, FloorOfMultiple

\* A rounded product lies between the integers that the product lies between.
LEMMA RoundedMulAtLeast ==
  ASSUME NEW x \in Int, NEW y \in Int, NEW roundUp, NEW j \in Int, j * BONE <= x * y
  PROVE  RoundedMul(x, y, roundUp) >= j
<1> DEFINE n == x * y
<1>1. n \in Int /\ -n \in Int /\ -j \in Int /\ BONE \in Nat \ {0} /\ j * BONE <= n
  BY NumAssumption
<1>2. RoundedMul(x, y, roundUp) = IF roundUp THEN -((-n) \div BONE) ELSE n \div BONE
  BY DEF RoundedMul, FixedMulCeil, FixedMulFloor
<1> HIDE DEF n
<1>3. n \div BONE >= j
  BY <1>1, FloorAtLeast
<1>4. -n <= (-j) * BONE
  BY <1>1
<1>5. (-n) \div BONE <= -j
  BY <1>1, <1>4, FloorAtMost
<1>6. (-n) \div BONE \in Int
  BY <1>1
<1> QED
  BY <1>2, <1>3, <1>5, <1>6

LEMMA RoundedMulAtMost ==
  ASSUME NEW x \in Int, NEW y \in Int, NEW roundUp, NEW k \in Int, x * y <= k * BONE
  PROVE  RoundedMul(x, y, roundUp) <= k
<1> DEFINE n == x * y
<1>1. n \in Int /\ -n \in Int /\ -k \in Int /\ BONE \in Nat \ {0} /\ n <= k * BONE
  BY NumAssumption
<1>2. RoundedMul(x, y, roundUp) = IF roundUp THEN -((-n) \div BONE) ELSE n \div BONE
  BY DEF RoundedMul, FixedMulCeil, FixedMulFloor
<1> HIDE DEF n
<1>3. n \div BONE <= k
  BY <1>1, FloorAtMost
<1>4. (-k) * BONE <= -n
  BY <1>1
<1>5. (-n) \div BONE >= -k
  BY <1>1, <1>4, FloorAtLeast
<1>6. (-n) \div BONE \in Int
  BY <1>1
<1> QED
  BY <1>2, <1>3, <1>5, <1>6

LEMMA ProductsAboveOne ==
  ASSUME NEW x \in Int, NEW y \in Int, NEW roundUp, x >= BONE, y >= BONE
  PROVE  RoundedMul(x, y, roundUp) >= BONE
<1>1. \A b \in Nat, v \in Int, w \in Int : v >= b /\ w >= b => b * b <= v * w
  OBVIOUS
<1>2. BONE * BONE <= x * y /\ BONE \in Int
  BY <1>1, NumAssumption
<1> QED
  BY <1>2, RoundedMulAtLeast

LEMMA ProductsBelowOne ==
  ASSUME NEW x \in 0 .. BONE, NEW y \in Int, NEW roundUp, y <= BONE
  PROVE  /\ RoundedMul(x, y, roundUp) <= BONE
         /\ y >= 0 => RoundedMul(x, y, roundUp) >= 0
<1>1. x \in Int /\ BONE \in Int
  BY NumAssumption
<1>2. \A b \in Nat : \A v \in 0 .. b, w \in Int :
        /\ w <= b => v * w <= b * b
        /\ w >= 0 => 0 * b <= v * w
  <2> SUFFICES ASSUME NEW b \in Nat, NEW v \in 0 .. b, NEW w \in Int
               PROVE  (w <= b => v * w <= b * b) /\ (w >= 0 => 0 * b <= v * w)
    OBVIOUS
  <2>1. w >= 0 => 0 <= v * w
    OBVIOUS
  <2>2. w <= b => v * w <= v * b
    OBVIOUS
  <2>3. v * b <= b * b
    OBVIOUS
  <2> QED
    BY <2>1, <2>2, <2>3
<1>3. x * y <= BONE * BONE /\ (y >= 0 => 0 * BONE <= x * y)
  BY <1>2, NumAssumption
<1> QED
  BY <1>1, <1>3, RoundedMulAtMost, RoundedMulAtLeast

LEMMA CPowiKeepsItsSide ==
  ASSUME NEW base \in Nat, NEW n \in Nat, NEW roundUp
  PROVE  /\ base >= BONE => CPowi(base, n, roundUp) >= BONE
         /\ base <= BONE => CPowi(base, n, roundUp) \in 0 .. BONE
<1>1. BONE \in Nat \ {0}
  BY NumAssumption
<1>2. ASSUME base >= BONE
      PROVE  CPowi(base, n, roundUp) >= BONE
  <2> DEFINE Q == {v \in Int : v >= BONE}
  <2>1. Q \in SUBSET Int /\ base \in Q /\ BONE \in Q
    BY <1>1, <1>2
  <2>2. \A v \in Q, w \in Q : RoundedMul(v, w, roundUp) \in Q
    BY RoundedMulIsInteger, ProductsAboveOne
  <2>3. CPowi(base, n, roundUp) \in Q
    <3> HIDE DEF Q
    <3> QED
      BY <2>1, <2>2, CPowiStays
  <2> QED
    BY <2>3
<1>3. ASSUME base <= BONE
      PROVE  CPowi(base, n, roundUp) \in 0 .. BONE
  <2> DEFINE Q == 0 .. BONE
  <2>1. Q \in SUBSET Int /\ base \in Q /\ BONE \in Q
    BY <1>1, <1>3
  <2>2. ASSUME NEW v \in Q, NEW w \in Q
        PROVE  RoundedMul(v, w, roundUp) \in Q
    <3>1. v \in Int /\ w \in Int /\ w <= BONE /\ w >= 0
      BY <1>1
    <3>2. RoundedMul(v, w, roundUp) \in Int
      BY <3>1, RoundedMulIsInteger
    <3> QED
      BY <1>1, <3>1, <3>2, ProductsBelowOne
  <2> HIDE DEF Q
  <2> QED
    BY <2>1, <2>2, CPowiStays DEF Q
<1> QED
  BY <1>2, <1>3

\* The two outer floors of a term, as one bound on it.
LEMMA NextTermAtMost ==
  ASSUME NEW term \in Int, NEW i \in Nat \ {0}, NEW x \in Int, NEW exp \in Int,
         NEW inner \in Int, inner = FixedMulFloor(exp - (i - 1) * BONE, x, BONE),
         NEW k \in Int, term * inner <= (k * i) * BONE
  PROVE  NextTerm(term, i, x, exp) <= k
<1> DEFINE n == term * inner
           scaled == n \div BONE
           d == i * BONE
<1>1. BONE \in Nat \ {0} /\ n \in Int /\ d \in Nat \ {0} /\ k * i \in Int /\ scaled \in Int
  BY NumAssumption
<1>2. NextTerm(term, i, x, exp) = (scaled * BONE) \div d
  BY DEF NextTerm, FixedMulFloor, FixedDivFloor
<1> HIDE DEF n
<1>3. scaled <= k * i
  BY <1>1, FloorAtMost DEF n
<1> HIDE DEF scaled
<1> DEFINE m == scaled * BONE
<1>4. m <= k * d /\ m \in Int
  BY <1>1, <1>3
<1>5. NextTerm(term, i, x, exp) = m \div d
  BY <1>2
<1> HIDE DEF d, m
<1> QED
  BY <1>1, <1>4, <1>5, FloorAtMost

LEMMA NextTermAtLeast ==
  ASSUME NEW term \in Int, NEW i \in Nat \ {0}, NEW x \in Int, NEW exp \in Int,
         NEW inner \in Int, inner = FixedMulFloor(exp - (i - 1) * BONE, x, BONE),
         NEW k \in Int, (k * i) * BONE <= term * inner
  PROVE  NextTerm(term, i, x, exp) >= k
<1> DEFINE n == term * inner
           scaled == n \div BONE
           d == i * BONE
<1>1. BONE \in Nat \ {0} /\ n \in Int /\ d \in Nat \ {0} /\ k * i \in Int /\ scaled \in Int
  BY NumAssumption
<1>2. NextTerm(term, i, x, exp) = (scaled * BONE) \div d
  BY DEF NextTerm, FixedMulFloor, FixedDivFloor
<1> HIDE DEF n
<1>3. scaled >= k * i
  BY <1>1, FloorAtLeast DEF n
<1> HIDE DEF scaled
<1> DEFINE m == scaled * BONE
<1>4. k * d <= m /\ m \in Int
  BY <1>1, <1>3
<1>5. NextTerm(term, i, x, exp) = m \div d
  BY <1>2
<1> HIDE DEF d, m
<1> QED
  BY <1>1, <1>4, <1>5, FloorAtLeast

\* From the second term on, c is negative, and by no more than i - 1.
LEMMA LaterFactor ==
  ASSUME NEW i \in Nat, i >= 2, NEW exp \in 0 .. BONE - 1
  PROVE  /\ exp - (i - 1) * BONE \in Int
         /\ exp - (i - 1) * BONE < 0
         /\ (-(i - 1)) * BONE <= exp - (i - 1) * BONE
<1>1. \A b \in Nat, j \in Nat : j >= 1 => j * b >= b
  OBVIOUS
<1> DEFINE j == i - 1
<1>2. j \in Nat /\ j >= 1 /\ BONE \in Nat /\ exp \in Int
  BY NumAssumption
<1> HIDE DEF j
<1>3. j * BONE >= BONE /\ j * BONE \in Int /\ (-j) * BONE = -(j * BONE)
  BY <1>1, <1>2
<1>4. exp - j * BONE \in Int /\ exp - j * BONE < 0 /\ (-j) * BONE <= exp - j * BONE
  BY <1>2, <1>3
<1>5. (-(i - 1)) * BONE = (-j) * BONE
  BY <1>2 DEF j
<1> QED
  BY <1>4, <1>5 DEF j
-----------------------------------------------------------------------------
\* A base below one: the first term is negative and no later one positive.
LEMMA FirstTermBelowOne ==
  ASSUME NEW x \in Int, x < 0, NEW exp \in 1 .. BONE - 1
  PROVE  NextTerm(BONE, 1, x, exp) <= -1
<1> DEFINE inner == FixedMulFloor(exp - (1 - 1) * BONE, x, BONE)
<1>1. BONE \in Nat \ {0} /\ exp \in Nat \ {0}
  BY NumAssumption
<1>2. exp * x \in Int /\ exp * x < 0
  BY <1>1
<1>3. exp - (1 - 1) * BONE = exp
  BY <1>1
<1>4. inner = (exp * x) \div BONE
  BY <1>3 DEF FixedMulFloor
<1>5. inner \in Int /\ inner <= -1
  <2> DEFINE p == exp * x
  <2>1. p \in Int /\ p < 0
    BY <1>2
  <2> HIDE DEF p
  <2>2. p \div BONE \in Int /\ p \div BONE <= -1
    BY <1>1, <2>1
  <2> QED
    BY <1>4, <2>2 DEF p
<1> HIDE DEF inner
<1>6. BONE * inner <= ((-1) * 1) * BONE
  BY <1>1, <1>5
<1> QED
  BY <1>1, <1>5, <1>6, NextTermAtMost DEF inner

LEMMA LaterTermBelowOne ==
  ASSUME NEW x \in Int, x < 0, NEW exp \in 0 .. BONE - 1, NEW i \in Nat, i >= 2,
         NEW term \in Int, term <= 0
  PROVE  NextTerm(term, i, x, exp) <= 0
<1> DEFINE c == exp - (i - 1) * BONE
           inner == FixedMulFloor(c, x, BONE)
<1>1. c \in Int /\ c < 0 /\ exp \in Int /\ BONE \in Nat \ {0}
  BY LaterFactor, NumAssumption
<1> HIDE DEF c
<1>2. c * x \in Int /\ 0 * BONE <= c * x
  BY <1>1
<1>3. inner = (c * x) \div BONE
  BY DEF FixedMulFloor
<1>4. inner \in Int /\ inner >= 0
  BY <1>1, <1>2, <1>3, FloorAtLeast
<1> HIDE DEF inner
<1>5. term * inner <= 0
  BY <1>4
<1>6. term * inner <= (0 * i) * BONE
  BY <1>1, <1>5
<1>7. inner = FixedMulFloor(exp - (i - 1) * BONE, x, BONE) /\ i \in Nat \ {0}
  BY DEF inner, c
<1> QED
  BY <1>1, <1>4, <1>6, <1>7, NextTermAtMost

LEMMA ApproxBelowOne ==
  ASSUME NEW base \in Int, base < BONE, NEW exp \in 1 .. BONE - 1, NEW roundUp
  PROVE  CPowApprox(base, exp, CPOW_PRECISION, roundUp) <= BONE
<1> DEFINE x == base - BONE
           I == {s \in SeriesState :
                   \/ s.iters = 0 /\ s.term = BONE /\ s.sum = BONE
                   \/ s.iters > 0 /\ s.term <= 0 /\ s.sum <= BONE - 1}
           series == PowSeries(base, exp, CPOW_PRECISION)
<1>1. BONE \in Nat \ {0} /\ x \in Int /\ x < 0 /\ exp \in 0 .. BONE - 1 /\ exp \in Int
      /\ CPOW_PRECISION \in Int
  BY NumAssumption
<1>2. [iters |-> 0, term |-> BONE, sum |-> BONE] \in I
  BY <1>1 DEF SeriesState, SeriesCap
<1>3. ASSUME NEW s \in I, ~SeriesEnds(s, CPOW_PRECISION)
      PROVE  SeriesStep(s, base - BONE, exp) \in I
  <2> DEFINE new == NextTerm(s.term, s.iters + 1, x, exp)
             t == SeriesStep(s, x, exp)
  <2>1. s \in SeriesState /\ s.iters # SeriesCap
    BY <1>3 DEF SeriesEnds
  <2>2. t \in SeriesState
    BY <1>1, <2>1, SeriesStepIsTyped
  <2>3. t.iters = s.iters + 1 /\ t.term = new /\ t.sum = s.sum + new
    BY DEF SeriesStep
  <2>4. s.iters \in Nat /\ s.term \in Int /\ s.sum \in Int /\ new \in Int
    BY <2>1, <2>2, <2>3 DEF SeriesState
  <2> HIDE DEF t
  <2>5. CASE s.iters = 0
    <3>1. s.term = BONE /\ s.sum = BONE
      BY <1>3, <2>5
    <3>2. new <= -1
      BY <1>1, <2>5, <3>1, FirstTermBelowOne
    <3> HIDE DEF new
    <3> QED
      BY <1>1, <2>2, <2>3, <2>4, <2>5, <3>1, <3>2 DEF t
  <2>6. CASE s.iters > 0
    <3>1. s.term <= 0 /\ s.sum <= BONE - 1
      BY <1>3, <2>6
    <3>2. s.iters + 1 \in Nat /\ s.iters + 1 >= 2
      BY <2>4, <2>6
    <3>3. new <= 0
      BY <1>1, <2>4, <3>1, <3>2, LaterTermBelowOne
    <3> HIDE DEF new
    <3> QED
      BY <1>1, <2>2, <2>3, <2>4, <2>6, <3>1, <3>3 DEF t
  <2> QED
    BY <2>4, <2>5, <2>6
<1>4. series \in I /\ SeriesEnds(series, CPOW_PRECISION)
  <2> I \in SUBSET SeriesState
    OBVIOUS
  <2> HIDE DEF I
  <2> QED
    BY <1>1, <1>2, <1>3, PowSeriesStays
<1>5. CPowApprox(base, exp, CPOW_PRECISION, roundUp)
        = series.sum + Correction(x, series, roundUp)
  BY DEF CPowApprox
<1> HIDE DEF series
<1>6. series.iters \in Nat /\ series.term \in Int /\ series.sum \in Int
  BY <1>4 DEF SeriesState
<1>7. series.iters > 0
  BY <1>4, <1>6 DEF SeriesEnds, SeriesCap
<1>8. series.term <= 0 /\ series.sum <= BONE - 1
  BY <1>4, <1>7
<1>9. Correction(x, series, roundUp) \in Int /\ Correction(x, series, roundUp) <= 1
  BY <1>1, <1>6, <1>8 DEF Correction
<1> QED
  BY <1>1, <1>5, <1>6, <1>8, <1>9
-----------------------------------------------------------------------------
\* A base above one: from the second on every term is of the other sign than
\* the one before and no larger, so that the sum never falls below one.
LEMMA ScaledAtMost ==
  ASSUME NEW t \in Nat, NEW j \in Nat, NEW b \in Nat, NEW n \in Nat, n <= j * b
  PROVE  t * n <= (t * (j + 1)) * b
<1>1. t * n <= t * (j * b)
  OBVIOUS
<1>2. t * (j * b) = (t * j) * b /\ (t * (j + 1)) * b = (t * j) * b + t * b
  OBVIOUS
<1>3. t * b >= 0
  OBVIOUS
<1> QED
  BY <1>1, <1>2, <1>3

LEMMA LaterTermAboveOne ==
  ASSUME NEW x \in 1 .. BONE - 1, NEW exp \in 0 .. BONE - 1, NEW i \in Nat, i >= 2,
         NEW term \in Int
  PROVE  /\ term >= 0 => NextTerm(term, i, x, exp) \in -term .. 0
         /\ term <= 0 => NextTerm(term, i, x, exp) \in 0 .. -term
<1> DEFINE c == exp - (i - 1) * BONE
           inner == FixedMulFloor(c, x, BONE)
           j == i - 1
           new == NextTerm(term, i, x, exp)
<1>1. /\ c \in Int /\ c < 0 /\ (-j) * BONE <= c
      /\ BONE \in Nat \ {0} /\ j \in Nat /\ i = j + 1 /\ i \in Nat \ {0}
      /\ x \in Nat \ {0} /\ x <= BONE /\ exp \in Int
  BY LaterFactor, NumAssumption
<1>2. inner = (c * x) \div BONE
  BY DEF FixedMulFloor
<1>3. inner = FixedMulFloor(exp - (i - 1) * BONE, x, BONE)
  OBVIOUS
<1>4. new \in Int
  BY <1>1, NextTermIsInteger
<1> HIDE DEF c, j
<1>5. c * x \in Int /\ c * x <= 0 * BONE /\ ((-j) * BONE) * BONE <= c * x
  <2>1. c * x <= 0
    BY <1>1
  <2>2. \A n \in Nat, v \in Nat, b \in Nat : v <= b => n * v <= n * b
    OBVIOUS
  <2>3. (-c) * x <= (-c) * BONE
    BY <1>1, <2>2
  <2>4. c * BONE >= ((-j) * BONE) * BONE
    BY <1>1
  <2>5. (-c) * x = -(c * x) /\ (-c) * BONE = -(c * BONE)
    BY <1>1
  <2> QED
    BY <1>1, <2>1, <2>3, <2>4, <2>5
<1>6. inner \in Int /\ inner <= 0 /\ -(j * BONE) <= inner
  <2> DEFINE p == c * x
  <2>1. p \in Int /\ p <= 0 * BONE /\ ((-j) * BONE) * BONE <= p /\ (-j) * BONE \in Int
    BY <1>1, <1>5
  <2> HIDE DEF p
  <2>2. p \div BONE \in Int /\ p \div BONE <= 0 /\ (-j) * BONE <= p \div BONE
    BY <1>1, <2>1, FloorAtMost, FloorAtLeast
  <2>3. (-j) * BONE = -(j * BONE)
    BY <1>1
  <2> QED
    BY <1>2, <2>2, <2>3 DEF p
<1> DEFINE n == -inner
<1>7. n \in Nat /\ n <= j * BONE
  BY <1>1, <1>6
<1>8. inner = -n
  BY <1>6
<1> HIDE DEF inner, n
<1>9. ASSUME term >= 0
      PROVE  new \in -term .. 0
  <2>1. term \in Nat /\ -term \in Int
    BY <1>9
  <2>2. term * n <= (term * i) * BONE
    BY <1>1, <1>7, <2>1, ScaledAtMost
  <2>3. term * inner = -(term * n) /\ term * n >= 0
    BY <1>7, <1>8, <2>1
  <2>4. ((-term) * i) * BONE = -((term * i) * BONE) /\ (0 * i) * BONE = 0
    BY <1>1, <2>1
  <2>5. ((-term) * i) * BONE <= term * inner /\ term * inner <= (0 * i) * BONE
    <3>1. term * n \in Int /\ (term * i) * BONE \in Int
      BY <1>1, <1>7, <2>1
    <3> QED
      BY <2>2, <2>3, <2>4, <3>1
  <2> HIDE DEF new
  <2>6. new <= 0
    BY <1>1, <1>3, <1>6, <2>5, NextTermAtMost DEF new
  <2>7. new >= -term
    BY <1>1, <1>3, <1>6, <2>1, <2>5, NextTermAtLeast DEF new
  <2> QED
    BY <1>4, <2>1, <2>6, <2>7
<1>10. ASSUME term <= 0
       PROVE  new \in 0 .. -term
  <2> DEFINE t == -term
  <2>1. t \in Nat /\ term = -t
    BY <1>10
  <2> HIDE DEF t
  <2>2. t * n <= (t * i) * BONE
    BY <1>1, <1>7, <2>1, ScaledAtMost
  <2>3. term * inner = t * n /\ t * n >= 0
    BY <1>7, <1>8, <2>1
  <2>4. (0 * i) * BONE = 0
    BY <1>1
  <2>5. (0 * i) * BONE <= term * inner /\ term * inner <= (t * i) * BONE
    BY <2>2, <2>3, <2>4
  <2> HIDE DEF new
  <2>6. new >= 0
    BY <1>1, <1>3, <1>6, <2>5, NextTermAtLeast DEF new
  <2>7. new <= t
    BY <1>1, <1>3, <1>6, <2>1, <2>5, NextTermAtMost DEF new
  <2> QED
    BY <1>4, <2>1, <2>6, <2>7
<1> QED
  BY <1>9, <1>10

LEMMA FirstTermFromOne ==
  ASSUME NEW x \in Nat, NEW exp \in 1 .. BONE - 1
  PROVE  /\ NextTerm(BONE, 1, x, exp) \in Nat
         /\ x = 0 => NextTerm(BONE, 1, x, exp) = 0
<1> DEFINE inner == FixedMulFloor(exp - (1 - 1) * BONE, x, BONE)
           new == NextTerm(BONE, 1, x, exp)
<1>1. BONE \in Nat \ {0} /\ exp \in Nat \ {0} /\ x \in Int
  BY NumAssumption
<1>2. exp * x \in Nat /\ (x = 0 => exp * x = 0)
  BY <1>1
<1>3. exp - (1 - 1) * BONE = exp
  BY <1>1
<1>4. inner = (exp * x) \div BONE
  BY <1>3 DEF FixedMulFloor
<1>5. inner \in Nat /\ (x = 0 => inner = 0)
  <2> DEFINE p == exp * x
  <2>1. p \in Nat /\ (x = 0 => p = 0)
    BY <1>2
  <2> HIDE DEF p
  <2>2. p \div BONE \in Nat /\ (p = 0 => p \div BONE = 0)
    BY <1>1, <2>1
  <2> QED
    BY <1>4, <2>1, <2>2 DEF p
<1>6. new \in Int
  <2> 1 \in Nat \ {0} /\ BONE \in Int /\ exp \in Int
    BY <1>1
  <2> QED
    BY <1>1, NextTermIsInteger
<1>7. inner = FixedMulFloor(exp - (1 - 1) * BONE, x, BONE)
  OBVIOUS
<1> HIDE DEF inner, new
<1>8. BONE * inner >= 0 /\ (0 * 1) * BONE = 0 /\ (x = 0 => BONE * inner = 0)
  BY <1>1, <1>5
<1>9. new >= 0
  BY <1>1, <1>5, <1>7, <1>8, NextTermAtLeast DEF new
<1>10. x = 0 => new <= 0
  BY <1>1, <1>5, <1>7, <1>8, NextTermAtMost DEF new
<1> QED
  BY <1>6, <1>9, <1>10 DEF new

LEMMA SeriesAboveOneStays ==
  ASSUME NEW x \in 1 .. BONE - 1, NEW exp \in 1 .. BONE - 1, NEW s \in SeriesState,
         s.iters # SeriesCap,
         \/ s.iters = 0 /\ s.term = BONE /\ s.sum = BONE
         \/ s.iters > 0 /\ s.sum >= BONE /\ s.sum - s.term >= BONE
  PROVE  /\ SeriesStep(s, x, exp) \in SeriesState
         /\ SeriesStep(s, x, exp).iters > 0
         /\ SeriesStep(s, x, exp).iters = 1 => SeriesStep(s, x, exp).term >= 0
         /\ SeriesStep(s, x, exp).sum >= BONE
         /\ SeriesStep(s, x, exp).sum - SeriesStep(s, x, exp).term >= BONE
<1> DEFINE new == NextTerm(s.term, s.iters + 1, x, exp)
           t == SeriesStep(s, x, exp)
<1>1. BONE \in Nat \ {0} /\ x \in Nat /\ x \in Int /\ exp \in Int /\ exp \in 0 .. BONE - 1
  BY NumAssumption
<1>2. t \in SeriesState
  BY <1>1, SeriesStepIsTyped
<1>3. t.iters = s.iters + 1 /\ t.term = new /\ t.sum = s.sum + new
  BY DEF SeriesStep
<1>4. s.iters \in Nat /\ s.term \in Int /\ s.sum \in Int /\ new \in Int
  BY <1>2, <1>3 DEF SeriesState
<1> HIDE DEF t
<1>5. CASE s.iters = 0
  <2>1. s.term = BONE /\ s.sum = BONE
    BY <1>4, <1>5
  <2>2. new \in Nat
    BY <1>1, <1>5, <2>1, FirstTermFromOne
  <2> HIDE DEF new
  <2> QED
    BY <1>1, <1>2, <1>3, <1>4, <1>5, <2>1, <2>2 DEF t
<1>6. CASE s.iters > 0
  <2>1. s.sum >= BONE /\ s.sum - s.term >= BONE
    BY <1>6
  <2>2. s.iters + 1 \in Nat /\ s.iters + 1 >= 2
    BY <1>4, <1>6
  <2>3. /\ s.term >= 0 => new \in -s.term .. 0
        /\ s.term <= 0 => new \in 0 .. -s.term
    BY <1>1, <1>4, <2>2, LaterTermAboveOne
  <2> HIDE DEF new
  <2> QED
    BY <1>1, <1>2, <1>3, <1>4, <1>6, <2>1, <2>3 DEF t
<1> QED
  BY <1>4, <1>5, <1>6

LEMMA ApproxAboveOne ==
  ASSUME NEW base \in BONE + 1 .. 2 * BONE - 1, NEW exp \in 1 .. BONE - 1, NEW roundUp
  PROVE  CPowApprox(base, exp, CPOW_PRECISION, roundUp) >= BONE
<1> DEFINE x == base - BONE
           I == {s \in SeriesState :
                   \/ s.iters = 0 /\ s.term = BONE /\ s.sum = BONE
                   \/ /\ s.iters > 0 /\ s.sum >= BONE /\ s.sum - s.term >= BONE
                      /\ s.iters = 1 => s.term >= 0}
           series == PowSeries(base, exp, CPOW_PRECISION)
<1>1. BONE \in Nat \ {0} /\ x \in 1 .. BONE - 1 /\ x \in Int /\ exp \in Int /\ base \in Int
      /\ CPOW_PRECISION \in Int
  BY NumAssumption
<1>2. [iters |-> 0, term |-> BONE, sum |-> BONE] \in I
  BY <1>1 DEF SeriesState, SeriesCap
<1>3. ASSUME NEW s \in I, ~SeriesEnds(s, CPOW_PRECISION)
      PROVE  SeriesStep(s, base - BONE, exp) \in I
  <2>1. s \in SeriesState /\ s.iters # SeriesCap
    BY <1>3 DEF SeriesEnds
  <2> DEFINE t == SeriesStep(s, base - BONE, exp)
  <2>2. /\ t \in SeriesState /\ t.iters > 0 /\ t.sum >= BONE /\ t.sum - t.term >= BONE
        /\ t.iters = 1 => t.term >= 0
    BY <1>1, <2>1, SeriesAboveOneStays
  <2> HIDE DEF t
  <2> QED
    BY <2>2 DEF t
<1>4. series \in I /\ SeriesEnds(series, CPOW_PRECISION)
  <2> I \in SUBSET SeriesState
    OBVIOUS
  <2> HIDE DEF I
  <2> QED
    BY <1>1, <1>2, <1>3, PowSeriesStays
<1>5. CPowApprox(base, exp, CPOW_PRECISION, roundUp)
        = series.sum + Correction(x, series, roundUp)
  BY DEF CPowApprox
<1> HIDE DEF series
<1>6. series.iters \in Nat /\ series.term \in Int /\ series.sum \in Int
  BY <1>4 DEF SeriesState
<1>7. series.iters > 0
  BY <1>4, <1>6 DEF SeriesEnds, SeriesCap
<1>8. /\ series.sum >= BONE /\ series.sum - series.term >= BONE
      /\ series.iters = 1 => series.term >= 0
  BY <1>4, <1>7
<1> HIDE DEF x, I
<1>9. /\ Correction(x, series, roundUp) \in Int
      /\ series.sum + Correction(x, series, roundUp) >= BONE
  <2>1. CASE series.iters = 1
    BY <1>1, <1>6, <1>8, <2>1 DEF Correction
  <2>2. CASE series.iters # 1
    <3>1. x > 0
      BY <1>1
    <3>2. Correction(x, series, roundUp)
            = IF \/ series.term > 0 /\ ~roundUp
                 \/ series.term < 0 /\ roundUp
                THEN -series.term ELSE 0
      BY <2>2, <3>1 DEF Correction
    <3> QED
      BY <1>1, <1>6, <1>8, <3>2
  <2> QED
    BY <2>1, <2>2
<1> QED
  BY <1>5, <1>9

\* The base one: the first term is zero and ends the series.
LEMMA ApproxOfOne ==
  ASSUME NEW exp \in 1 .. BONE - 1, NEW roundUp
  PROVE  CPowApprox(BONE, exp, CPOW_PRECISION, roundUp) = BONE
<1> DEFINE I == {s \in SeriesState :
                   \/ s.iters = 0 /\ s.term = BONE /\ s.sum = BONE
                   \/ s.iters = 1 /\ s.term = 0 /\ s.sum = BONE}
           series == PowSeries(BONE, exp, CPOW_PRECISION)
<1>1. BONE \in Nat \ {0} /\ BONE \in Int /\ BONE - BONE = 0 /\ exp \in Int
      /\ CPOW_PRECISION \in Nat /\ CPOW_PRECISION \in Int
  BY NumAssumption
<1>2. [iters |-> 0, term |-> BONE, sum |-> BONE] \in I
  BY <1>1 DEF SeriesState, SeriesCap
<1>3. ASSUME NEW s \in I, ~SeriesEnds(s, CPOW_PRECISION)
      PROVE  SeriesStep(s, BONE - BONE, exp) \in I
  <2> DEFINE t == SeriesStep(s, 0, exp)
             new == NextTerm(s.term, s.iters + 1, 0, exp)
  <2>1. s.iters = 0 /\ s.term = BONE /\ s.sum = BONE
    BY <1>1, <1>3 DEF SeriesEnds, Abs
  <2>2. t \in SeriesState
    BY <1>1, <2>1, SeriesStepIsTyped DEF SeriesCap
  <2>3. t.iters = s.iters + 1 /\ t.term = new /\ t.sum = s.sum + new
    BY DEF SeriesStep
  <2>4. new = 0
    BY <2>1, FirstTermFromOne
  <2>5. SeriesStep(s, BONE - BONE, exp) = t
    BY <1>1
  <2> HIDE DEF t, new
  <2> QED
    BY <1>1, <2>1, <2>2, <2>3, <2>4, <2>5
<1>4. series \in I /\ SeriesEnds(series, CPOW_PRECISION)
  <2> I \in SUBSET SeriesState
    OBVIOUS
  <2> HIDE DEF I
  <2> QED
    BY <1>1, <1>2, <1>3, PowSeriesStays
<1>5. CPowApprox(BONE, exp, CPOW_PRECISION, roundUp)
        = series.sum + Correction(0, series, roundUp)
  BY <1>1 DEF CPowApprox
<1> HIDE DEF series
<1>6. series.iters = 1 /\ series.sum = BONE
  BY <1>4 DEF SeriesEnds, SeriesCap
<1>7. Correction(0, series, roundUp) = 0
  BY <1>6 DEF Correction
<1> QED
  BY <1>1, <1>5, <1>6, <1>7

LEMMA PowersKeepTheirSide ==
  ASSUME NEW base \in MIN_CPOW_BASE .. MAX_CPOW_BASE, NEW exp \in Nat, NEW roundUp
  PROVE  /\ base >= BONE => CPowValue(base, exp, roundUp) >= BONE
         /\ base <= BONE => CPowValue(base, exp, roundUp) <= BONE
<1> DEFINE int    == exp \div BONE
           remain == exp - int * BONE
           whole  == CPowi(base, int, roundUp)
           part   == CPowApprox(base, remain, CPOW_PRECISION, roundUp)
<1>1. BONE \in Nat \ {0} /\ base \in Nat /\ base \in Int /\ base <= 2 * BONE - 1
      /\ CPOW_PRECISION \in Int
  BY NumAssumption DEF MIN_CPOW_BASE, MAX_CPOW_BASE
<1>2. int \in Nat /\ remain \in 0 .. BONE - 1
  BY <1>1
<1>3. CPowValue(base, exp, roundUp)
        = IF remain = 0 THEN whole ELSE RoundedMul(whole, part, roundUp)
  BY DEF CPowValue
<1> HIDE DEF int, remain
<1>4. /\ whole \in Int
      /\ base >= BONE => whole >= BONE
      /\ base <= BONE => whole \in 0 .. BONE
  BY <1>1, <1>2, CPowiIsInteger, CPowiKeepsItsSide
<1>5. CASE remain = 0
  BY <1>1, <1>3, <1>4, <1>5
<1>6. CASE remain # 0
  <2>1. remain \in 1 .. BONE - 1 /\ remain \in Int
    BY <1>1, <1>2, <1>6
  <2>2. part \in Int
    BY <1>1, <2>1, CPowApproxIsInteger
  <2>3. base = BONE => part = BONE
    BY <2>1, ApproxOfOne
  <2>4. base > BONE => part >= BONE
    BY <1>1, <2>1, ApproxAboveOne
  <2>5. base < BONE => part <= BONE
    BY <1>1, <2>1, ApproxBelowOne
  <2> HIDE DEF whole, part
  <2>6. base >= BONE => part >= BONE
    BY <1>1, <2>3, <2>4
  <2>7. base <= BONE => part <= BONE
    BY <1>1, <2>3, <2>5
  <2>8. base >= BONE => RoundedMul(whole, part, roundUp) >= BONE
    BY <1>4, <2>2, <2>6, ProductsAboveOne
  <2>9. base <= BONE => RoundedMul(whole, part, roundUp) <= BONE
    BY <1>4, <2>2, <2>7, ProductsBelowOne
  <2> QED
    BY <1>3, <1>6, <2>8, <2>9
<1> QED
  BY <1>5, <1>6
-----------------------------------------------------------------------------
(***************************************************************************)
(* Integer powers.  Whatever the number of squarings, and every product of *)
(* c_powi being rounded, its result bounds the exact power.                *)
(***************************************************************************)
\* A rounded product is not on the other side of the exact one.
LEMMA RoundedMulBounds ==
  ASSUME NEW x \in Int, NEW y \in Int
  PROVE  /\ x * y <= RoundedMul(x, y, TRUE) * BONE
         /\ RoundedMul(x, y, FALSE) * BONE <= x * y
<1> DEFINE p == x * y
<1>1. p \in Int /\ BONE \in Nat \ {0}
  BY NumAssumption
<1>2. RoundedMul(x, y, TRUE) = -((-p) \div BONE) /\ RoundedMul(x, y, FALSE) = p \div BONE
  BY DEF RoundedMul, FixedMulCeil, FixedMulFloor
<1> HIDE DEF p
<1>3. p <= RoundedMul(x, y, TRUE) * BONE /\ RoundedMul(x, y, FALSE) * BONE <= p
  BY <1>1, <1>2, FloorBounds, CeilBounds
<1> QED
  BY <1>3 DEF p

LEMMA RoundedMulIsNatural ==
  ASSUME NEW x \in Nat, NEW y \in Nat, NEW roundUp \in BOOLEAN
  PROVE  RoundedMul(x, y, roundUp) \in Nat
<1>1. RoundedMul(x, y, roundUp) \in Int
  BY RoundedMulIsInteger
<1>2. x * y \in Nat /\ BONE \in Nat \ {0} /\ 0 * BONE <= x * y
  BY NumAssumption
<1>3. CASE roundUp
  <2>1. RoundedMul(x, y, roundUp) = RoundedMul(x, y, TRUE)
    BY <1>3
  <2>2. 0 * BONE <= RoundedMul(x, y, roundUp) * BONE
    <3> DEFINE r == RoundedMul(x, y, TRUE)
               p == x * y
    <3>1. x \in Int /\ y \in Int /\ p \in Nat
      BY <1>2
    <3>2. p <= r * BONE
      BY <3>1, RoundedMulBounds
    <3>3. RoundedMul(x, y, roundUp) = r /\ r \in Int
      BY <1>1, <2>1
    <3> HIDE DEF r, p
    <3> QED
      BY <1>2, <3>1, <3>2, <3>3
  <2>3. 0 <= RoundedMul(x, y, roundUp)
    BY <1>1, <1>2, <2>2, TimesReflectsOrder
  <2> QED
    BY <1>1, <2>3
<1>4. CASE ~roundUp
  <2> DEFINE p == x * y
  <2>1. RoundedMul(x, y, roundUp) = p \div BONE
    BY <1>4 DEF RoundedMul, FixedMulFloor
  <2>2. p \in Nat
    BY <1>2
  <2> HIDE DEF p
  <2> QED
    BY <1>2, <2>1, <2>2
<1> QED
  BY <1>3, <1>4

LEMMA PowOfTwice ==
  ASSUME NEW x \in Int, NEW n \in Nat
  PROVE  Pow(x, 2 * n) = Pow(x * x, n)
<1>1. Pow(x, 1 + 1) = x * Pow(x, 1) /\ Pow(x, 1) = x
  BY PowRecursion, PowOfOne
<1>2. Pow(x, 2) = x * x
  BY <1>1
<1> QED
  BY <1>2, PowOfPow

LEMMA PowOfTwiceIsSquare ==
  ASSUME NEW x \in Int, NEW n \in Nat
  PROVE  Pow(x, 2 * n) = Pow(x, n) * Pow(x, n)
<1>1. 2 * n = n + n
  OBVIOUS
<1> QED
  BY <1>1, PowOfSum

\* One square and one product of c_powi.  w over v is the exact power, and
\* z * (a/BONE)^(2n) the power as far as the loop has computed it.
LEMMA SquareUp ==
  ASSUME NEW a \in Nat, NEW z \in Nat, NEW n \in Nat, NEW b \in Nat \ {0},
         NEW w \in Nat, NEW v \in Nat, NEW a2 \in Nat,
         a * a <= a2 * b, w * Pow(b, 2 * n) <= (z * v) * Pow(a, 2 * n)
  PROVE  w * Pow(b, n) <= (z * v) * Pow(a2, n)
<1>1. PICK bn \in Nat \ {0}, an \in Nat, cn \in Nat :
        bn = Pow(b, n) /\ an = Pow(a * a, n) /\ cn = Pow(a2, n)
  <2>1. a * a \in Nat
    OBVIOUS
  <2> QED
    BY <2>1, PowIsPositive, PowIsNatural
<1>2. Pow(b, 2 * n) = bn * bn /\ Pow(a, 2 * n) = an
  BY <1>1, PowOfTwice, PowOfTwiceIsSquare
<1>3. an <= cn * bn
  <2>1. a * a \in Nat /\ a2 * b \in Nat
    OBVIOUS
  <2>2. Pow(a * a, n) <= Pow(a2 * b, n)
    BY <2>1, PowKeepsOrder
  <2>3. Pow(a2 * b, n) = Pow(a2, n) * Pow(b, n)
    BY PowOfProduct
  <2> QED
    BY <1>1, <2>2, <2>3
<1>4. PICK zv \in Nat : zv = z * v
  OBVIOUS
<1>5. w * (bn * bn) <= zv * an
  BY <1>2, <1>4
<1>6. an * zv <= (cn * bn) * zv
  BY <1>3, TimesKeepsOrder
<1>7. (w * bn) * bn <= (zv * cn) * bn
  BY <1>5, <1>6
<1>8. w * bn <= zv * cn
  BY <1>7, TimesReflectsOrder
<1> QED
  BY <1>1, <1>4, <1>8

LEMMA SquareDown ==
  ASSUME NEW a \in Nat, NEW z \in Nat, NEW n \in Nat, NEW b \in Nat \ {0},
         NEW w \in Nat, NEW v \in Nat, NEW a2 \in Nat,
         a2 * b <= a * a, (z * v) * Pow(a, 2 * n) <= w * Pow(b, 2 * n)
  PROVE  (z * v) * Pow(a2, n) <= w * Pow(b, n)
<1>1. PICK bn \in Nat \ {0}, an \in Nat, cn \in Nat :
        bn = Pow(b, n) /\ an = Pow(a * a, n) /\ cn = Pow(a2, n)
  <2>1. a * a \in Nat
    OBVIOUS
  <2> QED
    BY <2>1, PowIsPositive, PowIsNatural
<1>2. Pow(b, 2 * n) = bn * bn /\ Pow(a, 2 * n) = an
  BY <1>1, PowOfTwice, PowOfTwiceIsSquare
<1>3. cn * bn <= an
  <2>1. a * a \in Nat /\ a2 * b \in Nat
    OBVIOUS
  <2>2. Pow(a2 * b, n) <= Pow(a * a, n)
    BY <2>1, PowKeepsOrder
  <2>3. Pow(a2 * b, n) = Pow(a2, n) * Pow(b, n)
    BY PowOfProduct
  <2> QED
    BY <1>1, <2>2, <2>3
<1>4. PICK zv \in Nat : zv = z * v
  OBVIOUS
<1>5. zv * an <= w * (bn * bn)
  BY <1>2, <1>4
<1>6. (cn * bn) * zv <= an * zv
  BY <1>3, TimesKeepsOrder
<1>7. (zv * cn) * bn <= (w * bn) * bn
  BY <1>5, <1>6
<1>8. zv * cn <= w * bn
  BY <1>7, TimesReflectsOrder
<1> QED
  BY <1>1, <1>4, <1>8

LEMMA MultiplyUp ==
  ASSUME NEW a \in Nat, NEW z \in Nat, NEW n \in Nat, NEW b \in Nat \ {0},
         NEW w \in Nat, NEW v \in Nat, NEW z2 \in Nat,
         z * a <= z2 * b, w * Pow(b, n + 1) <= (z * v) * Pow(a, n + 1)
  PROVE  w * Pow(b, n) <= (z2 * v) * Pow(a, n)
<1>1. PICK bn \in Nat \ {0}, an \in Nat : bn = Pow(b, n) /\ an = Pow(a, n)
  BY PowIsPositive, PowIsNatural
<1>2. Pow(b, n + 1) = b * bn /\ Pow(a, n + 1) = a * an
  BY <1>1, PowRecursion
<1>3. PICK k \in Nat : k = v * an
  OBVIOUS
<1>4. (z * a) * k <= (z2 * b) * k
  BY <1>3, TimesKeepsOrder
<1>5. (z * v) * (a * an) = (z * a) * (v * an)
  OBVIOUS
<1>6. (w * bn) * b <= (z2 * k) * b
  BY <1>2, <1>3, <1>4, <1>5
<1>7. z2 * k = (z2 * v) * an
  BY <1>3
<1>8. w * bn <= z2 * k
  BY <1>6, TimesReflectsOrder
<1> QED
  BY <1>1, <1>7, <1>8

LEMMA MultiplyDown ==
  ASSUME NEW a \in Nat, NEW z \in Nat, NEW n \in Nat, NEW b \in Nat \ {0},
         NEW w \in Nat, NEW v \in Nat, NEW z2 \in Nat,
         z2 * b <= z * a, (z * v) * Pow(a, n + 1) <= w * Pow(b, n + 1)
  PROVE  (z2 * v) * Pow(a, n) <= w * Pow(b, n)
<1>1. PICK bn \in Nat \ {0}, an \in Nat : bn = Pow(b, n) /\ an = Pow(a, n)
  BY PowIsPositive, PowIsNatural
<1>2. Pow(b, n + 1) = b * bn /\ Pow(a, n + 1) = a * an
  BY <1>1, PowRecursion
<1>3. PICK k \in Nat : k = v * an
  OBVIOUS
<1>4. (z2 * b) * k <= (z * a) * k
  BY <1>3, TimesKeepsOrder
<1>5. (z * v) * (a * an) = (z * a) * (v * an)
  OBVIOUS
<1>6. (z2 * k) * b <= (w * bn) * b
  BY <1>2, <1>3, <1>4, <1>5
<1>7. z2 * k = (z2 * v) * an
  BY <1>3
<1>8. z2 * k <= w * bn
  BY <1>6, TimesReflectsOrder
<1> QED
  BY <1>1, <1>7, <1>8

LEMMA PowersBeforeTheLoop ==
  ASSUME NEW x \in Nat, NEW n \in Nat, NEW z \in Nat, z = IF n % 2 # 0 THEN x ELSE BONE
  PROVE  (Pow(x, n) * BONE) * Pow(BONE, 2 * (n \div 2)) = (z * Pow(BONE, n)) * Pow(x, 2 * (n \div 2))
<1>1. PICK m \in Nat : m = 2 * (n \div 2)
  OBVIOUS
<1>2. (n % 2 = 0 /\ n = m) \/ (n % 2 # 0 /\ n = m + 1)
  BY <1>1
<1>4. BONE \in Int /\ x \in Int
  BY NumAssumption
<1>3. PICK p \in Int, q \in Int : p = Pow(x, m) /\ q = Pow(BONE, m)
  BY <1>4, PowRecursion
<1>5. CASE n % 2 = 0 /\ n = m
  BY <1>1, <1>3, <1>4, <1>5
<1>6. CASE n % 2 # 0 /\ n = m + 1
  <2>1. Pow(x, n) = x * p /\ Pow(BONE, n) = BONE * q
    BY <1>3, <1>4, <1>6, PowRecursion
  <2>2. ((x * p) * BONE) * q = (x * (BONE * q)) * p
    BY <1>4
  <2> QED
    BY <1>1, <1>3, <1>6, <2>1, <2>2
<1> QED
  BY <1>2, <1>5, <1>6

\* c_powi rounded up is no less, and rounded down no more, than the power.
LEMMA CPowiBoundsThePower ==
  ASSUME NEW x \in Nat, NEW k \in Nat
  PROVE  /\ Pow(x, k) * BONE <= CPowi(x, k, TRUE) * Pow(BONE, k)
         /\ CPowi(x, k, FALSE) * Pow(BONE, k) <= Pow(x, k) * BONE
         /\ CPowi(x, k, TRUE) \in Nat /\ CPowi(x, k, FALSE) \in Nat
<1>1. BONE \in Nat \ {0}
  BY NumAssumption
<1>2. PICK v \in Nat \ {0}, w \in Nat : v = Pow(BONE, k) /\ w = Pow(x, k) * BONE
  <2>1. Pow(BONE, k) \in Nat \ {0} /\ Pow(x, k) \in Nat
    BY <1>1, PowIsPositive, PowIsNatural
  <2>2. Pow(x, k) * BONE \in Nat
    BY <1>1, <2>1
  <2> QED
    BY <2>1, <2>2
<1> DEFINE first == [a |-> x, z |-> IF k % 2 # 0 THEN x ELSE BONE, n |-> k \div 2]
           K     == [a : Nat, z : Nat, n : Nat]
           Up    == {s \in K : w * Pow(BONE, 2 * s.n) <= (s.z * v) * Pow(s.a, 2 * s.n)}
           Down  == {s \in K : (s.z * v) * Pow(s.a, 2 * s.n) <= w * Pow(BONE, 2 * s.n)}
<1>3. first \in Up /\ first \in Down
  <2> DEFINE z == IF k % 2 # 0 THEN x ELSE BONE
  <2>1. k \div 2 \in Nat /\ z \in Nat
    BY <1>1
  <2>2. w * Pow(BONE, 2 * (k \div 2)) = (z * v) * Pow(x, 2 * (k \div 2))
    <3>1. z = IF k % 2 # 0 THEN x ELSE BONE
      OBVIOUS
    <3> HIDE DEF z
    <3>2. (Pow(x, k) * BONE) * Pow(BONE, 2 * (k \div 2)) = (z * Pow(BONE, k)) * Pow(x, 2 * (k \div 2))
      BY <2>1, <3>1, PowersBeforeTheLoop
    <3> QED
      BY <1>2, <3>2
  <2>3. w * Pow(BONE, 2 * (k \div 2)) \in Int
    <3>1. Pow(BONE, 2 * (k \div 2)) \in Int /\ w \in Int
      BY <1>1, <2>1, PowRecursion
    <3> QED
      BY <3>1
  <2>4. first \in K /\ first.a = x /\ first.z = z /\ first.n = k \div 2
    BY <2>1
  <2> HIDE DEF z, first
  <2> QED
    BY <2>2, <2>3, <2>4
<1>4. K \in SUBSET PowiState /\ Up \in SUBSET PowiState /\ Down \in SUBSET PowiState
  BY DEF PowiState
<1>5. ASSUME NEW s \in K, s.n # 0, NEW roundUp \in BOOLEAN,
             NEW t, t = PowiStep(s, roundUp)
      PROVE  /\ t \in K
             /\ t.a = RoundedMul(s.a, s.a, roundUp)
             /\ s.n % 2 # 0 => s.n = 2 * t.n + 1 /\ t.z = RoundedMul(s.z, t.a, roundUp)
             /\ s.n % 2 = 0 => s.n = 2 * t.n /\ t.z = s.z
  <2> DEFINE square == RoundedMul(s.a, s.a, roundUp)
             p      == RoundedMul(s.z, square, roundUp)
  <2>1. s.a \in Nat /\ s.z \in Nat /\ s.n \in Nat
    OBVIOUS
  <2>2. square \in Nat
    BY <2>1, RoundedMulIsNatural
  <2>3. p \in Nat
    BY <2>1, <2>2, RoundedMulIsNatural
  <2>4. t = [a |-> square, z |-> IF s.n % 2 # 0 THEN p ELSE s.z, n |-> s.n \div 2]
    BY <1>5 DEF PowiStep
  <2>5. s.n \div 2 \in Nat /\ (s.n % 2 # 0 => s.n = 2 * (s.n \div 2) + 1)
        /\ (s.n % 2 = 0 => s.n = 2 * (s.n \div 2))
    BY <2>1
  <2>6. t.a = square /\ t.n = s.n \div 2 /\ t.z = IF s.n % 2 # 0 THEN p ELSE s.z
    BY <2>4
  <2>7. t \in K
    <3> HIDE DEF square, p
    <3> QED
      BY <2>1, <2>2, <2>3, <2>4, <2>5
  <2> QED
    BY <2>5, <2>6, <2>7
<1>6. \A s \in Up : s.n # 0 => PowiStep(s, TRUE) \in Up
  <2> SUFFICES ASSUME NEW s \in Up, s.n # 0 PROVE PowiStep(s, TRUE) \in Up
    OBVIOUS
  <2> DEFINE t == PowiStep(s, TRUE)
  <2>1. s \in K /\ w * Pow(BONE, 2 * s.n) <= (s.z * v) * Pow(s.a, 2 * s.n)
    OBVIOUS
  <2>2. /\ t \in K
        /\ t.a = RoundedMul(s.a, s.a, TRUE)
        /\ s.n % 2 # 0 => s.n = 2 * t.n + 1 /\ t.z = RoundedMul(s.z, t.a, TRUE)
        /\ s.n % 2 = 0 => s.n = 2 * t.n /\ t.z = s.z
    BY <1>5, <2>1
  <2> HIDE DEF t
  <2>3. PICK a \in Nat, z \in Nat, n \in Nat : a = s.a /\ z = s.z /\ n = s.n
    BY <2>1
  <2>4. PICK a2 \in Nat, z2 \in Nat, m \in Nat : a2 = t.a /\ z2 = t.z /\ m = t.n
    BY <2>2
  <2>5. a * a <= a2 * BONE
    <3>1. a \in Int /\ a2 = RoundedMul(a, a, TRUE)
      BY <2>2, <2>3, <2>4
    <3> QED
      BY <3>1, RoundedMulBounds
  <2>6. w * Pow(BONE, n) <= (z * v) * Pow(a2, n)
    BY <1>1, <2>1, <2>3, <2>5, SquareUp
  <2>7. CASE n % 2 = 0
    <3>1. n = 2 * m /\ z2 = z
      BY <2>2, <2>3, <2>4, <2>7
    <3> QED
      BY <2>2, <2>4, <2>6, <3>1 DEF t
  <2>8. CASE n % 2 # 0
    <3>1. n = 2 * m + 1 /\ z2 = RoundedMul(z, a2, TRUE) /\ 2 * m \in Nat
      <4>1. t.z = RoundedMul(s.z, t.a, TRUE) /\ s.n = 2 * t.n + 1
        BY <2>2, <2>3, <2>8
      <4> QED
        BY <2>3, <2>4, <4>1
    <3>2. z * a2 <= z2 * BONE
      <4>1. z \in Int /\ a2 \in Int
        OBVIOUS
      <4> QED
        BY <3>1, <4>1, RoundedMulBounds
    <3>3. w * Pow(BONE, 2 * m) <= (z2 * v) * Pow(a2, 2 * m)
      BY <1>1, <2>6, <3>1, <3>2, MultiplyUp
    <3> QED
      BY <2>2, <2>4, <3>3 DEF t
  <2> QED
    BY <2>7, <2>8
<1>7. \A s \in Down : s.n # 0 => PowiStep(s, FALSE) \in Down
  <2> SUFFICES ASSUME NEW s \in Down, s.n # 0 PROVE PowiStep(s, FALSE) \in Down
    OBVIOUS
  <2> DEFINE t == PowiStep(s, FALSE)
  <2>1. s \in K /\ (s.z * v) * Pow(s.a, 2 * s.n) <= w * Pow(BONE, 2 * s.n)
    OBVIOUS
  <2>2. /\ t \in K
        /\ t.a = RoundedMul(s.a, s.a, FALSE)
        /\ s.n % 2 # 0 => s.n = 2 * t.n + 1 /\ t.z = RoundedMul(s.z, t.a, FALSE)
        /\ s.n % 2 = 0 => s.n = 2 * t.n /\ t.z = s.z
    BY <1>5, <2>1
  <2> HIDE DEF t
  <2>3. PICK a \in Nat, z \in Nat, n \in Nat : a = s.a /\ z = s.z /\ n = s.n
    BY <2>1
  <2>4. PICK a2 \in Nat, z2 \in Nat, m \in Nat : a2 = t.a /\ z2 = t.z /\ m = t.n
    BY <2>2
  <2>5. a2 * BONE <= a * a
    <3>1. a \in Int /\ a2 = RoundedMul(a, a, FALSE)
      BY <2>2, <2>3, <2>4
    <3> QED
      BY <3>1, RoundedMulBounds
  <2>6. (z * v) * Pow(a2, n) <= w * Pow(BONE, n)
    BY <1>1, <2>1, <2>3, <2>5, SquareDown
  <2>7. CASE n % 2 = 0
    <3>1. n = 2 * m /\ z2 = z
      BY <2>2, <2>3, <2>4, <2>7
    <3> QED
      BY <2>2, <2>4, <2>6, <3>1 DEF t
  <2>8. CASE n % 2 # 0
    <3>1. n = 2 * m + 1 /\ z2 = RoundedMul(z, a2, FALSE) /\ 2 * m \in Nat
      <4>1. t.z = RoundedMul(s.z, t.a, FALSE) /\ s.n = 2 * t.n + 1
        BY <2>2, <2>3, <2>8
      <4> QED
        BY <2>3, <2>4, <4>1
    <3>2. z2 * BONE <= z * a2
      <4>1. z \in Int /\ a2 \in Int
        OBVIOUS
      <4> QED
        BY <3>1, <4>1, RoundedMulBounds
    <3>3. (z2 * v) * Pow(a2, 2 * m) <= w * Pow(BONE, 2 * m)
      BY <1>1, <2>6, <3>1, <3>2, MultiplyDown
    <3> QED
      BY <2>2, <2>4, <3>3 DEF t
  <2> QED
    BY <2>7, <2>8
<1>8. /\ \A s \in Up : s.n = 0 => s.z \in Nat /\ w <= s.z * v
      /\ \A s \in Down : s.n = 0 => s.z \in Nat /\ s.z * v <= w
  <2>1. ASSUME NEW s \in K, s.n = 0
        PROVE  /\ s.z \in Nat /\ Pow(BONE, 2 * s.n) = 1 /\ Pow(s.a, 2 * s.n) = 1
               /\ w * 1 = w /\ (s.z * v) * 1 = s.z * v
    <3>1. s.z \in Nat /\ s.a \in Nat /\ 2 * s.n = 0
      BY <2>1
    <3>2. Pow(BONE, 0) = 1 /\ Pow(s.a, 0) = 1
      BY <1>1, <3>1, PowRecursion
    <3> QED
      BY <3>1, <3>2
  <2> QED
    BY <2>1
<1> HIDE DEF Up, Down, first, K
<1>11. x \in Int
  OBVIOUS
<1>9. \E s \in Up : s.n = 0 /\ CPowi(x, k, TRUE) = s.z
  <2> DEFINE direction == TRUE
  <2>1. \A s \in Up : s.n # 0 => PowiStep(s, direction) \in Up
    BY <1>6
  <2> HIDE DEF direction
  <2>2. Up \in SUBSET PowiState
    BY <1>4
  <2>3. [a |-> x, z |-> IF k % 2 # 0 THEN x ELSE BONE, n |-> k \div 2] \in Up
    BY <1>3 DEF first
  <2>4. \E s \in Up : s.n = 0 /\ CPowi(x, k, direction) = s.z
    BY <1>11, <2>1, <2>2, <2>3, CPowiKeeps
  <2> QED
    BY <2>4 DEF direction
<1>10. \E s \in Down : s.n = 0 /\ CPowi(x, k, FALSE) = s.z
  <2> DEFINE direction == FALSE
  <2>1. \A s \in Down : s.n # 0 => PowiStep(s, direction) \in Down
    BY <1>7
  <2> HIDE DEF direction
  <2>2. Down \in SUBSET PowiState
    BY <1>4
  <2>3. [a |-> x, z |-> IF k % 2 # 0 THEN x ELSE BONE, n |-> k \div 2] \in Down
    BY <1>3 DEF first
  <2>4. \E s \in Down : s.n = 0 /\ CPowi(x, k, direction) = s.z
    BY <1>11, <2>1, <2>2, <2>3, CPowiKeeps
  <2> QED
    BY <2>4 DEF direction
<1> QED
  BY <1>2, <1>8, <1>9, <1>10
-----------------------------------------------------------------------------
(***************************************************************************)
(* Powers whose series ends on its first term.  The one unit that          *)
(* c_pow_approx moves the first-order line by is enough to make it a bound *)
(* of the curve: above it by the inequality of the means, which is proved  *)
(* for integers and by induction, and below it because the curve bends     *)
(* away by less than that unit when the exponent is not tiny.              *)
(***************************************************************************)
LEMMA SquaresAreNatural ==
  ASSUME NEW n \in Int
  PROVE  n * n \in Nat
OBVIOUS

\* Bernoulli's inequality, without its fraction.
LEMMA Bernoulli ==
  ASSUME NEW p \in Nat, NEW q \in Nat
  PROVE  \A k \in Nat : ((k + 1) * Pow(p, k)) * q <= Pow(q, k + 1) + k * Pow(p, k + 1)
<1> DEFINE T == {k \in Nat : ((k + 1) * Pow(p, k)) * q <= Pow(q, k + 1) + k * Pow(p, k + 1)}
<1>1. 0 \in T
  <2>1. Pow(p, 0) = 1 /\ Pow(q, 0 + 1) = q * Pow(q, 0) /\ Pow(q, 0) = 1 /\ Pow(p, 0 + 1) \in Int
    <3>1. p \in Int /\ q \in Int /\ 0 + 1 \in Nat
      OBVIOUS
    <3> QED
      BY <3>1, PowRecursion
  <2> QED
    BY <2>1
<1>2. ASSUME NEW k \in T PROVE k + 1 \in T
  <2>1. PICK x \in Nat, y \in Nat : x = Pow(p, k) /\ y = Pow(q, k + 1)
    BY PowIsNatural
  <2>2. Pow(p, k + 1) = p * x /\ Pow(p, (k + 1) + 1) = p * (p * x) /\ Pow(q, (k + 1) + 1) = q * y
    <3>1. p \in Int /\ q \in Int /\ k \in Nat /\ k + 1 \in Nat
      OBVIOUS
    <3> QED
      BY <2>1, <3>1, PowRecursion
  <2>3. ((k + 1) * x) * q <= y + k * (p * x)
    BY <2>1, <2>2
  <2>4. (((k + 1) * x) * q) * q <= (y + k * (p * x)) * q
    <3>1. ((k + 1) * x) * q \in Int /\ y + k * (p * x) \in Int
      OBVIOUS
    <3> QED
      BY <2>3, <3>1, TimesKeepsOrder
  <2>5. PICK d \in Nat : d = (q - p) * (q - p)
    BY SquaresAreNatural
  <2>6. ((k + 1) * x) * d \in Nat
    OBVIOUS
  <2>7. ((k + 1) * x) * d = (((k + 1) * x) * q) * q - 2 * ((((k + 1) * x) * p) * q) + ((k + 1) * x) * (p * p)
    BY <2>5
  <2>8. (((k + 1) + 1) * (p * x)) * q <= q * y + (k + 1) * (p * (p * x))
    <3>1. (((k + 1) * x) * q) * q <= y * q + k * ((p * x) * q)
      BY <2>4
    <3>2. PICK g \in Int, h \in Int, j \in Int :
            /\ g = (((k + 1) * x) * q) * q /\ h = (p * x) * q /\ j = (p * p) * x
      OBVIOUS
    <3>3. (((k + 1) * x) * p) * q = (k + 1) * h /\ ((k + 1) * x) * (p * p) = (k + 1) * j
          /\ (k + 1) * (p * (p * x)) = (k + 1) * j
          /\ (((k + 1) + 1) * (p * x)) * q = ((k + 1) + 1) * h
      BY <3>2
    <3>4. g - 2 * ((k + 1) * h) + (k + 1) * j >= 0 /\ g <= y * q + k * h
      BY <2>6, <2>7, <3>1, <3>2, <3>3
    <3>5. 2 * ((k + 1) * h) - k * h = ((k + 1) + 1) * h
      OBVIOUS
    <3>6. ((k + 1) + 1) * h <= y * q + (k + 1) * j
      BY <3>4, <3>5
    <3> QED
      BY <3>3, <3>6
  <2> QED
    BY <2>2, <2>8
<1>3. T \in SUBSET Nat
  OBVIOUS
<1> HIDE DEF T
<1>4. \A n \in Nat : n \in T
  BY <1>1, <1>2, <1>3, SetInduction
<1> QED
  BY <1>4 DEF T

\* One more number in a mean.
LEMMA OneMoreNumber ==
  ASSUME NEW s \in Nat, NEW c \in Nat, NEW k \in Nat
  PROVE  (Pow(k + 1, k + 1) * c) * Pow(s, k) <= Pow(s + c, k + 1) * Pow(k, k)
<1>1. CASE k = 0
  <2>1. Pow(0 + 1, 0 + 1) = 1 /\ Pow(s, 0) = 1 /\ Pow(s + c, 0 + 1) = s + c /\ Pow(0, 0) = 1
    <3>1. 0 + 1 = 1 /\ s \in Int /\ s + c \in Int /\ 0 \in Int /\ 1 \in Int
      OBVIOUS
    <3>2. Pow(1, 1) = 1 /\ Pow(s + c, 1) = s + c
      BY <3>1, PowOfOne
    <3>3. Pow(s, 0) = 1 /\ Pow(0, 0) = 1
      BY <3>1, PowRecursion
    <3> QED
      BY <3>1, <3>2, <3>3
  <2> QED
    BY <1>1, <2>1
<1>2. CASE k # 0
  <2> DEFINE p == (k + 1) * s
             q == k * (s + c)
  <2>1. p \in Nat /\ q \in Nat /\ k + 1 \in Nat /\ s + c \in Nat
    OBVIOUS
  <2>2. ((k + 1) * Pow(p, k)) * q <= Pow(q, k + 1) + k * Pow(p, k + 1)
    BY <2>1, Bernoulli
  <2>3. PICK ps \in Nat, pc \in Nat, pk \in Nat, pk1 \in Nat, pp \in Nat, pq \in Nat :
          /\ ps = Pow(s, k) /\ pc = Pow(s + c, k + 1) /\ pk = Pow(k, k) /\ pk1 = Pow(k + 1, k)
          /\ pp = Pow(p, k) /\ pq = Pow(q, k + 1)
    BY <2>1, PowIsNatural
  <2>4. pp = pk1 * ps
    <3>1. k + 1 \in Int /\ s \in Int
      OBVIOUS
    <3> QED
      BY <2>3, <3>1, PowOfProduct
  <2>5. pq = (k * pk) * pc
    <3>1. k \in Int /\ s + c \in Int
      OBVIOUS
    <3>2. Pow(k * (s + c), k + 1) = Pow(k, k + 1) * Pow(s + c, k + 1)
      BY <2>1, <3>1, PowOfProduct
    <3>3. Pow(k, k + 1) = k * pk
      BY <2>3, <3>1, PowRecursion
    <3> QED
      BY <2>3, <3>2, <3>3
  <2>6. Pow(p, k + 1) = p * pp /\ Pow(k + 1, k + 1) = (k + 1) * pk1
    <3>1. k + 1 \in Int /\ p \in Int
      OBVIOUS
    <3> HIDE DEF p
    <3> QED
      BY <2>3, <3>1, PowRecursion
  <2>7. p = (k + 1) * s /\ q = k * (s + c)
    OBVIOUS
  <2> HIDE DEF p, q
  <2>8. ((k + 1) * pp) * q - k * (p * pp) <= pq
    BY <2>1, <2>2, <2>3, <2>6
  <2>9. ((k + 1) * pp) * q - k * (p * pp) = (k * ((k + 1) * c)) * pp
    BY <2>7
  <2>10. (((k + 1) * c) * pp) * k <= (pk * pc) * k
    BY <2>5, <2>8, <2>9
  <2>11. ((k + 1) * c) * pp <= pk * pc
    <3>1. ((k + 1) * c) * pp \in Int /\ pk * pc \in Int
      OBVIOUS
    <3> QED
      BY <1>2, <2>10, <3>1, TimesReflectsOrder
  <2>12. ((k + 1) * c) * (pk1 * ps) = (((k + 1) * pk1) * c) * ps
    OBVIOUS
  <2> QED
    BY <2>3, <2>4, <2>6, <2>11, <2>12
<1> QED
  BY <1>1, <1>2

\* The mean of m numbers u and n numbers v is not below their geometric mean.
LEMMA WeightedMean ==
  ASSUME NEW u \in Nat, NEW v \in Nat, NEW m \in Nat
  PROVE  \A n \in Nat : (Pow(m + n, m + n) * Pow(u, m)) * Pow(v, n) <= Pow(m * u + n * v, m + n)
<1> DEFINE T == {n \in Nat : (Pow(m + n, m + n) * Pow(u, m)) * Pow(v, n) <= Pow(m * u + n * v, m + n)}
<1>1. 0 \in T
  <2>1. Pow(v, 0) = 1 /\ Pow(m * u, m) = Pow(m, m) * Pow(u, m)
    <3>1. m \in Int /\ u \in Int /\ v \in Int
      OBVIOUS
    <3> QED
      BY <3>1, PowRecursion, PowOfProduct
  <2>2. m + 0 = m /\ m * u + 0 * v = m * u /\ m * u \in Nat
    OBVIOUS
  <2>3. Pow(m, m) \in Nat /\ Pow(u, m) \in Nat /\ Pow(m * u, m) \in Nat
    BY <2>2, PowIsNatural
  <2> QED
    BY <2>1, <2>2, <2>3
<1>2. ASSUME NEW n \in T PROVE n + 1 \in T
  <2>1. PICK k \in Nat, s \in Nat : k = m + n /\ s = m * u + n * v
    OBVIOUS
  <2>2. m + (n + 1) = k + 1 /\ m * u + (n + 1) * v = s + v
    BY <2>1
  <2>3. PICK pu \in Nat, pv \in Nat, pk \in Nat, pk1 \in Nat, ps \in Nat, pt \in Nat :
          /\ pu = Pow(u, m) /\ pv = Pow(v, n) /\ pk = Pow(k, k) /\ pk1 = Pow(k + 1, k + 1)
          /\ ps = Pow(s, k) /\ pt = Pow(s + v, k + 1)
    <3>1. k + 1 \in Nat /\ s + v \in Nat
      OBVIOUS
    <3> QED
      BY <3>1, PowIsNatural
  <2>4. pk # 0
    <3>1. CASE k = 0
      <4>1. Pow(0, 0) = 1
        BY PowRecursion
      <4> QED
        BY <2>3, <3>1, <4>1
    <3>2. CASE k # 0
      BY <2>3, <3>2, PowIsPositive
    <3> QED
      BY <3>1, <3>2
  <2>5. (pk * pu) * pv <= ps
    BY <2>1, <2>3
  <2>6. (pk1 * v) * ps <= pt * pk
    BY <2>3, OneMoreNumber
  <2>7. ((pk * pu) * pv) * (pk1 * v) <= ps * (pk1 * v)
    <3>1. (pk * pu) * pv \in Int /\ pk1 * v \in Nat
      OBVIOUS
    <3> QED
      BY <2>5, <3>1, TimesKeepsOrder
  <2>8. ((pk1 * pu) * (v * pv)) * pk <= pt * pk
    <3>1. ((pk * pu) * pv) * (pk1 * v) = ((pk1 * pu) * (v * pv)) * pk /\ ps * (pk1 * v) = (pk1 * v) * ps
      OBVIOUS
    <3> QED
      BY <2>6, <2>7, <3>1
  <2>9. (pk1 * pu) * (v * pv) <= pt
    <3>1. (pk1 * pu) * (v * pv) \in Int /\ pt \in Int /\ pk \in Nat \ {0}
      BY <2>4
    <3> QED
      BY <2>8, <3>1, TimesReflectsOrder
  <2>10. Pow(v, n + 1) = v * pv
    <3>1. v \in Int /\ n \in Nat
      OBVIOUS
    <3> QED
      BY <2>3, <3>1, PowRecursion
  <2>11. /\ Pow(m + (n + 1), m + (n + 1)) = pk1
         /\ Pow(m * u + (n + 1) * v, m + (n + 1)) = pt
    BY <2>2, <2>3
  <2>12. (pk1 * pu) * (v * pv) = (pk1 * pu) * Pow(v, n + 1)
    BY <2>10
  <2>13. (Pow(m + (n + 1), m + (n + 1)) * Pow(u, m)) * Pow(v, n + 1)
          <= Pow(m * u + (n + 1) * v, m + (n + 1))
    BY <2>3, <2>9, <2>11, <2>12
  <2>14. n + 1 \in Nat
    OBVIOUS
  <2> QED
    BY <2>13, <2>14
<1>3. T \in SUBSET Nat
  OBVIOUS
<1> HIDE DEF T
<1>4. \A n \in Nat : n \in T
  BY <1>1, <1>2, <1>3, SetInduction
<1> QED
  BY <1>4 DEF T

LEMMA FirstTerm ==
  ASSUME NEW x \in Int, NEW exp \in Int
  PROVE  /\ NextTerm(BONE, 1, x, exp) = (exp * x) \div BONE
         /\ (exp * x) \div BONE \in Int
<1> DEFINE p == exp * x
           inner == p \div BONE
<1>1. BONE \in Nat \ {0} /\ p \in Int /\ BONE \in Int
  BY NumAssumption
<1>2. exp - (1 - 1) * BONE = exp /\ 1 * BONE = BONE
  BY <1>1
<1>3. NextTerm(BONE, 1, x, exp) = (((BONE * inner) \div BONE) * BONE) \div BONE
  BY <1>2 DEF NextTerm, FixedMulFloor, FixedDivFloor
<1> HIDE DEF p
<1>4. inner \in Int
  BY <1>1
<1> HIDE DEF inner
<1>5. BONE * inner = inner * BONE
  BY <1>1, <1>4
<1>6. (inner * BONE) \div BONE = inner
  BY <1>1, <1>4, FloorOfMultiple
<1> QED
  BY <1>3, <1>4, <1>5, <1>6 DEF inner, p

\* A series of one term.
LEMMA OneTermSeries ==
  ASSUME NEW base \in Int, NEW exp \in Int, NEW precision \in Int,
         NEW series, series = PowSeries(base, exp, precision), series.iters = 1
  PROVE  /\ series.term = (exp * (base - BONE)) \div BONE
         /\ series.sum = BONE + series.term
         /\ series.term \in Int
         /\ Abs(series.term) <= precision
<1> DEFINE x == base - BONE
           t == (exp * x) \div BONE
           I == {s \in SeriesState :
                   \/ s.iters = 0 /\ s.term = BONE /\ s.sum = BONE
                   \/ s.iters = 1 /\ s.term = t /\ s.sum = BONE + t
                   \/ s.iters > 1}
<1>1. BONE \in Nat \ {0} /\ x \in Int
  BY NumAssumption
<1>2. [iters |-> 0, term |-> BONE, sum |-> BONE] \in I
  BY <1>1 DEF SeriesState, SeriesCap
<1>3. ASSUME NEW s \in I, ~SeriesEnds(s, precision)
      PROVE  SeriesStep(s, base - BONE, exp) \in I
  <2> DEFINE new == NextTerm(s.term, s.iters + 1, x, exp)
             next == SeriesStep(s, x, exp)
  <2>1. s \in SeriesState /\ s.iters # SeriesCap
    BY <1>3 DEF SeriesEnds
  <2>2. next \in SeriesState
    BY <1>1, <2>1, SeriesStepIsTyped
  <2>3. next.iters = s.iters + 1 /\ next.term = new /\ next.sum = s.sum + new
    BY DEF SeriesStep
  <2>4. s.iters \in Nat
    BY <2>1 DEF SeriesState
  <2>5. CASE s.iters = 0
    <3>1. s.term = BONE /\ s.sum = BONE /\ s.iters + 1 = 1
      BY <1>3, <2>5
    <3>2. new = t
      BY <1>1, <3>1, FirstTerm
    <3> HIDE DEF next, new, t
    <3> QED
      BY <2>2, <2>3, <3>1, <3>2 DEF next
  <2>6. CASE s.iters > 0
    <3>1. s.iters + 1 > 1
      BY <2>4, <2>6
    <3> HIDE DEF next, new, t
    <3> QED
      BY <2>2, <2>3, <3>1 DEF next
  <2> QED
    BY <2>4, <2>5, <2>6
<1>4. series \in I /\ SeriesEnds(series, precision)
  <2> I \in SUBSET SeriesState
    OBVIOUS
  <2> HIDE DEF I
  <2> QED
    BY <1>2, <1>3, PowSeriesStays
<1>5. t \in Int
  BY <1>1, FirstTerm
<1> HIDE DEF t
<1>6. series.term = t /\ series.sum = BONE + t
  BY <1>4
<1>7. Abs(series.term) <= precision
  BY <1>4 DEF SeriesEnds, SeriesCap
<1> QED
  BY <1>5, <1>6, <1>7 DEF t

\* The first term, moved up by one unit, against the line through one.
LEMMA LineAbove ==
  ASSUME NEW a \in Nat, NEW r \in Nat, NEW t \in Int, NEW den \in Nat \ {0}, NEW n \in Nat,
         n <= den, n * BONE = den * r, r * (a - BONE) <= (t + 1) * BONE
  PROVE  /\ (den - n) * BONE + n * a <= (BONE + t + 1) * den
         /\ BONE + t + 1 \in Nat
<1> DEFINE one == BONE
           p == one + t + 1
<1>1. one \in Nat \ {0} /\ p \in Int
  BY NumAssumption
<1> HIDE DEF one, p
<1>2. p = one + t + 1 /\ n * one = den * r /\ r * (a - one) <= (t + 1) * one
  BY DEF one, p
<1>3. (r * (a - one)) * den <= ((t + 1) * one) * den
  <2>1. r * (a - one) \in Int /\ (t + 1) * one \in Int /\ den \in Nat
    BY <1>1
  <2> QED
    BY <1>2, <2>1, TimesKeepsOrder
<1>4. (r * (a - one)) * den = (n * one) * (a - one)
  <2>1. (r * (a - one)) * den = (den * r) * (a - one)
    BY <1>1
  <2> QED
    BY <1>2, <2>1
<1> DEFINE low == (den - n) * one + n * a
<1>5. low \in Nat
  BY <1>1
<1>6. low * one <= (p * den) * one
  <2>1. low * one = (den * one) * one + (n * one) * (a - one)
    BY <1>1
  <2>2. (p * den) * one = (den * one) * one + ((t + 1) * one) * den
    BY <1>1, <1>2
  <2> QED
    BY <1>1, <1>3, <1>4, <2>1, <2>2
<1>7. low = (den - n) * one + n * a
  OBVIOUS
<1> HIDE DEF low
<1>8. low <= p * den
  <2>1. low \in Int /\ p * den \in Int
    BY <1>1, <1>5
  <2> QED
    BY <1>1, <1>6, <2>1, TimesReflectsOrder
<1>9. 0 * den <= p * den /\ 0 \in Int
  BY <1>1, <1>5, <1>8
<1>10. 0 <= p
  BY <1>1, <1>9, TimesReflectsOrder
<1> QED
  BY <1>1, <1>7, <1>8, <1>10 DEF one, p

\* A number above the line is above the power.
LEMMA AboveTheMean ==
  ASSUME NEW p \in Nat, NEW a \in Nat, NEW den \in Nat \ {0}, NEW n \in Nat, n <= den,
         (den - n) * BONE + n * a <= p * den
  PROVE  Pow(a, n) * Pow(BONE, den) <= Pow(p, den) * Pow(BONE, n)
<1>1. BONE \in Nat \ {0} /\ BONE \in Nat
  BY NumAssumption
<1>2. PICK m \in Nat, low \in Nat : m = den - n /\ low = m * BONE + n * a
  <2>1. den - n \in Nat
    OBVIOUS
  <2>2. (den - n) * BONE + n * a \in Nat
    BY <1>1, <2>1
  <2> QED
    BY <2>1, <2>2
<1>3. m + n = den /\ low <= p * den /\ p * den \in Nat
  BY <1>2
<1>4. PICK dd \in Nat \ {0}, bm \in Nat, an \in Nat, bn \in Nat, bd \in Nat, pd \in Nat :
        /\ dd = Pow(den, den) /\ bm = Pow(BONE, m) /\ an = Pow(a, n) /\ bn = Pow(BONE, n)
        /\ bd = Pow(BONE, den) /\ pd = Pow(p, den)
  <2>1. Pow(den, den) \in Nat \ {0} /\ den \in Nat
    BY PowIsPositive
  <2> QED
    BY <1>1, <2>1, PowIsNatural
<1>5. (dd * bm) * an <= Pow(low, den)
  BY <1>1, <1>2, <1>3, <1>4, WeightedMean
<1>6. Pow(low, den) <= Pow(p * den, den) /\ den \in Nat
  BY <1>3, PowKeepsOrder
<1>7. Pow(p * den, den) = pd * dd
  <2>1. p \in Int /\ den \in Int /\ den \in Nat
    OBVIOUS
  <2> QED
    BY <1>4, <2>1, PowOfProduct
<1>8. bm * an <= pd
  <2>1. (bm * an) * dd <= pd * dd
    <3>1. Pow(low, den) \in Nat
      BY <1>6, PowIsNatural
    <3> QED
      BY <1>5, <1>6, <1>7, <3>1
  <2>2. bm * an \in Int /\ pd \in Int
    OBVIOUS
  <2> QED
    BY <2>1, <2>2, TimesReflectsOrder
<1>9. bd = bm * bn
  <2>1. BONE \in Int
    BY <1>1
  <2>2. Pow(BONE, m + n) = Pow(BONE, m) * Pow(BONE, n)
    BY <2>1, PowOfSum
  <2> QED
    BY <1>3, <1>4, <2>2
<1>10. (bm * an) * bn <= pd * bn
  <2>1. bm * an \in Int /\ pd \in Int
    OBVIOUS
  <2> QED
    BY <1>8, <2>1, TimesKeepsOrder
<1> QED
  BY <1>4, <1>9, <1>10

\* A number below the harmonic counterpart of the line is below the power.
LEMMA BelowTheMean ==
  ASSUME NEW p \in Nat, NEW a \in Nat \ {0}, NEW den \in Nat \ {0}, NEW n \in Nat, n <= den,
         p * (n * BONE + (den - n) * a) <= (den * a) * BONE
  PROVE  Pow(p, den) * Pow(BONE, n) <= Pow(a, n) * Pow(BONE, den)
<1>1. BONE \in Nat \ {0} /\ BONE \in Nat /\ a \in Nat
  BY NumAssumption
<1>2. PICK m \in Nat, mean \in Nat : m = den - n /\ mean = n * BONE + m * a
  <2>1. den - n \in Nat
    OBVIOUS
  <2>2. n * BONE + (den - n) * a \in Nat
    BY <1>1, <2>1
  <2> QED
    BY <2>1, <2>2
<1>3. n + m = den /\ p * mean <= (den * a) * BONE /\ p * mean \in Nat
      /\ den * a \in Nat /\ (den * a) * BONE \in Nat
  BY <1>1, <1>2
<1>4. PICK dd \in Nat \ {0}, am \in Nat \ {0}, an \in Nat, bn \in Nat, bd \in Nat, pd \in Nat, md \in Nat :
        /\ dd = Pow(den, den) /\ am = Pow(a, m) /\ an = Pow(a, n) /\ bn = Pow(BONE, n)
        /\ bd = Pow(BONE, den) /\ pd = Pow(p, den) /\ md = Pow(mean, den)
  <2>1. Pow(den, den) \in Nat \ {0} /\ Pow(a, m) \in Nat \ {0} /\ den \in Nat
    BY PowIsPositive
  <2> QED
    BY <1>1, <2>1, PowIsNatural
<1>5. (dd * bn) * am <= md
  BY <1>1, <1>2, <1>3, <1>4, WeightedMean
<1>6. pd * md <= (dd * (an * am)) * bd
  <2>1. Pow(p * mean, den) <= Pow((den * a) * BONE, den)
    <3>1. den \in Nat
      OBVIOUS
    <3> QED
      BY <1>3, <3>1, PowKeepsOrder
  <2>2. p \in Int /\ mean \in Int /\ den \in Int /\ a \in Int /\ BONE \in Int /\ den * a \in Int /\ den \in Nat
    BY <1>1
  <2>3. Pow(p * mean, den) = pd * md
    BY <1>4, <2>2, PowOfProduct
  <2>4. Pow((den * a) * BONE, den) = Pow(den * a, den) * bd
    BY <1>4, <2>2, PowOfProduct
  <2>5. Pow(den * a, den) = dd * Pow(a, den)
    BY <1>4, <2>2, PowOfProduct
  <2>6. Pow(a, den) = an * am
    <3>1. Pow(a, n + m) = Pow(a, n) * Pow(a, m)
      BY <2>2, PowOfSum
    <3> QED
      BY <1>3, <1>4, <3>1
  <2> QED
    BY <2>1, <2>3, <2>4, <2>5, <2>6
<1>7. ((dd * bn) * am) * pd <= md * pd
  <2>1. (dd * bn) * am \in Int /\ md \in Int
    OBVIOUS
  <2> QED
    BY <1>5, <2>1, TimesKeepsOrder
<1>8. PICK c \in Nat \ {0} : c = dd * am
  <2>1. dd * am \in Nat \ {0}
    OBVIOUS
  <2> QED
    BY <2>1
<1>9. (pd * bn) * c <= (an * bd) * c
  <2>1. (pd * bn) * c = ((dd * bn) * am) * pd
    BY <1>8
  <2>2. (an * bd) * c = (dd * (an * am)) * bd
    BY <1>8
  <2>3. md * pd = pd * md
    OBVIOUS
  <2> QED
    BY <1>6, <1>7, <2>1, <2>2, <2>3
<1>10. pd * bn <= an * bd
  <2>1. pd * bn \in Int /\ an * bd \in Int
    OBVIOUS
  <2> QED
    BY <1>9, <2>1, TimesReflectsOrder
<1> QED
  BY <1>4, <1>10

\* Squares below a bound.
LEMMA SquaresKeepOrder ==
  ASSUME NEW y \in Nat, NEW z \in Nat, y <= z
  PROVE  y * y <= z * z
BY ProductsKeepOrder

\* The curve bends away from its first-order line by less than one unit, when
\* that line is close to one and the exponent is not tiny.
LEMMA SmallBend ==
  ASSUME NEW one \in Nat \ {0}, NEW x \in Int, NEW r \in Nat \ {0}, r < one,
         NEW limit \in Nat, (one - r) * ((limit + 1) * (limit + 1)) <= r * one,
         NEW t \in Int, -limit <= t, t <= limit,
         t * one <= r * x, r * x < (t + 1) * one
  PROVE  (r * (one - r)) * (x * x) <= one * (one * one + (one - r) * x)
<1>1. PICK y \in Int, s \in Nat, top \in Nat, g \in Nat :
        y = r * x /\ s = one - r /\ top = (limit + 1) * one /\ g = (limit + 1) * (limit + 1)
  <2>1. r * x \in Int /\ one - r \in Nat /\ (limit + 1) * one \in Nat /\ (limit + 1) * (limit + 1) \in Nat
    OBVIOUS
  <2> QED
    BY <2>1
<1>2. s * g <= r * one
  BY <1>1
<1>3. s * (top * top) <= (r * one) * (one * one)
  <2>1. (s * g) * (one * one) <= (r * one) * (one * one)
    <3>1. s * g \in Int /\ r * one \in Int /\ one * one \in Nat
      OBVIOUS
    <3> QED
      BY <1>2, <3>1, TimesKeepsOrder
  <2>2. (s * g) * (one * one) = s * (top * top)
    BY <1>1
  <2> QED
    BY <2>1, <2>2
<1>4. s * (y * y) <= (r * one) * (one * one) + (s * one) * y
  <2>1. CASE y >= 0
    <3>1. y \in Nat /\ y <= top
      <4>1. (t + 1) * one <= (limit + 1) * one
        <5>1. t + 1 \in Int /\ limit + 1 \in Int /\ one \in Nat /\ t + 1 <= limit + 1
          OBVIOUS
        <5> QED
          BY <5>1, TimesKeepsOrder
      <4> QED
        BY <1>1, <2>1, <4>1
    <3>2. y * y <= top * top
      BY <3>1, SquaresKeepOrder
    <3>3. (y * y) * s <= (top * top) * s
      <4>1. y * y \in Int /\ top * top \in Int
        OBVIOUS
      <4> QED
        BY <3>2, <4>1, TimesKeepsOrder
    <3>4. (s * one) * y >= 0
      BY <3>1
    <3>5. s * (y * y) = (y * y) * s /\ s * (top * top) = (top * top) * s
      OBVIOUS
    <3> QED
      BY <1>3, <3>3, <3>4, <3>5
  <2>2. CASE y < 0
    <3>1. PICK z \in Nat : z = -y
      BY <2>2
    <3>2. z + one <= top
      <4>1. (-limit) * one <= t * one
        <5>1. -limit \in Int /\ one \in Nat
          OBVIOUS
        <5> QED
          BY <5>1, TimesKeepsOrder
      <4>2. (-limit) * one = -(limit * one) /\ (limit + 1) * one = limit * one + one
        OBVIOUS
      <4> QED
        BY <1>1, <3>1, <4>1, <4>2
    <3>3. (z + one) * (z + one) <= top * top
      <4>1. z + one \in Nat
        OBVIOUS
      <4> QED
        BY <3>2, <4>1, SquaresKeepOrder
    <3>4. z * z + one * z <= top * top
      <4>1. (z + one) * (z + one) = (z * z + one * z) + (one * z + one * one)
        OBVIOUS
      <4>2. one * z + one * one >= 0
        OBVIOUS
      <4> QED
        BY <3>3, <4>1, <4>2
    <3>5. (z * z + one * z) * s <= (top * top) * s
      <4>1. z * z + one * z \in Int /\ top * top \in Int
        OBVIOUS
      <4> QED
        BY <3>4, <4>1, TimesKeepsOrder
    <3>6. (z * z + one * z) * s = s * (y * y) - (s * one) * y
      BY <3>1
    <3>7. (top * top) * s = s * (top * top)
      OBVIOUS
    <3> QED
      BY <1>3, <3>5, <3>6, <3>7
  <2> QED
    BY <2>1, <2>2
<1> DEFINE left == (r * (one - r)) * (x * x)
           right == one * (one * one + (one - r) * x)
<1>5. left * r = s * (y * y)
  BY <1>1
<1>6. right * r = (r * one) * (one * one) + (s * one) * y
  BY <1>1
<1>7. left \in Int /\ right \in Int
  OBVIOUS
<1> HIDE DEF left, right
<1>8. left <= right
  BY <1>4, <1>5, <1>6, <1>7, TimesReflectsOrder
<1> QED
  BY <1>8 DEF left, right

\* The first term, moved down by one unit, against the curve: what it has to
\* stay below is the harmonic counterpart of the line.
LEMMA CurveBelow ==
  ASSUME NEW one \in Nat \ {0}, NEW a \in Nat, NEW r \in Nat \ {0}, r < one,
         NEW limit \in Nat, (one - r) * ((limit + 1) * (limit + 1)) <= r * one,
         NEW t \in Int, -limit <= t, t <= limit,
         t * one <= r * (a - one), r * (a - one) < (t + 1) * one,
         NEW p \in Int, p = IF t = 0 THEN one ELSE one + t - 1
  PROVE  /\ p * (r * one + (one - r) * a) <= (a * one) * one
         /\ p \in Nat
<1>1. PICK x \in Int : x = a - one
  OBVIOUS
<1>2. (r * (one - r)) * (x * x) <= one * (one * one + (one - r) * x)
  BY <1>1, SmallBend
<1>3. PICK h \in Int : h = r * one + (one - r) * a
  OBVIOUS
<1>4. h = one * one + (one - r) * x /\ h \in Nat
  <2>1. r * one \in Nat /\ (one - r) * a \in Nat
    OBVIOUS
  <2> QED
    BY <1>1, <1>3, <2>1
<1>5. p \in Nat
  <2>1. CASE one <= limit
    <3>1. PICK l \in Nat : l = limit + 1
      OBVIOUS
    <3>2. one * one < l * l
      <4>1. one \in Nat /\ one + 1 \in Nat /\ one + 1 <= l
        BY <2>1, <3>1
      <4>2. (one + 1) * (one + 1) <= l * l
        BY <4>1, SquaresKeepOrder
      <4> QED
        BY <4>2
    <3>3. 1 * (l * l) <= (one - r) * (l * l)
      <4>1. 1 \in Int /\ one - r \in Int /\ 1 <= one - r /\ l * l \in Nat
        OBVIOUS
      <4> QED
        BY <4>1, TimesKeepsOrder
    <3>4. r * one <= one * one
      <4>1. r \in Int /\ one \in Int /\ one \in Nat /\ r <= one
        OBVIOUS
      <4> QED
        BY <4>1, TimesKeepsOrder
    <3> QED
      BY <3>1, <3>2, <3>3, <3>4
  <2>2. CASE one > limit
    BY <2>2
  <2> QED
    BY <2>1, <2>2
<1>6. CASE t = 0
  <2>1. p = one
    BY <1>6
  <2>2. x >= 0
    <3>1. 0 * r <= x * r
      BY <1>1, <1>6
    <3> QED
      BY <3>1, TimesReflectsOrder
  <2>3. h <= a * one
    <3>1. a * one - h = r * x
      BY <1>1, <1>4
    <3>2. r * x >= 0
      BY <2>2
    <3> QED
      BY <3>1, <3>2
  <2>4. h * one <= (a * one) * one
    <3>1. h \in Int /\ a * one \in Int /\ one \in Nat
      OBVIOUS
    <3> QED
      BY <2>3, <3>1, TimesKeepsOrder
  <2>5. one * h = h * one
    OBVIOUS
  <2> QED
    BY <1>3, <1>5, <2>1, <2>4, <2>5
<1>7. CASE t # 0
  <2>1. p = one + t - 1
    BY <1>7
  <2>2. p * one <= one * one + r * x - one
    BY <1>1, <2>1
  <2>3. (p * one) * h <= (one * one + r * x - one) * h
    <3>1. p * one \in Int /\ one * one + r * x - one \in Int
      OBVIOUS
    <3> QED
      BY <1>4, <2>2, <3>1, TimesKeepsOrder
  <2>4. (one * one + r * x - one) * h = ((a * one) * one) * one + ((r * (one - r)) * (x * x) - one * h)
    <3>1. (one * one + r * x - one) * h
            = (one * one + r * x) * (one * one + (one - r) * x) - one * h
      BY <1>4
    <3>2. (one * one + r * x) * (one * one + (one - r) * x)
            = ((one + x) * one) * (one * one) + (r * (one - r)) * (x * x)
      OBVIOUS
    <3>3. one + x = a /\ (a * one) * (one * one) = ((a * one) * one) * one
      BY <1>1
    <3> QED
      BY <3>1, <3>2, <3>3
  <2>5. (r * (one - r)) * (x * x) <= one * h
    BY <1>2, <1>4
  <2>6. (p * h) * one <= ((a * one) * one) * one
    <3>1. (p * one) * h = (p * h) * one
      OBVIOUS
    <3> QED
      BY <2>3, <2>4, <2>5, <3>1
  <2>7. p * h <= (a * one) * one
    <3>1. p * h \in Int /\ (a * one) * one \in Int
      OBVIOUS
    <3> QED
      BY <2>6, <3>1, TimesReflectsOrder
  <2> QED
    BY <1>3, <1>5, <2>7
<1> QED
  BY <1>6, <1>7

\* An exponent below one, as a fraction: n of den parts.
LEMMA PartOfOne ==
  ASSUME NEW r \in Nat, r < BONE, NEW den \in Nat \ {0}, NEW n \in Nat, n * BONE = den * r
  PROVE  n <= den
<1>1. BONE \in Nat \ {0} /\ r <= BONE /\ r \in Int /\ BONE \in Int /\ den \in Nat
  BY NumAssumption
<1>2. r * den <= BONE * den
  BY <1>1, TimesKeepsOrder
<1>3. n * BONE <= den * BONE
  BY <1>1, <1>2
<1> QED
  BY <1>1, <1>3, TimesReflectsOrder

\* A series of one term, rounded up, is not below the power.
LEMMA OneTermAbove ==
  ASSUME NEW a \in Nat, NEW r \in 1 .. BONE - 1,
         PowSeries(a, r, CPOW_PRECISION).iters = 1,
         NEW den \in Nat \ {0}, NEW n \in Nat, n * BONE = den * r,
         NEW roundUp \in BOOLEAN, roundUp,
         NEW p \in Int, p = CPowApprox(a, r, CPOW_PRECISION, roundUp)
  PROVE  /\ p \in Nat
         /\ Pow(a, n) * Pow(BONE, den) <= Pow(p, den) * Pow(BONE, n)
<1> DEFINE series == PowSeries(a, r, CPOW_PRECISION)
           fix == Correction(a - BONE, series, roundUp)
<1>1. /\ BONE \in Nat \ {0} /\ CPOW_PRECISION \in Int /\ a \in Int /\ r \in Int /\ r \in Nat
      /\ r < BONE /\ a - BONE \in Int
  BY NumAssumption
<1>2. n <= den
  BY <1>1, PartOfOne
<1>3. p = series.sum + fix
  BY DEF CPowApprox
<1>4. /\ series.iters = 1 /\ series.term = (r * (a - BONE)) \div BONE
      /\ series.sum = BONE + series.term /\ series.term \in Int
  BY <1>1, OneTermSeries
<1> HIDE DEF series, fix
<1>5. PICK t \in Int, y \in Int : t = series.term /\ y = r * (a - BONE)
  BY <1>1, <1>4
<1>6. y < t * BONE + BONE
  BY <1>1, <1>4, <1>5, FloorBounds
<1>7. p \in Nat /\ (den - n) * BONE + n * a <= p * den
  <2>1. CASE a = BONE
    <3>1. a - BONE = 0
      BY <1>1, <2>1
    <3>2. y = 0
      BY <1>1, <1>5, <3>1
    <3>3. t = 0
      BY <1>1, <1>4, <1>5, <3>2
    <3>4. fix = 0
      BY <1>4, <3>1 DEF fix, Correction
    <3>5. p = BONE
      <4>1. series.term = 0 /\ series.sum = BONE + series.term /\ BONE \in Int
        BY <1>1, <1>4, <1>5, <3>3
      <4>2. series.sum = BONE
        BY <4>1
      <4> QED
        BY <1>3, <3>4, <4>1, <4>2
    <3>6. (den - n) * BONE + n * BONE <= BONE * den
      BY <1>1
    <3>7. p \in Nat /\ (den - n) * BONE + n * BONE <= p * den
      BY <1>1, <3>5, <3>6
    <3> QED
      BY <2>1, <3>7
  <2>2. CASE a # BONE
    <3>1. a - BONE # 0
      BY <1>1, <2>2
    <3>2. fix = 1
      BY <1>4, <3>1 DEF fix, Correction
    <3>3. p = BONE + t + 1
      BY <1>1, <1>3, <1>4, <1>5, <3>2
    <3>4. r * (a - BONE) <= (t + 1) * BONE
      BY <1>1, <1>5, <1>6
    <3> QED
      <4>1. (den - n) * BONE + n * a <= (BONE + t + 1) * den /\ BONE + t + 1 \in Nat
        BY <1>1, <1>2, <3>4, LineAbove
      <4> QED
        BY <3>3, <4>1
  <2> QED
    BY <2>1, <2>2
<1> QED
  BY <1>2, <1>7, AboveTheMean

\* The line, in parts of the exponent and in parts of its fraction.
LEMMA SameLine ==
  ASSUME NEW one \in Nat \ {0}, NEW a \in Nat, NEW r \in Nat, NEW p \in Nat,
         NEW den \in Nat \ {0}, NEW n \in Nat, n * one = den * r,
         p * (r * one + (one - r) * a) <= (a * one) * one
  PROVE  p * (n * one + (den - n) * a) <= (den * a) * one
<1> DEFINE h == r * one + (one - r) * a
           line == n * one + (den - n) * a
<1>1. line \in Int /\ line = n * one + (den - n) * a /\ h \in Int /\ p * h <= (a * one) * one
  OBVIOUS
<1>2. line * one = den * h
  <2>1. line * one = (n * one) * one + (den * one) * a - (n * one) * a
    OBVIOUS
  <2>2. den * h = (den * r) * one + (den * one) * a - (den * r) * a
    OBVIOUS
  <2> QED
    BY <2>1, <2>2
<1> HIDE DEF line, h
<1>3. (p * h) * den <= ((a * one) * one) * den
  <2>1. p * h \in Int /\ (a * one) * one \in Int /\ den \in Nat
    BY <1>1
  <2> QED
    BY <1>1, <2>1, TimesKeepsOrder
<1>4. (p * line) * one <= ((den * a) * one) * one
  <2>1. (p * line) * one = p * (line * one)
    BY <1>1
  <2>2. p * (den * h) = (p * h) * den
    BY <1>1
  <2>3. ((a * one) * one) * den = ((den * a) * one) * one
    OBVIOUS
  <2> QED
    BY <1>2, <1>3, <2>1, <2>2, <2>3
<1>5. p * line <= (den * a) * one
  <2>1. p * line \in Int /\ (den * a) * one \in Int
    BY <1>1
  <2> QED
    BY <1>4, <2>1, TimesReflectsOrder
<1> QED
  BY <1>5 DEF line

\* A series of one term, rounded down, is not above the power, unless the
\* exponent is tiny.
LEMMA OneTermBelow ==
  ASSUME NEW a \in Nat \ {0}, NEW r \in 1 .. BONE - 1,
         PowSeries(a, r, CPOW_PRECISION).iters = 1,
         (BONE - r) * ((CPOW_PRECISION + 1) * (CPOW_PRECISION + 1)) <= r * BONE,
         NEW den \in Nat \ {0}, NEW n \in Nat, n * BONE = den * r,
         NEW roundUp \in BOOLEAN, ~roundUp,
         NEW p \in Int, p = CPowApprox(a, r, CPOW_PRECISION, roundUp)
  PROVE  /\ p \in Nat
         /\ Pow(p, den) * Pow(BONE, n) <= Pow(a, n) * Pow(BONE, den)
<1> DEFINE series == PowSeries(a, r, CPOW_PRECISION)
           fix == Correction(a - BONE, series, roundUp)
<1>1. /\ BONE \in Nat \ {0} /\ CPOW_PRECISION \in Nat /\ CPOW_PRECISION \in Int /\ a \in Int
      /\ a \in Nat /\ r \in Int /\ r \in Nat \ {0} /\ r < BONE /\ a - BONE \in Int
  BY NumAssumption
<1>2. n <= den
  BY <1>1, PartOfOne
<1>3. p = series.sum + fix
  BY DEF CPowApprox
<1>4. /\ series.iters = 1 /\ series.term = (r * (a - BONE)) \div BONE
      /\ series.sum = BONE + series.term /\ series.term \in Int
      /\ Abs(series.term) <= CPOW_PRECISION
  BY <1>1, OneTermSeries
<1> HIDE DEF series, fix
<1>5. PICK t \in Int, y \in Int : t = series.term /\ y = r * (a - BONE)
  BY <1>1, <1>4
<1>6. y < t * BONE + BONE /\ t * BONE <= y
  BY <1>1, <1>4, <1>5, FloorBounds
<1>7. -CPOW_PRECISION <= t /\ t <= CPOW_PRECISION
  BY <1>1, <1>4, <1>5 DEF Abs
<1>8. p = IF t = 0 THEN BONE ELSE BONE + t - 1
  <2>1. CASE a = BONE
    <3>1. a - BONE = 0
      BY <1>1, <2>1
    <3>2. y = 0
      BY <1>1, <1>5, <3>1
    <3>3. t = 0
      BY <1>1, <1>4, <1>5, <3>2
    <3>4. fix = 0
      BY <1>4, <3>1 DEF fix, Correction
    <3> QED
      BY <1>1, <1>3, <1>4, <1>5, <3>3, <3>4
  <2>2. CASE a # BONE
    <3>1. a - BONE # 0
      BY <1>1, <2>2
    <3>2. fix = IF t # 0 THEN -1 ELSE 0
      BY <1>4, <1>5, <3>1 DEF fix, Correction
    <3> QED
      BY <1>1, <1>3, <1>4, <1>5, <3>2
  <2> QED
    BY <2>1, <2>2
<1>9. p \in Int
  OBVIOUS
<1>10. t * BONE <= r * (a - BONE) /\ r * (a - BONE) < (t + 1) * BONE
  BY <1>1, <1>5, <1>6
<1>11. p * (r * BONE + (BONE - r) * a) <= (a * BONE) * BONE /\ p \in Nat
  BY <1>1, <1>7, <1>8, <1>9, <1>10, CurveBelow
<1>12. p * (n * BONE + (den - n) * a) <= (den * a) * BONE
  BY <1>1, <1>11, SameLine
<1> QED
  BY <1>2, <1>11, <1>12, BelowTheMean

\* A whole power and a part of one, multiplied: from below ...
LEMMA ProductAbove ==
  ASSUME NEW a \in Nat, NEW whole \in Nat, NEW part \in Nat, NEW v \in Nat,
         NEW k \in Nat, NEW den \in Nat \ {0}, NEW n \in Nat,
         Pow(a, k) * BONE <= whole * Pow(BONE, k),
         Pow(a, n) * Pow(BONE, den) <= Pow(part, den) * Pow(BONE, n),
         whole * part <= v * BONE
  PROVE  Pow(a, k * den + n) * Pow(BONE, den) <= Pow(v, den) * Pow(BONE, k * den + n)
<1>1. BONE \in Nat \ {0} /\ BONE \in Nat /\ BONE \in Int /\ a \in Int /\ den \in Nat /\ k * den \in Nat
  BY NumAssumption
<1>2. PICK ak \in Nat, bk \in Nat, an \in Nat, bn \in Nat, bd \in Nat \ {0},
           akd \in Nat, bkd \in Nat, wd \in Nat, pd \in Nat, vd \in Nat :
        /\ ak = Pow(a, k) /\ bk = Pow(BONE, k) /\ an = Pow(a, n) /\ bn = Pow(BONE, n)
        /\ bd = Pow(BONE, den) /\ akd = Pow(a, k * den) /\ bkd = Pow(BONE, k * den)
        /\ wd = Pow(whole, den) /\ pd = Pow(part, den) /\ vd = Pow(v, den)
  <2>1. Pow(BONE, den) \in Nat \ {0}
    BY <1>1, PowIsPositive
  <2> QED
    BY <1>1, <2>1, PowIsNatural
<1>3. akd * bd <= wd * bkd
  <2>1. ak * BONE \in Nat /\ whole * bk \in Nat /\ ak * BONE <= whole * bk
    BY <1>1, <1>2
  <2>2. Pow(ak * BONE, den) <= Pow(whole * bk, den)
    BY <1>1, <2>1, PowKeepsOrder
  <2>3. ak \in Int /\ whole \in Int /\ bk \in Int
    OBVIOUS
  <2>4. Pow(ak * BONE, den) = Pow(ak, den) * bd
    BY <1>1, <1>2, <2>3, PowOfProduct
  <2>5. Pow(whole * bk, den) = wd * Pow(bk, den)
    BY <1>1, <1>2, <2>3, PowOfProduct
  <2>6. Pow(ak, den) = akd
    BY <1>1, <1>2, PowOfPow
  <2>7. Pow(bk, den) = bkd
    BY <1>1, <1>2, PowOfPow
  <2> QED
    BY <2>2, <2>4, <2>5, <2>6, <2>7
<1>4. wd * pd <= vd * bd
  <2>1. whole * part \in Nat /\ v * BONE \in Nat
    BY <1>1
  <2>2. Pow(whole * part, den) <= Pow(v * BONE, den)
    BY <1>1, <2>1, PowKeepsOrder
  <2>3. whole \in Int /\ part \in Int /\ v \in Int
    OBVIOUS
  <2>4. Pow(whole * part, den) = wd * pd
    BY <1>1, <1>2, <2>3, PowOfProduct
  <2>5. Pow(v * BONE, den) = vd * bd
    BY <1>1, <1>2, <2>3, PowOfProduct
  <2> QED
    BY <2>2, <2>4, <2>5
<1>5. (akd * bd) * (an * bd) <= (wd * bkd) * (pd * bn)
  <2>1. akd * bd \in Nat /\ an * bd \in Nat /\ wd * bkd \in Nat /\ pd * bn \in Nat
    BY <1>1, <1>2
  <2>2. an * bd <= pd * bn
    BY <1>2
  <2> QED
    BY <1>3, <2>1, <2>2, ProductsKeepOrder
<1>6. (wd * pd) * (bkd * bn) <= (vd * bd) * (bkd * bn)
  <2>1. wd * pd \in Int /\ vd * bd \in Int /\ bkd * bn \in Nat
    BY <1>1, <1>2
  <2> QED
    BY <1>4, <2>1, TimesKeepsOrder
<1>7. ((akd * an) * bd) * bd <= (vd * (bkd * bn)) * bd
  <2>1. ((akd * an) * bd) * bd = (akd * bd) * (an * bd)
    OBVIOUS
  <2>2. (wd * bkd) * (pd * bn) = (wd * pd) * (bkd * bn)
    OBVIOUS
  <2>3. (vd * bd) * (bkd * bn) = (vd * (bkd * bn)) * bd
    OBVIOUS
  <2> QED
    BY <1>5, <1>6, <2>1, <2>2, <2>3
<1>8. (akd * an) * bd <= vd * (bkd * bn)
  <2>1. (akd * an) * bd \in Int /\ vd * (bkd * bn) \in Int
    OBVIOUS
  <2> QED
    BY <1>7, <2>1, TimesReflectsOrder
<1>9. Pow(a, k * den + n) = akd * an
  BY <1>1, <1>2, PowOfSum
<1>10. Pow(BONE, k * den + n) = bkd * bn
  BY <1>1, <1>2, PowOfSum
<1> QED
  BY <1>2, <1>8, <1>9, <1>10

\* ... and from above.
LEMMA ProductBelow ==
  ASSUME NEW a \in Nat, NEW whole \in Nat, NEW part \in Nat, NEW v \in Nat,
         NEW k \in Nat, NEW den \in Nat \ {0}, NEW n \in Nat,
         whole * Pow(BONE, k) <= Pow(a, k) * BONE,
         Pow(part, den) * Pow(BONE, n) <= Pow(a, n) * Pow(BONE, den),
         v * BONE <= whole * part
  PROVE  Pow(v, den) * Pow(BONE, k * den + n) <= Pow(a, k * den + n) * Pow(BONE, den)
<1>1. BONE \in Nat \ {0} /\ BONE \in Nat /\ BONE \in Int /\ a \in Int /\ den \in Nat /\ k * den \in Nat
  BY NumAssumption
<1>2. PICK ak \in Nat, bk \in Nat, an \in Nat, bn \in Nat, bd \in Nat \ {0},
           akd \in Nat, bkd \in Nat, wd \in Nat, pd \in Nat, vd \in Nat :
        /\ ak = Pow(a, k) /\ bk = Pow(BONE, k) /\ an = Pow(a, n) /\ bn = Pow(BONE, n)
        /\ bd = Pow(BONE, den) /\ akd = Pow(a, k * den) /\ bkd = Pow(BONE, k * den)
        /\ wd = Pow(whole, den) /\ pd = Pow(part, den) /\ vd = Pow(v, den)
  <2>1. Pow(BONE, den) \in Nat \ {0}
    BY <1>1, PowIsPositive
  <2> QED
    BY <1>1, <2>1, PowIsNatural
<1>3. wd * bkd <= akd * bd
  <2>1. ak * BONE \in Nat /\ whole * bk \in Nat /\ whole * bk <= ak * BONE
    BY <1>1, <1>2
  <2>2. Pow(whole * bk, den) <= Pow(ak * BONE, den)
    BY <1>1, <2>1, PowKeepsOrder
  <2>3. ak \in Int /\ whole \in Int /\ bk \in Int
    OBVIOUS
  <2>4. Pow(ak * BONE, den) = Pow(ak, den) * bd
    BY <1>1, <1>2, <2>3, PowOfProduct
  <2>5. Pow(whole * bk, den) = wd * Pow(bk, den)
    BY <1>1, <1>2, <2>3, PowOfProduct
  <2>6. Pow(ak, den) = akd
    BY <1>1, <1>2, PowOfPow
  <2>7. Pow(bk, den) = bkd
    BY <1>1, <1>2, PowOfPow
  <2> QED
    BY <2>2, <2>4, <2>5, <2>6, <2>7
<1>4. vd * bd <= wd * pd
  <2>1. whole * part \in Nat /\ v * BONE \in Nat
    BY <1>1
  <2>2. Pow(v * BONE, den) <= Pow(whole * part, den)
    BY <1>1, <2>1, PowKeepsOrder
  <2>3. whole \in Int /\ part \in Int /\ v \in Int
    OBVIOUS
  <2>4. Pow(whole * part, den) = wd * pd
    BY <1>1, <1>2, <2>3, PowOfProduct
  <2>5. Pow(v * BONE, den) = vd * bd
    BY <1>1, <1>2, <2>3, PowOfProduct
  <2> QED
    BY <2>2, <2>4, <2>5
<1>5. (wd * bkd) * (pd * bn) <= (akd * bd) * (an * bd)
  <2>1. akd * bd \in Nat /\ an * bd \in Nat /\ wd * bkd \in Nat /\ pd * bn \in Nat
    BY <1>1, <1>2
  <2>2. pd * bn <= an * bd
    BY <1>2
  <2> QED
    BY <1>3, <2>1, <2>2, ProductsKeepOrder
<1>6. (vd * bd) * (bkd * bn) <= (wd * pd) * (bkd * bn)
  <2>1. wd * pd \in Int /\ vd * bd \in Int /\ bkd * bn \in Nat
    BY <1>1, <1>2
  <2> QED
    BY <1>4, <2>1, TimesKeepsOrder
<1>7. (vd * (bkd * bn)) * bd <= ((akd * an) * bd) * bd
  <2>1. ((akd * an) * bd) * bd = (akd * bd) * (an * bd)
    OBVIOUS
  <2>2. (wd * bkd) * (pd * bn) = (wd * pd) * (bkd * bn)
    OBVIOUS
  <2>3. (vd * bd) * (bkd * bn) = (vd * (bkd * bn)) * bd
    OBVIOUS
  <2> QED
    BY <1>5, <1>6, <2>1, <2>2, <2>3
<1>8. vd * (bkd * bn) <= (akd * an) * bd
  <2>1. (akd * an) * bd \in Int /\ vd * (bkd * bn) \in Int
    OBVIOUS
  <2> QED
    BY <1>7, <2>1, TimesReflectsOrder
<1>9. Pow(a, k * den + n) = akd * an
  BY <1>1, <1>2, PowOfSum
<1>10. Pow(BONE, k * den + n) = bkd * bn
  BY <1>1, <1>2, PowOfSum
<1> QED
  BY <1>2, <1>8, <1>9, <1>10

LEMMA NumbersMeetThemselves ==
  ASSUME NEW x \in Int
  PROVE  x <= x
OBVIOUS

LEMMA QuotientAndRest ==
  ASSUME NEW n \in Nat, NEW d \in Nat \ {0}
  PROVE  /\ n \div d \in Nat /\ n % d \in 0 .. d - 1
         /\ n = (n \div d) * d + (n % d)
OBVIOUS

\* The two parts of an exponent num/den, and the fraction as a number of
\* parts of den.
LEMMA PartsOfExponent ==
  ASSUME NEW num \in Nat, NEW den \in Nat \ {0}, (num * BONE) % den = 0,
         NEW exp, exp = (num * BONE) \div den
  PROVE  \E k \in Nat, r \in 0 .. BONE - 1, n \in Nat :
           /\ exp = k * BONE + r /\ k = exp \div BONE /\ r = exp % BONE
           /\ n * BONE = den * r /\ num = k * den + n
<1>1. PICK one \in Nat \ {0} : one = BONE
  BY NumAssumption
<1>2. PICK w \in Nat : w = num * one
  <2>1. num * one \in Nat
    OBVIOUS
  <2> QED
    BY <2>1
<1>3. exp \in Nat /\ exp * den = w
  <2>1. w = den * (w \div den) + (w % den) /\ w \div den \in Nat
    OBVIOUS
  <2> QED
    BY <1>1, <1>2, <2>1
<1>4. PICK k \in Nat, r \in 0 .. one - 1 : exp = k * one + r /\ k = exp \div one /\ r = exp % one
  <2>1. exp \div one \in Nat /\ exp % one \in 0 .. one - 1
    BY <1>3, QuotientAndRest
  <2>2. exp = (exp \div one) * one + (exp % one)
    BY <1>3, QuotientAndRest
  <2> QED
    BY <2>1, <2>2
<1>5. PICK n \in Int : n = num - k * den
  OBVIOUS
<1>6. n * one = den * r
  <2>1. (k * one + r) * den = num * one
    BY <1>2, <1>3, <1>4
  <2>2. (k * one + r) * den = (k * den) * one + den * r
    BY <1>4
  <2>3. n * one = num * one - (k * den) * one
    BY <1>5
  <2> QED
    BY <2>1, <2>2, <2>3
<1>7. n \in Nat
  <2>1. 0 * one <= n * one
    BY <1>4, <1>6
  <2>2. 0 <= n
    BY <2>1, TimesReflectsOrder
  <2> QED
    BY <2>2
<1>8. k \in Nat /\ r \in 0 .. BONE - 1 /\ n \in Nat
  BY <1>1, <1>4, <1>7
<1>9. /\ exp = k * BONE + r /\ k = exp \div BONE /\ r = exp % BONE
      /\ n * BONE = den * r /\ num = k * den + n
  <2>1. num = k * den + n
    BY <1>5
  <2> QED
    BY <1>1, <1>4, <1>6, <2>1
<1> QED
  BY <1>8, <1>9

\* The exact bounds of a power whose series, if it needs one, ends on its
\* first term.
LEMMA PowerAbove ==
  ASSUME NEW a \in Nat, NEW num \in Nat, NEW den \in Nat \ {0}, (num * BONE) % den = 0,
         NEW exp, exp = (num * BONE) \div den,
         PowSeries(a, exp % BONE, CPOW_PRECISION).iters = 1,
         NEW roundUp \in BOOLEAN, roundUp,
         NEW v, v = CPowValue(a, exp, roundUp)
  PROVE  /\ v \in Nat
         /\ Pow(a, num) * Pow(BONE, den) <= Pow(v, den) * Pow(BONE, num)
<1>1. BONE \in Nat \ {0} /\ BONE \in Int /\ BONE \in Nat
  BY NumAssumption
<1>2. PICK k \in Nat, r \in 0 .. BONE - 1, n \in Nat :
        /\ exp = k * BONE + r /\ k = exp \div BONE /\ r = exp % BONE
        /\ n * BONE = den * r /\ num = k * den + n
  BY PartsOfExponent
<1> DEFINE whole == CPowi(a, k, roundUp)
           part  == CPowApprox(a, r, CPOW_PRECISION, roundUp)
<1>3. v = IF r = 0 THEN whole ELSE RoundedMul(whole, part, roundUp)
  <2>1. exp - k * BONE = r
    BY <1>1, <1>2
  <2> QED
    BY <1>2, <2>1 DEF CPowValue
<1>4. whole \in Nat /\ Pow(a, k) * BONE <= whole * Pow(BONE, k)
  <2>1. roundUp = TRUE
    OBVIOUS
  <2> QED
    BY <2>1, CPowiBoundsThePower
<1> HIDE DEF whole
<1>5. CASE r = 0
  <2>1. n = 0 /\ v = whole
    <3>1. n * BONE = 0
      <4>1. den * r = 0
        BY <1>5
      <4> QED
        BY <1>2, <4>1
    <3>2. n = 0
      BY <1>1, <3>1
    <3> QED
      BY <1>3, <1>5, <3>2
  <2>2. Pow(a, n) * Pow(BONE, den) <= Pow(BONE, den) * Pow(BONE, n)
    <3>1. Pow(a, 0) = 1 /\ Pow(BONE, 0) = 1 /\ a \in Int
      BY <1>1, PowRecursion
    <3>2. Pow(BONE, den) \in Nat
      BY <1>1, PowIsNatural
    <3> QED
      BY <2>1, <3>1, <3>2
  <2>3. whole * BONE <= v * BONE
    <3>1. PICK w \in Int : w = whole * BONE
      <4>1. whole * BONE \in Int
        BY <1>1, <1>4
      <4> QED
        BY <4>1
    <3>2. v * BONE = w
      BY <2>1, <3>1, Zenon
    <3>3. w <= w
      BY NumbersMeetThemselves
    <3> QED
      BY <3>1, <3>2, <3>3, Zenon
  <2>4. v \in Nat
    BY <1>4, <2>1
  <2> QED
    BY <1>1, <1>2, <1>4, <2>2, <2>3, <2>4, ProductAbove
<1>6. CASE r # 0
  <2>1. r \in 1 .. BONE - 1 /\ r \in Int /\ a \in Int
    BY <1>1, <1>2, <1>6
  <2>2. part \in Int
    <3>1. CPOW_PRECISION \in Int
      BY NumAssumption
    <3> QED
      BY <2>1, <3>1, CPowApproxIsInteger
  <2>3. PowSeries(a, r, CPOW_PRECISION).iters = 1
    BY <1>2
  <2>4. part \in Nat /\ Pow(a, n) * Pow(BONE, den) <= Pow(part, den) * Pow(BONE, n)
    BY <1>2, <2>1, <2>2, <2>3, OneTermAbove
  <2> HIDE DEF part
  <2>5. v = RoundedMul(whole, part, roundUp)
    BY <1>3, <1>6
  <2>6. v \in Nat
    BY <1>4, <2>4, <2>5, RoundedMulIsNatural
  <2>7. whole * part <= v * BONE
    <3>1. roundUp = TRUE /\ whole \in Int /\ part \in Int
      BY <1>4, <2>4
    <3>2. whole * part <= RoundedMul(whole, part, roundUp) * BONE
      BY <3>1, RoundedMulBounds
    <3> QED
      BY <2>5, <3>2
  <2> QED
    BY <1>2, <1>4, <2>4, <2>6, <2>7, ProductAbove
<1> QED
  BY <1>5, <1>6

LEMMA PowerBelow ==
  ASSUME NEW a \in Nat \ {0}, NEW num \in Nat, NEW den \in Nat \ {0}, (num * BONE) % den = 0,
         NEW exp, exp = (num * BONE) \div den,
         PowSeries(a, exp % BONE, CPOW_PRECISION).iters = 1,
         \/ exp % BONE = 0
         \/ (BONE - (exp % BONE)) * ((CPOW_PRECISION + 1) * (CPOW_PRECISION + 1)) <= (exp % BONE) * BONE,
         NEW roundUp \in BOOLEAN, ~roundUp,
         NEW v, v = CPowValue(a, exp, roundUp)
  PROVE  /\ v \in Nat
         /\ Pow(v, den) * Pow(BONE, num) <= Pow(a, num) * Pow(BONE, den)
<1>1. BONE \in Nat \ {0} /\ BONE \in Int /\ BONE \in Nat /\ a \in Nat
  BY NumAssumption
<1>2. PICK k \in Nat, r \in 0 .. BONE - 1, n \in Nat :
        /\ exp = k * BONE + r /\ k = exp \div BONE /\ r = exp % BONE
        /\ n * BONE = den * r /\ num = k * den + n
  BY PartsOfExponent
<1> DEFINE whole == CPowi(a, k, roundUp)
           part  == CPowApprox(a, r, CPOW_PRECISION, roundUp)
<1>3. v = IF r = 0 THEN whole ELSE RoundedMul(whole, part, roundUp)
  <2>1. exp - k * BONE = r
    BY <1>1, <1>2
  <2> QED
    BY <1>2, <2>1 DEF CPowValue
<1>4. whole \in Nat /\ whole * Pow(BONE, k) <= Pow(a, k) * BONE
  <2>1. roundUp = FALSE
    OBVIOUS
  <2> QED
    BY <1>1, <2>1, CPowiBoundsThePower
<1> HIDE DEF whole
<1>5. CASE r = 0
  <2>1. n = 0 /\ v = whole
    <3>1. n * BONE = 0
      <4>1. den * r = 0
        BY <1>5
      <4> QED
        BY <1>2, <4>1
    <3>2. n = 0
      BY <1>1, <3>1
    <3> QED
      BY <1>3, <1>5, <3>2
  <2>2. Pow(BONE, den) * Pow(BONE, n) <= Pow(a, n) * Pow(BONE, den)
    <3>1. Pow(a, 0) = 1 /\ Pow(BONE, 0) = 1 /\ a \in Int
      BY <1>1, PowRecursion
    <3>2. Pow(BONE, den) \in Nat
      BY <1>1, PowIsNatural
    <3> QED
      BY <2>1, <3>1, <3>2
  <2>3. v * BONE <= whole * BONE
    <3>1. PICK w \in Int : w = whole * BONE
      <4>1. whole * BONE \in Int
        BY <1>1, <1>4
      <4> QED
        BY <4>1
    <3>2. v * BONE = w
      BY <2>1, <3>1, Zenon
    <3>3. w <= w
      BY NumbersMeetThemselves
    <3> QED
      BY <3>1, <3>2, <3>3, Zenon
  <2>4. v \in Nat
    BY <1>4, <2>1
  <2> QED
    BY <1>1, <1>2, <1>4, <2>2, <2>3, <2>4, ProductBelow
<1>6. CASE r # 0
  <2>1. r \in 1 .. BONE - 1 /\ r \in Int /\ a \in Int
    BY <1>1, <1>2, <1>6
  <2>2. part \in Int
    <3>1. CPOW_PRECISION \in Int
      BY NumAssumption
    <3> QED
      BY <2>1, <3>1, CPowApproxIsInteger
  <2>3. PowSeries(a, r, CPOW_PRECISION).iters = 1
        /\ (BONE - r) * ((CPOW_PRECISION + 1) * (CPOW_PRECISION + 1)) <= r * BONE
    BY <1>2, <1>6
  <2>4. part \in Nat /\ Pow(part, den) * Pow(BONE, n) <= Pow(a, n) * Pow(BONE, den)
    BY <1>2, <1>6, <2>1, <2>2, <2>3, OneTermBelow
  <2> HIDE DEF part
  <2>5. v = RoundedMul(whole, part, roundUp)
    BY <1>3, <1>6
  <2>6. v \in Nat
    BY <1>4, <2>4, <2>5, RoundedMulIsNatural
  <2>7. v * BONE <= whole * part
    <3>1. roundUp = FALSE /\ whole \in Int /\ part \in Int
      BY <1>4, <2>4
    <3>2. RoundedMul(whole, part, roundUp) * BONE <= whole * part
      BY <3>1, RoundedMulBounds
    <3> QED
      BY <2>5, <3>2
  <2> QED
    BY <1>1, <1>2, <1>4, <2>4, <2>6, <2>7, ProductBelow
<1> QED
  BY <1>2, <1>5, <1>6
-----------------------------------------------------------------------------
(***************************************************************************)
(* Operations whose exponent is a whole number: with the roundings of      *)
(* c_math.rs around a bound of the power, the balance and the other side   *)
(* of the exchange stay on the pool's side of the exact formula.           *)
(***************************************************************************)
LEMMA FixedPointBounds ==
  ASSUME NEW x \in Int, NEW y \in Int, NEW n \in Nat \ {0}, NEW d \in Nat \ {0}
  PROVE  /\ FixedMulFloor(x, y, d) \in Int /\ FixedMulFloor(x, y, d) * d <= x * y
         /\ FixedMulCeil(x, y, d) \in Int /\ x * y <= FixedMulCeil(x, y, d) * d
         /\ FixedDivFloor(x, n, d) \in Int /\ FixedDivFloor(x, n, d) * n <= x * d
         /\ FixedDivCeil(x, n, d) \in Int /\ x * d <= FixedDivCeil(x, n, d) * n
<1> DEFINE p == x * y
           q == x * d
<1>1. p \in Int /\ q \in Int
  OBVIOUS
<1>2. /\ FixedMulFloor(x, y, d) = p \div d /\ FixedMulCeil(x, y, d) = -((-p) \div d)
      /\ FixedDivFloor(x, n, d) = q \div n /\ FixedDivCeil(x, n, d) = -((-q) \div n)
  BY DEF FixedMulFloor, FixedMulCeil, FixedDivFloor, FixedDivCeil
<1> HIDE DEF p, q
<1>3. p \div d \in Int /\ (p \div d) * d <= p /\ q \div n \in Int /\ (q \div n) * n <= q
  BY <1>1, FloorBounds
<1>4. /\ -((-p) \div d) \in Int /\ (-((-p) \div d)) * d >= p
      /\ -((-q) \div n) \in Int /\ (-((-q) \div n)) * n >= q
  BY <1>1, CeilBounds
<1> QED
  BY <1>1, <1>2, <1>3, <1>4 DEF p, q

\* The part of an amount that a fee leaves is no more than the amount, and what
\* an amount is before the fee no less.
LEMMA FeesFavourThePool ==
  ASSUME NEW n \in Nat, NEW kept \in Nat, kept <= BONE
  PROVE  /\ FixedMulFloor(n, kept, BONE) \in Int /\ FixedMulFloor(n, kept, BONE) <= n
         /\ kept # 0 => FixedDivCeil(n, kept, BONE) \in Int /\ n <= FixedDivCeil(n, kept, BONE)
<1>1. n \in Int /\ kept \in Int /\ BONE \in Nat \ {0}
  BY NumAssumption
<1>2. kept * n <= BONE * n
  BY <1>1, TimesKeepsOrder
<1>3. PICK f \in Int : f = FixedMulFloor(n, kept, BONE) /\ f * BONE <= n * kept
  BY <1>1, FixedPointBounds
<1>4. f <= n
  <2>1. f * BONE <= n * BONE
    BY <1>1, <1>2, <1>3
  <2> QED
    BY <1>1, <2>1, TimesReflectsOrder
<1>5. ASSUME kept # 0
      PROVE  FixedDivCeil(n, kept, BONE) \in Int /\ n <= FixedDivCeil(n, kept, BONE)
  <2>1. PICK c \in Int : c = FixedDivCeil(n, kept, BONE) /\ n * BONE <= c * kept
    BY <1>1, <1>5, FixedPointBounds
  <2>2. n * kept <= c * kept
    BY <1>1, <1>2, <2>1
  <2>3. n <= c
    BY <1>1, <1>5, <2>2, TimesReflectsOrder
  <2> QED
    BY <2>1, <2>3
<1> QED
  BY <1>3, <1>4, <1>5

\* Back at the scale of the token, rounded for the pool.
LEMMA DownscalesFavourThePool ==
  ASSUME NEW n \in Int, NEW c \in Nat \ {0}
  PROVE  /\ \A v \in DownscaleFloor(n, c) : v \in Int /\ v * c <= n
         /\ \A v \in DownscaleCeil(n, c) : v \in Int /\ n <= v * c
<1>1. 1 \in Nat \ {0} /\ n * 1 = n
  OBVIOUS
<1>2. /\ FixedDivFloor(n, c, 1) \in Int /\ FixedDivFloor(n, c, 1) * c <= n
      /\ FixedDivCeil(n, c, 1) \in Int /\ n <= FixedDivCeil(n, c, 1) * c
  BY <1>1, FixedPointBounds
<1> QED
  BY <1>2 DEF DownscaleFloor, DownscaleCeil, Checked

(***************************************************************************)
(* What is left of a balance b after a payout, or is there after a         *)
(* deposit, is at least the part p of it that the power says: the four     *)
(* ways in which c_math.rs goes from the power to the amount.              *)
(***************************************************************************)
LEMMA LeftAfter ==
  ASSUME NEW b \in Nat, NEW c \in Nat \ {0}, NEW p \in Int, NEW n \in Int, NEW v \in Int,
         (b * c) * p <= n * BONE, v * c <= b * c - n
  PROVE  b * p <= (b - v) * BONE
<1>1. BONE \in Nat \ {0}
  BY NumAssumption
<1>2. n <= (b - v) * c
  OBVIOUS
<1>3. n * BONE <= ((b - v) * c) * BONE
  BY <1>1, <1>2, TimesKeepsOrder
<1>4. (b * p) * c <= ((b - v) * BONE) * c
  BY <1>1, <1>3
<1> QED
  BY <1>1, <1>4, TimesReflectsOrder

LEMMA PayoutByPower ==
  ASSUME NEW b \in Nat, NEW c \in Nat \ {0}, NEW p \in Int,
         NEW v \in DownscaleFloor(FixedMulFloor(b * c, BONE - p, BONE), c)
  PROVE  v \in Int /\ b * p <= (b - v) * BONE
<1> DEFINE s == b * c
           r == BONE - p
           m == FixedMulFloor(s, r, BONE)
<1>1. BONE \in Nat \ {0} /\ s \in Nat /\ s \in Int /\ r \in Int
  BY NumAssumption
<1>2. r = BONE - p /\ s = b * c /\ v \in DownscaleFloor(m, c)
  OBVIOUS
<1> HIDE DEF r, s
<1>3. m \in Int /\ m * BONE <= s * r
  BY <1>1, FixedPointBounds
<1> HIDE DEF m
<1>4. v \in Int /\ v * c <= m
  BY <1>2, <1>3, DownscalesFavourThePool
<1>5. s * p <= (s - m) * BONE
  BY <1>1, <1>2, <1>3
<1>6. s - m \in Int /\ v * c <= s - (s - m)
  BY <1>1, <1>3, <1>4
<1> QED
  BY <1>2, <1>4, <1>5, <1>6, LeftAfter

LEMMA ChargeByPower ==
  ASSUME NEW b \in Nat, NEW c \in Nat \ {0}, NEW p \in Int, p >= BONE,
         NEW kept \in Nat \ {0}, kept <= BONE,
         NEW v \in DownscaleCeil(FixedDivCeil(FixedMulCeil(b * c, p - BONE, BONE), kept, BONE), c)
  PROVE  v \in Int /\ b * p <= (b + v) * BONE
<1> DEFINE s == b * c
           r == p - BONE
           m == FixedMulCeil(s, r, BONE)
           q == FixedDivCeil(m, kept, BONE)
<1>1. BONE \in Nat \ {0} /\ s \in Nat /\ s \in Int /\ r \in Nat /\ r \in Int
  BY NumAssumption
<1>2. r = p - BONE /\ s = b * c /\ v \in DownscaleCeil(q, c)
  OBVIOUS
<1> HIDE DEF r, s
<1>3. m \in Int /\ s * r <= m * BONE
  BY <1>1, FixedPointBounds
<1>4. m \in Nat
  <2>1. 0 * BONE <= m * BONE
    BY <1>1, <1>3
  <2>2. 0 <= m
    BY <1>1, <1>3, <2>1, TimesReflectsOrder
  <2> QED
    BY <1>3, <2>2
<1> HIDE DEF m
<1>5. q \in Int /\ m <= q
  BY <1>4, FeesFavourThePool
<1> HIDE DEF q
<1>6. v \in Int /\ q <= v * c
  BY <1>2, <1>5, DownscalesFavourThePool
<1> DEFINE w == -v
<1>7. s * p <= (s + m) * BONE
  BY <1>1, <1>2, <1>3
<1>8. s + m \in Int /\ w \in Int /\ w * c <= s - (s + m) /\ w = -v
  BY <1>1, <1>3, <1>5, <1>6
<1> HIDE DEF w
<1>9. b * p <= (b - w) * BONE
  BY <1>2, <1>7, <1>8, LeftAfter
<1> QED
  BY <1>1, <1>6, <1>8, <1>9

LEMMA DepositByPower ==
  ASSUME NEW b \in Nat, NEW c \in Nat \ {0}, NEW p \in Int, NEW kept \in Nat \ {0}, kept <= BONE,
         FixedMulCeil(b * c, p, BONE) >= b * c,
         NEW v \in DownscaleCeil(FixedDivCeil(FixedMulCeil(b * c, p, BONE) - b * c, kept, BONE), c)
  PROVE  v \in Int /\ b * p <= (b + v) * BONE
<1> DEFINE s == b * c
           n == FixedMulCeil(s, p, BONE)
           m == n - s
           q == FixedDivCeil(m, kept, BONE)
<1>1. BONE \in Nat \ {0} /\ s \in Nat /\ s \in Int
  BY NumAssumption
<1>2. s = b * c /\ v \in DownscaleCeil(q, c) /\ n >= s /\ m = n - s
  OBVIOUS
<1> HIDE DEF s
<1>3. n \in Int /\ s * p <= n * BONE
  BY <1>1, FixedPointBounds
<1> HIDE DEF n
<1>4. m \in Nat
  BY <1>1, <1>2, <1>3
<1> HIDE DEF m
<1>5. q \in Int /\ m <= q
  BY <1>4, FeesFavourThePool
<1> HIDE DEF q
<1>6. v \in Int /\ q <= v * c
  BY <1>2, <1>5, DownscalesFavourThePool
<1> DEFINE w == -v
<1>8. w \in Int /\ w * c <= s - n /\ w = -v
  BY <1>1, <1>2, <1>3, <1>4, <1>5, <1>6
<1> HIDE DEF w
<1>9. b * p <= (b - w) * BONE
  BY <1>2, <1>3, <1>8, LeftAfter
<1> QED
  BY <1>1, <1>6, <1>8, <1>9

LEMMA WithdrawalByPower ==
  ASSUME NEW b \in Nat, NEW c \in Nat \ {0}, NEW p \in Int, NEW kept \in Nat, kept <= BONE,
         FixedMulCeil(b * c, p, BONE) <= b * c,
         NEW v \in DownscaleFloor(FixedMulFloor(b * c - FixedMulCeil(b * c, p, BONE), kept, BONE), c)
  PROVE  v \in Int /\ b * p <= (b - v) * BONE
<1> DEFINE s == b * c
           n == FixedMulCeil(s, p, BONE)
           m == s - n
           q == FixedMulFloor(m, kept, BONE)
<1>1. BONE \in Nat \ {0} /\ s \in Nat /\ s \in Int
  BY NumAssumption
<1>2. s = b * c /\ v \in DownscaleFloor(q, c) /\ n <= s /\ m = s - n
  OBVIOUS
<1> HIDE DEF s
<1>3. n \in Int /\ s * p <= n * BONE
  BY <1>1, FixedPointBounds
<1> HIDE DEF n
<1>4. m \in Nat
  BY <1>1, <1>2, <1>3
<1> HIDE DEF m
<1>5. q \in Int /\ q <= m
  BY <1>4, FeesFavourThePool
<1> HIDE DEF q
<1>6. v \in Int /\ v * c <= q
  BY <1>2, <1>5, DownscalesFavourThePool
<1>7. v * c <= s - n
  BY <1>1, <1>2, <1>3, <1>4, <1>5, <1>6
<1> QED
  BY <1>2, <1>3, <1>6, <1>7, LeftAfter

\* From the bound on the power and the bound on its base.
LEMMA WholePower ==
  ASSUME NEW b \in Nat, NEW b2 \in Int, NEW x \in Nat, NEW y \in Nat, NEW k \in Nat,
         NEW p \in Nat, NEW base \in Nat,
         b * p <= b2 * BONE, Pow(base, k) * BONE <= p * Pow(BONE, k), y * BONE <= base * x
  PROVE  b * Pow(y, k) <= b2 * Pow(x, k)
<1>1. BONE \in Nat \ {0} /\ BONE \in Int /\ y * BONE \in Nat /\ base * x \in Nat
  BY NumAssumption
<1>2. PICK X \in Nat, Y \in Nat, W \in Nat, P \in Nat \ {0} :
        X = Pow(x, k) /\ Y = Pow(y, k) /\ W = Pow(base, k) /\ P = Pow(BONE, k)
  BY <1>1, PowIsNatural, PowIsPositive
<1>3. Y * P <= W * X
  <2>1. Pow(y * BONE, k) <= Pow(base * x, k)
    BY <1>1, PowKeepsOrder
  <2>2. Pow(y * BONE, k) = Pow(y, k) * Pow(BONE, k) /\ Pow(base * x, k) = Pow(base, k) * Pow(x, k)
    <3>1. x \in Int /\ y \in Int /\ base \in Int
      OBVIOUS
    <3>2. Pow(y * BONE, k) = Pow(y, k) * Pow(BONE, k)
      BY <1>1, <3>1, PowOfProduct
    <3>3. Pow(base * x, k) = Pow(base, k) * Pow(x, k)
      BY <3>1, PowOfProduct
    <3> QED
      BY <3>2, <3>3
  <2> QED
    BY <1>2, <2>1, <2>2
<1>4. (Y * P) * (b * BONE) <= (W * X) * (b * BONE)
  <2>1. b * BONE \in Nat /\ Y * P \in Int /\ W * X \in Int
    BY <1>1
  <2> QED
    BY <1>3, <2>1, TimesKeepsOrder
<1>5. (W * BONE) * (X * b) <= (p * P) * (X * b)
  <2>1. X * b \in Nat /\ W * BONE \in Int /\ p * P \in Int /\ W * BONE <= p * P
    BY <1>1, <1>2
  <2> QED
    BY <2>1, TimesKeepsOrder
<1>6. (b * p) * (P * X) <= (b2 * BONE) * (P * X)
  <2>1. P * X \in Nat /\ b * p \in Int /\ b2 * BONE \in Int
    BY <1>1
  <2> QED
    BY <2>1, TimesKeepsOrder
<1>7. (W * X) * (b * BONE) = (W * BONE) * (X * b) /\ (p * P) * (X * b) = (b * p) * (P * X)
  BY <1>1
<1>8. (Y * P) * (b * BONE) = (b * Y) * (P * BONE)
      /\ (b2 * BONE) * (P * X) = (b2 * X) * (P * BONE)
  BY <1>1
<1>9. (b * Y) * (P * BONE) <= (b2 * X) * (P * BONE)
  <2> DEFINE s1 == (Y * P) * (b * BONE)
             s2 == (W * BONE) * (X * b)
             s3 == (b * p) * (P * X)
             s4 == (b2 * BONE) * (P * X)
  <2>1. s1 <= s2 /\ s2 <= s3 /\ s3 <= s4 /\ s1 \in Int /\ s2 \in Int /\ s3 \in Int /\ s4 \in Int
    BY <1>1, <1>4, <1>5, <1>6, <1>7
  <2> HIDE DEF s1, s2, s3, s4
  <2>2. s1 <= s4
    BY <2>1
  <2> QED
    BY <1>8, <2>2 DEF s1, s4
<1>10. P * BONE \in Nat \ {0} /\ b * Y \in Int /\ b2 * X \in Int
  BY <1>1
<1> QED
  BY <1>2, <1>9, <1>10, TimesReflectsOrder

\* A power with a whole exponent does not reach the series.
LEMMA CPowOfWhole ==
  ASSUME NEW base \in Int, NEW k \in Nat, NEW p \in CPow(base, k * BONE, TRUE)
  PROVE  base \in Nat /\ p \in Nat /\ Pow(base, k) * BONE <= p * Pow(BONE, k)
<1>1. BONE \in Nat \ {0}
  BY NumAssumption
<1>2. base \in MIN_CPOW_BASE .. MAX_CPOW_BASE /\ p = CPowValue(base, k * BONE, TRUE)
  BY DEF CPow
<1>3. base \in Nat
  BY <1>2 DEF MIN_CPOW_BASE
<1>4. (k * BONE) \div BONE = k /\ k * BONE - k * BONE = 0
  BY <1>1, FloorOfMultiple
<1>5. p = CPowi(base, k, TRUE)
  BY <1>2, <1>4 DEF CPowValue
<1> QED
  BY <1>3, <1>5, CPowiBoundsThePower

LEMMA WholeQuotients ==
  ASSUME NEW k \in Nat, NEW w \in Nat \ {0}, NEW d \in Nat \ {0}
  PROVE  FixedDivFloor(k * w, w, d) = k * d /\ FixedDivCeil(k * w, w, d) = k * d
<1>1. PICK n \in Int : n = k * d
  OBVIOUS
<1>2. (k * w) * d = n * w /\ -((k * w) * d) = (-n) * w /\ -n \in Int
  BY <1>1
<1>3. (n * w) \div w = n /\ ((-n) * w) \div w = -n
  BY <1>1, <1>2, FloorOfMultiple
<1>4. -(-n) = n
  OBVIOUS
<1> QED
  BY <1>1, <1>2, <1>3, <1>4 DEF FixedDivFloor, FixedDivCeil

\* The share of the amounts that a swap or a deposit keeps for its purpose.
LEMMA FeeLeavesSome ==
  ASSUME NEW fee \in 0 .. MAX_FEE
  PROVE  (STROOP - fee) * STROOP_SCALAR \in Nat \ {0} /\ (STROOP - fee) * STROOP_SCALAR <= BONE
<1>1. STROOP \in Nat \ {0} /\ STROOP_SCALAR \in Nat \ {0} /\ BONE = STROOP * STROOP_SCALAR
  BY MathAssumption
<1>2. fee \in Nat /\ fee < STROOP
  BY <1>1 DEF MAX_FEE
<1>3. PICK left \in Nat \ {0} : left = STROOP - fee /\ left <= STROOP
  BY <1>1, <1>2
<1>4. left * STROOP_SCALAR <= STROOP * STROOP_SCALAR
  BY <1>1, <1>3, TimesKeepsOrder
<1>5. left * STROOP_SCALAR \in Nat \ {0}
  BY <1>1, <1>3
<1> QED
  BY <1>1, <1>3, <1>4, <1>5

LEMMA AfterFeeLeavesSome ==
  ASSUME NEW fee \in 0 .. MAX_FEE, NEW weight \in MIN_WEIGHT .. MAX_WEIGHT
  PROVE  /\ AfterFee(weight, fee) \in Nat \ {0} /\ AfterFee(weight, fee) <= BONE
         /\ BONE <= 2 * AfterFee(weight, fee)
<1>1. /\ STROOP \in Nat \ {0} /\ STROOP_SCALAR \in Nat \ {0}
      /\ BONE = STROOP * STROOP_SCALAR /\ BONE \in Nat \ {0}
  BY MathAssumption, NumAssumption
<1>2. weight \in Nat /\ weight <= STROOP /\ fee \in Nat /\ fee + 1 <= STROOP
      /\ 2 * fee <= STROOP
  BY <1>1 DEF MAX_FEE, MIN_WEIGHT, MAX_WEIGHT
<1>3. PICK rest \in Nat : rest = BONE - weight * STROOP_SCALAR /\ rest <= BONE
  <2>1. weight * STROOP_SCALAR <= STROOP * STROOP_SCALAR /\ weight * STROOP_SCALAR \in Nat
    BY <1>1, <1>2, TimesKeepsOrder
  <2> QED
    BY <1>1, <2>1
<1>4. PICK f \in Nat : f = fee * STROOP_SCALAR /\ f < BONE /\ 2 * f <= BONE
  <2>1. (fee + 1) * STROOP_SCALAR <= STROOP * STROOP_SCALAR
    BY <1>1, <1>2, TimesKeepsOrder
  <2>2. (fee + 1) * STROOP_SCALAR = fee * STROOP_SCALAR + STROOP_SCALAR /\ fee * STROOP_SCALAR \in Nat
    BY <1>1, <1>2
  <2>3. (2 * fee) * STROOP_SCALAR <= STROOP * STROOP_SCALAR
    BY <1>1, <1>2, TimesKeepsOrder
  <2>4. (2 * fee) * STROOP_SCALAR = 2 * (fee * STROOP_SCALAR)
    BY <1>1, <1>2
  <2> QED
    BY <1>1, <2>1, <2>2, <2>3, <2>4
<1>5. PICK c \in Int : c = FixedMulFloor(rest, f, BONE) /\ c = (rest * f) \div BONE
  <2> DEFINE n == rest * f
  <2>1. n \in Int
    OBVIOUS
  <2>2. FixedMulFloor(rest, f, BONE) = n \div BONE
    BY DEF FixedMulFloor
  <2> HIDE DEF n
  <2>3. n \div BONE \in Int
    BY <1>1, <2>1
  <2> QED
    BY <2>2, <2>3 DEF n
<1>6. c <= f
  <2>1. FixedMulFloor(f, rest, BONE) <= f
    BY <1>3, FeesFavourThePool
  <2>2. f * rest = rest * f
    OBVIOUS
  <2> QED
    BY <1>5, <2>1, <2>2 DEF FixedMulFloor
<1>7. c >= 0
  <2>1. rest * f \in Int /\ 0 * BONE <= rest * f
    BY <1>1
  <2> QED
    BY <1>1, <1>5, <2>1, FloorAtLeast
<1>8. AfterFee(weight, fee) = BONE - c
  BY <1>3, <1>4, <1>5 DEF AfterFee
<1> QED
  BY <1>1, <1>4, <1>5, <1>6, <1>7, <1>8

\* A base within the precision of one needs no second term, and a whole
\* exponent has no series to speak of.
LEMMA OneTermSuffices ==
  ASSUME NEW base \in Int, NEW r \in 0 .. BONE - 1,
         BONE - CPOW_PRECISION <= base, base <= BONE + CPOW_PRECISION
  PROVE  PowSeries(base, r, CPOW_PRECISION).iters = 1
<1> DEFINE x == base - BONE
           series == PowSeries(base, r, CPOW_PRECISION)
           I == {s \in SeriesState :
                   \/ s.iters = 0 /\ s.term = BONE /\ s.sum = BONE
                   \/ s.iters = 1 /\ Abs(s.term) <= CPOW_PRECISION}
<1>1. /\ BONE \in Nat \ {0} /\ x \in Int /\ CPOW_PRECISION \in Nat /\ CPOW_PRECISION \in Int
      /\ r \in Nat /\ r \in Int /\ r <= BONE /\ -CPOW_PRECISION <= x /\ x <= CPOW_PRECISION
  BY NumAssumption
<1>2. [iters |-> 0, term |-> BONE, sum |-> BONE] \in I
  BY <1>1 DEF SeriesState, SeriesCap
<1>3. ASSUME NEW s \in I, ~SeriesEnds(s, CPOW_PRECISION)
      PROVE  SeriesStep(s, base - BONE, r) \in I
  <2> DEFINE t == SeriesStep(s, x, r)
             new == NextTerm(s.term, s.iters + 1, x, r)
  <2>1. s.iters = 0 /\ s.term = BONE
    BY <1>3 DEF SeriesEnds
  <2>2. t \in SeriesState
    BY <1>1, <2>1, SeriesStepIsTyped DEF SeriesCap
  <2>3. t.iters = s.iters + 1 /\ t.term = new
    BY DEF SeriesStep
  <2>4. new = (r * x) \div BONE /\ new \in Int
    BY <1>1, <2>1, FirstTerm
  <2> HIDE DEF t, new
  <2>5. -CPOW_PRECISION <= new /\ new <= CPOW_PRECISION
    <3>1. PICK y \in Int : y = r * x
      BY <1>1
    <3>2. (-CPOW_PRECISION) * BONE <= y /\ y <= CPOW_PRECISION * BONE
      <4> HIDE DEF x
      <4>1. PICK limit \in Nat : limit = CPOW_PRECISION
        BY <1>1
      <4>2. x * r <= limit * r /\ (-limit) * r <= x * r
        BY <1>1, <4>1, TimesKeepsOrder
      <4>3. r * limit <= BONE * limit
        BY <1>1, <4>1, TimesKeepsOrder
      <4> QED
        BY <1>1, <3>1, <4>1, <4>2, <4>3
    <3>3. y \div BONE <= CPOW_PRECISION
      BY <1>1, <3>2, FloorAtMost
    <3>4. -CPOW_PRECISION <= y \div BONE
      <4>1. -CPOW_PRECISION \in Int
        BY <1>1
      <4> QED
        BY <1>1, <3>2, <4>1, FloorAtLeast
    <3> QED
      BY <2>4, <3>1, <3>3, <3>4
  <2>6. Abs(new) <= CPOW_PRECISION
    BY <1>1, <2>4, <2>5 DEF Abs
  <2> QED
    BY <2>1, <2>2, <2>3, <2>6 DEF t
<1>4. series \in I /\ SeriesEnds(series, CPOW_PRECISION)
  <2> I \in SUBSET SeriesState
    OBVIOUS
  <2> HIDE DEF I
  <2> QED
    BY <1>1, <1>2, <1>3, PowSeriesStays
<1> QED
  BY <1>4 DEF SeriesEnds, SeriesCap

LEMMA PowReflectsOrder ==
  ASSUME NEW x \in Nat, NEW y \in Nat, NEW n \in Nat \ {0}, Pow(x, n) <= Pow(y, n)
  PROVE  x <= y
<1> SUFFICES ASSUME y < x PROVE FALSE
  OBVIOUS
<1>1. PICK k \in Nat : n = k + 1
  <2>1. n - 1 \in Nat /\ n = (n - 1) + 1
    OBVIOUS
  <2> QED
    BY <2>1
<1>2. PICK px \in Nat \ {0}, py \in Nat : px = Pow(x, k) /\ py = Pow(y, k) /\ py <= px
  <2>1. x \in Nat \ {0} /\ y <= x
    OBVIOUS
  <2>2. Pow(x, k) \in Nat \ {0}
    BY <2>1, PowIsPositive
  <2>3. Pow(y, k) \in Nat /\ Pow(y, k) <= Pow(x, k)
    BY <2>1, PowIsNatural, PowKeepsOrder
  <2> QED
    BY <2>2, <2>3
<1>3. x * px <= y * py
  <2>1. x \in Int /\ y \in Int
    OBVIOUS
  <2>2. Pow(x, k + 1) = x * Pow(x, k) /\ Pow(y, k + 1) = y * Pow(y, k)
    BY <2>1, PowRecursion
  <2> QED
    BY <1>1, <1>2, <2>2
<1>4. py * y <= px * y
  BY <1>2, TimesKeepsOrder
<1>5. (y + 1) * px <= x * px
  <2>1. y + 1 \in Int /\ x \in Int /\ px \in Nat /\ y + 1 <= x
    OBVIOUS
  <2> QED
    BY <2>1, TimesKeepsOrder
<1>6. (y + 1) * px = px * y + px /\ y * py = py * y
  OBVIOUS
<1> QED
  BY <1>3, <1>4, <1>5, <1>6

(***************************************************************************)
(* From the bounds on the power and on its base to the quantities that the *)
(* operation moves, at the scale BONE of the exponent.                     *)
(***************************************************************************)
LEMMA PartPowerAbove ==
  ASSUME NEW b \in Nat, NEW b2 \in Nat, NEW x \in Nat, NEW y \in Nat, NEW exp \in Nat,
         NEW p \in Nat, NEW base \in Nat,
         b * p <= b2 * BONE, y * BONE <= base * x,
         Pow(base, exp) * Pow(BONE, BONE) <= Pow(p, BONE) * Pow(BONE, exp)
  PROVE  Pow(b, BONE) * Pow(y, exp) <= Pow(b2, BONE) * Pow(x, exp)
<1>1. PICK one \in Nat \ {0} : one = BONE
  BY NumAssumption
<1>2. PICK pb \in Nat, pb2 \in Nat, px \in Nat, py \in Nat, pp \in Nat, pa \in Nat,
           o1 \in Nat \ {0}, o2 \in Nat \ {0} :
        /\ pb = Pow(b, one) /\ pb2 = Pow(b2, one) /\ px = Pow(x, exp) /\ py = Pow(y, exp)
        /\ pp = Pow(p, one) /\ pa = Pow(base, exp) /\ o1 = Pow(one, one) /\ o2 = Pow(one, exp)
  <2>1. Pow(one, one) \in Nat \ {0} /\ Pow(one, exp) \in Nat \ {0} /\ one \in Nat
    BY PowIsPositive
  <2> QED
    BY <2>1, PowIsNatural
<1>3. one \in Nat /\ one \in Int /\ b \in Int /\ b2 \in Int /\ x \in Int /\ y \in Int /\ p \in Int /\ base \in Int
  OBVIOUS
<1>4. pb * pp <= pb2 * o1
  <2>1. Pow(b * p, one) = Pow(b, one) * Pow(p, one)
    BY <1>3, PowOfProduct
  <2>2. Pow(b2 * one, one) = Pow(b2, one) * Pow(one, one)
    BY <1>3, PowOfProduct
  <2>3. b * p \in Nat /\ b2 * one \in Nat /\ b * p <= b2 * one
    BY <1>1
  <2>4. Pow(b * p, one) <= Pow(b2 * one, one)
    BY <1>3, <2>3, PowKeepsOrder
  <2> QED
    BY <1>2, <2>1, <2>2, <2>4
<1>5. py * o2 <= pa * px
  <2>1. Pow(y * one, exp) = Pow(y, exp) * Pow(one, exp)
    BY <1>3, PowOfProduct
  <2>2. Pow(base * x, exp) = Pow(base, exp) * Pow(x, exp)
    BY <1>3, PowOfProduct
  <2>3. y * one \in Nat /\ base * x \in Nat /\ y * one <= base * x
    BY <1>1
  <2>4. Pow(y * one, exp) <= Pow(base * x, exp)
    BY <2>3, PowKeepsOrder
  <2> QED
    BY <1>2, <2>1, <2>2, <2>4
<1>6. pa * o1 <= pp * o2
  BY <1>1, <1>2
<1>7. (py * o2) * (pb * o1) <= (pa * px) * (pb * o1)
  <2>1. py * o2 \in Int /\ pa * px \in Int /\ pb * o1 \in Nat
    OBVIOUS
  <2> QED
    BY <1>5, <2>1, TimesKeepsOrder
<1>8. (pa * o1) * (px * pb) <= (pp * o2) * (px * pb)
  <2>1. pa * o1 \in Int /\ pp * o2 \in Int /\ px * pb \in Nat
    OBVIOUS
  <2> QED
    BY <1>6, <2>1, TimesKeepsOrder
<1>9. (pb * pp) * (o2 * px) <= (pb2 * o1) * (o2 * px)
  <2>1. pb * pp \in Int /\ pb2 * o1 \in Int /\ o2 * px \in Nat
    OBVIOUS
  <2> QED
    BY <1>4, <2>1, TimesKeepsOrder
<1>10. (pb * py) * (o1 * o2) <= (pb2 * px) * (o1 * o2)
  <2> DEFINE s1 == (py * o2) * (pb * o1)
             s2 == (pa * o1) * (px * pb)
             s3 == (pb * pp) * (o2 * px)
             s4 == (pb2 * o1) * (o2 * px)
  <2>1. (pa * px) * (pb * o1) = s2 /\ (pp * o2) * (px * pb) = s3
    OBVIOUS
  <2>2. s1 = (pb * py) * (o1 * o2) /\ s4 = (pb2 * px) * (o1 * o2)
    OBVIOUS
  <2>3. s1 <= s2 /\ s2 <= s3 /\ s3 <= s4 /\ s1 \in Int /\ s2 \in Int /\ s3 \in Int /\ s4 \in Int
    BY <1>7, <1>8, <1>9, <2>1
  <2> HIDE DEF s1, s2, s3, s4
  <2>4. s1 <= s4
    BY <2>3
  <2> QED
    BY <2>2, <2>4
<1>11. pb * py <= pb2 * px
  <2>1. pb * py \in Int /\ pb2 * px \in Int /\ o1 * o2 \in Nat \ {0}
    OBVIOUS
  <2> QED
    BY <1>10, <2>1, TimesReflectsOrder
<1> QED
  BY <1>1, <1>2, <1>11

LEMMA PartPowerBelow ==
  ASSUME NEW b \in Nat, NEW b2 \in Nat, NEW x \in Nat, NEW y \in Nat, NEW exp \in Nat,
         NEW p \in Nat, NEW base \in Nat,
         b2 * BONE <= b * p, base * y <= x * BONE,
         Pow(p, BONE) * Pow(BONE, exp) <= Pow(base, exp) * Pow(BONE, BONE)
  PROVE  Pow(b2, BONE) * Pow(y, exp) <= Pow(b, BONE) * Pow(x, exp)
<1>1. PICK one \in Nat \ {0} : one = BONE
  BY NumAssumption
<1>2. PICK pb \in Nat, pb2 \in Nat, px \in Nat, py \in Nat, pp \in Nat, pa \in Nat,
           o1 \in Nat \ {0}, o2 \in Nat \ {0} :
        /\ pb = Pow(b, one) /\ pb2 = Pow(b2, one) /\ px = Pow(x, exp) /\ py = Pow(y, exp)
        /\ pp = Pow(p, one) /\ pa = Pow(base, exp) /\ o1 = Pow(one, one) /\ o2 = Pow(one, exp)
  <2>1. Pow(one, one) \in Nat \ {0} /\ Pow(one, exp) \in Nat \ {0} /\ one \in Nat
    BY PowIsPositive
  <2> QED
    BY <2>1, PowIsNatural
<1>3. one \in Nat /\ one \in Int /\ b \in Int /\ b2 \in Int /\ x \in Int /\ y \in Int /\ p \in Int /\ base \in Int
  OBVIOUS
<1>4. pb2 * o1 <= pb * pp
  <2>1. Pow(b * p, one) = Pow(b, one) * Pow(p, one)
    BY <1>3, PowOfProduct
  <2>2. Pow(b2 * one, one) = Pow(b2, one) * Pow(one, one)
    BY <1>3, PowOfProduct
  <2>3. b * p \in Nat /\ b2 * one \in Nat /\ b2 * one <= b * p
    BY <1>1
  <2>4. Pow(b2 * one, one) <= Pow(b * p, one)
    BY <1>3, <2>3, PowKeepsOrder
  <2> QED
    BY <1>2, <2>1, <2>2, <2>4
<1>5. pa * py <= px * o2
  <2>1. Pow(x * one, exp) = Pow(x, exp) * Pow(one, exp)
    BY <1>3, PowOfProduct
  <2>2. Pow(base * y, exp) = Pow(base, exp) * Pow(y, exp)
    BY <1>3, PowOfProduct
  <2>3. x * one \in Nat /\ base * y \in Nat /\ base * y <= x * one
    BY <1>1
  <2>4. Pow(base * y, exp) <= Pow(x * one, exp)
    BY <2>3, PowKeepsOrder
  <2> QED
    BY <1>2, <2>1, <2>2, <2>4
<1>6. pp * o2 <= pa * o1
  BY <1>1, <1>2
<1>7. (pb2 * o1) * (py * o2) <= (pb * pp) * (py * o2)
  <2>1. pb2 * o1 \in Int /\ pb * pp \in Int /\ py * o2 \in Nat
    OBVIOUS
  <2> QED
    BY <1>4, <2>1, TimesKeepsOrder
<1>8. (pp * o2) * (pb * py) <= (pa * o1) * (pb * py)
  <2>1. pp * o2 \in Int /\ pa * o1 \in Int /\ pb * py \in Nat
    OBVIOUS
  <2> QED
    BY <1>6, <2>1, TimesKeepsOrder
<1>9. (pa * py) * (o1 * pb) <= (px * o2) * (o1 * pb)
  <2>1. pa * py \in Int /\ px * o2 \in Int /\ o1 * pb \in Nat
    OBVIOUS
  <2> QED
    BY <1>5, <2>1, TimesKeepsOrder
<1>10. (pb2 * py) * (o1 * o2) <= (pb * px) * (o1 * o2)
  <2> DEFINE s1 == (pb2 * o1) * (py * o2)
             s2 == (pp * o2) * (pb * py)
             s3 == (pa * py) * (o1 * pb)
             s4 == (px * o2) * (o1 * pb)
  <2>1. (pb * pp) * (py * o2) = s2 /\ (pa * o1) * (pb * py) = s3
    OBVIOUS
  <2>2. s1 = (pb2 * py) * (o1 * o2) /\ s4 = (pb * px) * (o1 * o2)
    OBVIOUS
  <2>3. s1 <= s2 /\ s2 <= s3 /\ s3 <= s4 /\ s1 \in Int /\ s2 \in Int /\ s3 \in Int /\ s4 \in Int
    BY <1>7, <1>8, <1>9, <2>1
  <2> HIDE DEF s1, s2, s3, s4
  <2>4. s1 <= s4
    BY <2>3
  <2> QED
    BY <2>2, <2>4
<1>11. pb2 * py <= pb * px
  <2>1. pb2 * py \in Int /\ pb * px \in Int /\ o1 * o2 \in Nat \ {0}
    OBVIOUS
  <2> QED
    BY <1>10, <2>1, TimesReflectsOrder
<1> QED
  BY <1>1, <1>2, <1>11

\* From the exponent at the scale of BONE, rounded, to the weights m to n that
\* it stands for: rounding it has not helped the side that moved from y to x.
LEMMA ExponentToWeights ==
  ASSUME NEW b \in Nat, NEW b2 \in Nat, NEW x \in Nat, NEW y \in Nat, NEW exp \in Nat,
         NEW m \in Nat, NEW n \in Nat,
         Pow(b, BONE) * Pow(y, exp) <= Pow(b2, BONE) * Pow(x, exp),
         \/ y <= x /\ exp * n <= m * BONE
         \/ x <= y /\ y # 0 /\ m * BONE <= exp * n
  PROVE  Pow(b, n) * Pow(y, m) <= Pow(b2, n) * Pow(x, m)
<1>1. PICK one \in Nat \ {0} : one = BONE
  BY NumAssumption
<1>2. /\ one \in Nat /\ one \in Int /\ b \in Int /\ b2 \in Int /\ x \in Int /\ y \in Int
      /\ one * n \in Nat /\ exp * n \in Nat /\ m * one \in Nat
  OBVIOUS
<1>3. PICK pb \in Nat, pb2 \in Nat, px \in Nat, py \in Nat, qx \in Nat, qy \in Nat :
        /\ pb = Pow(b, one * n) /\ pb2 = Pow(b2, one * n)
        /\ px = Pow(x, exp * n) /\ py = Pow(y, exp * n)
        /\ qx = Pow(x, m * one) /\ qy = Pow(y, m * one)
  BY <1>2, PowIsNatural
<1>4. pb * py <= pb2 * px
  <2>1. PICK u \in Nat, v \in Nat, u2 \in Nat, v2 \in Nat :
          u = Pow(b, one) /\ v = Pow(y, exp) /\ u2 = Pow(b2, one) /\ v2 = Pow(x, exp)
    BY <1>2, PowIsNatural
  <2>2. u * v <= u2 * v2
    BY <1>1, <2>1
  <2>3. u * v \in Nat /\ u2 * v2 \in Nat
    OBVIOUS
  <2>4. Pow(u * v, n) <= Pow(u2 * v2, n)
    BY <2>2, <2>3, PowKeepsOrder
  <2>5. u \in Int /\ v \in Int /\ u2 \in Int /\ v2 \in Int
    OBVIOUS
  <2>6. Pow(u * v, n) = Pow(u, n) * Pow(v, n)
    BY <2>5, PowOfProduct
  <2>7. Pow(u2 * v2, n) = Pow(u2, n) * Pow(v2, n)
    BY <2>5, PowOfProduct
  <2>8. Pow(u, n) = pb /\ Pow(u2, n) = pb2
    <3>1. Pow(Pow(b, one), n) = Pow(b, one * n)
      BY <1>2, PowOfPow
    <3>2. Pow(Pow(b2, one), n) = Pow(b2, one * n)
      BY <1>2, PowOfPow
    <3> QED
      BY <1>3, <2>1, <3>1, <3>2
  <2>9. Pow(v, n) = py /\ Pow(v2, n) = px
    <3>1. Pow(Pow(y, exp), n) = Pow(y, exp * n)
      BY <1>2, PowOfPow
    <3>2. Pow(Pow(x, exp), n) = Pow(x, exp * n)
      BY <1>2, PowOfPow
    <3> QED
      BY <1>3, <2>1, <3>1, <3>2
  <2> QED
    BY <2>4, <2>6, <2>7, <2>8, <2>9
<1>5. pb * qy <= pb2 * qx
  <2>1. CASE y <= x /\ exp * n <= m * BONE
    <3>1. PICK d \in Nat : d = m * one - exp * n
      <4>1. m * one - exp * n \in Nat
        BY <1>1, <1>2, <2>1
      <4> QED
        BY <4>1
    <3>2. PICK dx \in Nat, dy \in Nat : dx = Pow(x, d) /\ dy = Pow(y, d) /\ dy <= dx
      <4>1. Pow(x, d) \in Nat
        BY PowIsNatural
      <4>2. Pow(y, d) \in Nat /\ Pow(y, d) <= Pow(x, d)
        BY <2>1, PowIsNatural, PowKeepsOrder
      <4> QED
        BY <4>1, <4>2
    <3>3. exp * n + d = m * one
      BY <1>2, <3>1
    <3>4. Pow(x, exp * n + d) = Pow(x, exp * n) * Pow(x, d)
      BY <1>2, PowOfSum
    <3>5. Pow(y, exp * n + d) = Pow(y, exp * n) * Pow(y, d)
      BY <1>2, PowOfSum
    <3>6. qx = px * dx /\ qy = py * dy
      BY <1>3, <3>2, <3>3, <3>4, <3>5
    <3>7. (pb * py) * dy <= (pb2 * px) * dx
      <4>1. pb * py \in Nat /\ pb2 * px \in Nat
        OBVIOUS
      <4> QED
        BY <1>4, <3>2, <4>1, ProductsKeepOrder
    <3> QED
      BY <3>6, <3>7
  <2>2. CASE x <= y /\ y # 0 /\ m * BONE <= exp * n
    <3>1. PICK d \in Nat : d = exp * n - m * one
      <4>1. exp * n - m * one \in Nat
        BY <1>1, <1>2, <2>2
      <4> QED
        BY <4>1
    <3>2. PICK dx \in Nat, dy \in Nat \ {0} : dx = Pow(x, d) /\ dy = Pow(y, d) /\ dx <= dy
      <4>1. Pow(y, d) \in Nat \ {0}
        <5>1. y \in Nat \ {0}
          BY <2>2
        <5> QED
          BY <5>1, PowIsPositive
      <4>2. Pow(x, d) \in Nat /\ Pow(x, d) <= Pow(y, d)
        BY <2>2, PowIsNatural, PowKeepsOrder
      <4> QED
        BY <4>1, <4>2
    <3>3. m * one + d = exp * n
      BY <1>2, <3>1
    <3>4. Pow(x, m * one + d) = Pow(x, m * one) * Pow(x, d)
      BY <1>2, PowOfSum
    <3>5. Pow(y, m * one + d) = Pow(y, m * one) * Pow(y, d)
      BY <1>2, PowOfSum
    <3>6. px = qx * dx /\ py = qy * dy
      BY <1>3, <3>2, <3>3, <3>4, <3>5
    <3>7. (pb2 * qx) * dx <= (pb2 * qx) * dy
      <4>1. pb2 * qx \in Nat
        OBVIOUS
      <4> QED
        BY <3>2, <4>1, ProductsKeepOrder
    <3>8. (pb * qy) * dy <= (pb2 * qx) * dy
      <4>1. pb * py = (pb * qy) * dy /\ pb2 * px = (pb2 * qx) * dx
        BY <3>6
      <4>2. (pb * qy) * dy \in Int /\ (pb2 * qx) * dx \in Int /\ (pb2 * qx) * dy \in Int
        OBVIOUS
      <4> QED
        BY <1>4, <3>7, <4>1, <4>2
    <3>9. pb * qy \in Int /\ pb2 * qx \in Int
      OBVIOUS
    <3> QED
      BY <3>8, <3>9, TimesReflectsOrder
  <2> QED
    BY <2>1, <2>2
<1>6. PICK u \in Nat, v \in Nat, u2 \in Nat, v2 \in Nat :
        u = Pow(b, n) /\ v = Pow(y, m) /\ u2 = Pow(b2, n) /\ v2 = Pow(x, m)
  BY PowIsNatural
<1>7. Pow(u * v, one) <= Pow(u2 * v2, one)
  <2>1. u \in Int /\ v \in Int /\ u2 \in Int /\ v2 \in Int
    OBVIOUS
  <2>2. Pow(u * v, one) = Pow(u, one) * Pow(v, one)
    BY <1>2, <2>1, PowOfProduct
  <2>3. Pow(u2 * v2, one) = Pow(u2, one) * Pow(v2, one)
    BY <1>2, <2>1, PowOfProduct
  <2>4. Pow(u, one) = pb /\ Pow(u2, one) = pb2
    <3>1. Pow(Pow(b, n), one) = Pow(b, n * one)
      BY <1>2, PowOfPow
    <3>2. Pow(Pow(b2, n), one) = Pow(b2, n * one)
      BY <1>2, PowOfPow
    <3>3. n * one = one * n
      OBVIOUS
    <3> QED
      BY <1>3, <1>6, <3>1, <3>2, <3>3
  <2>5. Pow(v, one) = qy /\ Pow(v2, one) = qx
    <3>1. Pow(Pow(y, m), one) = Pow(y, m * one)
      BY <1>2, PowOfPow
    <3>2. Pow(Pow(x, m), one) = Pow(x, m * one)
      BY <1>2, PowOfPow
    <3> QED
      BY <1>3, <1>6, <3>1, <3>2
  <2> QED
    BY <1>5, <2>2, <2>3, <2>4, <2>5
<1>8. u * v <= u2 * v2
  <2>1. u * v \in Nat /\ u2 * v2 \in Nat
    OBVIOUS
  <2> QED
    BY <1>7, <2>1, PowReflectsOrder
<1> QED
  BY <1>6, <1>8

\* What c_pow returns, if it returns, whatever the exponent.
LEMMA CPowReturnsNumbers ==
  ASSUME NEW base, NEW exp \in Nat, NEW roundUp \in BOOLEAN, NEW p \in CPow(base, exp, roundUp)
  PROVE  base \in Nat \ {0} /\ p \in Int /\ p = CPowValue(base, exp, roundUp)
<1>1. base \in MIN_CPOW_BASE .. MAX_CPOW_BASE /\ p = CPowValue(base, exp, roundUp)
  BY DEF CPow
<1>2. base \in Nat \ {0}
  BY <1>1, NumAssumption DEF MIN_CPOW_BASE, MAX_CPOW_BASE
<1>3. p \in Int
  BY CPowIsInteger
<1> QED
  BY <1>1, <1>2, <1>3

LEMMA UpIsADirection == \A exp \in Nat : \A base : \A p \in CPow(base, exp, TRUE) :
                           base \in Nat \ {0} /\ p \in Int
<1> DEFINE up == TRUE
<1>1. up \in BOOLEAN
  OBVIOUS
<1> HIDE DEF up
<1>2. \A exp \in Nat : \A base : \A p \in CPow(base, exp, up) : base \in Nat \ {0} /\ p \in Int
  BY <1>1, CPowReturnsNumbers
<1> QED
  BY <1>2 DEF up

LEMMA DownIsADirection == \A exp \in Nat : \A base : \A p \in CPow(base, exp, FALSE) :
                             base \in Nat \ {0} /\ p \in Int
<1> DEFINE up == FALSE
<1>1. up \in BOOLEAN
  OBVIOUS
<1> HIDE DEF up
<1>2. \A exp \in Nat : \A base : \A p \in CPow(base, exp, up) : base \in Nat \ {0} /\ p \in Int
  BY <1>1, CPowReturnsNumbers
<1> QED
  BY <1>2 DEF up

\* Near one, an exponent at the scale of BONE is exact, and one term enough.
LEMMA NearOneAbove ==
  ASSUME NEW base \in Int, NEW exp \in Nat, NEW p \in CPow(base, exp, TRUE),
         BONE - CPOW_PRECISION <= base, base <= BONE + CPOW_PRECISION
  PROVE  base \in Nat /\ p \in Nat
         /\ Pow(base, exp) * Pow(BONE, BONE) <= Pow(p, BONE) * Pow(BONE, exp)
<1> DEFINE up == TRUE
<1>1. up \in BOOLEAN /\ up /\ p \in CPow(base, exp, up)
  OBVIOUS
<1> HIDE DEF up
<1>2. base \in Nat /\ p = CPowValue(base, exp, up)
  BY <1>1, CPowReturnsNumbers
<1>3. BONE \in Nat \ {0}
  BY NumAssumption
<1>4. (exp * BONE) % BONE = 0 /\ exp = (exp * BONE) \div BONE
  BY <1>3, FloorOfMultiple
<1>5. exp % BONE \in 0 .. BONE - 1
  BY <1>3
<1>6. PowSeries(base, exp % BONE, CPOW_PRECISION).iters = 1
  BY <1>5, OneTermSuffices
<1>7. /\ p \in Nat
      /\ Pow(base, exp) * Pow(BONE, BONE) <= Pow(p, BONE) * Pow(BONE, exp)
  BY <1>1, <1>2, <1>3, <1>4, <1>6, PowerAbove
<1> QED
  BY <1>2, <1>7

\* An exponent that is a weight: its fraction is not tiny.
LEMMA NearOneBelow ==
  ASSUME NEW base \in Int, NEW weight \in MIN_WEIGHT .. MAX_WEIGHT,
         NEW p \in CPow(base, weight * STROOP_SCALAR, FALSE),
         BONE - CPOW_PRECISION <= base, base <= BONE + CPOW_PRECISION
  PROVE  LET exp == weight * STROOP_SCALAR
         IN base \in Nat /\ p \in Nat /\ exp \in Nat
            /\ Pow(p, BONE) * Pow(BONE, exp) <= Pow(base, exp) * Pow(BONE, BONE)
<1> DEFINE up == FALSE
           exp == weight * STROOP_SCALAR
           square == (CPOW_PRECISION + 1) * (CPOW_PRECISION + 1)
<1>1. up \in BOOLEAN /\ ~up /\ p \in CPow(base, exp, up)
  OBVIOUS
<1>2. /\ BONE \in Nat \ {0} /\ STROOP \in Nat \ {0} /\ STROOP_SCALAR \in Nat \ {0}
      /\ BONE = STROOP * STROOP_SCALAR /\ CPOW_PRECISION \in Nat
  BY NumAssumption, MathAssumption
<1>3. PICK low \in Nat \ {0} : low = MIN_WEIGHT /\ low <= weight /\ weight < STROOP
  <2>1. MIN_WEIGHT \in Nat \ {0} /\ 10 * MIN_WEIGHT <= STROOP
    BY <1>2, WeightAssumption DEF MIN_WEIGHT
  <2>2. PICK m \in Nat \ {0} : m = MIN_WEIGHT /\ 10 * m <= STROOP
    BY <2>1
  <2>3. weight \in m .. m * 9
    BY <2>2 DEF MAX_WEIGHT
  <2>4. weight <= m * 9 /\ m <= weight /\ weight \in Int
    BY <2>3
  <2> QED
    BY <1>2, <2>2, <2>4
<1>4. weight \in Nat
  BY <1>3
<1>5. PICK sq \in Nat : sq = square
  BY <1>2
<1>6. exp \in Nat /\ exp < BONE
  <2>1. (weight + 1) * STROOP_SCALAR <= STROOP * STROOP_SCALAR
    BY <1>2, <1>3, <1>4, TimesKeepsOrder
  <2> QED
    BY <1>2, <1>4, <2>1
<1>7. (BONE - exp) * sq <= exp * BONE
  <2>1. (STROOP - low) * sq <= low * BONE
    BY <1>3, <1>5, PrecisionAssumption
  <2>2. (STROOP - weight) * sq <= (STROOP - low) * sq
    BY <1>2, <1>3, <1>4, TimesKeepsOrder
  <2>3. low * BONE <= weight * BONE
    BY <1>2, <1>3, <1>4, TimesKeepsOrder
  <2>4. (STROOP - weight) * sq <= weight * BONE
    BY <1>2, <1>3, <1>4, <2>1, <2>2, <2>3
  <2>5. ((STROOP - weight) * sq) * STROOP_SCALAR <= (weight * BONE) * STROOP_SCALAR
    <3>1. (STROOP - weight) * sq \in Int /\ weight * BONE \in Int
      BY <1>2, <1>4
    <3> QED
      BY <1>2, <2>4, <3>1, TimesKeepsOrder
  <2>6. BONE - exp = (STROOP - weight) * STROOP_SCALAR
    BY <1>2, <1>4
  <2>7. (BONE - exp) * sq = ((STROOP - weight) * sq) * STROOP_SCALAR
    BY <1>2, <1>4, <2>6
  <2>8. exp * BONE = (weight * BONE) * STROOP_SCALAR
    BY <1>2, <1>4
  <2> QED
    BY <2>5, <2>7, <2>8
<1> HIDE DEF up, exp, square
<1>8. base \in Nat \ {0} /\ p = CPowValue(base, exp, up)
  BY <1>1, <1>6, CPowReturnsNumbers
<1>9. (exp * BONE) % BONE = 0 /\ exp = (exp * BONE) \div BONE
  BY <1>2, <1>6, FloorOfMultiple
<1>10. exp % BONE = exp
  BY <1>2, <1>6
<1>11. PowSeries(base, exp % BONE, CPOW_PRECISION).iters = 1
  <2>1. exp \in 0 .. BONE - 1
    BY <1>2, <1>6
  <2>2. exp % BONE \in 0 .. BONE - 1
    BY <1>10, <2>1
  <2> QED
    BY <2>2, OneTermSuffices
<1>12. (BONE - (exp % BONE)) * ((CPOW_PRECISION + 1) * (CPOW_PRECISION + 1)) <= (exp % BONE) * BONE
  BY <1>5, <1>7, <1>10 DEF square
<1>13. /\ p \in Nat
       /\ Pow(p, BONE) * Pow(BONE, exp) <= Pow(base, exp) * Pow(BONE, BONE)
  BY <1>1, <1>2, <1>6, <1>8, <1>9, <1>11, <1>12, PowerBelow
<1> QED
  BY <1>6, <1>8, <1>13 DEF exp

\* A quotient rounded, and the ratio n to m that it is a rounding of.
LEMMA QuotientsOfNumbers ==
  ASSUME NEW a \in Nat, NEW w \in Nat \ {0}, NEW d \in Nat \ {0}
  PROVE  /\ FixedDivFloor(a, w, d) \in Nat /\ FixedDivFloor(a, w, d) * w <= a * d
         /\ FixedDivCeil(a, w, d) \in Nat /\ a * d <= FixedDivCeil(a, w, d) * w
<1>1. a \in Int
  OBVIOUS
<1>2. PICK f \in Int, c \in Int : /\ f = FixedDivFloor(a, w, d) /\ f * w <= a * d
                                  /\ c = FixedDivCeil(a, w, d) /\ a * d <= c * w
  BY <1>1, FixedPointBounds
<1>3. f >= 0
  <2>1. a * d \in Int /\ 0 * w <= a * d
    OBVIOUS
  <2>2. (a * d) \div w >= 0
    BY <2>1, FloorAtLeast
  <2> QED
    BY <1>2, <2>2 DEF FixedDivFloor
<1>4. c >= 0
  <2>1. 0 * w <= c * w
    BY <1>2
  <2> QED
    BY <1>2, <2>1, TimesReflectsOrder
<1> QED
  BY <1>2, <1>3, <1>4

LEMMA WeightIsPositive == \A weight \in MIN_WEIGHT .. MAX_WEIGHT : weight \in Nat \ {0}
<1>1. STROOP \in Nat \ {0}
  BY MathAssumption
<1>2. PICK m \in Nat \ {0} : m = MIN_WEIGHT
  BY <1>1, WeightAssumption DEF MIN_WEIGHT
<1>3. \A weight \in m .. m * 9 : weight \in Nat \ {0}
  OBVIOUS
<1> QED
  BY <1>2, <1>3 DEF MAX_WEIGHT

LEMMA DivCeilAtMost ==
  ASSUME NEW x \in Int, NEW n \in Nat \ {0}, NEW d \in Nat \ {0}, NEW k \in Int, x * d <= k * n
  PROVE  FixedDivCeil(x, n, d) <= k
<1>1. PICK p \in Int, j \in Int : p = -(x * d) /\ j = -k
  OBVIOUS
<1>2. j * n <= p
  BY <1>1
<1>3. p \div n >= j
  BY <1>2, FloorAtLeast
<1>4. FixedDivCeil(x, n, d) = -(p \div n)
  BY <1>1 DEF FixedDivCeil
<1>5. p \div n \in Int
  OBVIOUS
<1> QED
  BY <1>1, <1>3, <1>4, <1>5

LEMMA DivFloorAtLeast ==
  ASSUME NEW x \in Int, NEW n \in Nat \ {0}, NEW d \in Nat \ {0}, NEW k \in Int, k * n <= x * d
  PROVE  k <= FixedDivFloor(x, n, d)
<1>1. PICK p \in Int : p = x * d
  OBVIOUS
<1>2. p \div n >= k
  BY <1>1, FloorAtLeast
<1>3. FixedDivFloor(x, n, d) = p \div n
  BY <1>1 DEF FixedDivFloor
<1>4. p \div n \in Int
  OBVIOUS
<1> QED
  BY <1>2, <1>3, <1>4

LEMMA QuotientBelowRatio ==
  ASSUME NEW q \in Nat, NEW a \in Nat, NEW w \in Nat \ {0}, NEW d \in Nat,
         NEW m \in Nat, NEW n \in Nat, n * a = m * w, q * w <= a * d
  PROVE  q * n <= m * d
<1>1. (q * w) * n <= (a * d) * n
  BY TimesKeepsOrder
<1>2. (a * d) * n = (n * a) * d /\ (m * w) * d = (m * d) * w /\ (q * w) * n = (q * n) * w
  OBVIOUS
<1>3. (q * n) * w <= (m * d) * w
  BY <1>1, <1>2
<1> QED
  BY <1>3, TimesReflectsOrder

LEMMA QuotientAboveRatio ==
  ASSUME NEW q \in Nat, NEW a \in Nat, NEW w \in Nat \ {0}, NEW d \in Nat,
         NEW m \in Nat, NEW n \in Nat, n * a = m * w, a * d <= q * w
  PROVE  m * d <= q * n
<1>1. (a * d) * n <= (q * w) * n
  BY TimesKeepsOrder
<1>2. (a * d) * n = (n * a) * d /\ (m * w) * d = (m * d) * w /\ (q * w) * n = (q * n) * w
  OBVIOUS
<1>3. (m * d) * w <= (q * n) * w
  BY <1>1, <1>2
<1> QED
  BY <1>3, TimesReflectsOrder

\* The exponents of swaps and the ratio of the weights.
LEMMA SwapExponents ==
  ASSUME NEW a \in Nat, NEW w \in Nat \ {0}
  PROVE  /\ FixedDivFloor(a, w, STROOP) * STROOP_SCALAR \in Nat
         /\ FixedDivCeil(a, w, STROOP) * STROOP_SCALAR \in Nat
         /\ \A m, n \in Nat : n * a = m * w =>
              /\ (FixedDivFloor(a, w, STROOP) * STROOP_SCALAR) * n <= m * BONE
              /\ m * BONE <= (FixedDivCeil(a, w, STROOP) * STROOP_SCALAR) * n
<1>1. STROOP \in Nat \ {0} /\ STROOP_SCALAR \in Nat \ {0} /\ BONE = STROOP * STROOP_SCALAR
  BY MathAssumption
<1>2. PICK f \in Nat, c \in Nat : /\ f = FixedDivFloor(a, w, STROOP) /\ f * w <= a * STROOP
                                  /\ c = FixedDivCeil(a, w, STROOP) /\ a * STROOP <= c * w
  BY <1>1, QuotientsOfNumbers
<1>3. ASSUME NEW m \in Nat, NEW n \in Nat, n * a = m * w
      PROVE  (f * STROOP_SCALAR) * n <= m * BONE /\ m * BONE <= (c * STROOP_SCALAR) * n
  <2>1. f * n <= m * STROOP
    BY <1>1, <1>2, <1>3, QuotientBelowRatio
  <2>2. m * STROOP <= c * n
    BY <1>1, <1>2, <1>3, QuotientAboveRatio
  <2>3. (f * n) * STROOP_SCALAR <= (m * STROOP) * STROOP_SCALAR
    BY <1>1, <2>1, TimesKeepsOrder
  <2>4. (m * STROOP) * STROOP_SCALAR <= (c * n) * STROOP_SCALAR
    BY <1>1, <2>2, TimesKeepsOrder
  <2>5. (f * n) * STROOP_SCALAR = (f * STROOP_SCALAR) * n
        /\ (c * n) * STROOP_SCALAR = (c * STROOP_SCALAR) * n
        /\ (m * STROOP) * STROOP_SCALAR = m * BONE
    BY <1>1
  <2> QED
    BY <2>3, <2>4, <2>5
<1>4. f * STROOP_SCALAR \in Nat /\ c * STROOP_SCALAR \in Nat
  BY <1>1
<1> QED
  BY <1>2, <1>3, <1>4

\* The exponents of deposits and withdrawals for a number of shares.
LEMMA ShareExponents ==
  ASSUME NEW weight \in Nat \ {0}
  PROVE  /\ FixedDivFloor(BONE, weight * STROOP_SCALAR, BONE) \in Nat
         /\ FixedDivCeil(BONE, weight * STROOP_SCALAR, BONE) \in Nat
         /\ \A m, n \in Nat : n * STROOP = m * weight =>
              /\ FixedDivFloor(BONE, weight * STROOP_SCALAR, BONE) * n <= m * BONE
              /\ m * BONE <= FixedDivCeil(BONE, weight * STROOP_SCALAR, BONE) * n
<1>1. STROOP \in Nat \ {0} /\ STROOP_SCALAR \in Nat \ {0} /\ BONE = STROOP * STROOP_SCALAR
      /\ BONE \in Nat \ {0} /\ BONE \in Nat
  BY MathAssumption, NumAssumption
<1>2. PICK w \in Nat \ {0} : w = weight * STROOP_SCALAR
  BY <1>1
<1>3. PICK f \in Nat, c \in Nat : /\ f = FixedDivFloor(BONE, w, BONE) /\ f * w <= BONE * BONE
                                  /\ c = FixedDivCeil(BONE, w, BONE) /\ BONE * BONE <= c * w
  BY <1>1, QuotientsOfNumbers
<1>4. ASSUME NEW m \in Nat, NEW n \in Nat, n * STROOP = m * weight
      PROVE  f * n <= m * BONE /\ m * BONE <= c * n
  <2>1. (n * STROOP) * STROOP_SCALAR = (m * weight) * STROOP_SCALAR
    BY <1>4
  <2>2. (n * STROOP) * STROOP_SCALAR = n * BONE /\ (m * weight) * STROOP_SCALAR = m * w
    BY <1>1, <1>2
  <2>3. n * BONE = m * w
    BY <2>1, <2>2
  <2>4. f * n <= m * BONE
    BY <1>1, <1>3, <2>3, QuotientBelowRatio
  <2>5. m * BONE <= c * n
    BY <1>1, <1>3, <2>3, QuotientAboveRatio
  <2> QED
    BY <2>4, <2>5
<1> QED
  BY <1>2, <1>3, <1>4

(***************************************************************************)
(* What each of the six operations of c_math.rs with a power in it pays or *)
(* charges, by the power, and what the base of the power is at least or at *)
(* most.                                                                   *)
(***************************************************************************)
LEMMA SwapInByPower ==
  ASSUME NEW in, in.balance \in Nat, in.scalar \in Nat \ {0}, in.weight \in Nat,
         NEW out, out.balance \in Nat, out.scalar \in Nat \ {0}, out.weight \in Nat \ {0},
         NEW amount \in Nat, NEW fee \in 0 .. MAX_FEE,
         NEW v \in CalcTokenOutGivenTokenIn(in, out, amount, fee)
  PROVE  \E base \in Nat : \E power \in CPow(base, FixedDivFloor(in.weight, out.weight, STROOP)
                                                      * STROOP_SCALAR, TRUE) :
           /\ power \in Int /\ v \in Int /\ in.balance + amount # 0
           /\ out.balance * power <= (out.balance - v) * BONE
           /\ in.balance * BONE <= base * (in.balance + amount) /\ base <= BONE
<1> DEFINE whole == in.balance * in.scalar
           kept  == (STROOP - fee) * STROOP_SCALAR
           scaled == amount * in.scalar
           adj   == FixedMulFloor(scaled, kept, BONE)
           base  == FixedDivCeil(whole, whole + adj, BONE)
           exp   == FixedDivFloor(in.weight, out.weight, STROOP) * STROOP_SCALAR
<1>1. BONE \in Nat \ {0} /\ STROOP \in Nat \ {0} /\ STROOP_SCALAR \in Nat \ {0}
      /\ BONE = STROOP * STROOP_SCALAR
  BY MathAssumption, NumAssumption
<1>2. kept \in Nat /\ kept <= BONE /\ whole \in Nat /\ scaled \in Nat
  BY FeeLeavesSome
<1>3. PICK power \in CPow(base, exp, TRUE) :
        /\ v \in DownscaleFloor(FixedMulFloor(out.balance * out.scalar, BONE - power, BONE), out.scalar)
        /\ whole + adj # 0
  <2>1. PICK power, r :
          /\ power \in CPow(base, exp, TRUE) /\ r \in SubNoNegative(BONE, power)
          /\ v \in DownscaleFloor(FixedMulFloor(out.balance * out.scalar, r, BONE), out.scalar)
          /\ whole + adj # 0
    BY Zenon DEF CalcTokenOutGivenTokenIn
  <2>2. r = BONE - power
    BY <2>1 DEF SubNoNegative
  <2> QED
    BY <2>1, <2>2
<1>4. exp \in Nat
  <2>1. PICK a \in Nat, w \in Nat \ {0} : a = in.weight /\ w = out.weight
    OBVIOUS
  <2>2. FixedDivFloor(a, w, STROOP) * STROOP_SCALAR \in Nat
    BY SwapExponents
  <2> QED
    BY <2>1, <2>2
<1>5. adj \in Nat /\ adj <= scaled
  <2>1. adj \in Int /\ adj <= scaled
    BY <1>2, FeesFavourThePool
  <2>2. scaled * kept \in Int /\ 0 * BONE <= scaled * kept
    BY <1>1, <1>2
  <2>3. (scaled * kept) \div BONE >= 0
    BY <1>1, <2>2, FloorAtLeast
  <2> QED
    BY <2>1, <2>3 DEF FixedMulFloor
<1>6. whole = in.balance * in.scalar /\ scaled = amount * in.scalar
  OBVIOUS
<1> HIDE DEF whole, kept, scaled, adj
<1>7. base \in Int /\ whole * BONE <= base * (whole + adj) /\ base <= BONE
  <2>1. whole \in Int /\ whole + adj \in Nat \ {0}
    BY <1>2, <1>3, <1>5
  <2>2. base \in Int /\ whole * BONE <= base * (whole + adj)
    BY <1>1, <2>1, FixedPointBounds
  <2>3. base <= BONE
    <3>1. whole * BONE <= BONE * (whole + adj)
      <4>1. whole * BONE <= (whole + adj) * BONE
        BY <1>1, <1>2, <1>5, TimesKeepsOrder
      <4> QED
        BY <1>1, <1>2, <1>5, <4>1
    <3>2. BONE \in Int
      BY <1>1
    <3> QED
      BY <1>1, <2>1, <3>1, <3>2, DivCeilAtMost
  <2> QED
    BY <2>2, <2>3
<1>8. base \in Nat /\ power \in Int
  BY <1>3, <1>4, UpIsADirection
<1> HIDE DEF base, exp
<1>9. v \in Int /\ out.balance * power <= (out.balance - v) * BONE
  <2>1. PICK b \in Nat, c \in Nat \ {0}, p \in Int : b = out.balance /\ c = out.scalar /\ p = power
    BY <1>8
  <2>2. v \in DownscaleFloor(FixedMulFloor(b * c, BONE - p, BONE), c)
    BY <1>3, <2>1
  <2>3. v \in Int /\ b * p <= (b - v) * BONE
    BY <2>2, PayoutByPower
  <2> QED
    BY <2>1, <2>3
<1>10. in.balance * BONE <= base * (in.balance + amount)
  <2>1. (whole + adj) * base <= (whole + scaled) * base
    BY <1>2, <1>5, <1>8, TimesKeepsOrder
  <2>2. PICK b \in Nat, c \in Nat \ {0} : b = in.balance /\ c = in.scalar
    OBVIOUS
  <2>3. whole = b * c /\ scaled = amount * c
    BY <1>6, <2>2
  <2>4. (b * c) * BONE <= (b * c + amount * c) * base
    <3>1. (whole + adj) * base = base * (whole + adj)
      BY <1>2, <1>5, <1>8
    <3>2. whole * BONE \in Int /\ base * (whole + adj) \in Int /\ (whole + scaled) * base \in Int
      BY <1>1, <1>2, <1>5, <1>8
    <3>3. whole * BONE <= (whole + scaled) * base
      BY <1>7, <2>1, <3>1, <3>2
    <3> QED
      BY <2>3, <3>3
  <2>5. (b * BONE) * c <= (base * (b + amount)) * c
    <3>1. (b * c) * BONE = (b * BONE) * c /\ (b * c + amount * c) * base = (base * (b + amount)) * c
      BY <1>1, <1>8
    <3> QED
      BY <2>4, <3>1
  <2>6. b * BONE \in Int /\ base * (b + amount) \in Int
    BY <1>1, <1>8
  <2>7. b * BONE <= base * (b + amount)
    BY <2>2, <2>5, <2>6, TimesReflectsOrder
  <2> QED
    BY <2>2, <2>7
<1>11. in.balance + amount # 0
  <2>1. PICK b \in Nat, c \in Nat \ {0} : b = in.balance /\ c = in.scalar
    OBVIOUS
  <2> SUFFICES ASSUME b + amount = 0 PROVE FALSE
    BY <2>1
  <2>2. whole = 0 /\ scaled = 0
    BY <1>6, <2>1
  <2> QED
    BY <1>3, <1>5, <2>2
<1> QED
  BY <1>3, <1>7, <1>8, <1>9, <1>10, <1>11 DEF exp

LEMMA SwapOutByPower ==
  ASSUME NEW in, in.balance \in Nat, in.scalar \in Nat \ {0}, in.weight \in Nat \ {0},
         NEW out, out.balance \in Nat, out.scalar \in Nat \ {0}, out.weight \in Nat,
         NEW amount \in Nat, NEW fee \in 0 .. MAX_FEE,
         NEW v \in CalcTokenInGivenTokenOut(in, out, amount, fee)
  PROVE  \E base \in Nat : \E power \in CPow(base, FixedDivCeil(out.weight, in.weight, STROOP)
                                                      * STROOP_SCALAR, TRUE) :
           /\ power \in Int /\ v \in Int
           /\ out.balance - amount \in Nat \ {0}
           /\ in.balance * power <= (in.balance + v) * BONE
           /\ out.balance * BONE <= base * (out.balance - amount)
           /\ \A k \in Int : out.balance * BONE <= k * (out.balance - amount) => base <= k
<1> DEFINE whole == out.balance * out.scalar
           left  == whole - amount * out.scalar
           kept  == (STROOP - fee) * STROOP_SCALAR
           base  == FixedDivCeil(whole, left, BONE)
           exp   == FixedDivCeil(out.weight, in.weight, STROOP) * STROOP_SCALAR
<1>1. BONE \in Nat \ {0} /\ STROOP \in Nat \ {0} /\ STROOP_SCALAR \in Nat \ {0}
      /\ BONE = STROOP * STROOP_SCALAR
  BY MathAssumption, NumAssumption
<1>2. kept \in Nat \ {0} /\ kept <= BONE /\ whole \in Nat
  BY FeeLeavesSome
<1>3. PICK power \in CPow(base, exp, TRUE) :
        /\ power >= BONE
        /\ v \in DownscaleCeil(FixedDivCeil(FixedMulCeil(in.balance * in.scalar, power - BONE, BONE),
                                            kept, BONE), in.scalar)
        /\ left > 0
  <2>1. PICK power, r :
          /\ power \in CPow(base, exp, TRUE) /\ r \in SubNoNegative(power, BONE)
          /\ v \in DownscaleCeil(FixedDivCeil(FixedMulCeil(in.balance * in.scalar, r, BONE),
                                              kept, BONE), in.scalar)
          /\ left > 0
    BY Zenon DEF CalcTokenInGivenTokenOut
  <2>2. r = power - BONE /\ power >= BONE
    BY <2>1 DEF SubNoNegative
  <2> QED
    BY <2>1, <2>2
<1>4. exp \in Nat
  <2>1. PICK a \in Nat, w \in Nat \ {0} : a = out.weight /\ w = in.weight
    OBVIOUS
  <2>2. FixedDivCeil(a, w, STROOP) * STROOP_SCALAR \in Nat
    BY SwapExponents
  <2> QED
    BY <2>1, <2>2
<1>5. PICK b \in Nat, c \in Nat \ {0} : b = out.balance /\ c = out.scalar
  OBVIOUS
<1>6. left = (b - amount) * c /\ whole = b * c /\ left \in Int
  BY <1>5
<1> HIDE DEF whole, kept, left
<1>7. b - amount \in Nat \ {0}
  <2> SUFFICES ASSUME b - amount <= 0 PROVE FALSE
    OBVIOUS
  <2>1. (b - amount) * c <= 0 * c
    BY TimesKeepsOrder
  <2> QED
    BY <1>3, <1>6, <2>1
<1>8. base \in Int /\ whole * BONE <= base * left
  <2>1. whole \in Int /\ left \in Nat \ {0}
    BY <1>2, <1>3, <1>6
  <2> QED
    BY <1>1, <2>1, FixedPointBounds
<1>9. base \in Nat /\ power \in Int
  BY <1>3, <1>4, UpIsADirection
<1>10. v \in Int /\ in.balance * power <= (in.balance + v) * BONE
  <2>1. PICK bi \in Nat, ci \in Nat \ {0}, p \in Int :
          bi = in.balance /\ ci = in.scalar /\ p = power /\ p >= BONE
    BY <1>3, <1>9
  <2>2. v \in DownscaleCeil(FixedDivCeil(FixedMulCeil(bi * ci, p - BONE, BONE), kept, BONE), ci)
    BY <1>3, <2>1
  <2>3. v \in Int /\ bi * p <= (bi + v) * BONE
    BY <1>2, <2>1, <2>2, ChargeByPower
  <2> QED
    BY <2>1, <2>3
<1>11. b * BONE <= base * (b - amount)
  <2> HIDE DEF base
  <2>1. (b * BONE) * c <= (base * (b - amount)) * c
    <3>1. (b * c) * BONE = (b * BONE) * c /\ base * ((b - amount) * c) = (base * (b - amount)) * c
      BY <1>1, <1>9
    <3> QED
      BY <1>6, <1>8, <3>1
  <2>2. b * BONE \in Int /\ base * (b - amount) \in Int
    BY <1>1, <1>9
  <2> QED
    BY <2>1, <2>2, TimesReflectsOrder
<1>12. ASSUME NEW k \in Int, b * BONE <= k * (b - amount)
       PROVE  base <= k
  <2>1. (b * BONE) * c <= (k * (b - amount)) * c
    BY <1>1, <1>7, <1>12, TimesKeepsOrder
  <2>2. (b * BONE) * c = (b * c) * BONE /\ (k * (b - amount)) * c = k * ((b - amount) * c)
    BY <1>1
  <2>3. whole * BONE <= k * left
    BY <1>6, <2>1, <2>2
  <2>4. whole \in Int /\ left \in Nat \ {0}
    BY <1>2, <1>3, <1>6
  <2> QED
    BY <1>1, <2>3, <2>4, DivCeilAtMost
<1> HIDE DEF base, exp
<1> QED
  BY <1>3, <1>5, <1>7, <1>9, <1>10, <1>11, <1>12 DEF exp

LEMMA DepositForSharesByPower ==
  ASSUME NEW in, in.balance \in Nat, in.scalar \in Nat \ {0}, in.weight \in MIN_WEIGHT .. MAX_WEIGHT,
         NEW supply \in Nat, NEW amount \in Nat, NEW fee \in 0 .. MAX_FEE,
         NEW v \in CalcTokenDepositsInGivenLpTokenAmount(in, supply, amount, fee)
  PROVE  \E ratio \in Nat : \E power \in CPow(ratio, FixedDivCeil(BONE, in.weight * STROOP_SCALAR, BONE),
                                              TRUE) :
           /\ power \in Int /\ v \in Int /\ supply # 0
           /\ in.balance * power <= (in.balance + v) * BONE
           /\ (supply + amount) * BONE <= ratio * supply
           /\ \A k \in Int : (supply + amount) * BONE <= k * supply => ratio <= k
<1> DEFINE whole == supply * STROOP_SCALAR
           more  == whole + amount * STROOP_SCALAR
           kept  == AfterFee(in.weight, fee)
           ratio == FixedDivCeil(more, whole, BONE)
           exp   == FixedDivCeil(BONE, in.weight * STROOP_SCALAR, BONE)
           scaled == in.balance * in.scalar
<1>1. BONE \in Nat \ {0} /\ STROOP \in Nat \ {0} /\ STROOP_SCALAR \in Nat \ {0}
  BY MathAssumption, NumAssumption
<1>2. kept \in Nat \ {0} /\ kept <= BONE /\ whole \in Nat /\ more \in Nat
  BY <1>1, AfterFeeLeavesSome
<1>3. PICK power \in CPow(ratio, exp, TRUE) :
        /\ FixedMulCeil(scaled, power, BONE) >= scaled
        /\ v \in DownscaleCeil(FixedDivCeil(FixedMulCeil(scaled, power, BONE) - scaled,
                                            kept, BONE), in.scalar)
        /\ whole # 0
  <2>1. PICK power, credited :
          /\ power \in CPow(ratio, exp, TRUE)
          /\ credited \in SubNoNegative(FixedMulCeil(scaled, power, BONE), scaled)
          /\ v \in DownscaleCeil(FixedDivCeil(credited, kept, BONE), in.scalar)
          /\ whole # 0
    BY Zenon DEF CalcTokenDepositsInGivenLpTokenAmount
  <2>2. /\ credited = FixedMulCeil(scaled, power, BONE) - scaled
        /\ FixedMulCeil(scaled, power, BONE) >= scaled
    BY <2>1 DEF SubNoNegative
  <2> QED
    BY <2>1, <2>2
<1>4. exp \in Nat
  <2>1. PICK w \in Nat \ {0} : w = in.weight
    BY WeightIsPositive
  <2> QED
    BY <2>1, ShareExponents
<1>5. more = (supply + amount) * STROOP_SCALAR /\ whole = supply * STROOP_SCALAR /\ supply # 0
  BY <1>1, <1>3
<1> HIDE DEF whole, kept, more
<1>6. ratio \in Int /\ more * BONE <= ratio * whole
  <2>1. more \in Int /\ whole \in Nat \ {0}
    BY <1>2, <1>3
  <2> QED
    BY <1>1, <2>1, FixedPointBounds
<1>7. ratio \in Nat /\ power \in Int
  BY <1>3, <1>4, UpIsADirection
<1>8. v \in Int /\ in.balance * power <= (in.balance + v) * BONE
  <2>1. PICK b \in Nat, c \in Nat \ {0}, p \in Int : b = in.balance /\ c = in.scalar /\ p = power
    BY <1>7
  <2>2. /\ FixedMulCeil(b * c, p, BONE) >= b * c
        /\ v \in DownscaleCeil(FixedDivCeil(FixedMulCeil(b * c, p, BONE) - b * c, kept, BONE), c)
    BY <1>3, <2>1
  <2>3. v \in Int /\ b * p <= (b + v) * BONE
    BY <1>2, <2>2, DepositByPower
  <2> QED
    BY <2>1, <2>3
<1>9. (supply + amount) * BONE <= ratio * supply
  <2> HIDE DEF ratio
  <2>1. ((supply + amount) * BONE) * STROOP_SCALAR <= (ratio * supply) * STROOP_SCALAR
    BY <1>1, <1>5, <1>6, <1>7
  <2>2. (supply + amount) * BONE \in Int /\ ratio * supply \in Int
    BY <1>1, <1>7
  <2> QED
    BY <1>1, <2>1, <2>2, TimesReflectsOrder
<1>10. ASSUME NEW k \in Int, (supply + amount) * BONE <= k * supply
       PROVE  ratio <= k
  <2>1. ((supply + amount) * BONE) * STROOP_SCALAR <= (k * supply) * STROOP_SCALAR
    BY <1>1, <1>10, TimesKeepsOrder
  <2>2. more * BONE <= k * whole
    BY <1>1, <1>5, <2>1
  <2>3. more \in Int /\ whole \in Nat \ {0}
    BY <1>2, <1>3
  <2> QED
    BY <1>1, <2>2, <2>3, DivCeilAtMost
<1> HIDE DEF ratio, exp
<1> QED
  BY <1>3, <1>5, <1>7, <1>8, <1>9, <1>10 DEF exp

LEMMA WithdrawForSharesByPower ==
  ASSUME NEW out, out.balance \in Nat, out.scalar \in Nat \ {0},
         out.weight \in MIN_WEIGHT .. MAX_WEIGHT,
         NEW supply \in Nat, NEW amount \in 0 .. supply, NEW fee \in 0 .. MAX_FEE,
         NEW v \in CalcTokenWithdrawalAmountGivenLpTokenAmount(out, supply, amount, fee)
  PROVE  \E ratio \in Nat : \E power \in CPow(ratio, FixedDivFloor(BONE, out.weight * STROOP_SCALAR, BONE),
                                              TRUE) :
           /\ power \in Int /\ v \in Int /\ supply # 0
           /\ out.balance * power <= (out.balance - v) * BONE
           /\ (supply - amount) * BONE <= ratio * supply
           /\ \A k \in Int : (supply - amount) * BONE <= k * supply => ratio <= k
<1> DEFINE whole == supply * STROOP_SCALAR
           less  == whole - amount * STROOP_SCALAR
           kept  == AfterFee(out.weight, fee)
           ratio == FixedDivCeil(less, whole, BONE)
           exp   == FixedDivFloor(BONE, out.weight * STROOP_SCALAR, BONE)
           scaled == out.balance * out.scalar
<1>1. BONE \in Nat \ {0} /\ STROOP \in Nat \ {0} /\ STROOP_SCALAR \in Nat \ {0}
  BY MathAssumption, NumAssumption
<1>2. kept \in Nat \ {0} /\ kept <= BONE /\ whole \in Nat /\ less \in Int
  BY <1>1, AfterFeeLeavesSome
<1>3. PICK power \in CPow(ratio, exp, TRUE) :
        /\ FixedMulCeil(scaled, power, BONE) <= scaled
        /\ v \in DownscaleFloor(FixedMulFloor(scaled - FixedMulCeil(scaled, power, BONE),
                                              kept, BONE), out.scalar)
        /\ whole # 0
  <2>1. PICK power, before :
          /\ power \in CPow(ratio, exp, TRUE)
          /\ before \in SubNoNegative(scaled, FixedMulCeil(scaled, power, BONE))
          /\ v \in DownscaleFloor(FixedMulFloor(before, kept, BONE), out.scalar)
          /\ whole # 0
    BY Zenon DEF CalcTokenWithdrawalAmountGivenLpTokenAmount
  <2>2. /\ before = scaled - FixedMulCeil(scaled, power, BONE)
        /\ scaled >= FixedMulCeil(scaled, power, BONE)
    BY <2>1 DEF SubNoNegative
  <2> QED
    BY <2>1, <2>2
<1>4. exp \in Nat
  <2>1. PICK w \in Nat \ {0} : w = out.weight
    BY WeightIsPositive
  <2> QED
    BY <2>1, ShareExponents
<1>5. less = (supply - amount) * STROOP_SCALAR /\ whole = supply * STROOP_SCALAR
      /\ amount \in Nat /\ supply # 0
  BY <1>1, <1>3
<1> HIDE DEF whole, kept, less
<1>6. ratio \in Int /\ less * BONE <= ratio * whole
  <2>1. whole \in Nat \ {0}
    BY <1>2, <1>3
  <2> QED
    BY <1>1, <1>2, <2>1, FixedPointBounds
<1>7. ratio \in Nat /\ power \in Int
  BY <1>3, <1>4, UpIsADirection
<1>8. v \in Int /\ out.balance * power <= (out.balance - v) * BONE
  <2>1. PICK b \in Nat, c \in Nat \ {0}, p \in Int : b = out.balance /\ c = out.scalar /\ p = power
    BY <1>7
  <2>2. /\ FixedMulCeil(b * c, p, BONE) <= b * c
        /\ v \in DownscaleFloor(FixedMulFloor(b * c - FixedMulCeil(b * c, p, BONE), kept, BONE), c)
    BY <1>3, <2>1
  <2>3. v \in Int /\ b * p <= (b - v) * BONE
    BY <1>2, <2>2, WithdrawalByPower
  <2> QED
    BY <2>1, <2>3
<1>9. (supply - amount) * BONE <= ratio * supply
  <2> HIDE DEF ratio
  <2>1. ((supply - amount) * BONE) * STROOP_SCALAR <= (ratio * supply) * STROOP_SCALAR
    BY <1>1, <1>5, <1>6, <1>7
  <2>2. (supply - amount) * BONE \in Int /\ ratio * supply \in Int
    BY <1>1, <1>5, <1>7
  <2> QED
    BY <1>1, <2>1, <2>2, TimesReflectsOrder
<1>10. ASSUME NEW k \in Int, (supply - amount) * BONE <= k * supply
       PROVE  ratio <= k
  <2>1. ((supply - amount) * BONE) * STROOP_SCALAR <= (k * supply) * STROOP_SCALAR
    <3>1. (supply - amount) * BONE \in Int /\ k * supply \in Int
      BY <1>1, <1>5
    <3> QED
      BY <1>1, <1>10, <3>1, TimesKeepsOrder
  <2>2. less * BONE <= k * whole
    BY <1>1, <1>5, <2>1
  <2>3. less \in Int /\ whole \in Nat \ {0}
    BY <1>2, <1>3
  <2> QED
    BY <1>1, <2>2, <2>3, DivCeilAtMost
<1> HIDE DEF ratio, exp
<1> QED
  BY <1>3, <1>5, <1>7, <1>8, <1>9, <1>10 DEF exp

\* The supply after a deposit or a withdrawal of an amount, from the power.
LEMMA SupplyByPower ==
  ASSUME NEW s \in Nat, NEW p \in Int
  PROVE  LET n == FixedMulFloor(p, s * STROOP_SCALAR, BONE)
         IN /\ \A v \in DownscaleFloor(n - s * STROOP_SCALAR, STROOP_SCALAR) :
                 v \in Int /\ (s + v) * BONE <= s * p
            /\ \A v \in DownscaleCeil(s * STROOP_SCALAR - n, STROOP_SCALAR) :
                 /\ v \in Int /\ (s - v) * BONE <= s * p
                 /\ p >= 0 => v <= s
<1>1. BONE \in Nat \ {0} /\ STROOP_SCALAR \in Nat \ {0}
  BY MathAssumption, NumAssumption
<1>2. PICK w \in Int : w = s * STROOP_SCALAR
  BY <1>1
<1>3. PICK n \in Int : n = FixedMulFloor(p, w, BONE) /\ n * BONE <= p * w
  BY <1>1, FixedPointBounds
<1>4. ASSUME NEW u \in Int, u * STROOP_SCALAR <= n
      PROVE  u * BONE <= s * p
  <2>1. (u * STROOP_SCALAR) * BONE <= n * BONE
    BY <1>1, <1>4, TimesKeepsOrder
  <2>2. p * w = (s * p) * STROOP_SCALAR
    BY <1>1, <1>2
  <2>3. (u * STROOP_SCALAR) * BONE = (u * BONE) * STROOP_SCALAR
    BY <1>1
  <2>4. (u * BONE) * STROOP_SCALAR <= (s * p) * STROOP_SCALAR
    BY <1>1, <1>3, <2>1, <2>2, <2>3
  <2>5. u * BONE \in Int /\ s * p \in Int
    BY <1>1
  <2> QED
    BY <1>1, <2>4, <2>5, TimesReflectsOrder
<1>5. ASSUME NEW v \in DownscaleFloor(n - w, STROOP_SCALAR)
      PROVE  v \in Int /\ (s + v) * BONE <= s * p
  <2>1. PICK d \in Int : d = n - w
    BY <1>2, <1>3
  <2>2. v \in Int /\ v * STROOP_SCALAR <= d
    BY <1>1, <1>5, <2>1, DownscalesFavourThePool
  <2>3. (s + v) * STROOP_SCALAR = w + v * STROOP_SCALAR
    BY <1>1, <1>2, <2>2
  <2>4. s + v \in Int /\ (s + v) * STROOP_SCALAR <= n
    BY <1>1, <1>2, <1>3, <2>1, <2>2, <2>3
  <2> QED
    BY <1>4, <2>2, <2>4
<1>6. ASSUME NEW v \in DownscaleCeil(w - n, STROOP_SCALAR)
      PROVE  /\ v \in Int /\ (s - v) * BONE <= s * p
             /\ p >= 0 => v <= s
  <2>1. PICK d \in Int : d = w - n
    BY <1>2, <1>3
  <2>2. v \in Int /\ d <= v * STROOP_SCALAR
    BY <1>1, <1>6, <2>1, DownscalesFavourThePool
  <2>3. (s - v) * STROOP_SCALAR = w - v * STROOP_SCALAR
    BY <1>1, <1>2, <2>2
  <2>4. s - v \in Int /\ (s - v) * STROOP_SCALAR <= n
    BY <1>1, <1>2, <1>3, <2>1, <2>2, <2>3
  <2>5. ASSUME p >= 0 PROVE v <= s
    <3>1. v = FixedDivCeil(d, STROOP_SCALAR, 1)
      BY <1>6, <2>1 DEF DownscaleCeil, Checked
    <3>2. n >= 0
      <4>1. p * w \in Int /\ 0 * BONE <= p * w
        <5>1. p \in Nat /\ w \in Nat
          BY <1>1, <1>2, <2>5
        <5> QED
          BY <1>1, <5>1
      <4>2. (p * w) \div BONE >= 0
        BY <1>1, <4>1, FloorAtLeast
      <4> QED
        BY <1>3, <4>2 DEF FixedMulFloor
    <3>3. d * 1 <= s * STROOP_SCALAR
      BY <1>1, <1>2, <1>3, <2>1, <3>2
    <3>4. s \in Int /\ 1 \in Nat \ {0}
      OBVIOUS
    <3> QED
      BY <1>1, <3>1, <3>3, <3>4, DivCeilAtMost
  <2> QED
    BY <1>4, <2>2, <2>4, <2>5
<1> QED
  BY <1>2, <1>3, <1>5, <1>6

LEMMA DepositOfAmountByPower ==
  ASSUME NEW in, in.balance \in Nat, in.scalar \in Nat \ {0}, in.weight \in MIN_WEIGHT .. MAX_WEIGHT,
         NEW supply \in Nat, NEW amount \in Nat, NEW fee \in 0 .. MAX_FEE,
         NEW v \in CalcLpTokenAmountGivenTokenDepositsIn(in, supply, amount, fee)
  PROVE  \E ratio \in Nat \ {0} : \E power \in CPow(ratio, in.weight * STROOP_SCALAR, FALSE) :
           /\ power \in Int /\ v \in Int /\ in.balance # 0
           /\ (supply + v) * BONE <= supply * power /\ v >= 0
           /\ ratio * in.balance <= (in.balance + amount) * BONE
           /\ BONE <= ratio
<1> DEFINE whole == in.balance * in.scalar
           scaled == amount * in.scalar
           kept  == AfterFee(in.weight, fee)
           credited == FixedMulFloor(scaled, kept, BONE)
           ratio == FixedDivFloor(whole + credited, whole, BONE)
           exp   == in.weight * STROOP_SCALAR
           shares == supply * STROOP_SCALAR
<1>1. BONE \in Nat \ {0} /\ STROOP \in Nat \ {0} /\ STROOP_SCALAR \in Nat \ {0} /\ BONE \in Int
  BY MathAssumption, NumAssumption
<1>2. /\ kept \in Nat \ {0} /\ kept <= BONE /\ whole \in Nat /\ scaled \in Nat
      /\ shares \in Nat /\ exp \in Nat
  BY <1>1, AfterFeeLeavesSome, WeightIsPositive
<1>3. PICK power \in CPow(ratio, exp, FALSE) :
        /\ FixedMulFloor(power, shares, BONE) >= shares
        /\ v \in DownscaleFloor(FixedMulFloor(power, shares, BONE) - shares, STROOP_SCALAR)
        /\ whole # 0
  <2>1. PICK power, minted :
          /\ power \in CPow(ratio, exp, FALSE)
          /\ minted \in SubNoNegative(FixedMulFloor(power, shares, BONE), shares)
          /\ v \in DownscaleFloor(minted, STROOP_SCALAR)
          /\ whole # 0
    BY Zenon DEF CalcLpTokenAmountGivenTokenDepositsIn
  <2>2. /\ minted = FixedMulFloor(power, shares, BONE) - shares
        /\ FixedMulFloor(power, shares, BONE) >= shares
    BY <2>1 DEF SubNoNegative
  <2> QED
    BY <2>1, <2>2
<1>4. credited \in Nat /\ credited <= scaled
  <2>1. credited \in Int /\ credited <= scaled
    BY <1>2, FeesFavourThePool
  <2>2. scaled * kept \in Int /\ 0 * BONE <= scaled * kept
    BY <1>1, <1>2
  <2>3. (scaled * kept) \div BONE >= 0
    BY <1>1, <2>2, FloorAtLeast
  <2> QED
    BY <2>1, <2>3 DEF FixedMulFloor
<1>5. whole = in.balance * in.scalar /\ scaled = amount * in.scalar /\ in.balance # 0
  BY <1>3
<1> HIDE DEF whole, scaled, kept, credited
<1>6. ratio \in Int /\ ratio * whole <= (whole + credited) * BONE /\ BONE <= ratio
  <2>1. whole + credited \in Int /\ whole \in Nat \ {0}
    BY <1>2, <1>3, <1>4
  <2>2. ratio \in Int /\ ratio * whole <= (whole + credited) * BONE
    BY <1>1, <2>1, FixedPointBounds
  <2>3. BONE * whole <= (whole + credited) * BONE
    <3>1. whole * BONE <= (whole + credited) * BONE
      BY <1>1, <1>2, <1>4, TimesKeepsOrder
    <3> QED
      BY <1>1, <1>2, <3>1
  <2>4. BONE <= ratio
    BY <1>1, <2>1, <2>3, DivFloorAtLeast
  <2> QED
    BY <2>2, <2>4
<1>7. ratio \in Nat \ {0} /\ power \in Int
  BY <1>2, <1>3, DownIsADirection
<1> HIDE DEF ratio, exp
<1>8. v \in Int /\ (supply + v) * BONE <= supply * power
  BY <1>3, <1>7, SupplyByPower
<1>9. v >= 0
  <2>1. PICK d \in Nat : d = FixedMulFloor(power, shares, BONE) - shares
    <3>1. FixedMulFloor(power, shares, BONE) \in Int
      BY <1>1, <1>2, <1>7, FixedPointBounds
    <3> QED
      BY <1>2, <1>3, <3>1
  <2>2. v = FixedDivFloor(d, STROOP_SCALAR, 1)
    BY <1>3, <2>1 DEF DownscaleFloor, Checked
  <2>3. 1 \in Nat \ {0}
    OBVIOUS
  <2> QED
    BY <1>1, <2>2, <2>3, QuotientsOfNumbers
<1>10. ratio * in.balance <= (in.balance + amount) * BONE
  <2>1. PICK b \in Nat, c \in Nat \ {0} : b = in.balance /\ c = in.scalar
    OBVIOUS
  <2>2. (whole + credited) * BONE <= (whole + scaled) * BONE
    BY <1>1, <1>2, <1>4, TimesKeepsOrder
  <2>3. ratio * (b * c) <= (b * c + amount * c) * BONE
    <3>1. whole = b * c /\ scaled = amount * c
      BY <1>5, <2>1
    <3>2. ratio * whole \in Int /\ (whole + credited) * BONE \in Int /\ (whole + scaled) * BONE \in Int
      BY <1>1, <1>2, <1>4, <1>7
    <3>3. ratio * whole <= (whole + scaled) * BONE
      BY <1>6, <2>2, <3>2
    <3> QED
      BY <3>1, <3>3
  <2>4. (ratio * b) * c <= ((b + amount) * BONE) * c
    <3>1. ratio * (b * c) = (ratio * b) * c /\ (b * c + amount * c) * BONE = ((b + amount) * BONE) * c
      BY <1>1, <1>7
    <3> QED
      BY <2>3, <3>1
  <2>5. ratio * b \in Int /\ (b + amount) * BONE \in Int
    BY <1>1, <1>7
  <2>6. ratio * b <= (b + amount) * BONE
    BY <2>1, <2>4, <2>5, TimesReflectsOrder
  <2> QED
    BY <2>1, <2>6
<1> QED
  BY <1>3, <1>5, <1>6, <1>7, <1>8, <1>9, <1>10 DEF exp

LEMMA WithdrawOfAmountByPower ==
  ASSUME NEW out, out.balance \in Nat, out.scalar \in Nat \ {0},
         out.weight \in MIN_WEIGHT .. MAX_WEIGHT,
         NEW supply \in Nat, NEW amount \in Nat, NEW fee \in 0 .. MAX_FEE,
         NEW v \in CalcLpTokenAmountGivenTokenWithdrawalAmount(out, supply, amount, fee)
  PROVE  \E ratio \in Nat \ {0} : \E power \in CPow(ratio, out.weight * STROOP_SCALAR, FALSE) :
           /\ power \in Int /\ v \in Int /\ out.balance # 0
           /\ (supply - v) * BONE <= supply * power /\ (power >= 0 => v <= supply)
           /\ ratio * out.balance <= (out.balance - amount) * BONE
           /\ \A k \in Int : k * out.balance <= (out.balance - 2 * amount) * BONE => k <= ratio
<1> DEFINE whole == out.balance * out.scalar
           scaled == amount * out.scalar
           kept  == AfterFee(out.weight, fee)
           before == FixedDivCeil(scaled, kept, BONE)
           ratio == FixedDivFloor(whole - before, whole, BONE)
           exp   == out.weight * STROOP_SCALAR
           shares == supply * STROOP_SCALAR
<1>1. BONE \in Nat \ {0} /\ STROOP \in Nat \ {0} /\ STROOP_SCALAR \in Nat \ {0} /\ BONE \in Int
  BY MathAssumption, NumAssumption
<1>2. /\ kept \in Nat \ {0} /\ kept <= BONE /\ whole \in Nat /\ scaled \in Nat
      /\ shares \in Nat /\ exp \in Nat /\ BONE <= 2 * kept
  BY <1>1, AfterFeeLeavesSome, WeightIsPositive
<1>3. PICK power \in CPow(ratio, exp, FALSE) :
        /\ v \in DownscaleCeil(shares - FixedMulFloor(power, shares, BONE), STROOP_SCALAR)
        /\ whole # 0
  <2>1. PICK power, burned :
          /\ power \in CPow(ratio, exp, FALSE)
          /\ burned \in SubNoNegative(shares, FixedMulFloor(power, shares, BONE))
          /\ v \in DownscaleCeil(burned, STROOP_SCALAR)
          /\ whole # 0
    BY Zenon DEF CalcLpTokenAmountGivenTokenWithdrawalAmount
  <2>2. burned = shares - FixedMulFloor(power, shares, BONE)
    BY <2>1 DEF SubNoNegative
  <2> QED
    BY <2>1, <2>2
<1>4. before \in Int /\ scaled <= before /\ before <= 2 * scaled
  <2>1. before \in Int /\ scaled <= before
    BY <1>2, FeesFavourThePool
  <2>2. scaled * BONE <= (2 * scaled) * kept
    <3>1. BONE * scaled <= (2 * kept) * scaled
      BY <1>1, <1>2, TimesKeepsOrder
    <3> HIDE DEF scaled, kept
    <3> QED
      BY <1>1, <1>2, <3>1
  <2>3. before <= 2 * scaled
    <3>1. scaled \in Int /\ 2 * scaled \in Int
      BY <1>2
    <3> QED
      BY <1>1, <1>2, <2>2, <3>1, DivCeilAtMost
  <2> QED
    BY <2>1, <2>3
<1>5. whole = out.balance * out.scalar /\ scaled = amount * out.scalar /\ out.balance # 0
  BY <1>3
<1> HIDE DEF whole, scaled, kept, before
<1>6. ratio \in Int /\ ratio * whole <= (whole - before) * BONE
  <2>1. whole - before \in Int /\ whole \in Nat \ {0}
    BY <1>2, <1>3, <1>4
  <2> QED
    BY <1>1, <2>1, FixedPointBounds
<1>7. ratio \in Nat \ {0} /\ power \in Int
  BY <1>2, <1>3, DownIsADirection
<1>8. v \in Int /\ (supply - v) * BONE <= supply * power /\ (power >= 0 => v <= supply)
  <2> HIDE DEF ratio, exp
  <2> QED
    BY <1>3, <1>7, SupplyByPower
<1>9. PICK b \in Nat, c \in Nat \ {0} : b = out.balance /\ c = out.scalar /\ whole = b * c /\ scaled = amount * c
  BY <1>5
<1>10. ratio * b <= (b - amount) * BONE
  <2> HIDE DEF ratio
  <2>1. (whole - before) * BONE <= (whole - scaled) * BONE
    BY <1>1, <1>2, <1>4, TimesKeepsOrder
  <2>2. ratio * whole \in Int /\ (whole - before) * BONE \in Int /\ (whole - scaled) * BONE \in Int
    BY <1>1, <1>2, <1>4, <1>7
  <2>3. ratio * (b * c) <= (b * c - amount * c) * BONE
    BY <1>6, <1>9, <2>1, <2>2
  <2>4. (ratio * b) * c <= ((b - amount) * BONE) * c
    <3>1. ratio * (b * c) = (ratio * b) * c /\ (b * c - amount * c) * BONE = ((b - amount) * BONE) * c
      BY <1>1, <1>7
    <3> QED
      BY <2>3, <3>1
  <2>5. ratio * b \in Int /\ (b - amount) * BONE \in Int
    BY <1>1, <1>7
  <2> QED
    BY <2>4, <2>5, TimesReflectsOrder
<1>11. ASSUME NEW k \in Int, k * b <= (b - 2 * amount) * BONE
       PROVE  k <= ratio
  <2>1. (k * b) * c <= ((b - 2 * amount) * BONE) * c
    <3>1. k * b \in Int /\ (b - 2 * amount) * BONE \in Int
      BY <1>1
    <3> QED
      BY <1>11, <3>1, TimesKeepsOrder
  <2>2. (k * b) * c = k * (b * c) /\ ((b - 2 * amount) * BONE) * c = (b * c - 2 * (amount * c)) * BONE
    BY <1>1
  <2>3. k * whole <= (whole - 2 * scaled) * BONE
    BY <1>9, <2>1, <2>2
  <2>4. (whole - 2 * scaled) * BONE <= (whole - before) * BONE
    BY <1>1, <1>2, <1>4, TimesKeepsOrder
  <2>5. k * whole <= (whole - before) * BONE
    <3>1. k * whole \in Int /\ (whole - 2 * scaled) * BONE \in Int /\ (whole - before) * BONE \in Int
      BY <1>1, <1>2, <1>4
    <3> QED
      BY <2>3, <2>4, <3>1
  <2>6. whole - before \in Int /\ whole \in Nat \ {0}
    BY <1>2, <1>3, <1>4
  <2> QED
    BY <1>1, <2>5, <2>6, DivFloorAtLeast
<1> HIDE DEF ratio, exp
<1> QED
  BY <1>3, <1>5, <1>7, <1>8, <1>9, <1>10, <1>11 DEF exp

(***************************************************************************)
(* The four operations with a whole exponent: a power that is a product.   *)
(***************************************************************************)
LEMMA WholeSwapInKeepsTheValue ==
  ASSUME NEW in, in.balance \in Nat, in.scalar \in Nat \ {0},
         NEW out, out.balance \in Nat, out.scalar \in Nat \ {0}, out.weight \in Nat \ {0},
         NEW k \in Nat, in.weight = k * out.weight,
         NEW amount \in Nat, NEW fee \in 0 .. MAX_FEE,
         NEW v \in CalcTokenOutGivenTokenIn(in, out, amount, fee)
  PROVE  out.balance * Pow(in.balance, k) <= (out.balance - v) * Pow(in.balance + amount, k)
<1> DEFINE exp == FixedDivFloor(in.weight, out.weight, STROOP) * STROOP_SCALAR
           Paid(base, power) == /\ power \in Int /\ v \in Int
                                /\ out.balance * power <= (out.balance - v) * BONE
                                /\ in.balance * BONE <= base * (in.balance + amount)
<1>1. in.weight \in Nat
  <2>1. PICK w \in Nat : w = out.weight
    OBVIOUS
  <2> QED
    BY <2>1
<1>2. PICK base \in Nat : \E power \in CPow(base, exp, TRUE) : Paid(base, power)
  BY <1>1, SwapInByPower
<1>3. PICK power \in CPow(base, exp, TRUE) : Paid(base, power)
  BY <1>2
<1>4. exp = k * BONE
  <2>1. PICK w \in Nat \ {0} : w = out.weight
    OBVIOUS
  <2>2. STROOP \in Nat \ {0} /\ STROOP_SCALAR \in Nat \ {0} /\ BONE = STROOP * STROOP_SCALAR
    BY MathAssumption
  <2>3. FixedDivFloor(k * w, w, STROOP) = k * STROOP
    BY <2>2, WholeQuotients
  <2>4. exp = (k * STROOP) * STROOP_SCALAR
    BY <2>1, <2>3
  <2> QED
    BY <2>2, <2>4
<1> HIDE DEF exp
<1>5. power \in Nat /\ Pow(base, k) * BONE <= power * Pow(BONE, k)
  <2>1. base \in Int
    OBVIOUS
  <2> QED
    BY <1>4, <2>1, CPowOfWhole
<1>6. in.balance + amount \in Nat /\ out.balance - v \in Int
  BY <1>3
<1> QED
  BY <1>3, <1>5, <1>6, WholePower

LEMMA WholeSwapOutKeepsTheValue ==
  ASSUME NEW in, in.balance \in Nat, in.scalar \in Nat \ {0}, in.weight \in Nat \ {0},
         NEW out, out.balance \in Nat, out.scalar \in Nat \ {0},
         NEW k \in Nat, out.weight = k * in.weight,
         NEW amount \in Nat, NEW fee \in 0 .. MAX_FEE,
         NEW v \in CalcTokenInGivenTokenOut(in, out, amount, fee)
  PROVE  /\ out.balance - amount \in Nat
         /\ in.balance * Pow(out.balance, k) <= (in.balance + v) * Pow(out.balance - amount, k)
<1> DEFINE exp == FixedDivCeil(out.weight, in.weight, STROOP) * STROOP_SCALAR
           Paid(base, power) == /\ power \in Int /\ v \in Int
                                /\ out.balance - amount \in Nat \ {0}
                                /\ in.balance * power <= (in.balance + v) * BONE
                                /\ out.balance * BONE <= base * (out.balance - amount)
<1>1. out.weight \in Nat
  <2>1. PICK w \in Nat : w = in.weight
    OBVIOUS
  <2> QED
    BY <2>1
<1>2. PICK base \in Nat : \E power \in CPow(base, exp, TRUE) : Paid(base, power)
  BY <1>1, SwapOutByPower
<1>3. PICK power \in CPow(base, exp, TRUE) : Paid(base, power)
  BY <1>2
<1>4. exp = k * BONE
  <2>1. PICK w \in Nat \ {0} : w = in.weight
    OBVIOUS
  <2>2. STROOP \in Nat \ {0} /\ STROOP_SCALAR \in Nat \ {0} /\ BONE = STROOP * STROOP_SCALAR
    BY MathAssumption
  <2>3. FixedDivCeil(k * w, w, STROOP) = k * STROOP
    BY <2>2, WholeQuotients
  <2>4. exp = (k * STROOP) * STROOP_SCALAR
    BY <2>1, <2>3
  <2> QED
    BY <2>2, <2>4
<1> HIDE DEF exp
<1>5. power \in Nat /\ Pow(base, k) * BONE <= power * Pow(BONE, k)
  <2>1. base \in Int
    OBVIOUS
  <2> QED
    BY <1>4, <2>1, CPowOfWhole
<1>6. out.balance - amount \in Nat /\ in.balance + v \in Int
  BY <1>3
<1> QED
  BY <1>3, <1>5, <1>6, WholePower

\* The exponents of deposits and withdrawals of a token that is the k-th part.
LEMMA WholeExponents ==
  ASSUME NEW k \in Nat, NEW weight \in Nat \ {0}, k * weight = STROOP
  PROVE  /\ FixedDivCeil(BONE, weight * STROOP_SCALAR, BONE) = k * BONE
         /\ FixedDivFloor(BONE, weight * STROOP_SCALAR, BONE) = k * BONE
<1>1. BONE \in Nat \ {0} /\ STROOP_SCALAR \in Nat \ {0} /\ BONE = STROOP * STROOP_SCALAR
  BY MathAssumption, NumAssumption
<1>2. PICK w \in Nat \ {0} : w = weight * STROOP_SCALAR
  BY <1>1
<1>3. k * w = BONE
  BY <1>1, <1>2
<1>4. FixedDivCeil(k * w, w, BONE) = k * BONE /\ FixedDivFloor(k * w, w, BONE) = k * BONE
  BY <1>1, WholeQuotients
<1> QED
  BY <1>2, <1>3, <1>4

LEMMA WholeDepositKeepsTheWorth ==
  ASSUME NEW in, in.balance \in Nat, in.scalar \in Nat \ {0}, in.weight \in MIN_WEIGHT .. MAX_WEIGHT,
         NEW k \in Nat, k * in.weight = STROOP,
         NEW supply \in Nat, NEW amount \in Nat, NEW fee \in 0 .. MAX_FEE,
         NEW v \in CalcTokenDepositsInGivenLpTokenAmount(in, supply, amount, fee)
  PROVE  in.balance * Pow(supply + amount, k) <= (in.balance + v) * Pow(supply, k)
<1> DEFINE exp == FixedDivCeil(BONE, in.weight * STROOP_SCALAR, BONE)
           Paid(base, power) == /\ power \in Int /\ v \in Int
                                /\ in.balance * power <= (in.balance + v) * BONE
                                /\ (supply + amount) * BONE <= base * supply
<1>1. PICK base \in Nat : \E power \in CPow(base, exp, TRUE) : Paid(base, power)
  BY DepositForSharesByPower
<1>2. PICK power \in CPow(base, exp, TRUE) : Paid(base, power)
  BY <1>1
<1>3. exp = k * BONE
  <2>1. PICK w \in Nat \ {0} : w = in.weight
    BY WeightIsPositive
  <2> QED
    BY <2>1, WholeExponents
<1> HIDE DEF exp
<1>4. power \in Nat /\ Pow(base, k) * BONE <= power * Pow(BONE, k)
  <2>1. base \in Int
    OBVIOUS
  <2> QED
    BY <1>3, <2>1, CPowOfWhole
<1>5. supply + amount \in Nat /\ in.balance + v \in Int
  BY <1>2
<1> QED
  BY <1>2, <1>4, <1>5, WholePower

LEMMA WholeWithdrawalKeepsTheWorth ==
  ASSUME NEW out, out.balance \in Nat, out.scalar \in Nat \ {0},
         out.weight \in MIN_WEIGHT .. MAX_WEIGHT,
         NEW k \in Nat, k * out.weight = STROOP,
         NEW supply \in Nat, NEW amount \in 0 .. supply, NEW fee \in 0 .. MAX_FEE,
         NEW v \in CalcTokenWithdrawalAmountGivenLpTokenAmount(out, supply, amount, fee)
  PROVE  out.balance * Pow(supply - amount, k) <= (out.balance - v) * Pow(supply, k)
<1> DEFINE exp == FixedDivFloor(BONE, out.weight * STROOP_SCALAR, BONE)
           Paid(base, power) == /\ power \in Int /\ v \in Int
                                /\ out.balance * power <= (out.balance - v) * BONE
                                /\ (supply - amount) * BONE <= base * supply
<1>1. PICK base \in Nat : \E power \in CPow(base, exp, TRUE) : Paid(base, power)
  BY WithdrawForSharesByPower
<1>2. PICK power \in CPow(base, exp, TRUE) : Paid(base, power)
  BY <1>1
<1>3. exp = k * BONE
  <2>1. PICK w \in Nat \ {0} : w = out.weight
    BY WeightIsPositive
  <2> QED
    BY <2>1, WholeExponents
<1> HIDE DEF exp
<1>4. power \in Nat /\ Pow(base, k) * BONE <= power * Pow(BONE, k)
  <2>1. base \in Int
    OBVIOUS
  <2> QED
    BY <1>3, <2>1, CPowOfWhole
<1>5. supply - amount \in Nat /\ out.balance - v \in Int
  <2>1. amount \in Nat /\ amount <= supply
    OBVIOUS
  <2> QED
    BY <1>2, <2>1
<1> QED
  BY <1>2, <1>4, <1>5, WholePower

(***************************************************************************)
(* The six operations in small steps: a power that is one term of series.  *)
(***************************************************************************)

\* The base of a power is near one when what moves is little of what there is.
LEMMA NearBelow ==
  ASSUME NEW t \in Nat \ {0}, NEW a \in Int, NEW base \in Int,
         (t - a) * BONE <= base * t, a * BONE <= CPOW_PRECISION * t
  PROVE  BONE - CPOW_PRECISION <= base
<1>1. PICK one \in Nat, p \in Nat : one = BONE /\ p = CPOW_PRECISION
  BY NumAssumption
<1>2. (one - p) * t <= base * t
  BY <1>1
<1>3. one - p \in Int
  OBVIOUS
<1> QED
  BY <1>1, <1>2, <1>3, TimesReflectsOrder

LEMMA NearAbove ==
  ASSUME NEW t \in Nat \ {0}, NEW a \in Int, NEW base \in Int,
         base * t <= (t + a) * BONE, a * BONE <= CPOW_PRECISION * t
  PROVE  base <= BONE + CPOW_PRECISION
<1>1. PICK one \in Nat, p \in Nat : one = BONE /\ p = CPOW_PRECISION
  BY NumAssumption
<1>2. base * t <= (one + p) * t
  BY <1>1
<1>3. one + p \in Int
  OBVIOUS
<1> QED
  BY <1>1, <1>2, <1>3, TimesReflectsOrder

\* And the numbers that bound it, rounded away from one.
LEMMA NearRounded ==
  ASSUME NEW t \in Nat, NEW a \in Int
  PROVE  /\ a * BONE <= CPOW_PRECISION * t => (t + a) * BONE <= (BONE + CPOW_PRECISION) * t
         /\ 2 * a * BONE <= CPOW_PRECISION * t
              => (BONE - CPOW_PRECISION) * t <= (t - 2 * a) * BONE
         /\ a >= 0 => (t - a) * BONE <= BONE * t
         /\ BONE + CPOW_PRECISION \in Int /\ BONE - CPOW_PRECISION \in Int /\ BONE \in Int
         /\ BONE - CPOW_PRECISION <= BONE /\ BONE <= BONE + CPOW_PRECISION
<1>1. PICK one \in Nat, p \in Nat : one = BONE /\ p = CPOW_PRECISION
  BY NumAssumption
<1>2. a >= 0 => (t - a) * one <= one * t
  <2> HAVE a >= 0
  <2>1. t - a <= t /\ t - a \in Int
    OBVIOUS
  <2>2. (t - a) * one <= t * one
    BY <2>1, TimesKeepsOrder
  <2> QED
    BY <2>2
<1> QED
  BY <1>1, <1>2

\* What a payout or a charge leaves is a balance.
LEMMA LeavesABalance ==
  ASSUME NEW b \in Nat, NEW p \in Nat, NEW left \in Int, b * p <= left * BONE
  PROVE  left \in Nat
<1>1. PICK one \in Nat \ {0} : one = BONE
  BY NumAssumption
<1>2. 0 * one <= left * one
  BY <1>1
<1> QED
  BY <1>2, TimesReflectsOrder

LEMMA SmallSwapIn ==
  ASSUME NEW in, in.balance \in Nat, in.scalar \in Nat \ {0}, in.weight \in Nat,
         NEW out, out.balance \in Nat, out.scalar \in Nat \ {0}, out.weight \in Nat \ {0},
         NEW amount \in Nat, NEW fee \in 0 .. MAX_FEE,
         NEW v \in CalcTokenOutGivenTokenIn(in, out, amount, fee),
         amount * BONE <= CPOW_PRECISION * (in.balance + amount),
         NEW m \in Nat, NEW n \in Nat, n * in.weight = m * out.weight
  PROVE  /\ v \in Int
         /\ Pow(out.balance, n) * Pow(in.balance, m)
              <= Pow(out.balance - v, n) * Pow(in.balance + amount, m)
<1> DEFINE exp == FixedDivFloor(in.weight, out.weight, STROOP) * STROOP_SCALAR
<1>1. PICK bi \in Nat, wi \in Nat, bo \in Nat, wo \in Nat \ {0} :
        bi = in.balance /\ wi = in.weight /\ bo = out.balance /\ wo = out.weight
  OBVIOUS
<1>2. exp \in Nat /\ exp * n <= m * BONE
  <2>1. n * wi = m * wo
    BY <1>1
  <2>2. /\ FixedDivFloor(wi, wo, STROOP) * STROOP_SCALAR \in Nat
        /\ (FixedDivFloor(wi, wo, STROOP) * STROOP_SCALAR) * n <= m * BONE
    BY <2>1, SwapExponents
  <2> QED
    BY <1>1, <2>2
<1> DEFINE Paid(base, power) == /\ power \in Int /\ v \in Int /\ bi + amount # 0
                                /\ bo * power <= (bo - v) * BONE
                                /\ bi * BONE <= base * (bi + amount) /\ base <= BONE
<1>a. PICK base \in Nat : \E power \in CPow(base, exp, TRUE) : Paid(base, power)
  BY <1>1, SwapInByPower
<1>b. PICK power \in CPow(base, exp, TRUE) : Paid(base, power)
  BY <1>a
<1>3. Paid(base, power)
  BY <1>b
<1> HIDE DEF exp
<1>4. BONE - CPOW_PRECISION <= base
  <2>1. bi + amount \in Nat \ {0} /\ base \in Int /\ amount \in Int
    BY <1>3
  <2>2. ((bi + amount) - amount) * BONE <= base * (bi + amount)
    BY <1>3
  <2> QED
    BY <1>1, <2>1, <2>2, NearBelow
<1>5. base <= BONE + CPOW_PRECISION /\ base \in Int
  <2>1. BONE \in Nat /\ CPOW_PRECISION \in Nat
    BY NumAssumption
  <2> QED
    BY <1>3, <2>1
<1>6. /\ power \in Nat
      /\ Pow(base, exp) * Pow(BONE, BONE) <= Pow(power, BONE) * Pow(BONE, exp)
  BY <1>2, <1>3, <1>4, <1>5, NearOneAbove
<1>7. bo - v \in Nat
  <2>1. bo - v \in Int
    BY <1>3
  <2> QED
    BY <1>3, <1>6, <2>1, LeavesABalance
<1>8. Pow(bo, BONE) * Pow(bi, exp) <= Pow(bo - v, BONE) * Pow(bi + amount, exp)
  <2>1. bi + amount \in Nat
    OBVIOUS
  <2> QED
    BY <1>2, <1>3, <1>6, <1>7, <2>1, PartPowerAbove
<1>9. Pow(bo, n) * Pow(bi, m) <= Pow(bo - v, n) * Pow(bi + amount, m)
  <2>1. bi + amount \in Nat /\ bi <= bi + amount
    OBVIOUS
  <2> QED
    BY <1>2, <1>7, <1>8, <2>1, ExponentToWeights
<1> QED
  BY <1>1, <1>3, <1>9

LEMMA SmallSwapOut ==
  ASSUME NEW in, in.balance \in Nat, in.scalar \in Nat \ {0}, in.weight \in Nat \ {0},
         NEW out, out.balance \in Nat, out.scalar \in Nat \ {0}, out.weight \in Nat,
         NEW amount \in Nat, NEW fee \in 0 .. MAX_FEE,
         NEW v \in CalcTokenInGivenTokenOut(in, out, amount, fee),
         amount * BONE <= CPOW_PRECISION * (out.balance - amount),
         NEW m \in Nat, NEW n \in Nat, n * out.weight = m * in.weight
  PROVE  /\ v \in Int
         /\ Pow(in.balance, n) * Pow(out.balance, m)
              <= Pow(in.balance + v, n) * Pow(out.balance - amount, m)
<1> DEFINE exp == FixedDivCeil(out.weight, in.weight, STROOP) * STROOP_SCALAR
<1>1. PICK bi \in Nat, wi \in Nat \ {0}, bo \in Nat, wo \in Nat :
        bi = in.balance /\ wi = in.weight /\ bo = out.balance /\ wo = out.weight
  OBVIOUS
<1>2. exp \in Nat /\ m * BONE <= exp * n
  <2>1. n * wo = m * wi
    BY <1>1
  <2>2. /\ FixedDivCeil(wo, wi, STROOP) * STROOP_SCALAR \in Nat
        /\ m * BONE <= (FixedDivCeil(wo, wi, STROOP) * STROOP_SCALAR) * n
    BY <2>1, SwapExponents
  <2> QED
    BY <1>1, <2>2
<1> DEFINE Paid(base, power) ==
             /\ power \in Int /\ v \in Int
             /\ bo - amount \in Nat \ {0}
             /\ bi * power <= (bi + v) * BONE
             /\ bo * BONE <= base * (bo - amount)
             /\ \A k \in Int : bo * BONE <= k * (bo - amount) => base <= k
<1>a. PICK base \in Nat : \E power \in CPow(base, exp, TRUE) : Paid(base, power)
  BY <1>1, SwapOutByPower
<1>b. PICK power \in CPow(base, exp, TRUE) : Paid(base, power)
  BY <1>a
<1>3. Paid(base, power)
  BY <1>b
<1> HIDE DEF exp
<1>4. PICK left \in Nat \ {0} : left = bo - amount /\ bo = left + amount /\ amount \in Int
  BY <1>3
<1>5. base <= BONE + CPOW_PRECISION /\ base \in Int
  <2>1. amount * BONE <= CPOW_PRECISION * left
    BY <1>1, <1>4
  <2>2. (left + amount) * BONE <= (BONE + CPOW_PRECISION) * left
        /\ BONE + CPOW_PRECISION \in Int
    BY <1>4, <2>1, NearRounded
  <2>3. PICK k \in Int : k = BONE + CPOW_PRECISION
    BY <2>2
  <2>4. bo * BONE <= k * (bo - amount)
    BY <1>4, <2>2, <2>3
  <2>5. base <= k
    BY <1>3, <2>4
  <2> QED
    BY <2>3, <2>5
<1>6. BONE - CPOW_PRECISION <= base
  <2>1. (left - (-amount)) * BONE <= base * left
    BY <1>3, <1>4
  <2>2. (-amount) * BONE <= CPOW_PRECISION * left /\ -amount \in Int
    <3>1. BONE \in Nat /\ CPOW_PRECISION \in Nat
      BY NumAssumption
    <3>2. amount * BONE \in Nat /\ (-amount) * BONE = -(amount * BONE) /\ CPOW_PRECISION * left \in Nat
      BY <3>1
    <3> QED
      BY <3>2
  <2> QED
    BY <1>5, <2>1, <2>2, NearBelow
<1>7. /\ power \in Nat
      /\ Pow(base, exp) * Pow(BONE, BONE) <= Pow(power, BONE) * Pow(BONE, exp)
  BY <1>2, <1>3, <1>5, <1>6, NearOneAbove
<1>8. bi + v \in Nat
  <2>1. bi + v \in Int
    BY <1>3
  <2> QED
    BY <1>3, <1>7, <2>1, LeavesABalance
<1>9. Pow(bi, BONE) * Pow(bo, exp) <= Pow(bi + v, BONE) * Pow(bo - amount, exp)
  <2>1. bo - amount \in Nat
    BY <1>3
  <2> QED
    BY <1>2, <1>3, <1>7, <1>8, <2>1, PartPowerAbove
<1>10. Pow(bi, n) * Pow(bo, m) <= Pow(bi + v, n) * Pow(bo - amount, m)
  <2>1. bo - amount \in Nat /\ bo - amount <= bo /\ bo # 0
    BY <1>4
  <2> QED
    BY <1>2, <1>8, <1>9, <2>1, ExponentToWeights
<1> QED
  BY <1>1, <1>3, <1>10

LEMMA SmallDepositForShares ==
  ASSUME NEW in, in.balance \in Nat, in.scalar \in Nat \ {0}, in.weight \in MIN_WEIGHT .. MAX_WEIGHT,
         NEW supply \in Nat, NEW amount \in Nat, NEW fee \in 0 .. MAX_FEE,
         NEW v \in CalcTokenDepositsInGivenLpTokenAmount(in, supply, amount, fee),
         amount * BONE <= CPOW_PRECISION * supply,
         NEW m \in Nat, NEW n \in Nat, n * STROOP = m * in.weight
  PROVE  /\ v \in Int
         /\ Pow(in.balance, n) * Pow(supply + amount, m)
              <= Pow(in.balance + v, n) * Pow(supply, m)
<1> DEFINE exp == FixedDivCeil(BONE, in.weight * STROOP_SCALAR, BONE)
           Paid(base, power) ==
             /\ power \in Int /\ v \in Int /\ supply # 0
             /\ in.balance * power <= (in.balance + v) * BONE
             /\ (supply + amount) * BONE <= base * supply
             /\ \A k \in Int : (supply + amount) * BONE <= k * supply => base <= k
<1>1. exp \in Nat /\ m * BONE <= exp * n
  <2>1. PICK w \in Nat \ {0} : w = in.weight
    BY WeightIsPositive
  <2>2. n * STROOP = m * w
    BY <2>1
  <2>3. /\ FixedDivCeil(BONE, w * STROOP_SCALAR, BONE) \in Nat
        /\ m * BONE <= FixedDivCeil(BONE, w * STROOP_SCALAR, BONE) * n
    BY <2>2, ShareExponents
  <2> QED
    BY <2>1, <2>3
<1>2. PICK base \in Nat : \E power \in CPow(base, exp, TRUE) : Paid(base, power)
  BY DepositForSharesByPower
<1>3. PICK power \in CPow(base, exp, TRUE) : Paid(base, power)
  BY <1>2
<1> HIDE DEF exp
<1>4. PICK b \in Nat : b = in.balance
  OBVIOUS
<1>5. supply \in Nat \ {0} /\ amount \in Int /\ base \in Int
  BY <1>3
<1>6. base <= BONE + CPOW_PRECISION
  <2>1. (supply + amount) * BONE <= (BONE + CPOW_PRECISION) * supply
        /\ BONE + CPOW_PRECISION \in Int
    BY <1>5, NearRounded
  <2> QED
    BY <1>3, <2>1
<1>7. BONE - CPOW_PRECISION <= base
  <2>1. (supply - (-amount)) * BONE <= base * supply
    BY <1>3
  <2>2. (-amount) * BONE <= CPOW_PRECISION * supply /\ -amount \in Int
    <3>1. BONE \in Nat /\ CPOW_PRECISION \in Nat
      BY NumAssumption
    <3>2. amount * BONE \in Nat /\ (-amount) * BONE = -(amount * BONE)
          /\ CPOW_PRECISION * supply \in Nat
      BY <3>1
    <3> QED
      BY <3>2
  <2> QED
    BY <1>5, <2>1, <2>2, NearBelow
<1>8. /\ power \in Nat
      /\ Pow(base, exp) * Pow(BONE, BONE) <= Pow(power, BONE) * Pow(BONE, exp)
  BY <1>1, <1>3, <1>5, <1>6, <1>7, NearOneAbove
<1>9. b + v \in Nat /\ b * power <= (b + v) * BONE
  <2>1. b + v \in Int /\ b * power <= (b + v) * BONE
    BY <1>3, <1>4
  <2> QED
    BY <1>8, <2>1, LeavesABalance
<1>10. Pow(b, BONE) * Pow(supply + amount, exp) <= Pow(b + v, BONE) * Pow(supply, exp)
  <2>1. supply + amount \in Nat /\ (supply + amount) * BONE <= base * supply
    BY <1>3
  <2> QED
    BY <1>1, <1>8, <1>9, <2>1, PartPowerAbove
<1>11. Pow(b, n) * Pow(supply + amount, m) <= Pow(b + v, n) * Pow(supply, m)
  <2>1. supply + amount \in Nat /\ supply <= supply + amount /\ supply + amount # 0
    BY <1>5
  <2> QED
    BY <1>1, <1>9, <1>10, <2>1, ExponentToWeights
<1> QED
  BY <1>3, <1>4, <1>11

LEMMA SmallWithdrawalForShares ==
  ASSUME NEW out, out.balance \in Nat, out.scalar \in Nat \ {0},
         out.weight \in MIN_WEIGHT .. MAX_WEIGHT,
         NEW supply \in Nat, NEW amount \in 0 .. supply, NEW fee \in 0 .. MAX_FEE,
         NEW v \in CalcTokenWithdrawalAmountGivenLpTokenAmount(out, supply, amount, fee),
         amount * BONE <= CPOW_PRECISION * supply,
         NEW m \in Nat, NEW n \in Nat, n * STROOP = m * out.weight
  PROVE  /\ v \in Int
         /\ Pow(out.balance, n) * Pow(supply - amount, m)
              <= Pow(out.balance - v, n) * Pow(supply, m)
<1> DEFINE exp == FixedDivFloor(BONE, out.weight * STROOP_SCALAR, BONE)
           Paid(base, power) ==
             /\ power \in Int /\ v \in Int /\ supply # 0
             /\ out.balance * power <= (out.balance - v) * BONE
             /\ (supply - amount) * BONE <= base * supply
             /\ \A k \in Int : (supply - amount) * BONE <= k * supply => base <= k
<1>1. exp \in Nat /\ exp * n <= m * BONE
  <2>1. PICK w \in Nat \ {0} : w = out.weight
    BY WeightIsPositive
  <2>2. n * STROOP = m * w
    BY <2>1
  <2>3. /\ FixedDivFloor(BONE, w * STROOP_SCALAR, BONE) \in Nat
        /\ FixedDivFloor(BONE, w * STROOP_SCALAR, BONE) * n <= m * BONE
    BY <2>2, ShareExponents
  <2> QED
    BY <2>1, <2>3
<1>2. PICK base \in Nat : \E power \in CPow(base, exp, TRUE) : Paid(base, power)
  BY WithdrawForSharesByPower
<1>3. PICK power \in CPow(base, exp, TRUE) : Paid(base, power)
  BY <1>2
<1> HIDE DEF exp
<1>4. PICK b \in Nat : b = out.balance
  OBVIOUS
<1>5. supply \in Nat \ {0} /\ amount \in Nat /\ base \in Int
  BY <1>3
<1>6. base <= BONE + CPOW_PRECISION
  <2>1. (supply - amount) * BONE <= BONE * supply /\ BONE \in Int
        /\ BONE + CPOW_PRECISION \in Int /\ BONE <= BONE + CPOW_PRECISION
    BY <1>5, NearRounded
  <2>2. base <= BONE
    BY <1>3, <2>1
  <2> QED
    BY <1>5, <2>1, <2>2
<1>7. BONE - CPOW_PRECISION <= base
  <2>1. amount \in Int /\ (supply - amount) * BONE <= base * supply
    BY <1>3
  <2> QED
    BY <1>5, <2>1, NearBelow
<1>8. /\ power \in Nat
      /\ Pow(base, exp) * Pow(BONE, BONE) <= Pow(power, BONE) * Pow(BONE, exp)
  BY <1>1, <1>3, <1>5, <1>6, <1>7, NearOneAbove
<1>9. b - v \in Nat /\ b * power <= (b - v) * BONE
  <2>1. b - v \in Int /\ b * power <= (b - v) * BONE
    BY <1>3, <1>4
  <2> QED
    BY <1>8, <2>1, LeavesABalance
<1>10. Pow(b, BONE) * Pow(supply - amount, exp) <= Pow(b - v, BONE) * Pow(supply, exp)
  <2>1. supply - amount \in Nat /\ (supply - amount) * BONE <= base * supply
    BY <1>3, <1>5
  <2> QED
    BY <1>1, <1>8, <1>9, <2>1, PartPowerAbove
<1>11. Pow(b, n) * Pow(supply - amount, m) <= Pow(b - v, n) * Pow(supply, m)
  <2>1. supply - amount \in Nat /\ supply - amount <= supply
    BY <1>5
  <2> QED
    BY <1>1, <1>9, <1>10, <2>1, ExponentToWeights
<1> QED
  BY <1>3, <1>4, <1>11

LEMMA SmallDepositOfAmount ==
  ASSUME NEW in, in.balance \in Nat, in.scalar \in Nat \ {0}, in.weight \in MIN_WEIGHT .. MAX_WEIGHT,
         NEW supply \in Nat, NEW amount \in Nat, NEW fee \in 0 .. MAX_FEE,
         NEW v \in CalcLpTokenAmountGivenTokenDepositsIn(in, supply, amount, fee),
         amount * BONE <= CPOW_PRECISION * in.balance,
         NEW m \in Nat, NEW n \in Nat, n * in.weight = m * STROOP
  PROVE  /\ v \in Int
         /\ Pow(supply + v, n) * Pow(in.balance, m) <= Pow(supply, n) * Pow(in.balance + amount, m)
<1> DEFINE exp == in.weight * STROOP_SCALAR
           Paid(base, power) ==
             /\ power \in Int /\ v \in Int /\ in.balance # 0
             /\ (supply + v) * BONE <= supply * power /\ v >= 0
             /\ base * in.balance <= (in.balance + amount) * BONE
             /\ BONE <= base
<1>1. PICK base \in Nat \ {0} : \E power \in CPow(base, exp, FALSE) : Paid(base, power)
  BY DepositOfAmountByPower
<1>2. PICK power \in CPow(base, exp, FALSE) : Paid(base, power)
  BY <1>1
<1>3. PICK b \in Nat \ {0}, w \in Nat \ {0} : b = in.balance /\ w = in.weight
  BY <1>2, WeightIsPositive
<1>4. base <= BONE + CPOW_PRECISION /\ BONE - CPOW_PRECISION <= base /\ base \in Int /\ base \in Nat
  <2>1. base \in Int /\ amount \in Int /\ base * b <= (b + amount) * BONE
        /\ amount * BONE <= CPOW_PRECISION * b
    BY <1>2, <1>3
  <2>2. base <= BONE + CPOW_PRECISION
    BY <2>1, NearAbove
  <2>3. BONE \in Nat /\ CPOW_PRECISION \in Nat
    BY NumAssumption
  <2> QED
    BY <1>2, <2>1, <2>2, <2>3
<1>5. exp \in Nat /\ exp * n = m * BONE
  <2>1. STROOP \in Nat /\ STROOP_SCALAR \in Nat /\ BONE = STROOP * STROOP_SCALAR
    BY MathAssumption
  <2>2. exp * n = (n * w) * STROOP_SCALAR /\ m * BONE = (m * STROOP) * STROOP_SCALAR
    BY <1>3, <2>1
  <2> QED
    BY <1>3, <2>1, <2>2
<1>6. /\ power \in Nat
      /\ Pow(power, BONE) * Pow(BONE, exp) <= Pow(base, exp) * Pow(BONE, BONE)
  BY <1>2, <1>4, NearOneBelow
<1> HIDE DEF exp
<1>7. supply + v \in Nat /\ b + amount \in Nat /\ b <= b + amount /\ b \in Nat
  BY <1>2
<1>8. Pow(supply + v, BONE) * Pow(b, exp) <= Pow(supply, BONE) * Pow(b + amount, exp)
  <2>1. base * b <= (b + amount) * BONE /\ (supply + v) * BONE <= supply * power
    BY <1>2, <1>3
  <2> QED
    BY <1>4, <1>5, <1>6, <1>7, <2>1, PartPowerBelow
<1>9. exp * n <= m * BONE
  <2>1. exp * n \in Nat
    BY <1>5
  <2> QED
    BY <1>5, <2>1
<1>10. Pow(supply + v, n) * Pow(b, m) <= Pow(supply, n) * Pow(b + amount, m)
  BY <1>5, <1>7, <1>8, <1>9, ExponentToWeights
<1> QED
  BY <1>2, <1>3, <1>10

LEMMA SmallWithdrawalOfAmount ==
  ASSUME NEW out, out.balance \in Nat, out.scalar \in Nat \ {0},
         out.weight \in MIN_WEIGHT .. MAX_WEIGHT,
         NEW supply \in Nat, NEW amount \in Nat, NEW fee \in 0 .. MAX_FEE,
         NEW v \in CalcLpTokenAmountGivenTokenWithdrawalAmount(out, supply, amount, fee),
         2 * amount * BONE <= CPOW_PRECISION * out.balance,
         NEW m \in Nat, NEW n \in Nat, n * out.weight = m * STROOP
  PROVE  /\ v \in Int
         /\ Pow(supply - v, n) * Pow(out.balance, m)
              <= Pow(supply, n) * Pow(out.balance - amount, m)
<1> DEFINE exp == out.weight * STROOP_SCALAR
           Paid(base, power) ==
             /\ power \in Int /\ v \in Int /\ out.balance # 0
             /\ (supply - v) * BONE <= supply * power /\ (power >= 0 => v <= supply)
             /\ base * out.balance <= (out.balance - amount) * BONE
             /\ \A k \in Int : k * out.balance <= (out.balance - 2 * amount) * BONE => k <= base
<1>1. PICK base \in Nat \ {0} : \E power \in CPow(base, exp, FALSE) : Paid(base, power)
  BY WithdrawOfAmountByPower
<1>2. PICK power \in CPow(base, exp, FALSE) : Paid(base, power)
  BY <1>1
<1>3. PICK b \in Nat \ {0}, w \in Nat \ {0} : b = out.balance /\ w = out.weight
  BY <1>2, WeightIsPositive
<1>4. base \in Int /\ base \in Nat /\ amount \in Int
      /\ BONE \in Nat \ {0} /\ CPOW_PRECISION \in Nat
  BY NumAssumption
<1>5. base <= BONE + CPOW_PRECISION
  <2>1. base * b <= (b + (-amount)) * BONE
    BY <1>2, <1>3
  <2>2. (-amount) * BONE <= CPOW_PRECISION * b /\ -amount \in Int
    <3>1. amount * BONE \in Nat /\ (-amount) * BONE = -(amount * BONE) /\ CPOW_PRECISION * b \in Nat
      BY <1>4
    <3> QED
      BY <3>1
  <2> QED
    BY <1>4, <2>1, <2>2, NearAbove
<1>6. BONE - CPOW_PRECISION <= base
  <2>1. 2 * amount * BONE <= CPOW_PRECISION * b /\ b \in Nat
    BY <1>3
  <2>2. (BONE - CPOW_PRECISION) * b <= (b - 2 * amount) * BONE /\ BONE - CPOW_PRECISION \in Int
    BY <1>4, <2>1, NearRounded
  <2> QED
    BY <1>2, <1>3, <2>2
<1>7. exp \in Nat /\ exp * n = m * BONE
  <2>1. STROOP \in Nat /\ STROOP_SCALAR \in Nat /\ BONE = STROOP * STROOP_SCALAR
    BY MathAssumption
  <2>2. exp * n = (n * w) * STROOP_SCALAR /\ m * BONE = (m * STROOP) * STROOP_SCALAR
    BY <1>3, <2>1
  <2> QED
    BY <1>3, <2>1, <2>2
<1>8. /\ power \in Nat
      /\ Pow(power, BONE) * Pow(BONE, exp) <= Pow(base, exp) * Pow(BONE, BONE)
  BY <1>2, <1>4, <1>5, <1>6, NearOneBelow
<1> HIDE DEF exp
<1>9. supply - v \in Nat
  BY <1>2, <1>8
<1>10. b - amount \in Nat
  <2>1. b * base <= (b - amount) * BONE /\ b - amount \in Int /\ b \in Nat
    BY <1>2, <1>3
  <2> QED
    BY <1>4, <2>1, LeavesABalance
<1>11. Pow(supply - v, BONE) * Pow(b, exp) <= Pow(supply, BONE) * Pow(b - amount, exp)
  <2>1. base * b <= (b - amount) * BONE /\ (supply - v) * BONE <= supply * power /\ b \in Nat
    BY <1>2, <1>3
  <2> QED
    BY <1>4, <1>7, <1>8, <1>9, <1>10, <2>1, PartPowerBelow
<1>12. m * BONE <= exp * n
  <2>1. exp * n \in Nat
    BY <1>7
  <2> QED
    BY <1>7, <2>1
<1>13. Pow(supply - v, n) * Pow(b, m) <= Pow(supply, n) * Pow(b - amount, m)
  <2>1. b - amount <= b /\ b # 0 /\ b \in Nat
    OBVIOUS
  <2> QED
    BY <1>7, <1>9, <1>10, <1>11, <1>12, <2>1, ExponentToWeights
<1> QED
  BY <1>2, <1>3, <1>13
=============================================================================
