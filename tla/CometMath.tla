----------------------------- MODULE CometMath -----------------------------
(***************************************************************************)
(* contracts/src/c_math.rs: what the pool charges and pays, and the        *)
(* constants of contracts/src/c_consts.rs it is computed with.             *)
(*                                                                         *)
(* As in CometNum, an operator returns {v} for a Rust function that        *)
(* returns v and {} for one that panics.  Balances and amounts of a token  *)
(* are scaled up to the common denominator BONE, combined there, and       *)
(* scaled down again, rounding at every step for the benefit of the pool.  *)
(***************************************************************************)
EXTENDS CometNum

CONSTANTS
  STROOP,          \* the number 1 of weights, fees, prices and LP tokens
  STROOP_SCALAR    \* from the scale of STROOP to the scale of BONE

ASSUME MathAssumption ==
  /\ STROOP \in Nat \ {0}
  /\ STROOP_SCALAR \in Nat \ {0}
  /\ BONE = STROOP * STROOP_SCALAR
  /\ BONE <= I128Max

MAX_IN_RATIO  == STROOP \div 3 + 1
MAX_OUT_RATIO == STROOP \div 3 + 1
MAX_FEE       == STROOP \div 10
MIN_WEIGHT    == STROOP \div 10
MAX_WEIGHT    == MIN_WEIGHT * 9

\* What may leave a balance at once is less than all of it: holds for every
\* STROOP but 1, and 10^7 is the one in the code.
ASSUME RatioAssumption == MAX_OUT_RATIO < STROOP

\* No token weighs nothing: holds for every STROOP from 10.
ASSUME WeightAssumption == MIN_WEIGHT > 0

\* No weight is so small, as the exponent of a power, that a series of one
\* term misses the power by more than one unit: 9 * (10^8 + 1)^2 <= 10^18.
ASSUME PrecisionAssumption ==
  (STROOP - MIN_WEIGHT) * ((CPOW_PRECISION + 1) * (CPOW_PRECISION + 1)) <= MIN_WEIGHT * BONE

(***************************************************************************)
(* Scaling.  `amount * scalar` is an i128 product: a caller requires that  *)
(* each of its arguments CanUpscale.  Afterwards everything is 256 bits    *)
(* wide, which none of the expressions below can exceed.                   *)
(***************************************************************************)
\* Mutant of CanUpscale: the product is taken in 256 bits.
CanUpscaleInto256(amount, scalar) == amount * scalar >= 0

CanUpscale(amount, scalar) == Checked(amount * scalar) # {}

DownscaleFloor(amount, scalar) == Checked(FixedDivFloor(amount, scalar, 1))
DownscaleCeil(amount, scalar)  == Checked(FixedDivCeil(amount, scalar, 1))

\* The price of one token in terms of the other, fee included; no upscaling.
CalcSpotPrice(in, out, swapFee) ==
  UNION {NarrowDivFloor(ratio, STROOP - swapFee, STROOP) :
           ratio \in UNION {NarrowDivFloor(n, d, STROOP) :
                             n \in NarrowDivFloor(in.balance, in.weight, STROOP),
                             d \in NarrowDivFloor(out.balance, out.weight, STROOP)}}
-----------------------------------------------------------------------------
(***************************************************************************)
(* Swaps.  fee_adjust_ratio and weight_ratio are the complement of the fee *)
(* and the ratio of the weights, at the scale of BONE.                     *)
(***************************************************************************)
\* Mutant of CalcTokenOutGivenTokenIn: the payout is rounded up.
CalcTokenOutRoundedUp(in, out, amountIn, swapFee) ==
  LET balanceIn  == in.balance * in.scalar
      adjustedIn == FixedMulFloor(amountIn * in.scalar, (STROOP - swapFee) * STROOP_SCALAR, BONE)
      base       == FixedDivCeil(balanceIn, balanceIn + adjustedIn, BONE)
      exponent   == FixedDivFloor(in.weight, out.weight, STROOP) * STROOP_SCALAR
  IN UNION {DownscaleCeil(FixedMulCeil(out.balance * out.scalar, BONE - power, BONE), out.scalar) :
              power \in CPow(base, exponent, TRUE)}

CalcTokenOutGivenTokenIn(in, out, amountIn, swapFee) ==
  LET balanceIn      == in.balance * in.scalar
      balanceOut     == out.balance * out.scalar
      feeAdjustRatio == (STROOP - swapFee) * STROOP_SCALAR
      weightRatio    == FixedDivFloor(in.weight, out.weight, STROOP) * STROOP_SCALAR
      adjustedIn     == FixedMulFloor(amountIn * in.scalar, feeAdjustRatio, BONE)
      base           == FixedDivCeil(balanceIn, balanceIn + adjustedIn, BONE)
      balanceRatio   == UNION {SubNoNegative(BONE, power) :
                                 power \in CPow(base, weightRatio, TRUE)}
  IN IF /\ CanUpscale(in.balance, in.scalar)
        /\ CanUpscale(out.balance, out.scalar)
        /\ CanUpscale(amountIn, in.scalar)
        /\ balanceIn + adjustedIn # 0
       THEN UNION {DownscaleFloor(FixedMulFloor(balanceOut, r, BONE), out.scalar) :
                     r \in balanceRatio}
       ELSE {}

CalcTokenInGivenTokenOut(in, out, amountOut, swapFee) ==
  LET balanceIn      == in.balance * in.scalar
      balanceOut     == out.balance * out.scalar
      balanceAfter   == balanceOut - amountOut * out.scalar
      feeAdjustRatio == (STROOP - swapFee) * STROOP_SCALAR
      weightRatio    == FixedDivCeil(out.weight, in.weight, STROOP) * STROOP_SCALAR
      base           == FixedDivCeil(balanceOut, balanceAfter, BONE)
      balanceRatio   == UNION {SubNoNegative(power, BONE) :
                                 power \in CPow(base, weightRatio, TRUE)}
  IN IF /\ CanUpscale(in.balance, in.scalar)
        /\ CanUpscale(out.balance, out.scalar)
        /\ CanUpscale(amountOut, out.scalar)
        /\ balanceAfter > 0   \* a base that is not positive is refused by c_pow
       THEN UNION {DownscaleCeil(FixedDivCeil(FixedMulCeil(balanceIn, r, BONE),
                                              feeAdjustRatio, BONE),
                                 in.scalar) :
                     r \in balanceRatio}
       ELSE {}
-----------------------------------------------------------------------------
(***************************************************************************)
(* Deposits and withdrawals of one token.  A part 1 - weight of the amount *)
(* is in effect swapped for the other tokens, and only that part pays the  *)
(* fee: AfterFee(weight, fee) is the share of the amount that is left.     *)
(***************************************************************************)
AfterFee(weight, swapFee) ==
  BONE - FixedMulFloor(BONE - weight * STROOP_SCALAR, swapFee * STROOP_SCALAR, BONE)

\* Mutant of CalcLpTokenAmountGivenTokenDepositsIn: the shares are not raised
\* to the power of the weight.
CalcLpTokenAmountUnweighted(in, poolSupply, amountIn, swapFee) ==
  LET credited == FixedMulFloor(amountIn, AfterFee(in.weight, swapFee), BONE)
  IN IF in.balance = 0 THEN {} ELSE {(poolSupply * credited) \div in.balance}

CalcLpTokenAmountGivenTokenDepositsIn(in, poolSupply, amountIn, swapFee) ==
  LET balance   == in.balance * in.scalar
      supply    == poolSupply * STROOP_SCALAR
      credited  == FixedMulFloor(amountIn * in.scalar, AfterFee(in.weight, swapFee), BONE)
      ratio     == FixedDivFloor(balance + credited, balance, BONE)
      newSupply == {FixedMulFloor(p, supply, BONE) :
                      p \in CPow(ratio, in.weight * STROOP_SCALAR, FALSE)}
  IN IF /\ CanUpscale(in.balance, in.scalar)
        /\ CanUpscale(amountIn, in.scalar)
        /\ CanUpscale(poolSupply, STROOP_SCALAR)
        /\ balance # 0
       THEN UNION {DownscaleFloor(minted, STROOP_SCALAR) :
                     minted \in UNION {SubNoNegative(n, supply) : n \in newSupply}}
       ELSE {}

CalcTokenDepositsInGivenLpTokenAmount(in, poolSupply, amountOut, swapFee) ==
  LET balance    == in.balance * in.scalar
      supply     == poolSupply * STROOP_SCALAR
      ratio      == FixedDivCeil(supply + amountOut * STROOP_SCALAR, supply, BONE)
      exponent   == FixedDivCeil(BONE, in.weight * STROOP_SCALAR, BONE)
      newBalance == {FixedMulCeil(balance, p, BONE) : p \in CPow(ratio, exponent, TRUE)}
  IN IF /\ CanUpscale(in.balance, in.scalar)
        /\ CanUpscale(amountOut, STROOP_SCALAR)
        /\ CanUpscale(poolSupply, STROOP_SCALAR)
        /\ supply # 0
       THEN UNION {DownscaleCeil(FixedDivCeil(credited, AfterFee(in.weight, swapFee), BONE),
                                 in.scalar) :
                     credited \in UNION {SubNoNegative(n, balance) : n \in newBalance}}
       ELSE {}

CalcLpTokenAmountGivenTokenWithdrawalAmount(out, poolSupply, amountOut, swapFee) ==
  LET balance   == out.balance * out.scalar
      supply    == poolSupply * STROOP_SCALAR
      beforeFee == FixedDivCeil(amountOut * out.scalar, AfterFee(out.weight, swapFee), BONE)
      ratio     == FixedDivFloor(balance - beforeFee, balance, BONE)
      newSupply == {FixedMulFloor(p, supply, BONE) :
                      p \in CPow(ratio, out.weight * STROOP_SCALAR, FALSE)}
  IN IF /\ CanUpscale(out.balance, out.scalar)
        /\ CanUpscale(amountOut, out.scalar)
        /\ CanUpscale(poolSupply, STROOP_SCALAR)
        /\ balance # 0
       THEN UNION {DownscaleCeil(burned, STROOP_SCALAR) :
                     burned \in UNION {SubNoNegative(supply, n) : n \in newSupply}}
       ELSE {}

\* Mutant of CalcTokenWithdrawalAmountGivenLpTokenAmount: the balance that is
\* to be left is rounded down.
CalcTokenWithdrawalLeavesLess(out, poolSupply, amountIn, swapFee) ==
  LET balance  == out.balance * out.scalar
      supply   == poolSupply * STROOP_SCALAR
      ratio    == FixedDivFloor(supply - amountIn * STROOP_SCALAR, supply, BONE)
      exponent == FixedDivFloor(BONE, out.weight * STROOP_SCALAR, BONE)
  IN IF supply = 0 THEN {}
     ELSE UNION {DownscaleCeil(FixedMulFloor(balance - FixedMulFloor(balance, p, BONE),
                                             AfterFee(out.weight, swapFee), BONE), out.scalar) :
                   p \in CPow(ratio, exponent, FALSE)}

CalcTokenWithdrawalAmountGivenLpTokenAmount(out, poolSupply, amountIn, swapFee) ==
  LET balance    == out.balance * out.scalar
      supply     == poolSupply * STROOP_SCALAR
      ratio      == FixedDivCeil(supply - amountIn * STROOP_SCALAR, supply, BONE)
      exponent   == FixedDivFloor(BONE, out.weight * STROOP_SCALAR, BONE)
      newBalance == {FixedMulCeil(balance, p, BONE) : p \in CPow(ratio, exponent, TRUE)}
  IN IF /\ CanUpscale(out.balance, out.scalar)
        /\ CanUpscale(amountIn, STROOP_SCALAR)
        /\ CanUpscale(poolSupply, STROOP_SCALAR)
        /\ supply # 0
       THEN UNION {DownscaleFloor(FixedMulFloor(beforeFee, AfterFee(out.weight, swapFee), BONE),
                                  out.scalar) :
                     beforeFee \in UNION {SubNoNegative(balance, n) : n \in newBalance}}
       ELSE {}
-----------------------------------------------------------------------------
(***************************************************************************)
(* Proportional joins and exits: one ratio, applied to every bound token.  *)
(***************************************************************************)
\* Mutant of CalcJoinRatio: a pool without shares can be joined afresh.
CalcJoinRatioOfEmptyPool(poolSupply, amountOut) ==
  IF poolSupply = 0 THEN {BONE}
  ELSE {FixedDivCeil(amountOut * STROOP_SCALAR, poolSupply * STROOP_SCALAR, BONE)}

CalcJoinRatio(poolSupply, amountOut) ==
  IF /\ CanUpscale(poolSupply, STROOP_SCALAR)
     /\ CanUpscale(amountOut, STROOP_SCALAR)
     /\ poolSupply # 0
    THEN {FixedDivCeil(amountOut * STROOP_SCALAR, poolSupply * STROOP_SCALAR, BONE)}
    ELSE {}

\* Mutant of CalcJoinDepositAmount: the deposit is rounded down.
CalcJoinDepositRoundedDown(in, joinRatio) ==
  DownscaleFloor(FixedMulFloor(in.balance * in.scalar, joinRatio, BONE), in.scalar)

CalcJoinDepositAmount(in, joinRatio) ==
  IF CanUpscale(in.balance, in.scalar)
    THEN DownscaleCeil(FixedMulCeil(in.balance * in.scalar, joinRatio, BONE), in.scalar)
    ELSE {}

\* Mutant of CalcExitRatio: rounded down by one unit more, to be safe.
CalcExitRatioNudged(poolSupply, amountIn) ==
  IF poolSupply = 0 THEN {}
  ELSE {FixedDivFloor(amountIn * STROOP_SCALAR, poolSupply * STROOP_SCALAR, BONE) - 1}

CalcExitRatio(poolSupply, amountIn) ==
  IF /\ CanUpscale(poolSupply, STROOP_SCALAR)
     /\ CanUpscale(amountIn, STROOP_SCALAR)
     /\ poolSupply # 0
    THEN {FixedDivFloor(amountIn * STROOP_SCALAR, poolSupply * STROOP_SCALAR, BONE)}
    ELSE {}

\* Mutant of CalcExitWithdrawalAmount: the payout is rounded up.
CalcExitWithdrawalRoundedUp(out, exitRatio) ==
  DownscaleCeil(FixedMulCeil(out.balance * out.scalar, exitRatio, BONE), out.scalar)

CalcExitWithdrawalAmount(out, exitRatio) ==
  IF CanUpscale(out.balance, out.scalar)
    THEN DownscaleFloor(FixedMulFloor(out.balance * out.scalar, exitRatio, BONE), out.scalar)
    ELSE {}
=============================================================================
