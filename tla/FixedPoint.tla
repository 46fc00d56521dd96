----------------------------- MODULE FixedPoint -----------------------------
(***************************************************************************)
(* The rounding arithmetic of the soroban_fixed_point_math crate, which is *)
(* not part of this repository and is modelled from how c_num.rs and       *)
(* c_math.rs call it.  A fixed-point number is an integer over a common    *)
(* denominator; a product or a quotient of two of them is rounded to an    *)
(* integer, towards minus infinity (floor) or towards plus infinity (ceil).*)
(***************************************************************************)
EXTENDS I128

(***************************************************************************)
(* On 256-bit numbers.  Nothing in this code base overflows them, and a    *)
(* caller of the two divisions sees to it that y, which is never negative, *)
(* is not zero either, where the crate would panic.                        *)
(***************************************************************************)
FixedMulFloor(x, y, denominator) == (x * y) \div denominator

FixedMulCeil(x, y, denominator) == -((-(x * y)) \div denominator)

FixedDivFloor(x, y, denominator) == (x * denominator) \div y

FixedDivCeil(x, y, denominator) == -((-(x * denominator)) \div y)

(***************************************************************************)
(* On i128 numbers: {} when the product does not fit or the divisor is 0.  *)
(***************************************************************************)
NarrowMulFloor(x, y, denominator) ==
  {product \div denominator : product \in Checked(x * y)}

NarrowDivFloor(x, y, denominator) ==
  IF y = 0 THEN {} ELSE {product \div y : product \in Checked(x * denominator)}
=============================================================================
