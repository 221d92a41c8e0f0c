-------------------------------- MODULE Fees --------------------------------
(***************************************************************************)
(* The platform fee and the arithmetic of shares and percentages.          *)
(***************************************************************************)
EXTENDS Integers

CONSTANT
    FeeBps            \* the platform fee, in basis points

ASSUME FeesAssumption == FeeBps \in 0 .. 1000

\* checked_mul_div_i128, rounding down; the amounts are far from overflow.
checked_mul_div(value, multiplier, divisor) == (value * multiplier) \div divisor

\* The part of a deposit that goes to the treasury.
PlatformFee(amount) == checked_mul_div(amount, FeeBps, 10000)
=============================================================================
