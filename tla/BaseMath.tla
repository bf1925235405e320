------------------------------- MODULE BaseMath -------------------------------
(***************************************************************************)
(* BaseMath.sol: products of fixed-point numbers, whose unit is BASE.      *)
(***************************************************************************)
EXTENDS Integers

CONSTANT BASE    \* BaseMath.BASE, the fixed-point unit

ASSUME BaseAssumption == BASE \in Nat \ {0}

Abs(x) == IF x < 0 THEN -x ELSE x

BaseMul(value, baseValue) == (value * baseValue) \div BASE

BaseMulRoundUp(value, baseValue) ==
    IF value * baseValue = 0
    THEN 0
    ELSE (value * baseValue - 1) \div BASE + 1
=============================================================================
