------------------------------- MODULE P1Math -------------------------------
(***************************************************************************)
(* The arithmetic shared by the contracts: what P1BalanceMath.sol and      *)
(* P1Settlement.sol compute from one balance.                              *)
(*                                                                         *)
(* Fixed-point numbers have BASE (10^18 in BaseMath.sol) as their unit.    *)
(* The contracts hold a signed number as a magnitude and a flag; here it   *)
(* is an integer, and SignedBalance proves that nothing is lost by that.   *)
(***************************************************************************)
EXTENDS BaseMath

CONSTANT MaxUint120   \* largest magnitude of a stored margin or position

ASSUME MathAssumption == BASE \in Nat \ {0} /\ MaxUint120 \in Nat

Uint120 == -MaxUint120..MaxUint120
Balance == [margin: Uint120, position: Uint120]

FitsUint120(x) == Abs(x) <= MaxUint120
Fits(balance) == FitsUint120(balance.margin) /\ FitsUint120(balance.position)

-----------------------------------------------------------------------------
(* What a balance is worth: its assets and its debts, in units of 1/BASE.  *)

PositiveValue(balance, price) ==
    (IF balance.margin > 0 THEN balance.margin * BASE ELSE 0)
      + (IF balance.position > 0 THEN balance.position * price ELSE 0)

NegativeValue(balance, price) ==
    (IF balance.margin < 0 THEN -balance.margin * BASE ELSE 0)
      + (IF balance.position < 0 THEN -balance.position * price ELSE 0)

IsCollateralized(balance, price, requirement) ==
    PositiveValue(balance, price) * BASE
        >= NegativeValue(balance, price) * requirement

\* Fault: only the size of the position is compared.
SmallerPosition(initial, current, price) ==
    /\ Abs(current.position) <= Abs(initial.position)
    /\ NegativeValue(initial, price) # 0

\* What _verifyAccountsFinalBalances requires of an account that a trade leaves
\* undercollateralized: it must have been brought closer to collateralization.
\* baseDivMul divides a margin's value by BASE, which is exact.
Improved(initial, current, price) ==
    LET initialPos == PositiveValue(initial, price)
        initialNeg == NegativeValue(initial, price)
        currentPos == PositiveValue(current, price)
        currentNeg == NegativeValue(current, price)
    IN  /\ currentPos # 0
        /\ Abs(current.position) <= Abs(initial.position)
        /\ (current.position > 0) = (initial.position > 0)
        /\ initialNeg # 0
        /\ IF current.position > 0
           THEN (currentNeg \div BASE) * initialPos
                  <= (initialNeg \div BASE) * currentPos
           ELSE (initialPos \div BASE) * currentNeg
                  <= (currentPos \div BASE) * initialNeg

-----------------------------------------------------------------------------
(* The funding an account is paid when the index has moved by indexDiff.   *)

\* Fault: debits are rounded down as credits are.
SettlementRoundedDown(indexDiff, position) ==
    IF indexDiff * position < 0
    THEN BaseMul(Abs(indexDiff), Abs(position))
    ELSE -BaseMul(Abs(indexDiff), Abs(position))

\* Longs pay when the index has risen, shorts when it has fallen.  Credits are
\* rounded down and debits up, so that rounding never costs the contract.
Settlement(indexDiff, position) ==
    IF indexDiff * position < 0
    THEN BaseMul(Abs(indexDiff), Abs(position))
    ELSE -BaseMulRoundUp(Abs(indexDiff), Abs(position))
=============================================================================
