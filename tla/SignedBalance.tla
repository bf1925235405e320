---------------------------- MODULE SignedBalance ----------------------------
(***************************************************************************)
(* A balance as the contract stores it: magnitudes with a sign flag each,  *)
(* and zero with either flag (P1Types.sol, SignedMath.sol,                 *)
(* P1BalanceMath.sol).  It implements IntegerBalance, and the comparisons  *)
(* P1Trade makes on the flags are those of integers.                       *)
(***************************************************************************)
EXTENDS P1Math

CONSTANTS
    Amount,      \* amounts by which a margin or a position is moved
    IndexValue,  \* magnitudes of the index
    Price,       \* oracle prices
    MinCollateral

ASSUME AmountAssumption ==
    /\ Amount \subseteq Nat /\ IndexValue \subseteq Nat /\ Price \subseteq Nat
    /\ MinCollateral \subseteq Nat

VARIABLES
    balance,     \* a P1Types.Balance in memory
    localIndex   \* the signed value of the index it is settled to

vars == <<balance, localIndex>>

-----------------------------------------------------------------------------
(* SignedMath                                                              *)

SignedInt == [value: Nat, isPositive: BOOLEAN]
ToInt(sint) == IF sint.isPositive THEN sint.value ELSE -sint.value
Pair(value, isPositive) == [value |-> value, isPositive |-> isPositive]

Add(sint, value) ==
    IF sint.isPositive THEN Pair(value + sint.value, TRUE)
    ELSE IF sint.value < value THEN Pair(value - sint.value, TRUE)
    ELSE Pair(sint.value - value, FALSE)

Sub(sint, value) ==
    IF ~sint.isPositive THEN Pair(value + sint.value, FALSE)
    ELSE IF sint.value > value THEN Pair(sint.value - value, TRUE)
    ELSE Pair(value - sint.value, FALSE)

Gt(a, b) ==
    IF a.isPositive
    THEN IF b.isPositive THEN a.value > b.value ELSE a.value # 0 \/ b.value # 0
    ELSE IF b.isPositive THEN FALSE ELSE a.value < b.value

-----------------------------------------------------------------------------
(* P1BalanceMath                                                           *)

PackedBalance ==
    [margin: 0..MaxUint120, marginIsPositive: BOOLEAN,
     position: 0..MaxUint120, positionIsPositive: BOOLEAN]

GetMargin(packed) == Pair(packed.margin, packed.marginIsPositive)
GetPosition(packed) == Pair(packed.position, packed.positionIsPositive)

SetMargin(packed, newMargin) ==
    [packed EXCEPT !.margin = newMargin.value,
                   !.marginIsPositive = newMargin.isPositive]

SetPosition(packed, newPosition) ==
    [packed EXCEPT !.position = newPosition.value,
                   !.positionIsPositive = newPosition.isPositive]

\* getPositiveAndNegativeValue, whose side of the sum is the flag's.
PackedPositive(packed, price) ==
    (IF packed.marginIsPositive THEN packed.margin * BASE ELSE 0)
      + (IF packed.positionIsPositive THEN packed.position * price ELSE 0)

PackedNegative(packed, price) ==
    (IF packed.marginIsPositive THEN 0 ELSE packed.margin * BASE)
      + (IF packed.positionIsPositive THEN 0 ELSE packed.position * price)

\* Fault: only the position is compared, not the collateralization.
PackedImprovedInSize(initial, current, price) ==
    /\ current.position <= initial.position
    /\ current.positionIsPositive = initial.positionIsPositive

\* The tests of _verifyAccountsFinalBalances on an undercollateralized account,
\* on the flags.
PackedImproved(initial, current, price) ==
    LET initialPos == PackedPositive(initial, price)
        initialNeg == PackedNegative(initial, price)
        currentPos == PackedPositive(current, price)
        currentNeg == PackedNegative(current, price)
    IN  /\ currentPos # 0
        /\ current.position <= initial.position
        /\ current.positionIsPositive = initial.positionIsPositive
        /\ initialNeg # 0
        /\ IF current.positionIsPositive
           THEN (currentNeg \div BASE) * initialPos
                  <= (initialNeg \div BASE) * currentPos
           ELSE (initialPos \div BASE) * currentNeg
                  <= (currentPos \div BASE) * initialNeg

Unpacked(packed) ==
    [margin |-> ToInt(GetMargin(packed)), position |-> ToInt(GetPosition(packed))]

-----------------------------------------------------------------------------
(* The operations on a balance.                                            *)

Init ==
    /\ balance = [margin |-> 0, marginIsPositive |-> FALSE,
                  position |-> 0, positionIsPositive |-> FALSE]
    /\ localIndex = Pair(0, FALSE)

\* toUint120 reverts when the magnitude does not fit.
StoreMargin(newMargin) ==
    newMargin.value <= MaxUint120 /\ balance' = SetMargin(balance, newMargin)

AddToMargin(amount) ==
    StoreMargin(Add(GetMargin(balance), amount)) /\ UNCHANGED localIndex

SubFromMargin(amount) ==
    StoreMargin(Sub(GetMargin(balance), amount)) /\ UNCHANGED localIndex

StorePosition(newPosition) ==
    newPosition.value <= MaxUint120 /\ balance' = SetPosition(balance, newPosition)

AddToPosition(amount) ==
    StorePosition(Add(GetPosition(balance), amount)) /\ UNCHANGED localIndex

SubFromPosition(amount) ==
    StorePosition(Sub(GetPosition(balance), amount)) /\ UNCHANGED localIndex

IndexDiff(newIndex) ==
    IF localIndex.isPositive THEN Sub(newIndex, localIndex.value)
                             ELSE Add(newIndex, localIndex.value)

\* Fault: a debit is credited when the index difference is negative.
SettleByIndexSign(newIndex) ==
    LET diff == IndexDiff(newIndex)
    IN  /\ localIndex' = newIndex
        /\ IF diff.isPositive
           THEN StoreMargin(Sub(GetMargin(balance),
                                BaseMulRoundUp(diff.value, balance.position)))
           ELSE StoreMargin(Add(GetMargin(balance),
                                BaseMul(diff.value, balance.position)))

\* _settleAccount once time has passed: a credit if the signs of the index
\* difference and of the position differ.
Settle(newIndex) ==
    LET diff == IndexDiff(newIndex)
    IN  /\ localIndex' = newIndex
        /\ \/ /\ balance.position = 0
              /\ UNCHANGED balance
           \/ /\ balance.position # 0
              /\ diff.isPositive # balance.positionIsPositive
              /\ StoreMargin(Add(GetMargin(balance),
                                 BaseMul(diff.value, balance.position)))
           \/ /\ balance.position # 0
              /\ diff.isPositive = balance.positionIsPositive
              /\ StoreMargin(Sub(GetMargin(balance),
                                 BaseMulRoundUp(diff.value, balance.position)))

Next ==
    \/ \E amount \in Amount :
          \/ AddToMargin(amount) \/ SubFromMargin(amount)
          \/ AddToPosition(amount) \/ SubFromPosition(amount)
    \/ \E value \in IndexValue, isPositive \in BOOLEAN : Settle(Pair(value, isPositive))

Spec == Init /\ [][Next]_vars

-----------------------------------------------------------------------------
(* Properties                                                              *)

TypeOK ==
    /\ balance \in PackedBalance
    /\ localIndex \in [value: IndexValue \cup {0}, isPositive: BOOLEAN]

Integers == INSTANCE IntegerBalance WITH
    margin <- ToInt(GetMargin(balance)),
    position <- ToInt(GetPosition(balance)),
    index <- ToInt(localIndex)

\* Arithmetic on magnitudes and flags is integer arithmetic, whichever flag a
\* zero has been left with, and funding is the rounded product of integers.
ImplementsIntegers == Integers!Spec

\* The final check of a trade, which compares flags, accepts the same balances
\* as the one on integers: the flag of a zero position or margin decides
\* nothing, from whatever balance the account started.
FinalCheckIgnoresZeroFlags ==
    \A initial \in PackedBalance, price \in Price, requirement \in MinCollateral :
        LET packedOk == PackedPositive(balance, price) * BASE
                          >= PackedNegative(balance, price) * requirement
            current == Unpacked(balance)
        IN  packedOk \/ PackedImproved(initial, balance, price)
              <=> \/ IsCollateralized(current, price, requirement)
                  \/ Improved(Unpacked(initial), current, price)

=============================================================================
