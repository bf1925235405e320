------------------------------- MODULE MCOrders -------------------------------
(***************************************************************************)
(* An instance of PerpetualOrders for TLC.                                 *)
(***************************************************************************)
EXTENDS PerpetualOrders, TLC

CONSTANTS orders, inverse, spot, funderA, open, reduce, rebate

PriceOne == spot :> {2}
NoFunding == funderA :> {0}

\* Account 1 opens a position with the one contract and may only reduce it again
\* with the other, trading with account 2, for a rebate and in the last second of
\* that order; account 2 wants a rebate too.
ThreeOrders ==
    LET common == [amount |-> 2, limitPrice |-> 2, triggerPrice |-> 0,
                   limitFee |-> 2, isNegativeLimitFee |-> FALSE, isBuy |-> TRUE,
                   isInverse |-> FALSE, isDecreaseOnly |-> FALSE, maker |-> 1,
                   taker |-> Anyone, expiration |-> 0]
    IN  open :> common
          @@ reduce :> [common EXCEPT !.isInverse = TRUE, !.isDecreaseOnly = TRUE,
                                      !.isNegativeLimitFee = TRUE, !.taker = 2,
                                      !.triggerPrice = 2, !.expiration = 1]
          @@ rebate :> [common EXCEPT !.amount = 1, !.maker = 2,
                                      !.isNegativeLimitFee = TRUE]

FillTerm(amount, price, fee, isNegativeFee) ==
    [amount |-> amount, price |-> price, fee |-> fee, isNegativeFee |-> isNegativeFee]

SomeFills ==
    {FillTerm(amount, price, fee, isNegativeFee) :
        amount \in {1, 2}, price \in {1, 2}, fee \in {0, 2}, isNegativeFee \in BOOLEAN}
=============================================================================
