------------------------------ MODULE OrderFills ------------------------------
(***************************************************************************)
(* What P1Orders and P1InverseOrders accept as a fill of an order, and the *)
(* trade they make of it (contracts/protocol/v1/traders).  In the inverse  *)
(* contract prices are in units of position per margin, and a maker who    *)
(* buys gets margin for position.                                          *)
(*                                                                         *)
(* An order: amount, limitPrice, triggerPrice, limitFee and                *)
(* isNegativeLimitFee, isBuy, isDecreaseOnly, maker, taker (or Anyone),    *)
(* expiration, and isInverse, whether it is made for P1InverseOrders.  A   *)
(* fill: amount, price, fee, isNegativeFee.                                *)
(***************************************************************************)
EXTENDS P1Math

OrderLimits ==
    [limitPrice: Nat, triggerPrice: Nat, limitFee: Nat,
     isNegativeLimitFee: BOOLEAN, isBuy: BOOLEAN, isInverse: BOOLEAN]

FillTerms == [amount: Nat, price: Nat, fee: Nat, isNegativeFee: BOOLEAN]

\* Whether the maker is to get position for margin.
TakesPosition(order) == order.isBuy # order.isInverse

\* The limit price bounds what a buyer pays and what a seller gets.
ValidPrice(order, fill) ==
    IF order.isBuy THEN fill.price <= order.limitPrice
                   ELSE fill.price >= order.limitPrice

\* Fault: a rebate of any size will do for a maker who wants one.
AnyRebate(order, fill) ==
    IF order.isNegativeLimitFee
    THEN fill.isNegativeFee
    ELSE fill.isNegativeFee \/ fill.fee <= order.limitFee

\* A negative limit fee is a rebate the maker wants at least.
ValidFee(order, fill) ==
    IF order.isNegativeLimitFee
    THEN fill.isNegativeFee /\ fill.fee >= order.limitFee
    ELSE fill.isNegativeFee \/ fill.fee <= order.limitFee

\* The trigger is compared with the oracle price, inverted in the inverse
\* contract, where a zero price reverts.
ValidTrigger(order, price) ==
    /\ order.isInverse => price # 0
    /\ \/ order.triggerPrice = 0
       \/ LET compared == IF order.isInverse THEN (BASE * BASE) \div price ELSE price
          IN  IF order.isBuy THEN order.triggerPrice <= compared
                             ELSE order.triggerPrice >= compared

\* A decrease-only fill is within the maker's position and against it.
DecreasesPosition(order, amount, position) ==
    /\ IF TakesPosition(order) THEN position <= 0 ELSE position >= 0
    /\ amount <= Abs(position)

\* Whether the fee is added to the price the order is filled at: a maker pays
\* more when buying and gets less when selling, unless the fee is negative.
AddsFee(order, fill) == order.isBuy # fill.isNegativeFee

\* P1Orders: margin per unit of position, the fee a share of the price.
MarginPerPosition(order, fill) ==
    LET fee == BaseMul(fill.fee, fill.price)
    IN  IF AddsFee(order, fill) THEN fill.price + fee ELSE fill.price - fee

\* P1InverseOrders: the share of the base amount that is exchanged.
FeeFactor(order, fill) ==
    IF AddsFee(order, fill) THEN BASE - fill.fee ELSE BASE + fill.fee

\* Where the subtraction of the fee underflows or the division is by zero, the
\* trade reverts.
Computable(order, fill) ==
    IF order.isInverse THEN fill.price # 0 /\ FeeFactor(order, fill) >= 0
               ELSE MarginPerPosition(order, fill) >= 0

\* What maker and taker exchange for the position.
MarginAmount(order, fill) ==
    IF order.isInverse
    THEN (fill.amount * FeeFactor(order, fill)) \div fill.price
    ELSE BaseMul(fill.amount, MarginPerPosition(order, fill))

\* The trade of a fill, whose isBuy is the taker's side of the position.
OrderTrade(order, fill) ==
    [marginAmount |-> MarginAmount(order, fill),
     positionAmount |-> fill.amount,
     isBuy |-> ~TakesPosition(order),
     traderFlags |-> {1}]

-----------------------------------------------------------------------------
(* Properties                                                              *)

\* The same amount filled at the order's own limits.
AtLimits(order, amount) ==
    [amount |-> amount, price |-> order.limitPrice, fee |-> order.limitFee,
     isNegativeFee |-> order.isNegativeLimitFee]

\* A fill that passes the price and fee checks costs the maker no more margin,
\* and brings no less, than one at the limits of the order: price and fee are
\* checked one by one, but together they decide what is paid.  A limit fee of
\* more than the price itself, or a sale at any price in the inverse contract,
\* sets no limit.
NoWorseThanLimits(order, fill) ==
    /\ ValidPrice(order, fill) /\ ValidFee(order, fill) /\ Computable(order, fill)
    /\ order.limitFee <= BASE
    /\ order.isInverse => order.limitPrice # 0
    => LET limit == MarginAmount(order, AtLimits(order, fill.amount))
       IN  IF TakesPosition(order) THEN MarginAmount(order, fill) <= limit
                                   ELSE MarginAmount(order, fill) >= limit
=============================================================================
