----------------------------- MODULE MCOrderBook -----------------------------
(***************************************************************************)
(* An instance of OrderBookService for TLC.                                *)
(***************************************************************************)
EXTENDS OrderBookService

CONSTANTS ask1, ask2, bid1, bid2

Limit(isBuy, amount, limitPrice, expiration) ==
    [isBuy |-> isBuy, amount |-> amount, limitPrice |-> limitPrice,
     expiration |-> expiration]

\* Asks at 1 and 2, a bid that takes both and one that takes the cheaper; the
\* cheaper ask expires first.
FourOrders ==
    ask1 :> Limit(FALSE, 2, 1, 1) @@ ask2 :> Limit(FALSE, 1, 2, 3)
      @@ bid1 :> Limit(TRUE, 2, 2, 3) @@ bid2 :> Limit(TRUE, 2, 1, 2)
\* A cancellation of one order on each side.
BothCanceled == {{ask1, bid1}}
=============================================================================
