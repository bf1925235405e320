----------------------------- MODULE MCWebsocket -----------------------------
(***************************************************************************)
(* An instance of WebsocketService for TLC.                                *)
(***************************************************************************)
EXTENDS WebsocketService, TLC

CONSTANTS alice, bob, nobody

\* An order of each trader; the first page has room for one order only.
TwoOrders ==
    1 :> [channel |-> "orders", maker |-> alice, taker |-> nobody, amount |-> 1]
      @@ 2 :> [channel |-> "orders", maker |-> bob, taker |-> nobody, amount |-> 1]

\* The first of them is open, or filled and still in the way of the second.
BothStored == {1 :> 0 @@ 2 :> 0, 1 :> 1 @@ 2 :> 0}

\* One socket subscribes to all orders, the other to those of one trader.
All == [channel |-> "orders", maker |-> Anyone, taker |-> Anyone, trader |-> Anyone]
ByClient == 1 :> {All} @@ 2 :> {[All EXCEPT !.trader = bob]}
=============================================================================
