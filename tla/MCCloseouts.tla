------------------------------ MODULE MCCloseouts ------------------------------
(* An instance of PerpetualCloseouts for TLC. *)
EXTENDS PerpetualCloseouts, TLC

CONSTANTS liquidation, deleveraging, proxy, orders, spot, funderA

SomePrices == spot :> {1, 3}
SomeFunding == funderA :> {2}

\* Account 1 is in trouble or comes into it, on either side; the others have the
\* other side, and maybe margin to take over with.
Stocks ==
    {\* Its debts are covered, but not to the requirement, at the higher price.
     <<[margin |-> -4, position |-> 4], [margin |-> 6, position |-> -4], [margin |-> 3, position |-> 0]>>,
     \* Mostly under water, against one that can take all of it.
     <<[margin |-> -5, position |-> 3], [margin |-> 6, position |-> -3], [margin |-> 0, position |-> 0]>>,
     <<[margin |-> 4, position |-> -3], [margin |-> -2, position |-> 3], [margin |-> 0, position |-> 0]>>,
     \* Against two, neither of whom can take all of it.
     <<[margin |-> -5, position |-> 3], [margin |-> 5, position |-> -2], [margin |-> 3, position |-> -1]>>}

Trades == {[maker |-> 1, taker |-> 2,
            result |-> [marginAmount |-> 6, positionAmount |-> 1,
                        isBuy |-> TRUE, traderFlags |-> {1}]]}
MaxPositions == {-2, 1, 4}
AllThree == {{1, 2, 3}}
=============================================================================
