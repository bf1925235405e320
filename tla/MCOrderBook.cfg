\* Overlapping requests, re-posts and crashes; three requests for four orders.
CONSTANTS
    ask1 = ask1
    ask2 = ask2
    bid1 = bid1
    bid2 = bid2
    Order = {ask1, ask2, bid1, bid2}
    Terms <- FourOrders
    Cancelable <- BothCanceled
    Request = {1, 2, 3}
    MaxTime = 1
SPECIFICATION Spec
INVARIANTS NothingIsAhead InStep OperatorFlat MatchIsBest
PROPERTY Answered
CHECK_DEADLOCK FALSE
