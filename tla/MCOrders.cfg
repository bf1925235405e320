\* Three orders of two accounts, one of them for P1InverseOrders.
CONSTANTS
    N = 2
    orders = orders
    inverse = inverse
    spot = spot
    funderA = funderA
    open = open
    reduce = reduce
    rebate = rebate
    Anyone = Anyone
    Operator = {orders, inverse}
    P1Orders = orders
    P1InverseOrders = inverse
    BASE = 2
    Feed <- PriceOne
    Funding <- NoFunding
    TraderFlag = {1}
    Delegate = {}
    MinCollateral = {2}
    Amount = {2}
    MaxUint120 = 2
    MaxUint128 = 1
    MaxTime = 1
    TokenSupply = 2
    OrderHash = {open, reduce, rebate}
    Terms <- ThreeOrders
    Signed = {open, reduce}
    Fills <- SomeFills
SPECIFICATION OrdersSpec
INVARIANT PositionsBacked
PROPERTIES CancelIsPermanent DecreaseOnlyDecreases MakersLimitKept
