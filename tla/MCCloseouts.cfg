\* Liquidation, directly and through the proxy, and deleveraging of an account
\* against two others, after trades of orders or without.
CONSTANTS
    N = 3
    liquidation = liquidation
    deleveraging = deleveraging
    proxy = proxy
    orders = orders
    spot = spot
    funderA = funderA
    Operator = {liquidation, deleveraging, proxy, orders}
    P1Liquidation = liquidation
    P1Deleveraging = deleveraging
    P1LiquidatorProxy = proxy
    OrdersTrader = orders
    PriceReader = {deleveraging}
    Timelock = 1
    Fund = {2}
    Fees = {1}
    Sender = {orders, 2}
    Stock <- Stocks
    OrderTrades <- Trades
    Parties <- AllThree
    MaxPosition <- MaxPositions
    BASE = 2
    Feed <- SomePrices
    Funding <- SomeFunding
    TraderFlag = {1, 2, 4}
    Delegate = {}
    MinCollateral = {3}
    Amount = {1, 2}
    MaxUint120 = 6
    MaxUint128 = 3
    MaxTime = 2
    TokenSupply = 30
SPECIFICATION CloseoutsSpec
PROPERTIES CloseoutNeverHurts CloseoutsAccepted DeleveragedWereUnderwater
    DeleveragingCloses LiquidatorIsSafe
CHECK_DEADLOCK FALSE
