\* Two trades and three overlapping commits; sends may fail and answers be lost.
CONSTANTS
    Address <- SomeAddresses
    Trader = {orders}
    Call = {1, 2, 3}
    MaxTrades = 2
SPECIFICATION OperationSpec
INVARIANTS PayloadsAreAccepted TakenOnce
CHECK_DEADLOCK FALSE
