\* The admin replaces the oracle, the funder, the requirement and the trader in
\* the middle of trading, and one account may act for the other.
CONSTANTS
    N = 2
    trader = trader
    spot = spot
    backup = backup
    funderA = funderA
    funderB = funderB
    Operator = {trader}
    BASE = 2
    Feed <- TwoFeeds
    Funding <- TwoFunders
    TraderFlag = {1}
    Delegate = {2}
    MinCollateral = {1, 3}
    Amount = {1}
    MaxUint120 = 1
    MaxUint128 = 1
    MaxTime = 2
    TokenSupply = 1
SPECIFICATION Spec
INVARIANTS TypeOK ZeroSum Solvent SkipIsSound PayoutsCovered
PROPERTIES NoAccountEndangered FinalIsFinal
