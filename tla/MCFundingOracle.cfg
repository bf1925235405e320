SPECIFICATION Spec
CONSTANTS
  BASE = 2
  MaxUint128 = 12
  MaxAbs = 4
  MaxDiff = 3
  IsInverse = TRUE
  alice = alice
  bob = bob
  Address = {alice, bob}
  Asked <- MCAsked
  Prices <- MCPrices
  MaxTime = 4
INVARIANTS ChangeBounded FundingBounded
PROPERTY SimulatedIsSet
