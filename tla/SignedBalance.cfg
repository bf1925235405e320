\* Magnitudes up to 4 with both flags on zero; halves round (BASE = 2).
CONSTANTS
    BASE = 2
    MaxUint120 = 4
    Amount = {0, 1, 3}
    IndexValue = {0, 1, 3}
    Price = {0, 1, 3}
    MinCollateral = {1, 2, 3}
SPECIFICATION Spec
INVARIANT FinalCheckIgnoresZeroFlags
PROPERTY ImplementsIntegers
