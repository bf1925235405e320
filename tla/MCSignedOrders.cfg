\* An ask and a bid at prices and fees that round up and down, signed in every
\* way by wallets of every kind.
SPECIFICATION SignedSpec
CONSTANTS
  ask = ask
  bid = bid
  alice = alice
  operator = operator
  nobody = nobody
  Slot = {ask, bid}
  Buys = {bid}
  Account = {alice}
  Operator = operator
  Nobody = nobody
  Amounts = {14, 15}
  Prices = {4, 5}
  Fees <- RoundingFees
  Rebate <- MCRebate
  LargeFee <- MCLargeFee
  SmallFee <- MCSmallFee
  SmallAmount = 15
  Lifetimes = {1}
  Salts = {3}
  SaltRange = 2
  MixedCase = {TRUE}
  Takers = {operator}
  Methods = {"Hash", "UnsafeHash", "Compatibility"}
  NodePrepends = {"none", "hexadecimal"}
  NodeVs = {"00", "other"}
  MaxTime = 1
INVARIANTS ValidStaysValid MatchIsFillable ClientCheckAgrees
CHECK_DEADLOCK FALSE
