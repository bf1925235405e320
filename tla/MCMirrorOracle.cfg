\* Four signers, of which one may be faulty and two share a slot.
SPECIFICATION Spec
CONSTANTS
  alice = alice
  anne = anne
  bob = bob
  carl = carl
  Signer = {alice, anne, bob, carl}
  Nobody = nobody
  Id = {1, 2, 3}
  getSignerId <- FirstBytes
  Faulty = {carl}
  Value = {1, 2}
  Width = 4
  Forged = {3, 4}
  Bars = {1, 3}
  MaxTime = 2
INVARIANT SyncWorks
PROPERTY MedianIsHonest
