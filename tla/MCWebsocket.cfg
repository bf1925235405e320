\* Two sockets that may share a request id, while rows change at any time; peers
\* vanish, the database fails.
CONSTANTS
    alice = alice
    bob = bob
    nobody = nobody
    Anyone = Anyone
    Client = {1, 2}
    RequestId = {1}
    Item = {1, 2}
    About <- TwoOrders
    Opts <- ByClient
    PerPage = 1
    MaxReads = 1
    MaxNews = 2
    Stored <- BothStored
    Written = {2}
    Expiring = {1}
SPECIFICATION Spec
INVARIANTS MapsAreLive OnlyWhatWasAsked NothingMissed
PROPERTIES VanishedAreClosed RowsReachSubscribers
CHECK_DEADLOCK FALSE
