SPECIFICATION Spec
CONSTANTS
    Free = Free
    Cap = 2
    MaxReport = 3
    MaxRequest = 3
    MaxConn = 2
INVARIANTS
    PayloadsFreedOnce
    NothingStale
PROPERTIES
    RingsAreQueues
    InOrder
