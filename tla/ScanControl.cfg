SPECIFICATION LiveSpec
CONSTANTS
    a = a  b = b
    Files = {a, b}
    Tree <- MCTree
    Buffer = 1
    Concurrency = 1
    Batch = 1
    MaxScans = 2
    MaxRequests = 3
CHECK_DEADLOCK FALSE
INVARIANTS ScanInv NothingMissed CancelledWasAsked PauseHolds
PROPERTIES
    CancelEndsScan
    ScanEnds
