SPECIFICATION FairReturnSpec
CONSTANTS
    p1 = p1
    Paths = {p1}
    Class <- Sizes
    Kept = {2, 3}
    IncomingCapacity = 1
    ProtectedCapacity = 1
    ReturnCapacity = 1
    Batch <- Batches
INVARIANTS ReturnedOnce
PROPERTIES WaitersWake
CHECK_DEADLOCK FALSE
