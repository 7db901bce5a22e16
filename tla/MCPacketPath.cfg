SPECIFICATION FairSpec
CONSTANTS
    Workers = {1, 2}
    TurnPath <- Apart
    Spared = {1}
    QueueCapacity = 2
    Chunk = 2
    MaxPackets = 3
    MaxSessions = 2
INVARIANTS EachCopyOnce MissedIsBounded
PROPERTIES SessionEnds
CHECK_DEADLOCK FALSE
