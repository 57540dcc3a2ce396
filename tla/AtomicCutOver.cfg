SPECIFICATION FairSpec
CONSTANTS
    MaxAttempts = 2
    MaxWrites = 2
    MetadataLockCheck = TRUE
    Faults = {"dies", "query", "begin"}
INVARIANTS
    ChannelsHaveRoom
    SuccessMeansSwapped
PROPERTIES
    SwapIsExact
    OldTableKept
    LockIsReleased
    AttemptEnds
