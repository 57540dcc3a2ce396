SPECIFICATION FairSpec
CONSTANTS
    MaxRetries = 3
    MaxWrites = 3
INVARIANTS
    TestRestoresTables
    TestIsIsolated
PROPERTIES
    SwapIsExact
    LockIsReleased
