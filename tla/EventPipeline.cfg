SPECIFICATION Spec
CONSTANTS
    k1 = k1
    k2 = k2
    Keys = {k1, k2}
    Transactions <- PairTransactions
    MaxTransactions = 3
    QueueSize = 2
    DMLBatchSize = 2
    UseGTIDs = TRUE
    MaxReconnects = 1
    MaxCrashes = 1
    Faults = {}
INVARIANTS
    DrainedMeansApplied
    SyncedMeansApplied
    CheckpointIsSafe
    ListenerHasRoom
