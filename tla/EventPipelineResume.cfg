SPECIFICATION Spec
CONSTANTS
    k1 = k1
    k2 = k2
    Keys = {k1}
    Transactions <- MixedTransactions
    MaxTransactions = 3
    QueueSize = 2
    DMLBatchSize = 2
    UseGTIDs = TRUE
    MaxReconnects = 0
    MaxCrashes = 1
    Faults = {"window"}
INVARIANT DrainedMeansApplied
