SPECIFICATION FairSpec
CONSTANTS
    k1 = k1
    k2 = k2
    Keys = {k1}
    Transactions <- MixedTransactions
    MaxTransactions = 2
    QueueSize = 1
    DMLBatchSize = 2
    UseGTIDs = FALSE
    MaxReconnects = 1
    MaxCrashes = 1
    Faults = {}
PROPERTIES
    EventsAreApplied
