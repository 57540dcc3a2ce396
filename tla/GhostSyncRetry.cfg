SPECIFICATION Spec
CONSTANTS
    MaxKey = 2
    Vals = {v1}
    None = None
    ChunkSize = 1
    DMLBatchSize = 2
    MaxRetries = 2
    KeyUpdates = TRUE
    SecondaryUnique = FALSE
    PanicOnWarnings = FALSE
    FreshReaderFails = FALSE
    Checkpoints = FALSE
    MaxEvents = 2
    MaxReconnects = 0
INVARIANT SwappedInOriginal
