SPECIFICATION Spec
CONSTANTS
    MaxKey = 2
    Vals = {v1, v2, v3}
    None = None
    ChunkSize = 1
    DMLBatchSize = 2
    MaxRetries = 1
    KeyUpdates = TRUE
    SecondaryUnique = TRUE
    PanicOnWarnings = TRUE
    FreshReaderFails = FALSE
    Checkpoints = TRUE
    MaxEvents = 3
    MaxReconnects = 1
SYMMETRY ValSymmetry
VIEW RelevantState
INVARIANTS
    TypeOK
    CopiedRowsConverge
    GhostConsistent
PROPERTY CopyAdvances
