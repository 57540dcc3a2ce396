SPECIFICATION FairSpec
CONSTANTS
    MaxChunks = 1
    CommandLines = {
        {},
        {"noop", "initially-drop-old-table"},
        {"attempt-instant-ddl"},
        {"checkpoint", "ok-to-drop-table", "initially-drop-ghost-table"}}
    Faults = {"late"}
INVARIANTS
    SwapMeansCopied
    SuccessMeansSwapped
    LeftoversAreKept
PROPERTIES
    AbortReturns
    NobodyIsLeft
    MigrateReturns
