SPECIFICATION LockFairSpec
CONSTANTS
    Procs = {p1, p2, p3}
    NoProc = NoProc
INVARIANT OneMigrates
PROPERTIES
    LostLockEndsMigration
    TeardownEnds
