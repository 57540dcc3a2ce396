SPECIFICATION GateFairSpec
CONSTANT MaxAttempts = 3
INVARIANT PostponementIsAnnounced
PROPERTIES
    GateHolds
    UnpostponeIsHeeded
