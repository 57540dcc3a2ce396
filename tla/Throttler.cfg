SPECIFICATION ThrottlerFairSpec
CONSTANTS
    Replicas = {r1, r2, r3}
    IgnoreHTTPErrors = TRUE
    MaxMoves = 2
INVARIANT WakesThrottled
PROPERTIES
    UserThrottles
    Resumes
    ReplicaLagThrottles
    CutOverProceeds
    CriticalLoadHeeded
