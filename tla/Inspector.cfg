SPECIFICATION InspectionSpec
CONSTANTS
    TimeZone = 2
    Scenarios <- MCScenarios
INVARIANTS
    EventsArrive
    ChunksPartition
    GhostIsImage
