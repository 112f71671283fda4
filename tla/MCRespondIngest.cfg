SPECIFICATION IngestSpec
CONSTANTS
    MaxBreaches = 2
    MaxSnapshots = 2
    MaxIncidents = 3
    MaxFaults = 2
INVARIANTS
    CursorCovered
    FallbackYields
PROPERTY
    EveryBreachOpens
CHECK_DEADLOCK FALSE
