SPECIFICATION StatusSpec
CONSTANTS
    checkpointFrequency = 4
    equivalenceSample = 3
    Divergent = {10}
    MaxCursor = 20
    MaxGaps = 2
    MaxRestarts = 1
INVARIANTS TypeOK HealsOnlyProven
PROPERTIES PendingSettles
CHECK_DEADLOCK FALSE
