CONSTANTS
    c1 = c1
    c2 = c2
    k1 = k1
    k2 = k2
    MaxLedger = 3
    Contracts = {c1, c2}
    Kinds = {k1}
    ChunkSize = 1
    Workers = {w1}
    HealChunk = 1
    Margin = 1
    Targets <- Genesis
    Plans <- NoPlans
    Races = {"half_registered", "stale_snapshot"}
    MaxStale = 0
    MaxWall = 3
    FirstTip = 2
    MaxAdmin = 2
    MaxCrash = 0
SPECIFICATION FairSpec
ACTION_CONSTRAINTS FewFaults
PROPERTIES WalkCompletes
CHECK_DEADLOCK FALSE
