CONSTANTS
    c1 = c1
    c2 = c2
    k1 = k1
    k2 = k2
    MaxLedger = 4
    Contracts = {c1}
    Kinds = {k1, k2}
    ChunkSize = 2
    Workers = {w1}
    HealChunk = 2
    Margin = 1
    Targets <- AnyFloor
    Plans <- NoPlans
    Races = {"admin_in_flight"}
    MaxStale = 1
    MaxWall = 3
    FirstTip = 4
    MaxAdmin = 3
    MaxCrash = 0
SPECIFICATION Spec
CHECK_DEADLOCK FALSE
SYMMETRY Symmetric
INVARIANT CoverageHonest
