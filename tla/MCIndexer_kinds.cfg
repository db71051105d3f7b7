CONSTANTS
    c1 = c1
    c2 = c2
    k1 = k1
    k2 = k2
    MaxLedger = 4
    Contracts = {c1}
    Kinds = {k1, k2}
    ChunkSize = 2
    Workers = {w1, w2}
    HealChunk = 1
    Margin = 1
    Targets <- AnyFloor
    Plans <- NoPlans
    Races = {}
    MaxStale = 1
    MaxWall = 3
    FirstTip = 4
    MaxAdmin = 3
    MaxCrash = 0
SPECIFICATION Spec
INVARIANTS TypeOK GapsSound CoverageHonest NothingLost
CHECK_DEADLOCK FALSE
SYMMETRY Symmetric
