CONSTANTS
    c1 = c1
    c2 = c2
    k1 = k1
    k2 = k2
    MaxLedger = 4
    Contracts = {c1, c2}
    Kinds = {k1}
    ChunkSize = 2
    Workers = {w1}
    HealChunk = 1
    Margin = 1
    Targets <- MixedFloors
    Plans <- SomePlans
    Races = {}
    MaxStale = 0
    MaxWall = 3
    FirstTip = 4
    MaxAdmin = 3
    MaxCrash = 1
SPECIFICATION Spec
INVARIANTS CoverageHonest NothingLost
PROPERTIES PlanKeepsOwed ImplementsCoverage
CHECK_DEADLOCK FALSE
