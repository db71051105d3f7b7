CONSTANTS
    c1 = c1
    c2 = c2
    k1 = k1
    k2 = k2
    MaxLedger = 4
    Contracts = {c1, c2}
    Kinds = {k1}
    ChunkSize = 2
    Workers = {w1}
    HealChunk = 1
    Margin = 1
    Targets <- MixedFloors
    Plans <- SomePlans
    Races = {"replan_resolved"}
    MaxStale = 0
    MaxWall = 4
    FirstTip = 4
    MaxAdmin = 3
    MaxCrash = 0
SPECIFICATION Spec
CHECK_DEADLOCK FALSE
PROPERTY PlanKeepsOwed
