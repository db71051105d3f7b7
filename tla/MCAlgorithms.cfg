SPECIFICATION Spec
CONSTANTS
    MaxLedger = 7
    checkpointFrequency = 2
    Paddings = {0, 2}
    MaxIntervals = 2
    Contracts <- TheContracts
    Accounts = {"u"}
    LedgerKeys <- TheKeys
    EventCatalog <- TheEvents
    UnitCatalog <- TheUnits
    Watches <- TheWatches
    MaxTxs = 1
    MaxItems = 2
    maxLimit = 2
    Networks = {"public", "test"}
    ContractIds = {"a", "b"}
    LedgerBounds = {1, 2}
    FilterValues = {1}
    RowIds = {1, 2}
    Continues = 4
    wasmMagic <- TheMagic
    wasmVersion <- TheVersion
    specName <- TheSpecName
    SectionCatalog <- TheSections
    MaxSections = 3
    Junk <- TheJunk
INVARIANTS PlanCoversAsked PartitionExact UncoveredExact WallFound
           Projection Accounted GateMeansSameRows
           CursorResumes CursorStaysHome SpecHonest
CHECK_DEADLOCK FALSE
