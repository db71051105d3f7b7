SPECIFICATION FairSpec
CONSTANTS
    Callers = {c1, c2}
    MaxLedger = 4
    Weight <- Mixed
    bodyCap = 5
    maxBatchLimit = 4
    batchGrowEvery = 2
    MaxFails = 1
    batchLimit = 4
INVARIANTS TypeOK NoLedgerSkipped
PROPERTIES ScanFinishes
