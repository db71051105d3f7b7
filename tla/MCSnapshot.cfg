SPECIFICATION ListSpec
CONSTANTS
    MaxLedger = 8
    MaxIndex = 4
    Keys <- ThreeKeys
    Chain <- BusyChain
    Limits = {1, 2}
INVARIANTS TypeOK SnapshotIsNewest ListingExact
