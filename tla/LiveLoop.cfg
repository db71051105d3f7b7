SPECIFICATION FairSpec
CONSTANTS
    PoolSize = 2
    MaxTip = 4
    Window = 3
    MaxSkew = 2
    ForkAt = 3
    MaxResets = 1
    tipAmbiguitySlack = 1
    StartLedger = 0
    hashRingSize = 2
    resetSlack = 1
    readyLagThreshold = 1
    MaxCrashes = 1
    MaxOutages = 2
    MaxLostAcks = 1
INVARIANTS TypeOK ChainLinked CursorInRing StopsAreReal
PROPERTIES CatchesUp ImplementsFeed
