SPECIFICATION FairSpec
CONSTANTS
    MaxLedger = 4
    Chain <- BusyChain
    Limits = {1, 3}
    Margin = 1
INVARIANTS TypeOK ScanHonest AnswerVouchesDerived
PROPERTIES PagesAdvance ScanEnds
