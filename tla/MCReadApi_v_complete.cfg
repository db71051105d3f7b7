SPECIFICATION Spec
CONSTANTS
    MaxLedger = 4
    Chain <- BusyChain
    Limits = {1, 3}
    Margin = 1
INVARIANT CompleteUnderWrites
