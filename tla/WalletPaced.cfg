CONSTANTS
    k1 = k1  k2 = k2
    Keys = {k1, k2}
    NoFile = NoFile
    Torn = Torn
    Savers = {1, 2}
    TxIds = {1, 2}
    NoTx = 0
    Ops <- PacedOps
    Paced = TRUE
    MaxRuns = 2
SPECIFICATION FairSpec
INVARIANTS AssertionsHold
PROPERTIES KeysKept QuitEnds
