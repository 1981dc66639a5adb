CONSTANTS
    k1 = k1  k2 = k2
    Keys = {k1, k2}
    NoFile = NoFile
    Torn = Torn
    Savers = {1, 2}
    TxIds = {1}
    NoTx = 0
    Ops <- MessageOps
    Paced = FALSE
    MaxRuns = 1
SPECIFICATION Spec
CHECK_DEADLOCK FALSE
INVARIANTS RenameFindsTemp
