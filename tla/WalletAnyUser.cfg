CONSTANTS
    k1 = k1  k2 = k2
    Keys = {k1, k2}
    NoFile = NoFile
    Torn = Torn
    Savers = {1, 2}
    TxIds = {1}
    NoTx = 0
    Ops <- AnyOps
    Paced = FALSE
    MaxRuns = 1
SPECIFICATION FairSpec
\* A GUI thread that waits for itself inside processEvents() really stops.
CHECK_DEADLOCK FALSE
INVARIANTS TypeOK HandOff FileInUse
PROPERTIES LockGranted
