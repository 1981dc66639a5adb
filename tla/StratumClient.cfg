CONSTANTS
    MaxRequests = 3
    MaxLines = 2
    MaxDepth = 3
    Impatient = FALSE
    BadPools = TRUE
SPECIFICATION FairSpec
INVARIANTS TypeOK NoTimerWhenConnected StoppedForGood
PROPERTIES Retries StopReturns
\* A nested event loop that deletes its miner really is the end.
CHECK_DEADLOCK FALSE
