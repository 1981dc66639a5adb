CONSTANTS
    w1 = w1
    w2 = w2
    j1 = j1
    j2 = j2
    Workers <- MCWorkers
    Jobs <- MCJobs
    NoJob = NoJob
    MaxNonce = 2
SPECIFICATION FairSpec
INVARIANTS TypeOK TriedOnce
PROPERTIES ImplementsLedger NewJobReached StopEnds
CHECK_DEADLOCK FALSE
