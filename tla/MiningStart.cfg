CONSTANTS
    MaxRequests = 2
    MaxLines = 1
    MaxDepth = 2
    Impatient = TRUE
    BadPools = FALSE
SPECIFICATION Spec
PROPERTIES StartFindsNoMiner
CHECK_DEADLOCK FALSE
