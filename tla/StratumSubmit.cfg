CONSTANTS
    MaxRequests = 2
    MaxLines = 1
    MaxDepth = 2
    Impatient = FALSE
    BadPools = FALSE
SPECIFICATION Spec
PROPERTIES SubmitsConnected
CHECK_DEADLOCK FALSE
