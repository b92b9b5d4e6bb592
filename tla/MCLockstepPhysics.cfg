SPECIFICATION Spec
CONSTANTS
    Period = 2
    Tolerance = 1
    Capacity = 3
    Batch = 2
    MaxTime = 4
    MaxLost = 1
    MaxLate = 1
INVARIANTS NotPastTheRequest
PROPERTIES SuccessMeansReached BatchesMoveForward RequestIsServed
CHECK_DEADLOCK FALSE
