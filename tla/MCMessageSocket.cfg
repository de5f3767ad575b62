SPECIFICATION Spec
CONSTANTS
    Message = {1, 2, 3, 4}
    Size <- MCSize
    HeaderSize = 4
    Misread <- MCMisread
    MaxDevices = 3
CHECK_DEADLOCK FALSE
INVARIANTS
    WholeAndInOrder
PROPERTIES
    EveryMessageArrives
