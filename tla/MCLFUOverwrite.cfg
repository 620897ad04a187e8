SPECIFICATION Spec
CONSTANTS
    Keys = {1, 2, 3}
    Capacity = 2
    MaxCount = 3
    MaxNodes = 5
INVARIANT
    NeverThrows
CHECK_DEADLOCK FALSE
