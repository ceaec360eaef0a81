SPECIFICATION Spec
CONSTANTS
    PIPE_SIZE = 5
    MaxBytes = 6
    MaxReads = 7
    MaxBehind = 1
    MaxChildren = 3
    Jobs = {2, 3, 4}
PROPERTIES
    CatPrintsItsInput
CHECK_DEADLOCK FALSE
