SPECIFICATION Spec
CONSTANTS
    PIPE_SIZE = 5
    MaxBytes = 6
    MaxReads = 8
    MaxBehind = 1
    MaxChildren = 4
    Jobs = {2, 3}
INVARIANTS
    HandedInOrder
    RightReaderRuns
PROPERTIES
    PromptReturns
CHECK_DEADLOCK FALSE
