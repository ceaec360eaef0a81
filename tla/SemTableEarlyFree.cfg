SPECIFICATION Spec
CONSTANTS
    Procs = {1, 2}
    Names = {"a"}
    MaxSems = 5
    MaxOpens = 1
    MaxCount = 7
INVARIANTS
    OpenSemIsUsable
