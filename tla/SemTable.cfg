SPECIFICATION Spec
CONSTANTS
    Procs = {1, 2}
    Names = {"a", "b", "c"}
    MaxSems = 5
    MaxOpens = 2
    MaxCount = 7
INVARIANTS
    NamesUnique
    NoLeakedSlot
