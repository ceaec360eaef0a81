SPECIFICATION Spec
CONSTANTS
    MaxPid = 3
    MaxQuantum = 1
    Priorities = {0}
    Uses = {"kill", "block"}
PROPERTIES
    NoStarvation
