SPECIFICATION Spec
CONSTANTS
    BufSize = 2
    Keys <- KeyChars
    Scans = {"shift", "unshift", "ctrl", "e0", "c", "d", "space", "esc", "0x80", "alt", "release"}
    Readers <- MCReaders
    Timed = {"char"}
    Count <- MCCount
INVARIANTS
    KbdTypeOK
    RingIsAligned
PROPERTIES
    ImplementsKeyQueue
    FullBufferDrains
