SPECIFICATION Spec
CONSTANTS
    a1 = a1
    a2 = a2
    Agents = {a1, a2}
    Overlap = TRUE
    Faults = {}
    LegacyLines = 1
    MaxCalls = 5
INVARIANTS
    SeqNeverDrops
CHECK_DEADLOCK FALSE
