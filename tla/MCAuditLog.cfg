SPECIFICATION Spec
CONSTANTS
    a1 = a1
    a2 = a2
    Agents = {a1, a2}
    Overlap = FALSE
    Faults = {"none", "torn", "nonewline"}
    LegacyLines = 1
    MaxCalls = 5
INVARIANTS
    TypeOK
    FirstBreakIsDamage
    EditsAreDetected
