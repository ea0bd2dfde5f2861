SPECIFICATION Spec
CONSTANTS
    p1 = p1
    p2 = p2
    None = None
    Procs = {p1, p2}
    Words <- MCWords
    Originals <- MCOriginals
    Earlier <- MCEarlier
    FlagOf <- MCFlagOf
    Inline <- MCInline
    MaxClock = 1
SYMMETRY MCSymmetry
INVARIANTS
    TypeOK
    OriginalSurvives
    MigrationKeepsListed
    ForeignIsLeftAlone
    LoadedIsWritten
