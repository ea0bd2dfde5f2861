SPECIFICATION FairSpec
CONSTANTS
    a1 = a1
    a2 = a2
    c1 = c1
    c2 = c2
    Agents = {a1, a2}
    Clients = {c1, c2}
    Probe = Probe
    Launchd = Launchd
    Stale = Stale
    None = None
INVARIANTS
    TypeOK
    AloneIsReachable
    CleanStatusIsStable
PROPERTIES
    NobodyWaitsForGood
