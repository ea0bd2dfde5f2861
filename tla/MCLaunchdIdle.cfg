SPECIFICATION FairSpec
CONSTANTS
    Clients = {c1, c2}
    c1 = c1
    c2 = c2
    IdleTimeout = 2
    ConnTimeout = 2
PROPERTIES
    IdleMeansUnused
