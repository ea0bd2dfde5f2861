SPECIFICATION Spec
CONSTANTS
    StallWindow = 2
    MaxClock = 5
    MaxOutcomes = 8
INVARIANTS
    TypeOK
    AlertsAreTrue
    AlertsAreSparse
    LastingStallIsNoticed
