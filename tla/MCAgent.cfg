SPECIFICATION FairSpec
CONSTANTS
    c1 = c1
    c2 = c2
    c3 = c3
    kOld = kOld
    kNew = kNew
    kOther = kOther
    kFree = kFree
    lA = lA
    lB = lB
    lC = lC
    None = None
    Conns = {c1, c2}
    Keys = {kOld, kOther, kFree}
    Labels = {lA, lB, lC}
    LabelOf <- MCLabelOf
    TouchKeys = {kOld, kOther}
    InitialStore = {kOld, kOther, kFree}
    Churning = {kOld}
    PolicyAllows <- MCPolicyAllows
    KeyAllows <- MCKeyAllows
    RateLimit = 2
    RateWindow = 1
    StallWindow = 2
    MaxClock = 0
    MaxRequests = 3
INVARIANTS
    TypeOK
    OnePrompt
    AuditedOnce
    BudgetSpentOnAttempts
PROPERTIES
    KeepsPromise
    EveryRequestEnds
    NoTouchNeverWaitsForTouch
