SPECIFICATION Spec
CONSTANTS
    c1 = c1
    c2 = c2
    c3 = c3
    kOld = kOld
    kNew = kNew
    kOther = kOther
    kFree = kFree
    lA = lA
    lB = lB
    lC = lC
    None = None
    Conns = {c1, c2, c3}
    Keys = {kFree, kNew}
    Labels = {lC}
    LabelOf <- MCLabelOf
    TouchKeys = {}
    InitialStore = {kFree}
    Churning = {kFree, kNew}
    PolicyAllows <- MCPolicyAllows
    KeyAllows <- MCKeyAllows
    RateLimit = 1
    RateWindow = 1
    StallWindow = 2
    MaxClock = 2
    MaxRequests = 3
INVARIANTS
    GrantBound
    CompletionBound
    DeletedKeySignsNothingNew
