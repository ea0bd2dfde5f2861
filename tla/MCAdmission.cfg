SPECIFICATION Spec
CONSTANTS
    Contents <- MCContents
    AdminContents <- MCAdminContents
    Specs <- MCSpecs
    Processes <- MCProcesses
    PidPaths <- MCPidPaths
    LinkTargets <- MCLinkTargets
    Flags <- MCFlags
    Prefs <- MCPrefs
    Paths <- MCPaths
    Commented <- MCCommented
    SameHash <- MCSameHash
    Refused = Refused
    Absent = Absent
    WrongType = WrongType
    Missing = Missing
    Down = Down
    NoKey = NoKey
INVARIANTS
    TypeOK
    VerdictFollowsFile
    PinnedSettingsHold
    KeyBindingHolds
