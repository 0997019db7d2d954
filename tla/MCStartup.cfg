\* Choices of three files out of ten documents; three requests or events.
SPECIFICATION Spec
CONSTANTS
    RateCount = 2
    BadNumber = BadNumber
    Indeterminate = Indeterminate
    NoValue = NoValue
    Docs <- MCDocs
    FileChoices <- MCFileChoices
    ActionClasses = {"thermallevel", "current"}
    FanReports <- MCFanReports
    Values <- MCValues
    UpdateNames = {"ext", "cust", "screen", "charge", "startup_delay"}
    DelayParams = {"p"}
    MaxRequests = 3
CHECK_DEADLOCK FALSE
INVARIANTS
    AcceptedConfig
    ClustersUsable
    StatesComplete
    EventsReachState
    ConditionFollowsUpdates
    FanJudgedSoundly
