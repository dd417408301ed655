SPECIFICATION FairSpec
CONSTANTS
    Inventories <- MCInventories
    Inputs <- MCInputs
    Flags <- MCFlags
    Priorities = {1, 2}
    MaxRequests = 3
    MaxAllowed = 3
    MaxPreferred = 3
    MaxFamilies = 2
    MaxSolutions = 8
    MaxWork = 30
CHECK_DEADLOCK FALSE
INVARIANTS
    AnswersAreExhaustive
    ResolvedByPreference
    PlanIsNative
    AmbiguityIsGenuine
PROPERTY
    Terminates
