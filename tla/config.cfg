CONSTANTS
    Successful = Successful
    Failed = Failed
    Invalid = Invalid
    Unknown = Unknown
    Missing = Missing
    Empty = Empty
    FinalStates <- MCFinalStates
    LabelNames <- MCLabelNames
    Files <- MCFiles
    MaxRetries = 60
CHECK_DEADLOCK FALSE
SPECIFICATION MCSpec
INVARIANTS
    ConfigTypeOK
    LoadedValidates
    CallbackMapIsMeant
    ClientsKnowTheirWorkflows
    SoundIsAccepted
    PausesAreKept
