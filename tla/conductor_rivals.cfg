CONSTANTS
    NoSession = NoSession
    NoEvent = NoEvent
    Sessions = {s1, s2}
    Processes = {s1, s2}
    Actions = {a1, a2}
    AsyncActions = {a1}
    ProcessOf <- MCProcessOf
    Serves <- MCServes
    BatchSize = 1
    MaxDepth = 1
SPECIFICATION HistorySpec
INVARIANTS
    TypeOK
    ExclusiveAttempt
    HandledOnce
PROPERTIES
    ImplementsLifecycle
