CONSTANTS
    NoSession = NoSession
    NoEvent = NoEvent
    Sessions = {s1}
    Processes = {s1}
    Actions = {a1, a2}
    AsyncActions = {a1, a2}
    ProcessOf <- MCProcessOf
    Serves <- MCServes
    BatchSize = 2
    MaxDepth = 1
SPECIFICATION Spec
INVARIANTS
    NoLockLeak
