CONSTANTS
    p1 = p1
    s1 = s1
    s2 = s2
    NoSession = NoSession
    NoEvent = NoEvent
    Sessions = {s1, s2}
    Processes = {p1}
    Actions = {a1, a2}
    AsyncActions = {a1}
    ProcessOf <- MCProcessOf
    Serves <- MCServes
    BatchSize = 2
    MaxDepth = 1
SPECIFICATION FairSpec
PROPERTIES
    ShutdownCompletes
