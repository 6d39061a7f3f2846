CONSTANTS
    p1 = p1
    p2 = p2
    p3 = p3
    p4 = p4
    s1 = s1
    s2 = s2
    s3 = s3
    s4 = s4
    w = w
    cb = cb
    NoSession = NoSession
    NoEvent = NoEvent
    Sessions = {s1, s2, s3, s4}
    Processes = {p1, p2, p3, p4}
    Actions = {w, cb}
    AsyncActions = {w}
    ProcessOf <- MCProcessOf
    Serves <- MCServes
    BatchSize = 1
    MaxDepth = 1
    Matchers <- MCMatchers
    Responses <- MCResponses
    Deployments <- MCDeployments
    MaxFaults = 2
SPECIFICATION ClientsFairSpec
INVARIANTS
    ClientsTypeOK
    AnsweredOnce
    StatusIsTrue
PROPERTIES
    Settles
    SettledStays
