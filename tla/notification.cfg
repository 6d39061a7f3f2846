CONSTANTS
    h1 = h1
    Conductors = {c1, c2}
    Handlers = {h1}
    Actions = {a1, a2, a3}
    HandlerOf <- MCHandlerOf
    BatchSize = 2
SPECIFICATION FairSpec
INVARIANTS
    TypeOK
    NoLostWakeup
    BatchesAreWaitedFor
PROPERTIES
    WorkIsFound
