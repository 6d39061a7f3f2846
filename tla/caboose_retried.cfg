CONSTANTS
    w1 = w1
    w2 = w2
    each = each
    once = once
    f1 = f1
    f2 = f2
    Workflows = {w1, w2}
    Callbacks = {each, once}
    CallbacksOf <- CallbacksForOne
    TypeOf <- MCTypeOf
    Features = {f1, f2}
    FeaturesOf <- MCFeaturesOf
    WithFeatures = {w1}
    Faulty = {once}
    Whole = Whole
    MaxWorkers = 2
    PoolSize = 3
    LostReplies = FALSE
    MaxFaults = 1
SPECIFICATION Spec
INVARIANTS
    FatalNotRetried
CHECK_DEADLOCK FALSE
