CONSTANTS
    w1 = w1
    w2 = w2
    each = each
    once = once
    f1 = f1
    f2 = f2
    Workflows = {w1, w2}
    Callbacks = {each, once}
    CallbacksOf <- CallbacksOnce
    TypeOf <- MCTypeOf
    Features = {f1, f2}
    FeaturesOf <- MCFeaturesOf
    WithFeatures = {w1}
    Faulty = {}
    Whole = Whole
    MaxWorkers = 2
    PoolSize = 2
    LostReplies = TRUE
    MaxFaults = 0
SPECIFICATION FairSpec
PROPERTIES
    CompletedAreRecorded
CHECK_DEADLOCK FALSE
