CONSTANTS
    w1 = w1
    w2 = w2
    each = each
    once = once
    f1 = f1
    f2 = f2
    Workflows = {w1, w2}
    Callbacks = {each, once}
    CallbacksOf <- CallbacksForFeatures
    TypeOf <- MCTypeOf
    Features = {f1, f2}
    FeaturesOf <- MCFeaturesOf
    WithFeatures = {w1}
    Faulty = {}
    Whole = Whole
    MaxWorkers = 2
    PoolSize = 3
    LostReplies = TRUE
    MaxFaults = 1
SPECIFICATION FairSpec
PROPERTIES
    CompletedAreRecorded
    StopsWhenTold
    ImplementsWorkflowLife
CHECK_DEADLOCK FALSE
