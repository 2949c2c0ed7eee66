SPECIFICATION FairSpec
CONSTANTS
    Workers = {w1, w2}
    Dimension = 1
    Inner <- DeepInner
    LeftOut <- NoBranches
    Nesting <- DeepNesting
CHECK_DEADLOCK FALSE
PROPERTIES
    Returns
