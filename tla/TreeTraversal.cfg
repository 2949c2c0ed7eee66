SPECIFICATION FairSpec
CONSTANTS
    Workers = {w1, w2, w3, w4}
    Dimension = 1
    Inner <- UnevenInner
    LeftOut <- UnevenLeftOut
    Nesting <- UnevenNesting
INVARIANTS
    ReturnsComplete
    SemCountsJobs
PROPERTIES
    Returns
