SPECIFICATION Spec
CONSTANTS
    None = None
    Entities = {e1, e2, e3}
    Positions = {0, 4, 5, 6}
    MaxDepth = 3
    Threshold = 1
    ShouldCoarsen = TRUE
    MaxUpdateAlls = 0
SYMMETRY SameEntities
INVARIANTS
    LeavesHoldAll
