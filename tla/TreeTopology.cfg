SPECIFICATION Spec
CONSTANTS
    None = None
    Entities = {e1, e2, e3, e4}
    Positions = {0, 2, 3, 6, 7}
    MaxDepth = 3
    Threshold = 1
    ShouldCoarsen = TRUE
    MaxUpdateAlls = 1
SYMMETRY SameEntities
INVARIANTS
    TypeOK
    EntitiesPlaced
    FindsAllInRadius
    FindsAllInBox
PROPERTIES
    UpdateAllRebuilds
