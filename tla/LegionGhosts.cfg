SPECIFICATION Spec
CONSTANTS
    c1 = c1
    c2 = c2
    c3 = c3
    f1 = f1
    f2 = f2
    Colors = {c1, c2, c3}
    Fields = {f1, f2}
    GhostOwners <- RingOwners
    SharedUsers <- RingUsers
    Tasks <- RingTasks
    NumTasks = 3
INVARIANTS
    GhostCoherent
    FlagsAreTrue
    CopiesAreNeeded
