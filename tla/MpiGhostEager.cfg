SPECIFICATION FairSpec
CONSTANTS
    c1 = c1
    c2 = c2
    c3 = c3
    f1 = f1
    f2 = f2
    Colors = {c1, c2, c3}
    Fields = {f1, f2}
    GhostOwners <- MixedOwners
    SharedUsers <- MixedUsers
    Tasks <- MixedTasks
    NumTasks = 3
INVARIANTS
    TypeOK
    GhostCoherent
    NoWriteWhileExposed
    EpochsMatch
PROPERTIES
    RunsAsSequential
