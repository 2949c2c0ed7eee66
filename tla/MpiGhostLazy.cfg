SPECIFICATION FairSpec
CONSTANTS
    c1 = c1
    c2 = c2
    c3 = c3
    d1 = d1
    d2 = d2
    r1 = r1
    Colors = {c1, c2, c3}
    Fields = {d1, d2, r1}
    Ragged = {r1}
    GhostOwners <- MixedOwners
    SharedUsers <- MixedUsers
    Tasks <- MixedTasks
    NumTasks = 3
INVARIANTS
    GhostCoherent
    MessagesMatch
    RowsFit
PROPERTIES
    RunsAsSequential
