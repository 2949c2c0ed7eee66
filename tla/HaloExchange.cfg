SPECIFICATION Spec
CONSTANTS
    NumColors = 3
    MinConnections = 1
    None = None
    Meshes <- MCMeshes
INVARIANTS
    OwnedOnce
    GhostsMatchShared
    HaloComplete
    IdsAgree
    GhostRowsAreOwners
    AllGetThrough
