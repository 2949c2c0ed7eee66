SPECIFICATION Spec
CONSTANTS
    Phases = {0, 1, 2}
    Names = {1, 2, 3}
    Walk <- NestedWalk
    Tuples <- AllWalks
    MaxRounds = 3
    Layout <- Layouts
    Programs <- AllPrograms
    MaxExecutes = 2
INVARIANTS
    OrderIsTheGraphs
    FieldsResolve
PROPERTIES
    RunsInOrder
    Ends
