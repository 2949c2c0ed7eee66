SPECIFICATION FairHandshake
CONSTANTS
    Ranks = {r1, r2, r3}
    NumMpiTasks = 3
INVARIANTS
    HandshakeTypeOK
    TasksRunInTurn
    LegionIsBlocked
    TasksRunTogether
PROPERTIES
    Ends
CHECK_DEADLOCK FALSE
