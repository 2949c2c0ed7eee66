SPECIFICATION FairSpec
CONSTANTS
    Workers = {w1, w2, w3}
    Tasks = {t1, t2}
INVARIANTS
    TypeOK
    PopsAreCovered
    Balance
PROPERTIES
    QueuedIsExecuted
    JoinReturnsWhenSettled
CHECK_DEADLOCK FALSE
