SPECIFICATION FairSpec
CONSTANTS
    Workers = {w1}
    Tasks = {t1}
PROPERTIES
    InterruptUnblocksAll
CHECK_DEADLOCK FALSE
