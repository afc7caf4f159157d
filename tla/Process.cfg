SPECIFICATION FairSpec
CONSTANTS
    Programs = {"agent", "scheduler"}
    Environments = {{}, {"cluster"}}
    Threads = 1
    MaxQueue = 1
    MaxSignals = 2
INVARIANTS TypeOK NeverPanics ReadsSyncedCaches
PROPERTIES SignalsEndProcess GetsToWork
CHECK_DEADLOCK FALSE
