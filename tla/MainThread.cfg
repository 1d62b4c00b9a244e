SPECIFICATION FairSpec
CONSTANTS
    Threads = {t1, t2}
    Functions = {f, g}
    MaxQueue = 3
    PipeCapacity = 5
    MaxWakeups = 4
    MaxNesting = 2
    QuickLoops = FALSE
INVARIANTS TypeOK NoLostWakeup ReadNeverBlocks SelfWakeupsBounded
PROPERTIES PostedFunctionsRun ReturnsToEventLoop
