SPECIFICATION FairSpec
CONSTANTS
    Threads = {t1}
    Functions = {f, g}
    MaxQueue = 2
    PipeCapacity = 5
    MaxWakeups = 4
    MaxNesting = 1
    QuickLoops = TRUE
PROPERTY ReturnsToEventLoop
