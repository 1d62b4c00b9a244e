SPECIFICATION FairSpec
CONSTANTS
    Scripts <- MCScripts
    MaxPosted = 2
    MaxWritten = 2
    MaxDialogs = 1
    MayStop = TRUE
INVARIANT Lifetimes
INVARIANT StreamsInOrder
PROPERTY CloseReported
CHECK_DEADLOCK FALSE
