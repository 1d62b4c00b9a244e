SPECIFICATION Spec
CONSTANTS
    Scripts <- MCScripts
    MaxPosted = 2
    MaxWritten = 2
    MaxDialogs = 1
    MayStop = TRUE
INVARIANT NotCalledAfterDeletion
CHECK_DEADLOCK FALSE
