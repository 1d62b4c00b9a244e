\* Every download may have been removed and the thread have ended.
CHECK_DEADLOCK FALSE
SPECIFICATION Spec
CONSTANTS
    Downloads = {d1}
    Handles = {h1}
    None = none
    MaxTasks = 2
    MaxRemoved = 2
    DeletesPending = TRUE
    AddMayFail = FALSE
    ReusesAddresses = FALSE
INVARIANT NotFreedWhileInUse
