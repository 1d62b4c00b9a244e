\* Every download may have been removed and the thread have ended.
CHECK_DEADLOCK FALSE
SPECIFICATION FairSpec
CONSTANTS
    Downloads = {d1, d2}
    Handles = {h1, h2}
    None = none
    MaxTasks = 1
    MaxRemoved = 1
    DeletesPending = TRUE
    AddMayFail = FALSE
    ReusesAddresses = FALSE
INVARIANTS TypeOK NoStrandedDownload ActiveHandlesExist
PROPERTIES DownloadsEnd MainThreadReturns CancelEndsTransfer
