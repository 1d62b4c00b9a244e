\* All loads may be over.
CHECK_DEADLOCK FALSE
SPECIFICATION FairSpec
CONSTANTS
    Jobs = {j1, j2}
    DataJobs = {}
    MultipartJobs = {}
    SyncJobs = {}
    MaxRunningJobs = 1
    Features = {"defer", "read", "resume"}
PROPERTIES LoadsEnd CancelledLeavesCurl
