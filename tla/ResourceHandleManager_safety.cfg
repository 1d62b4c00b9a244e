\* All loads may be over.
CHECK_DEADLOCK FALSE
SPECIFICATION Spec
CONSTANTS
    Jobs = {j1, j2, j3, j4}
    DataJobs = {j3}
    MultipartJobs = {j2}
    SyncJobs = {j4}
    MaxRunningJobs = 1
    Features = {"defer", "read", "resume"}
INVARIANTS TypeOK WorkIsPolled SlotsCounted RefsBalanced ResponseFirst
PROPERTIES NoNetworkCallAfterCancel NotCalledWhileDeferred
