SPECIFICATION FairSpec
CONSTANTS
    Callers = {c1, c2, c3}
    Workers = {w1, w2}
    None = none
INVARIANTS OneWorker PromptWakeup DetachesOwnThread
PROPERTIES ImplementsTask IdleThreadExits
