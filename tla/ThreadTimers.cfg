SPECIFICATION FairSpec
CONSTANTS
    Timers = {t1, t2, t3}
    Repeating = {t1}
    Delays = {0, 1}
    Repeats = {1}
    Watched = {t2}
    MaxTime = 2
    MaxNesting = 2
    MaxDelay = 1
INVARIANTS HeapConsistent TimerArmed TimeoutsBounded
PROPERTY DueTimersFire
