SPECIFICATION FairSpec
CONSTANTS
    d1 = d1
    d2 = d2
    t1 = t1
    t2 = t2
    t3 = t3
    Databases = {d1, d2}
    Transactions = {t1, t2, t3}
    DatabaseOf <- MCDatabaseOf
    ReadOnly = {t2}
    ErrorCallback = {t1, t2}
    MayStop = TRUE
    Deletable = {d1}
    Faulty = {t1}
    OverQuota = {t1}
    Handled = {}
    Watched = {t3}
    MaxStatements = 1
    MaxRetries = 1
    NoTransaction = NoTransaction
    Other = Other
INVARIANTS TypeOK OneStepAtATime NoStepAfterCleanup Isolation OutcomeMatchesDatabase LocksReleased
CHECK_DEADLOCK FALSE
PROPERTY TransactionsEnd
