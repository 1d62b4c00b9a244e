SPECIFICATION FairSpec
CONSTANTS
    d1 = d1
    d2 = d2
    t1 = t1
    t2 = t2
    t3 = t3
    Databases = {d1, d2}
    Transactions = {t1, t2}
    DatabaseOf <- MCDatabaseOf
    ReadOnly = {}
    ErrorCallback = {t1}
    MayStop = TRUE
    Deletable = {}
    Faulty = {}
    OverQuota = {}
    Handled = {}
    Watched = {}
    MaxStatements = 0
    MaxRetries = 0
    NoTransaction = NoTransaction
    Other = Other
PROPERTY ThreadStops
CHECK_DEADLOCK FALSE
