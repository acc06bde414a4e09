SPECIFICATION FairCoordinatorOrLink
CONSTANTS
    Values = {0, 1}
    Syncs = {t1, t2}
    Unset = Unset
    MaxAttempts = 3
    setter = setter
    import = import
    Threads = {setter, import}
    CommandOf <- CommandOfThread
    Records = 2
    Attempts = 2
    None = None
    Mixed = Mixed
    MaxLine = 2
INVARIANTS
    ShownIsCached
    LastTryRecorded
    NamesBelong
    OkMeansSet
PROPERTIES
    CatchesUp
    CommandsEnd
