SPECIFICATION FairCoordinator
CONSTANTS
    Values = {0, 1}
    Syncs = {t1, t2}
    Unset = Unset
    MaxAttempts = 3
PROPERTY
    EveryAttemptRecorded
