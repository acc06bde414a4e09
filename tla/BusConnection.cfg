SPECIFICATION FairSpec
CONSTANTS
    Handles = {h1, h2, h3}
    None = None
    BackoffInitial = 1
    BackoffMax = 60
    MaxLives = 2
INVARIANTS
    NoLeak
    OneBusAtATime
    ReadsItsBus
    IssueGoneWhenHearing
PROPERTIES
    StopBeforeClose
    ImplementsSupervisor
    Recovers
    LossIsReported
    SetupEnds
    ShutdownEnds
    KeepsSupervising
