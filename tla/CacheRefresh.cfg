SPECIFICATION FairSpec
CONSTANTS
    Keys = {"light"}
    Values = {0, 1}
    Commands <- Switching
    Writers = {w1}
    Refreshers = {r1, r2}
    None = None
    MaxFrames = 1
INVARIANTS
    WaiterIsSignalled
    ShownIsReal
PROPERTIES
    SettledMeansAnswered
    ShownCatchesUp
    RefreshEnds
