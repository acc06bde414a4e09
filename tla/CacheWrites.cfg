SPECIFICATION Spec
CONSTANTS
    Keys = {"up", "down"}
    Values = {0, 1}
    Commands <- Moving
    Writers = {w1, w2}
    Refreshers = {}
    None = None
    MaxFrames = 2
SYMMETRY Symmetry
INVARIANTS
    DriftOnlyFromRaces
PROPERTIES
    MirrorsOutputs
