SPECIFICATION LightOrWalk
CONSTANTS
    Levels = {1, 130}
    Echoes = {0, 5, 40, 120}
    Writers = {w1, w2}
    None = None
    MaxFrames = 2
    Last = 315
SYMMETRY Symmetry
INVARIANTS
    ShownMatchesCache
    OwnEchoKeepsLevel
    LevelSettles
    OutputsRoundTrip
    ClockReadsBack
    RecordsDisjoint
