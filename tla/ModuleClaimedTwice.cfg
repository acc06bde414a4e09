SPECIFICATION Spec
CONSTANTS
    Subs = {s1}
    Letters = {A}
    Dialogs = {d1}
    OutputsPerModule = 3
    None = None
    MaxSlots = 1
SYMMETRY Symmetry
INVARIANTS
    ClaimedOnce
