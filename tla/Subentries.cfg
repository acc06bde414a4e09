SPECIFICATION ModulesOrMoods
CONSTANTS
    Subs = {s1, s2}
    Letters = {A, B}
    Dialogs = {d1, d2}
    OutputsPerModule = 2
    None = None
    MaxSlots = 2
    MoodDialogs = {m1, m2}
    MoodsPerController = 3
SYMMETRY Symmetry
INVARIANTS
    ClaimedOnceUnlessRevived
    LettersUnique
PROPERTY
    ImportStoresNewMoods
