SPECIFICATION Spec
CONSTANTS
    Handles = {h1, h2}
    None = None
    BackoffInitial = 1
    BackoffMax = 60
    MaxLives = 2
INVARIANT
    RepairClearsOnReconnection
