SPECIFICATION Spec
CONSTANTS
    Entries = {e1, e2}
    Flows = {f1, f2, f3}
    Gateways = {g1, g2}
    Devices = {u1}
    None = None
SYMMETRY Symmetry
INVARIANTS
    SetUpOnce
    IdNamesConnection
PROPERTY
    NoEntryReplaced
