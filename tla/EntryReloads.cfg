SPECIFICATION FairSpec
CONSTANTS
    m1 = m1
    m2 = m2
    o1 = o1
    o2 = o2
    o3 = o3
    Modules = {m1, m2}
    Outputs = {o1, o2, o3}
    ModuleOf <- ModuleOfValue
    None = None
    Tasks = {t1, t2, t3}
    MaxRequests = 3
INVARIANTS
    SettledIsSynced
    SettledIsRendered
CHECK_DEADLOCK FALSE
PROPERTIES
    TasksEnd
    ServesReloads
