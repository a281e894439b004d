SPECIFICATION Spec
CONSTANTS
    u = u
    v = v
    r1 = r1
    r2 = r2
    t1 = t1
    t2 = t2
    Services = {u, v}
    Runs = {r1, r2}
    Stamps = {t1, t2}
    NoRun = NoRun
    Slots = {1}
    HardLimit = 2
    Workloads <- MCTwoKeys
PROPERTIES
    OwnerMovesRunningTask
CHECK_DEADLOCK FALSE
