SPECIFICATION CoreSpec
CONSTANTS
    w1 = w1
    w2 = w2
    w3 = w3
    r1 = r1
    r2 = r2
    p1 = p1
    p2 = p2
    Workers = {w1, w2, w3}
    Runs = {r1, r2}
    Partitions = {p1, p2}
    NoRun = NoRun
    NoWorker = NoWorker
    RunOf <- MCRunOf
    TTL = 1
    MaxLag = 1
    MaxClock = 1
    MaxFence = 2
    a = a
    b = b
    Tasks = {a, b}
    Keys <- MCKeys
    Commands <- MCCommands
    Requests <- MCRequests
    MaxTime = 1
    x1 = x1
    x2 = x2
    Writers = {x1, x2}
    NoWriter = NoWriter
    MaxEvents = 2
    MaxTasks = 2
    MaxTries = 3
    o1 = o1
    o2 = o2
    s1 = s1
    s2 = s2
    s3 = s3
    Ops = {o1, o2}
    SourceMaps <- MCSourceMaps
    RealSources = {s3}
    Pipelines = {x1, x2}
    NoGen = NoGen
    MaxStarts = 3
    MaxExpiries = 1
INVARIANTS
    FenceNamesOneOwner
    GuardStaysValid
    WorkRestsOnDone
    ReadsStayValid
    AcksStayTrue
    SuccessIsCommitted
PROPERTIES
    NoStaleWrite
    ImplementsBoard
    CommandsEnd
    LedgerGrows
    ParentReconciled
    ViewsFollowLedger
CHECK_DEADLOCK FALSE
