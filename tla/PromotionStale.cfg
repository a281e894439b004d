SPECIFICATION PromotionSpec
CONSTANTS
    o1 = o1
    o2 = o2
    s1 = s1
    s2 = s2
    u = u
    v = v
    Ops = {o1, o2}
    SourceMaps <- TwoSources
    RealSources = {}
    Pipelines = {u, v}
    NoGen = NoGen
    MaxStarts = 3
    MaxExpiries = 2
PROPERTIES
    ParentTerminal
CHECK_DEADLOCK FALSE
