SPECIFICATION Spec
CONSTANTS
    Callers = {c1, c2}
    MaxDeaths = 1
    Areas = {"documents"}
    Paths = {"p1", "p2"}
    Texts = {"t1", "t2"}
    DocKeys = {k1, k2}
    MaxRequests = 3
    MaxEdits = 1
    Skills = {"s", "f"}
    Local = {"s", "f"}
    Withheld = {}
    SaveTexts = {"new"}
    EditTexts = {"own"}
    MaxSaves = 3
    MaxOwnEdits = 1
    Sources <- MCSources
    MaxPrepares = 2
    MaxMoves = 2
    Events = {"e1"}
    PathKinds = {"ordinary", "ledger", "secret"}
    MaxCheckpoints = 4
    MaxHeads = 2
    MaxStages = 3
    MaxPromotions = 1
    UserTexts = {"a", "b"}
    MaxInstalls = 3
    MaxUserEdits = 1
    MaxRebrands = 3
    MaxArrivals = 2
    Dests = {"d"}
    Beginnings <- MCBeginnings
    MaxBackups = 2
    MaxTouches = 1
    MaxApplies = 3
    CodePaths = {"a", "b"}
    CodeTexts = {"t1", "t2"}
    Heads = {"h1", "h2"}
    MaxGraphMoves = 3
    Ingests = {"a", "b"}
    Captures <- MCCaptures
    FileOf <- MCFileOf
    ToolOf <- MCToolOf
    Statements = {"x", "y"}
    StatementOf <- MCStatementOf
    MaxIngests = 3
    MaxChanges = 1
SYMMETRY MCSymmetry
INVARIANT ReplacedIsKept
CHECK_DEADLOCK FALSE
