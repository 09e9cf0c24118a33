CONSTANTS
    None = None
    Workflow = {a1, a2}
    MaxEdits = 3
    CertPath = {c1, c2}
    MaxLookups = 2
    Operation = {a1, a2}
    MaxRules = 2
    MaxReads = 2
    LogFile = {a1, a2}
    MaxTails = 3
    View = {b1, b2}
    Object = {a1, a2}
    MaxMessages = 2
    Pid = {a1, a2}
    MaxMoves = 3
    MaxPolls = 2
    Box = {a1, a2}
    Tag = {b1, b2}
    Image = {c1}
    Volume = {c2}
    MaxActs = 2
    MaxLoads = 2
    Packages = {1, 2}
    LIST_CHUNK_SIZE = 2
    MaxSteps = 2
    MaxReloads = 2
SPECIFICATION Spec
SYMMETRY ToolSymmetry
CONSTRAINTS
    SdBound
    PrBound
    PvBound
\* A tool with nothing under way and no server has no step left.
CHECK_DEADLOCK FALSE
INVARIANTS
    ToolsTypeOK
    ReloadsAreTested
    
    OnlyTheNamedGo
    
    StreamsMatchViews
