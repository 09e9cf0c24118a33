CONSTANTS
    EditFile = {a1, a2}
    MaxTyped = 2
    MaxSaves = 2
    Transfer = {a1, a2}
    Dir = {d1, d2, d3}
    Root = d1
    MaxTrail = 2
    MaxLists = 2
    Profile = {a1, a2}
    Call = {a1, a2}
    Dial = {a1, a2}
    Server = {a1, a2}
    Host = {h1}
    Key = {a1, a2}
    MaxMessages = 2
    Panel = {n1, n2, n3}
    Tool = {a1, a2}
    MaxDepth = 2
    MaxDirty = 1
    Site = {a1, a2}
    Label = {x1}
    MaxScans = 3
    MaxVisit = 2
    MaxCalls = 2
    FileName = {1, 2}
    MaxGestures = 3
    MaxRunning = 2
    MaxListings = 2
    None = None
SPECIFICATION Spec
SYMMETRY DesktopSymmetry
CONSTRAINTS
    PsBound
    HkBound
    DvBound
    FoBound
CHECK_DEADLOCK FALSE
INVARIANTS
    DesktopTypeOK
    FilesArrive
    
    
PROPERTIES
    DoneStaysDone
