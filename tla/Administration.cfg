CONSTANTS
    None = None
    Domain = {a1, a2}
    Block = {b1, b2}
    BackendPort = {p1, p2}
    Container = {k1, k2}
    Project = {x1}
    Network = {x1}
    MaxChanges = 3
    Job = {x1}
    Listing = {a1, a2}
    Edit = {b1, b2}
    MaxTabChanges = 2
    MaxEdits = 2
    MaxMounts = 2
    MaxSteps = 4
    TypedNumber = {0, 7, 31, 60}
    MaxTyped = 2
    Account = {x1}
    Query = {a1, a2}
    Order = {x1}
    MaxOrders = 1
    MaxCuts = 1
    MaxVisits = 1
    MaxAsks = 4
    MaxMoves = 3
    MaxListings = 2
SPECIFICATION Spec
SYMMETRY AdminSymmetry
CONSTRAINTS
    CrBound
    UsBound
    SyBound
\* Nothing under way is left to do once the bounds are reached.
CHECK_DEADLOCK FALSE
INVARIANTS
    AdminTypeOK
    
    
