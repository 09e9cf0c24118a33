CONSTANTS
    None = None
    Domain = {d1}
    Block = {b1}
    BackendPort = {p1}
    Container = {k1}
    Project = {x1}
    Network = {n1}
    MaxChanges = 2
SPECIFICATION TpSpec
CHECK_DEADLOCK FALSE
INVARIANTS
    TpRestartsAreQuiet
