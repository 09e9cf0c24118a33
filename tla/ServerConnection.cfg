\* Safety of one connection object: three client slots, two retries.
SPECIFICATION Spec
CONSTANTS
    Client = {c1, c2, c3}
    None = None
    MaxAttempts = 2
    MaxOrphans = 1
    MaxClosing = 1
SYMMETRY SlotSymmetry
INVARIANTS
    TypeOK
    ConnectedIsLive
    ConnectingIsDialing
    ReconnectingWillRetry
    CachedInteractiveIsLive
CHECK_DEADLOCK FALSE
