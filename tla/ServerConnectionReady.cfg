SPECIFICATION Spec
CONSTANTS
    Client = {c1, c2, c3}
    None = None
    MaxAttempts = 2
    MaxOrphans = 1
    MaxClosing = 1
SYMMETRY SlotSymmetry
INVARIANTS
    ConnectedIsReady
CHECK_DEADLOCK FALSE
