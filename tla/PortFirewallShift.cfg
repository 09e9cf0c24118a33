CONSTANTS
    None = None
    MaxRules = 2
    MaxReads = 2
SPECIFICATION FwSpec
CHECK_DEADLOCK FALSE
INVARIANT FwSshAlwaysOpen
