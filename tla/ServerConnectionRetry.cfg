\* The retry loop ends: three client slots, two retries.
SPECIFICATION RetrySpec
CONSTANTS
    Client = {c1, c2, c3}
    None = None
    MaxAttempts = 2
    MaxOrphans = 0
    MaxClosing = 1
PROPERTIES
    RetryLoopEnds
CHECK_DEADLOCK FALSE
