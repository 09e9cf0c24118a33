\* Two runs of the loop (one cancelled, one current), two channels, two attempts.
SPECIFICATION FairSpec
CONSTANTS
    Loop = {l1, l2}
    Channel = {c1, c2}
    Attempts = 2
    None = None
INVARIANTS
    TypeOK
    StoredIsLive
    OneOpener
    OpenedTabHasShell
PROPERTIES
    RunsSettle
CHECK_DEADLOCK FALSE
