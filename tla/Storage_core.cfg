SPECIFICATION FairSpec
CONSTANTS
    Drives = {d1, d2, d3}
    FirstDrive = d1
    None = None
    MaxRuns = 2
    Helpers = {h1, h2}
    MaxReboots = 1
    MaxPulls = 1
INVARIANTS TypeOK ClientsOnAnnounced FinishedIsServed
PROPERTIES NfsNotUncovered ReconnectRemounts
CHECK_DEADLOCK FALSE
