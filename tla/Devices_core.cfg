SPECIFICATION FairSpec
CONSTANTS
    Macs = {m1, m2}
    Addrs = {a1, a2}
    None = None
    ProgressTTL = 0
    MaxJobs = 1
    MaxClicks = 2
    MaxMoves = 1
    MaxFails = 1
INVARIANTS TypeOK NeverOlder
PROPERTIES TableCatchesUp SilentJobFades DismissesTheShown
