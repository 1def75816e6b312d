SPECIFICATION Spec
CONSTANTS
    Macs = {m1, m2}
    Addrs = {a1, a2}
    None = None
    ProgressTTL = 0
    MaxJobs = 1
    MaxClicks = 1
    MaxMoves = 1
    MaxFails = 0
PROPERTIES ArmsTheShown
