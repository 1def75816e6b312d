SPECIFICATION FairSpec
CONSTANTS
    Macs = {m1}
    Clients = {m1}
    Modes = {backup, recovery}
    None = None
    ArmTTL = 1
    MaxTime = 2
    MaxPending = 2
    MaxFaults <- CutShort
    IpxeInUse = TRUE
INVARIANT NoRebootLoop
PROPERTIES ExpiryRevokes
