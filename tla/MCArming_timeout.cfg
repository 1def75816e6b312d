SPECIFICATION Spec
CONSTANTS
    Macs = {m1}
    Clients = {m1}
    Modes = {backup, recovery}
    None = None
    ArmTTL = 1
    MaxTime = 1
    MaxPending = 0
    MaxFaults <- OneTimeout
    IpxeInUse = FALSE
INVARIANTS NeverArmedWithoutRecord
