SPECIFICATION Spec
CONSTANTS
    Macs = {m1, m2}
    Clients = {m1}
    Modes = {backup, recovery}
    None = None
    ArmTTL = 1
    MaxTime = 2
    MaxPending = 1
    MaxFaults <- OneOfEach
    IpxeInUse = FALSE
SYMMETRY ModeSymmetry
INVARIANTS TypeOK BootNeedsRecord RecordBoots ArmingInv
PROPERTIES LiveNeedsRecord OtherRecordsKept ImplementsLease
