SPECIFICATION Spec
CONSTANTS
    m1 = m1
    m2 = m2
    i1 = i1
    i2 = i2
    l1 = l1
    l2 = l2
    None = None
    Macs = {m1, m2}
    IPs = {i1, i2}
    Labels = {l1, l2}
    AutoLabels = {l2}
    InitialHosts <- Lists
    Hearings <- OneHeard
    MaxEntries = 2
    MaxBatch = 1
    MaxRequests = 3
    MaxFaults <- OneOfEach
INVARIANTS TypeOK UniqueAddresses NameRemembered
PROPERTIES LabelIsOwn NamedSurvivesDedup AddressFilled
CHECK_DEADLOCK FALSE
