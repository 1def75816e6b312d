SPECIFICATION FairSpec
CONSTANTS
    m1 = m1
    m2 = m2
    Macs = {m1, m2}
    Letters = {65, 66}
    Workgroup <- MCWorkgroup
    Given <- MCGiven
    SaveInterval = 1
    MaxRenames = 1
    MaxKills = 1
INVARIANT NameIsOwn
PROPERTIES FullNameStays NameArrives
