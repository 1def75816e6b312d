SPECIFICATION FairSpec
CONSTANTS
    Macs = {m1, m2}
    None = None
    MaxImages = 2
    MaxFetches = 2
    MaxClicks = 3
INVARIANTS TypeOK VersionsFollowTime RenamesTheTyped ChosenForHost
CHECK_DEADLOCK FALSE
PROPERTY TableCatchesUp
