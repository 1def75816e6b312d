SPECIFICATION DialogFairSpec
CONSTANTS
    Callers = {"web"}
    InstalledBefore <- Packages
    MaxFaults <- OneDeath
    MaxUnderWay = 2
INVARIANTS OutcomeMeansClean ReloadsInstalled
PROPERTIES RunningEnds WatchedOutcomeShown
