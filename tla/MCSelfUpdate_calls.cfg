SPECIFICATION Spec
CONSTANTS
    Callers = {"shell", "console"}
    InstalledBefore <- NoMetapackage
    MaxFaults <- AllFaults
INVARIANTS TypeOK TunnelDown SuccessMeansInstalled
