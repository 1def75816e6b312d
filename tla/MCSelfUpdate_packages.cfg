SPECIFICATION FairSpec
CONSTANTS
    Callers = {"web"}
    InstalledBefore <- NoMetapackage
    MaxFaults <- NoFaults
PROPERTY TunnelSurvivesPackages
