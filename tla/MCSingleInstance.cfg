SPECIFICATION FairSpec
CONSTANTS
    Launches = {p1, p2, p3}
    Versions = {v1, v2}
    MaxAttempts = 5
    Worlds <- MCWorlds
    NoFile = NoFile
    Leftover = Leftover
    NoPeer = NoPeer
INVARIANTS
    NoPileUp
    WidgetSurvives
PROPERTIES
    LiveSocketKept
    LaunchSettles
    OpenedBuildRuns
CHECK_DEADLOCK FALSE
