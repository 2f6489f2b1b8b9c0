SPECIFICATION Spec
CONSTANTS
    Launches = {p1, p2}
    Versions = {v1}
    MaxAttempts = 5
    Worlds <- MCStaleWorlds
    NoFile = NoFile
    Leftover = Leftover
    NoPeer = NoPeer
INVARIANT
    StaleClaim
CHECK_DEADLOCK FALSE
