SPECIFICATION FairSpec
CONSTANTS
    Filesystems = {a, b}
    root = root
    media = media
    Points = {root, media}
    Rank <- MCRank
    Threads = {t1, t2}
    Period = 2
    Throttle = 1
    MaxChanges = 2
    Healths = {"ok", "hung", "failing"}
    Enclosing = Enclosing
    NoReading = NoReading
INVARIANTS
    NoPile
    NoSpin
PROPERTIES
    RingCatchesUp
