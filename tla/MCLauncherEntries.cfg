SPECIFICATION Spec
CONSTANTS
    Builds = {b1, b2}
    Worlds <- MCWorlds
    MaxLaunches = 3
    MaxToggles = 4
    Stable = Stable
    Off = Off
    NoFile = NoFile
    NoProcess = NoProcess
INVARIANTS
    NoDangling
    EntriesHealed
    CopyIsCurrent
    NoLeak
    ToggleObeyed
CHECK_DEADLOCK FALSE
