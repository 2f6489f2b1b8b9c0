SPECIFICATION MountsFairSpec
CONSTANTS
    root = root
    k1 = k1
    Fixed = {root}
    Keys = {k1}
    Selections <- MCSelections
    MaxChanges = 3
PROPERTIES
    NoBlink
    NoCollapse
    RingsSettle
    NamesSettle
CHECK_DEADLOCK FALSE
