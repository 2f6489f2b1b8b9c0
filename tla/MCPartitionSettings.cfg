SPECIFICATION PageSpec
CONSTANTS
    home = home
    a = a
    b = b
    Ids = {home, a, b}
    Home = home
    Never = Never
    Gestures = 3
SYMMETRY Sym
INVARIANTS
    CleanUntilTouched
PROPERTIES
    ColorsKept
    NoTrace
