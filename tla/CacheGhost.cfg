SPECIFICATION Spec
CONSTANTS
    Handle = {a, b}
    Uses = {{"t", "d", "m"}}
    MaxLog = 3
    MaxOwn = 1
    MaxStops = 1
INVARIANT NothingLeftOver
SYMMETRY Symmetry
CHECK_DEADLOCK FALSE
