SPECIFICATION Spec
CONSTANTS
    Handle = {a}
    Uses = {{"again"}}
    MaxLog = 2
    MaxOwn = 0
    MaxStops = 1
INVARIANT NumberIsAssociated
CHECK_DEADLOCK FALSE
