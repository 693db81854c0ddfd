SPECIFICATION Spec
CONSTANTS
    Handle = {a}
    Uses = {{"fails"}}
    MaxLog = 2
    MaxOwn = 0
    MaxStops = 2
INVARIANT NumberIsAssociated
CHECK_DEADLOCK FALSE
