SPECIFICATION Spec
CONSTANTS
    Handle = {a, b}
    Uses = {{"t"}, {"d"}, {"m"}, {"late"}, {"again", "fails"}}
    MaxLog = 3
    MaxOwn = 1
    MaxStops = 1
INVARIANTS CacheComplete PollContinues NothingMissing
SYMMETRY Symmetry
CHECK_DEADLOCK FALSE
