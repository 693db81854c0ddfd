SPECIFICATION Spec
CONSTANTS
  Upload = {"u", "w"}
  Existing = {"w"}
  Attr <- AttrOfBoth
  Cluster = {1}
  Item = {1}
  Removal = TRUE
  GivesUp = TRUE
  Uses = {{"store"}}
  MaxFaults = 2
INVARIANTS Sequential
CHECK_DEADLOCK FALSE
