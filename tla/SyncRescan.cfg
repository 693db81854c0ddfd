SPECIFICATION Spec
CONSTANTS
  Name = {"f", "g"}
  Time = {1}
  Locks = FALSE
  Losses = TRUE
  MaxChanges = 3
  MaxRefusals = 0
INVARIANTS RescanConverges
CHECK_DEADLOCK FALSE
