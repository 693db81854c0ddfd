SPECIFICATION Spec
CONSTANTS
  Name = {"f", "g"}
  Time = {1, 2}
  Locks = TRUE
  Losses = TRUE
  MaxChanges = 2
  MaxRefusals = 1
INVARIANTS BackPointers Converged NoDupes CacheMirrors
CHECK_DEADLOCK FALSE
