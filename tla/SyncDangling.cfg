SPECIFICATION Spec
CONSTANTS
  Name = {"f", "g"}
  Time = {1, 2}
  Locks = TRUE
  Losses = TRUE
  MaxChanges = 2
  MaxRefusals = 1
INVARIANTS NoDangling
CHECK_DEADLOCK FALSE
