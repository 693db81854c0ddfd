SPECIFICATION Spec
CONSTANTS
  User = {"a"}
  Registered = {"a"}
  File = {1, 2}
  Ask = {"list"}
  Uses = {{"out"}}
  MaxCalls = 1
  MaxOthers = 2
  MaxFaults = 0
INVARIANTS AllAnswered
CHECK_DEADLOCK FALSE
