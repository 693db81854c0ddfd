SPECIFICATION Spec
CONSTANTS
  User = {"a"}
  Registered = {}
  File = {1}
  Ask = {}
  Uses = {{"out"}}
  MaxCalls = 1
  MaxOthers = 0
  MaxFaults = 0
INVARIANTS SharesAsAsked
CHECK_DEADLOCK FALSE
