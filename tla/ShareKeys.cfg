SPECIFICATION Spec
CONSTANTS
  User = {"a"}
  Registered = {"a"}
  File = {1, 2}
  Ask = {"list", "selector", "snk"}
  Uses = {{"out"}, {"in"}, {"users", "out"}}
  MaxCalls = 2
  MaxOthers = 2
  MaxFaults = 1
INVARIANTS OutAgrees InAgrees OneRecord WaitingIsRequested
CHECK_DEADLOCK FALSE
