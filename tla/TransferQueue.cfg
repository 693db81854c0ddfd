SPECIFICATION Spec
CONSTANTS
  Get = {1}
  Put = {2, 3}
  LastFp = 3
  Target = {"x", "y"}
  Size = 1
  MAXTRANSFERS = 2
  MINPIPELINE = 1
  RetryLimit = 1
  Vanishing = TRUE
  LocalErrors = {"transient", "permanent"}
  MaxFaults = 2
  MaxCalls = 1
INVARIANTS TypeOK Linked
PROPERTIES EndsOnce Settles
CHECK_DEADLOCK FALSE
