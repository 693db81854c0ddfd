SPECIFICATION Spec
CONSTANTS
  Get = {1}
  Put = {}
  LastFp = 1
  Target = {"x", "y"}
  Size = 1
  MAXTRANSFERS = 2
  MINPIPELINE = 1
  RetryLimit = 2
  Vanishing = FALSE
  LocalErrors = {"transient"}
  MaxFaults = 1
  MaxCalls = 0
PROPERTY AllPlaced
CHECK_DEADLOCK FALSE
