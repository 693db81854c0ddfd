SPECIFICATION Spec
CONSTANTS
  Upload = {}
  Existing = {}
  Attr = {}
  Cluster = {1}
  Item = {1}
  Removal = FALSE
  GivesUp = FALSE
  Uses = {{"retrieve"}}
  MaxFaults = 1
PROPERTIES FailedIsRetried
CHECK_DEADLOCK FALSE
