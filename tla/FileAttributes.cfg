SPECIFICATION Spec
CONSTANTS
  Upload = {"u", "w"}
  Existing = {"w"}
  Attr <- AttrOfBoth
  Cluster = {1}
  Item = {1, 2}
  Removal = TRUE
  GivesUp = TRUE
  Uses = {{"store"}, {"retrieve"}}
  MaxFaults = 2
INVARIANTS SequentialUnlessHurried AttachedOnce ChannelThere
PROPERTIES PutsEnd FetchEnds
CHECK_DEADLOCK FALSE
