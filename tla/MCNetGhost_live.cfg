SPECIFICATION FairSpec
CONSTANTS
  Objects = {o1, o2}
  Indices = {i1, i2}
  Bits = {b1}
  None = None
  SendWindow = 2
  SkipCap = 2
  MaxVersion = 1
  MaxScopings = 0
  PackRetains = FALSE
  ClearMasks <- NoMasks
PROPERTIES
  EventuallyInSync
