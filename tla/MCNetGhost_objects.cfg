SPECIFICATION Spec
CONSTANTS
  Objects = {o1, o2}
  Indices = {i1, i2}
  Bits = {b1}
  None = None
  SendWindow = 2
  SkipCap = 0
  MaxVersion = 1
  MaxScopings = 1
  PackRetains = TRUE
  ClearMasks <- SingleBits
SYMMETRY Symmetry
INVARIANTS
  GhostTableSound
  ReadsAsWritten
  StaleIsComing
  KillIsComing
