SPECIFICATION FairSpec
CONSTANTS
  o1 = o1
  o2 = o2
  fA = fA
  fB = fB
  fC = fC
  Objects = {o1, o2}
  Files = {fA, fB, fC}
  Needs <- MCNeeds
  Held = {}
  Served = {fA, fB}
  Chunks <- MCChunks
  None = None
  Placeholder = Placeholder
  MaxGhostCount = 2
  InTransit = 1
  MaxFileNames = 2
  MaxSessions = 2
INVARIANTS
  SaveListSound
  GhostsInStep
  DownloadsAreSound
PROPERTIES
  SessionStarts
\* Ghosting is under way and the game changes nothing any more.
CHECK_DEADLOCK FALSE
