SPECIFICATION Spec
CONSTANTS
  Strings = {s1, s2, s3}
  NoString = NoString
  EntryCount = 2
  MaxArgs = 2
  MaxEvents = 7
  MaxHandles = 1
SYMMETRY StringSymmetry
INVARIANTS
  TypeOK
  CommandsReadAsWritten
  NetSendIdIsFound
  TablesAgree
  HandlesReadOrAwait
\* The bound on events is reached.
CHECK_DEADLOCK FALSE
