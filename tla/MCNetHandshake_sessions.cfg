SPECIFICATION FairSpec
CONSTANTS
  RetryCount = 1
  MaxAttempts = 3
  MaxRestarts = 1
INVARIANTS
  TypeOK
  OnlyChallengedClients
PROPERTIES
  RepeatedRequestKeepsConnection
  EveryAttemptEnds
\* The client has made its last attempt.
CHECK_DEADLOCK FALSE
