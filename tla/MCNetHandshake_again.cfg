SPECIFICATION Spec
CONSTANTS
  RetryCount = 1
  MaxAttempts = 3
  MaxRestarts = 1
INVARIANT NewAttemptNewConnection
\* The client has made its last attempt.
CHECK_DEADLOCK FALSE
