\* Data packets only: the ends are never silent for as long as PingTimeout.
SPECIFICATION Spec
CONSTANTS
  SeqMod = 6
  RecvWindow = 3
  SendWindow = 2
  AckBits = 4
  AckByte = 2
  MaxAckBytes = 2
  Slots = 2
  InOrder = FALSE
  MaxSeq <- SixEach
  MaxExtra <- ZeroEach
INVARIANTS TypeOK AckedWasHandled NackedNeverHandled NewerIsAccepted
PROPERTY EachWayNotifies
\* Every packet up to MaxSeq has been sent and notified.
CHECK_DEADLOCK FALSE
