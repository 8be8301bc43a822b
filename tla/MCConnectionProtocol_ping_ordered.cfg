\* A ping after a lost packet, on a network that keeps the order.
SPECIFICATION Spec
CONSTANTS
  SeqMod = 6
  RecvWindow = 3
  SendWindow = 2
  AckBits = 4
  AckByte = 2
  MaxAckBytes = 2
  Slots = 2
  InOrder = TRUE
  MaxSeq <- TwoEach
  MaxExtra <- OneEach
INVARIANT NackedNeverHandled

\* Every packet up to MaxSeq has been sent and notified.
CHECK_DEADLOCK FALSE
