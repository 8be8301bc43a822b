\* Data packets, pings and acks over a network that reorders; the server
\* mostly answers.
SPECIFICATION Spec
CONSTANTS
  SeqMod = 6
  RecvWindow = 3
  SendWindow = 2
  AckBits = 4
  AckByte = 2
  MaxAckBytes = 2
  Slots = 2
  InOrder = FALSE
  MaxSeq <- ClientMostly
  MaxExtra <- TwoEach
INVARIANTS AckFieldFits NotifyQueueIsWindow
PROPERTY HandledInOrder

\* Every packet up to MaxSeq has been sent and notified.
CHECK_DEADLOCK FALSE
