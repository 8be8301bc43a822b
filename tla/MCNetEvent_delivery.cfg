SPECIFICATION FairSpec
CONSTANTS
  EventSeqMod = 3
  EventWindow = 2
  SendWindow = 2
  MaxFit = 2
  MaxPosted <- FourAndOne
INVARIANTS
  QueuesSound
  OncePerEvent
  NotifiesAreTruthful
PROPERTIES
  OrderedDelivery
  GuaranteedIsProcessed
  EveryEventIsNotified
\* Every event has been posted and notified.
CHECK_DEADLOCK FALSE
