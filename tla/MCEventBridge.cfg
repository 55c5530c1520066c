SPECIFICATION FairSpec
CONSTANTS
  LiveConsumers = {l1}
  CursorConsumers = {w1}
  MaxEvents = 2
  MaxBytes = 3
  Sizes <- MCSizes
  ChannelCap = 1
  BatchLimit = 1
  MaxCursor = 4
  MaxReconnects = 1
INVARIANTS
  TypeOK
  RingIsTail
PROPERTIES
  ResyncOnlyIfEvicted
  ImplementsStream
  EveryConsumerCatchesUp
CHECK_DEADLOCK FALSE
