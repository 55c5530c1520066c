SPECIFICATION LegacySpec
CONSTANTS
  LiveConsumers = {l1}
  CursorConsumers = {}
  MaxEvents = 2
  MaxBytes = 3
  Sizes <- MCSizes
  ChannelCap = 2
  BatchLimit = 1
  MaxCursor = 3
  MaxReconnects = 0
PROPERTIES
  NeverMissedOrDuplicated
CHECK_DEADLOCK FALSE
