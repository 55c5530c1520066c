SPECIFICATION FairSpec
CONSTANTS
  s1 = s1
  s2 = s2
  s3 = s3
  Sessions = {s1, s2, s3}
  InitialSessions = {s1, s2}
  Inputs = {"text", "shell", "compact", "reload", "new", "delete", "diff"}
  Capacity = 1
  MaxCommands = 3
  MaxAsks = 2
INVARIANTS
  TypeOK
  Consent
  SlotHasRecord
  BusyIsBacked
PROPERTIES
  SwitchNeverInterrupts
CHECK_DEADLOCK FALSE
