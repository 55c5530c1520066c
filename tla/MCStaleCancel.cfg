SPECIFICATION Spec
CONSTANTS
  s1 = s1
  s2 = s2
  s3 = s3
  Sessions = {s1}
  InitialSessions = {s1}
  Inputs = {"text", "reload"}
  Capacity = 1
  MaxCommands = 4
  MaxAsks = 0
INVARIANT
  StaleCancelIgnored
CHECK_DEADLOCK FALSE
