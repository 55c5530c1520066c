SPECIFICATION Spec
CONSTANTS
  s1 = s1
  s2 = s2
  s3 = s3
  Sessions = {s1}
  InitialSessions = {s1}
  Inputs = {"text"}
  Capacity = 1
  MaxCommands = 3
  MaxAsks = 0
INVARIANT
  ShutdownStopsEveryTask
CHECK_DEADLOCK FALSE
