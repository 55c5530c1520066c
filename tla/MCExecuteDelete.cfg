SPECIFICATION ExecuteSpec
CONSTANTS
  s1 = s1
  s2 = s2
  s3 = s3
  Sessions = {s1, s2, s3}
  InitialSessions = {s1, s2}
  Inputs = {"text"}
  Capacity = 1
  MaxCommands = 3
  MaxAsks = 1
PROPERTY
  EveryAskAnswered
CHECK_DEADLOCK FALSE
