SPECIFICATION FairSpec
CONSTANTS
  s1 = s1
  s2 = s2
  s3 = s3
  Sessions = {s1, s2, s3}
  InitialSessions = {s1, s2}
  Inputs = {"text", "shell", "reload", "delete"}
  Capacity = 1
  MaxCommands = 3
  MaxAsks = 2
PROPERTIES
  EveryAskAnswered
  EveryPromptResolved
CHECK_DEADLOCK FALSE
