SPECIFICATION Spec
CONSTANTS
  c1 = c1
  c2 = c2
  c3 = c3
  NoChild = NoChild
  Children <- MCChildren
  Rounds = {1, 2}
  RoundOf <- MCRoundOf
  Profiles <- MCProfiles
  Capacity = 1
  Budget = 2
  MaxTurns = 1
INVARIANTS
  TypeOK
  RunningIsAlive
  EndIsShown
  TranscriptTells
PROPERTIES
  QuestionsKept
  EndIsFinal
  RoundsEnd
CHECK_DEADLOCK FALSE
