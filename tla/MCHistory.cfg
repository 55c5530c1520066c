CONSTANTS
  Sessions = {s1, s2, s3}
  NoSession = none
  Files = {f}
  Profiles <- SomeProfiles
  KeepCounts = {1, 2}
  PageLimit = 2
  MaxImages = 2
  MaxEntries = 2
  MaxCandidates = 1
  MaxTurns <- SomeTurns
  MaxMessages <- SomeMessages
  MaxMemories = 3
  MaxTools = 3
SPECIFICATION Spec
CHECK_DEADLOCK FALSE
INVARIANTS
  TypeOK
  PathIsChain
  VisibleIsHistory
  HiddenIsRecoverable
  PagesComplete
  RecallFollowsHistory
PROPERTIES
  UndoRestoresFiles
  RedoRestoresFiles
  ImplementsTurnStack
