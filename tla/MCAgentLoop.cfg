SPECIFICATION Spec
CONSTANTS
  Tools <- MCTools
  Writes = {"write"}
  Spawns = {"spawn"}
  MaxFrame = 3
  MaxBuffer = 5
  MaxAttempts = 2
  Capacity = 2
  MaxText = 1
  MaxOverflowRetries = 1
  Profiles <- MCProfiles
INVARIANTS
  TypeOK
  DecodedAsSent
  OneAttemptSpeaks
  AnswerIsWhole
  PairsReplayed
  ResumeMissesNothing
  OneVerdict
  AsStored
PROPERTIES
  RunEnds
CHECK_DEADLOCK FALSE
