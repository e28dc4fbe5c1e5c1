\* Liveness of a retried request whose consumer does not abort a buffered replay.
CONSTANTS
  r1 = r1
  r2 = r2
  r3 = r3
  Reps <- MCReps
  Length <- MCLength
  NoEtag = NoEtag
  Cap = 2
  MaxRetries = 2
  AsyncDispatch = FALSE
  StreamBody = FALSE
  AbortInReplay = FALSE
SPECIFICATION FairSpec
CHECK_DEADLOCK FALSE
PROPERTIES
  EveryRequestEnds
