\* The consumer may abort while the buffered body of a completed attempt is replayed.
CONSTANTS
  r1 = r1
  r2 = r2
  r3 = r3
  Reps <- MCReps
  Length <- MCLength
  NoEtag = NoEtag
  Cap = 2
  MaxRetries = 2
  AsyncDispatch = FALSE
  StreamBody = FALSE
  AbortInReplay = TRUE
SPECIFICATION FairSpec
CHECK_DEADLOCK FALSE
PROPERTIES
  AbortIsAnswered
