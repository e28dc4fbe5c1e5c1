\* One retried request, with a dispatcher whose promises may reject.
CONSTANTS
  r1 = r1
  r2 = r2
  r3 = r3
  Reps <- MCReps
  Length <- MCLength
  NoEtag = NoEtag
  Cap = 2
  MaxRetries = 2
  AsyncDispatch = TRUE
  StreamBody = TRUE
  AbortInReplay = TRUE
SPECIFICATION Spec
CHECK_DEADLOCK FALSE
INVARIANTS
  TypeOK
  NoSplice
  OneExchange
  OutcomeMatchesEnd
PROPERTIES
  PauseHolds
  AbortReasonWins
  ResumeIsSound
  KeepsContract
