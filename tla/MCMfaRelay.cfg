CONSTANTS
  Numbers = {n1, n2}
  NoNumber = NoNumber
  MaxPolls = 5
  MayLandSignedOut = FALSE
  WorkerMayRestart = TRUE
SPECIFICATION Spec
INVARIANTS
  RelayedOnce
  OneAttemptEach
PROPERTIES
  
  RunsEndIfSendsDo
