CONSTANTS
  Ops = {mail, flag}
  ReadBackOps = {mail}
  NoRecord = NoRecord
  MaxIndex = 4
  MaxAttempts = 2
  MaxCrashes = 1
SPECIFICATION Spec
INVARIANTS
  CompletedHappened
PROPERTIES
  
  
  ImplementsOnceEffect
