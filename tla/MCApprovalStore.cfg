CONSTANTS
  Approvals = {a1, a2}
  Digests = {d1, d2}
  Attempts = {c1, c2}
  NoOne = NoOne
  MaxTime = 1
SPECIFICATION Spec
INVARIANTS
  SpendIsAuthorized
  RefusalsAreJustified
PROPERTIES
  EveryAttemptEnds
  ImplementsSingleUseGrant
