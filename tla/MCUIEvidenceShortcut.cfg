SPECIFICATION Spec
CONSTANTS
  Fragments = {"plan", "mail"}
  Capabilities = {"plansRead", "searchRead", "mailRead", "tasksRead"}
  Needs <- MCNeeds
  ReadOnly = {"plansRead", "tasksRead"}
  None = None
  Revisions = {"first", "second", "third"}
  Contents <- MCContents
  Accepting = {"mail"}
  MaxAge = 2
  PromotionAge = 1
  MaxClock = 2
  MaxSkew = 1
  MaxRows = 2
PROPERTY DriftNeedsReattestation
