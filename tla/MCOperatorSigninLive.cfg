CONSTANTS
  Pages = {p1, p2, p3}
  Clients = {c1}
  NoPage = NoPage
  ClicksMayTimeOutLate = TRUE
SPECIFICATION Spec
INVARIANT SomeTabRemains
PROPERTIES
  OtherTabsSurvive
  EveryRequestIsAnswered
