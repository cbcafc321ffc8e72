CONSTANTS
  Pages = {p1, p2}
  Clients = {c1, c2}
  NoPage = NoPage
  ClicksMayTimeOutLate = FALSE
INIT Init
NEXT Next
SYMMETRY MCSymmetry
INVARIANTS
  TypeOK
  
PROPERTIES
  BeginLandsUnresolved
  
