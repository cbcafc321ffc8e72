CONSTANTS
  Requests = {r1, r2, r3, r4}
  MaxQueue = 2
  Direct = {d1}
  Tabs = {t1, t2}
  Attested = "auth"
  None = None
SPECIFICATION WorkerSpec
INVARIANTS
  NoLostWakeup
  OperationsNeverOverlap
PROPERTIES
  EveryWaiterIsServed
  ImplementsSerialService
  
