CONSTANTS
  Requests = {r1, r2}
  MaxQueue = 1
  Direct = {d1}
  Tabs = {t1, t2}
  Attested = "auth"
  None = None
SPECIFICATION WorkerSpec
INVARIANT OneOperationPerProfile
