\* One call and one cancel(): the wait for the handler ends at once.
SPECIFICATION Spec
CONSTANTS
  r1 = r1
  r2 = r2
  k1 = k1
  NoKey = NoKey
  NoReq = NoReq
  Requests = {r1}
  Cancellers = {c1}
  Keys = {k1}
  KeyOf <- OneKey
  MaxAttempts = 1
  SqlStore = FALSE
  MaxFaults = 0
  MaxExpiries = 0
  MaxCrashes = 0
PROPERTIES
  CancelledMeansStopped
