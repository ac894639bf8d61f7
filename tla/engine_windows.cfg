\* Two calls with one key whose TTL ends once; SQL stores, one store fault, one crash.
SPECIFICATION Spec
CONSTANTS
  r1 = r1
  r2 = r2
  k1 = k1
  NoKey = NoKey
  NoReq = NoReq
  Requests = {r1, r2}
  Cancellers = {}
  Keys = {k1}
  KeyOf <- OneKey
  MaxAttempts = 2
  SqlStore = TRUE
  MaxFaults = 1
  MaxExpiries = 1
  MaxCrashes = 1
INVARIANTS
  AtMostOncePerWindow
PROPERTIES
  ImplementsKeyedCalls
