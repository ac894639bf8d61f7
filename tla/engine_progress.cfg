\* In-memory stores; handlers settle, nothing faults, the key's TTL ends once.
SPECIFICATION FairSpec
CONSTANTS
  r1 = r1
  r2 = r2
  k1 = k1
  NoKey = NoKey
  NoReq = NoReq
  Requests = {r1, r2}
  Cancellers = {}
  Keys = {k1}
  KeyOf <- OneKey
  MaxAttempts = 2
  SqlStore = FALSE
  MaxFaults = 0
  MaxExpiries = 1
  MaxCrashes = 0
PROPERTIES
  EveryCallAnswered
