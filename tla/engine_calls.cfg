\* Two calls with one key and a cancel(); one store fault and one crash.
SPECIFICATION Spec
CONSTANTS
  r1 = r1
  r2 = r2
  k1 = k1
  NoKey = NoKey
  NoReq = NoReq
  Requests = {r1, r2}
  Cancellers = {c1, c2}
  Keys = {k1}
  KeyOf <- OneKey
  MaxAttempts = 2
  SqlStore = TRUE
  MaxFaults = 1
  MaxExpiries = 0
  MaxCrashes = 1
SYMMETRY Symmetry
INVARIANTS
  BudgetReturned
  KeyResolved
  SuccessIsBacked
  ReplayIsTrue
PROPERTIES
  OnlyCancelDisturbs
  RetryDiscipline
  ImplementsRecords
