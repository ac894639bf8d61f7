\* Two executions, a cancel, and recover() beside them, whose lists return one
\* record; crashes and faults at will.
SPECIFICATION RecoverySpec
CONSTANTS
  r1 = r1
  r2 = r2
  NoReq = NoReq
  Requests = {r1, r2}
  Cancellers = {c1}
  ResumePaused = TRUE
  CreatedAt <- MCCreatedAt
  ListLimit = 1
CONSTRAINT Bounded
INVARIANTS
  AbandonedIsResolved
  ReportIsTrue
PROPERTIES
  RecoveryIsFinal
