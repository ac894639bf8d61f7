\* A batch of events beside other transactions of one SQLite connection.
SPECIFICATION Spec
CONSTANTS
  k1 = k1
  k2 = k2
  k3 = k3
  x1 = x1
  x2 = x2
  a1 = a1
  a2 = a2
  a3 = a3
  s1 = s1
  v1 = v1
  v2 = v2
  alice = alice
  None = None
  Done = Done
  Error = Error
  Clients = {k1, k2, k3}
  ExecutionIds = {x1, x2}
  AuthorityIds = {a1, a2, a3}
  Scopes = {s1}
  EventIds = {v1, v2}
  Settings <- MCSettings
  CreatedAt <- MCCreatedAt
  ListLimit = 1
  MaxTime = 2
INVARIANT
  BatchIsAtomic
CHECK_DEADLOCK FALSE
