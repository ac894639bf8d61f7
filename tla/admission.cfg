\* Issuing, delegating and revoking authority, approvals, and calls in two engines.
SPECIFICATION Spec
CONSTANTS
  e1 = e1
  e2 = e2
  alice = alice
  bob = bob
  tokA = tokA
  tokB = tokB
  a1 = a1
  a2 = a2
  a3 = a3
  a4 = a4
  c1 = c1
  c2 = c2
  None = None
  Nobody = Nobody
  Engines = {e1, e2}
  Principals = {alice, bob}
  Ids = {a1, a2, a3, a4}
  Savable = {a1, a2}
  RequestIds = {"r", "s"}
  Approvers = {alice}
  ApprovalTTL = 0
  Calls = {c1, c2}
  Contracts <- MCContracts
  Tokens <- MCTokens
  Skew = 0
  Settings <- MCSettings
  Names <- MCNames
  MaxTime = 1
INVARIANTS
  DelegationNarrows
  RevocationReaches
  PendingIsDecidable
PROPERTIES
  RevocationSeen
  ApprovalStands
  DenialHolds
