\* A server's construction, routes and shutdown; its limiters; its catalogue.
SPECIFICATION FairSpec
CONSTANTS
  alice = alice
  bob = bob
  c1 = c1
  c2 = c2
  c3 = c3
  None = None
  Nobody = Nobody
  NoAnswer = NoAnswer
  Calls = {c1, c2, c3}
  Keys <- MCKeys
  Config <- MCConfig
  WindowMs = 1000
  MaxRequests = 2
  Times = {400, 1000, 1400, 3000}
  Allowed <- MCAllowed
  Denied <- MCDenied
  MaxRegistered = 2
  MaxProfiles = 3
  MaxDrops = 1
  Settings <- MCSettings
CHECK_DEADLOCK FALSE
INVARIANTS
  DrainIsTrue
  RateBound
  ResolvesInRange
  SelectionIsBest
PROPERTIES
  CloseEnds
