\* Two subscriptions, one of any kind, and up to three events, nested calls
\* included; the emitter may come to rest when all have left.
SPECIFICATION Spec
CONSTANTS
  s1 = s1
  s2 = s2
  Subs = {s1, s2}
  Options <- MCOptions
  MaxBuffer = 2
  MaxEvents = 3
  MaxOffers = 4
  MaxFailures = 1
  MaxDepth = 3
INVARIANTS
  DeliveredOnce
  FirstSeenInOrder
PROPERTIES
  QuietAfterUnsubscribe
CHECK_DEADLOCK FALSE
