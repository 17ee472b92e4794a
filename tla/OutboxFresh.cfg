\* No row grows older than stuck_after_minutes and nobody retries by hand.
CONSTANTS
  e1 = e1
  e2 = e2
  u1 = u1
  u2 = u2
  h1 = h1
  h2 = h2
  w1 = w1
  w2 = w2
  Events <- TwoEvents
  RecipientsOf <- TwoEventsUsers
  HooksOf <- TwoEventsHooks
  Workers = {w1, w2}
  EventBatch = 2
  DeliveryBatch = 2
  EventRetryLimit = 2
  MaxAttempts = 2
  MayAge = FALSE
  SlowWork = FALSE
  ShortRetention = TRUE
  MaxFaults = 1
  MaxManual = 0
SPECIFICATION Spec
SYMMETRY WorkerSymmetry
INVARIANTS
  ClaimedByOne
  TriesWithinLimit
PROPERTY
  SettledIsFinal
