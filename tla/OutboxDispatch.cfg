\* Two processes that may die, reclaim each other's rows, and retries by hand.
CONSTANTS
  e1 = e1
  e2 = e2
  u1 = u1
  u2 = u2
  h1 = h1
  h2 = h2
  w1 = w1
  w2 = w2
  Events <- OneEvent
  RecipientsOf <- OneEventUsers
  HooksOf <- OneEventHooks
  Workers = {w1, w2}
  EventBatch = 2
  DeliveryBatch = 2
  EventRetryLimit = 2
  MaxAttempts = 2
  MayAge = TRUE
  SlowWork = TRUE
  ShortRetention = FALSE
  MaxFaults = 1
  MaxManual = 1
SPECIFICATION FairSpec
INVARIANTS
  InboxOnce
  DoneIsEarned
PROPERTIES
  ReplayKeepsDeliveries
  AllSettle
