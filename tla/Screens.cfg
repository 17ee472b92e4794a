\* The bell, or an order page whose order takes one step beside one click.
SPECIFICATION Spec
CONSTANTS
  Changes = 2
  Window = 2
  Cap = 1
  Renewals = 2
  Steps = 1
  Clicks = 1
  PageWindow = 2
  GraceDays = 7
  People <- SeededPeople
INVARIANTS
  OnePoll
  RefusedOnlyWhenStale
PROPERTIES
  FallbackCatchesUp
  PageCatchesUp
\* Nobody has to do anything.
CHECK_DEADLOCK FALSE
