\* The person loads or follows three addresses, the sessions outside the tab
\* change twice.
SPECIFICATION Spec
CONSTANTS
  Visits = 3
  Turns = 2
INVARIANT OneTryPerSession
PROPERTY FlickerEnds
\* Nobody has to do anything.
CHECK_DEADLOCK FALSE
