\* The claim ResumedIsReviewed fails: paused, edited, resumed.
SPECIFICATION Sale
CONSTANTS
  Drafts = 2
  Queued = 2
  PolicyTurns = 1
PROPERTY ResumedIsReviewed
CHECK_DEADLOCK FALSE
