\* What must happen in the end, whatever moves of the table operators make by hand.
CONSTANTS
  Terms <- MCTerms
  FeeRates <- MCFeeRates
  PartialRefunds <- MCPartialRefunds
  Keys = {k1, k2}
  Workers = {w1, w2}
  OperatorMoves <- AnyMove
  IncludedRevisions = 1
  CeilingRevisions = 10
  MaxRounds = 2
  ExpiryOn = TRUE
  AutoAcceptOn = TRUE
  BatchOn = TRUE
SPECIFICATION FairSpec
INVARIANT
  TypeOK
PROPERTIES
  UnpaidOrdersEnd
  DeliveriesAreAnswered
  DueSettlementsDecided
\* An ended order may see no further step.
CHECK_DEADLOCK FALSE
