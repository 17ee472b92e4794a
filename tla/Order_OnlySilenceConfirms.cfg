\* The claim OnlySilenceConfirms fails.
CONSTANTS
  Terms <- MCOneOrder
  FeeRates <- MCFeeRates
  PartialRefunds <- MCPartialRefunds
  Keys = {k1, k2}
  Workers = {w1, w2}
  OperatorMoves <- WorkflowMoves
  IncludedRevisions = 1
  CeilingRevisions = 10
  MaxRounds = 2
  ExpiryOn = TRUE
  AutoAcceptOn = TRUE
  BatchOn = TRUE
SPECIFICATION Spec
PROPERTY
  OnlySilenceConfirms
\* An ended order may see no further step.
CHECK_DEADLOCK FALSE
