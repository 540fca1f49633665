CONSTANTS
  MaxId = 1
  Handles = {c1, c2}
  NULL = NULL
SPECIFICATION FairSpec
PROPERTY DisabledButtonReturns
\* the process ends
CHECK_DEADLOCK FALSE
