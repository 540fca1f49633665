CONSTANTS
  MaxId = 2
  Handles = {c1, c2}
  NULL = NULL
SPECIFICATION Spec
SYMMETRY HandleSymmetry
INVARIANT CloseHangsUpAll
\* the process ends
CHECK_DEADLOCK FALSE
