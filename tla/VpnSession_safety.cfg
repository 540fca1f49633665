CONSTANTS
  MaxId = 2
  Handles = {c1, c2}
  NULL = NULL
SPECIFICATION Spec
SYMMETRY HandleSymmetry
INVARIANT TypeOK
INVARIANT ListMirrorsTable
INVARIANT FormTargetsRow
INVARIANT ButtonsTellTruth
PROPERTY LostOnlyByReload
PROPERTY ImplementsLines
\* the process ends
CHECK_DEADLOCK FALSE
