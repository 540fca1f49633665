CONSTANTS
  W = 6
  Quote = 4
  MaxLen = 3
  MaxReplaced = 1
  Databases = {d1, d2}
  Queries = {q1, q2, q3}
  Statements = {s1, s2}
  Handles = {h1, h2}
  VMs = {v1, v2}
  NONE = NONE
SPECIFICATION McSpec
INVARIANT TypesOK
INVARIANT BlobIntact
INVARIANT VMsOwned
INVARIANT HandlesHeld
SYMMETRY ObjectSymmetry
