CONSTANTS
  Elements = {x1, x2, x3}
  Disablable = {x1, x2, x3}
  NULL = NULL
  Options = {x1, x2, x3}
  Groups = {g1, g2}
  NONE = NONE
  Nodes = {x1, x2, x3, x4}
  N = 4
  Pages = {x1, x2, x3, x4}
  Controls = {c1, c2}
  LocalIds = {l1, l2}
  Wrap = 3
  FirstId = 16
  MaxTimers = 3
  Keys = {0, 1, 2, 4}
  Data = {a, b}
  Items = {x1, x2, x3, x4}
  MaxBuckets = 2
SPECIFICATION PartsSpec
SYMMETRY Symmetry
INVARIANT TypesOK
INVARIANT IndicesFollow
INVARIANT CurrentIsSelected
PROPERTY SelectionFollows
INVARIANT GroupsMatch
 
PROPERTY BoxesAgree
 
INVARIANT TicksReachTheirOwner
INVARIANT TableIntact
PROPERTY ImplementsMap
\* all controls, and all nodes, may have been destroyed
CHECK_DEADLOCK FALSE
