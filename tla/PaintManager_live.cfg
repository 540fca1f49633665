CONSTANTS
  c1 = c1
  c2 = c2
  c3 = c3
  n1 = n1
  n2 = n2
  NULL = NULL
  Controls = {c1, c2}
  Names = {n1}
  NameOf <- McSuccessors
  MaxCalls = 2
  MaxQueue = 0
  MaxModal = 1
SPECIFICATION FairSpec
PROPERTY RemovedIsDeleted
