CONSTANTS
  c1 = c1
  c2 = c2
  c3 = c3
  n1 = n1
  n2 = n2
  NULL = NULL
  Controls = {c1, c2, c3}
  Names = {n1, n2}
  NameOf <- McNameOf
  MaxCalls = 3
  MaxQueue = 1
  MaxModal = 1
SPECIFICATION Spec
SYMMETRY SuccessorSymmetry
INVARIANT TypeOK
INVARIANT NoStalePointer
INVARIANT CallersKeepControls
INVARIANT NamesFound
