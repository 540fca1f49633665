CONSTANTS
  Windows = {w1, w2}
  MaxId = 2
  CryptItems = {1}
  Edits = {host}
  Required = {host}
  Texts = {none, plain}
  Empty = none
  Rejected = Rejected
  plain = plain
  quoted = quoted
  doubled = doubled
  quadrupled = quadrupled
  StoredAs <- McStoredAs
SPECIFICATION Spec
SYMMETRY WindowSymmetry
INVARIANT CaptionTellsProtocol
INVARIANT FormShowsHost
PROPERTY DeletedStaysDeleted
