CONSTANTS
  Windows = {w1}
  MaxId = 2
  CryptItems = {0, 1, 2, 3}
  Edits = {host}
  Required = {host}
  Texts = {none, plain, quoted, doubled, quadrupled}
  Empty = none
  Rejected = Rejected
  plain = plain
  quoted = quoted
  doubled = doubled
  quadrupled = quadrupled
  StoredAs <- McStoredAs
SPECIFICATION Spec
INVARIANT TypeOK
PROPERTY UntouchedSaveKeepsRow
