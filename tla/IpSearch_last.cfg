CONSTANTS
  IndexStart = 8
  MaxIp = 9
  Indexes <- McIndexes
SPECIFICATION FairSpec
INVARIANT FindsEveryEntry
\* the search returns
CHECK_DEADLOCK FALSE
