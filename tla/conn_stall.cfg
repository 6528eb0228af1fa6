SPECIFICATION FairSpec
CONSTANTS
  MaxChunks = 3
  Capacity = 1
  EarlyChunks = 0
  Answers = 3
  IntMax = 100
  Workers = 2

PROPERTY DataIsRelayed
\* A connection ends, and a peer need not send anything.
CHECK_DEADLOCK FALSE
