SPECIFICATION FairSpec
CONSTANTS
  MaxChunks = 3
  Capacity = 1
  EarlyChunks = 1
  Answers = 0
  IntMax = 100
  Workers = 1

PROPERTIES
  DestroyedAfterAPeerLeft
  DataIsRelayed
  RelaysLikeATunnel
\* A connection ends, and a peer need not send anything.
CHECK_DEADLOCK FALSE
