SPECIFICATION FairSpec
CONSTANTS
  NumServers = 2
  MaxRequests = 3
  Sizes <- TwoSizes
  MaxTime = 1
  Epoch = 1003
  HalfSecond = 1
  IntModulus = 8

PROPERTIES
  EverySubmittedFileCompletes
  DispatchesInTime
\* The client may stop submitting, so the system may come to rest.
CHECK_DEADLOCK FALSE
