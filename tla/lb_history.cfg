SPECIFICATION HistorySpec
CONSTANTS
  NumServers = 1
  MaxRequests = 4
  Sizes <- OneSize
  MaxTime = 2
  Epoch = 1003
  HalfSecond = 1
  IntModulus = 8

INVARIANTS
  ForcedCountsAreExact
  BackoffBounded
  CountersRememberSharing
PROPERTIES
  CalibratedByRequestsThatRanAlone
\* The client may stop submitting, so the system may come to rest.
CHECK_DEADLOCK FALSE
