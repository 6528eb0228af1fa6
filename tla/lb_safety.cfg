SPECIFICATION Spec
CONSTANTS
  NumServers = 2
  MaxRequests = 4
  Sizes <- OneSize
  MaxTime = 1
  Epoch = 1003
  HalfSecond = 1
  IntModulus = 8
INVARIANTS
  IInv
  EachFileInOnePlace
  QueuedExactlyWhenIdle
  ActiveCountIsExact
  QueuesAreHomogeneous
  WorkConserving
  AgeCheckNeverHolds
PROPERTIES
  QueuedKeysAreStable
  ImplementsJobDispatch
\* The client may stop submitting, so the system may come to rest.
CHECK_DEADLOCK FALSE
