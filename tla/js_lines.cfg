SPECIFICATION Spec
CONSTANTS
  NumServers = 2
  MaxFiles = 4
  BufferSize = 30
  NamesOnTime = TRUE
  WholeReads = TRUE
  WholeSends = TRUE
INVARIANTS
  DeliveryInv
  ServersKnown
  SanityCheck
PROPERTIES
  DeliversLines
  ImplementsJobDispatch
  EverySubmittedFileFinishes
\* The client may stop submitting, so the system may come to rest.
CHECK_DEADLOCK FALSE
