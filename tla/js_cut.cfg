SPECIFICATION Spec
CONSTANTS
  NumServers = 1
  MaxFiles = 2
  BufferSize = 20
  NamesOnTime = TRUE
  WholeReads = FALSE
  WholeSends = TRUE
INVARIANTS
  SanityCheck
\* The client may stop submitting, so the system may come to rest.
CHECK_DEADLOCK FALSE
