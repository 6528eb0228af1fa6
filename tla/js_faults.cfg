SPECIFICATION Spec
CONSTANTS
  NumServers = 1
  MaxFiles = 2
  BufferSize = 8
  NamesOnTime = FALSE
  WholeReads = FALSE
  WholeSends = FALSE
CONSTRAINT
  FewLinesAfterwards
INVARIANTS
  IInv
  CompletionsAreReal
\* The client may stop submitting, so the system may come to rest.
CHECK_DEADLOCK FALSE
