SPECIFICATION Spec
CONSTANTS
  MaxChunks = 4
  Capacity = 1
  EarlyChunks = 1
  Answers = 0
  IntMax = 2
  Workers = 2

INVARIANTS
  IInv
  RelayedInOrder
  ResponseWrittenBeforeClose
  SizeIsExact
  SocketAccessesAreExclusive
  TimerStoppedWhenDestroyed
PROPERTIES
  ImplementsTunnel
\* A connection ends, and a peer need not send anything.
CHECK_DEADLOCK FALSE
