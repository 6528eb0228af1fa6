SPECIFICATION Spec
CONSTANTS
  Letters = {"a", "b"}
  MaxLength = 3
  MaxLines = 2
  Blacklist <- TwoLines
  Clients = {c1, c2}
  Silent = {}
  Stuck <- BothWays
  Hasty = {c2}
  THREAD_COUNT = 3
  Interrupts = TRUE
INVARIANTS
  IInv
  LoggerOutlivesThreads
  TelemetryLostOnlyInQueue
  RefusedExactlyWhenListed
PROPERTIES
  EveryClientIsAnswered
  RelayingContinues
  StopsOnInterrupt
\* Clients need not connect, and the process may end.
CHECK_DEADLOCK FALSE
