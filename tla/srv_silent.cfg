SPECIFICATION Spec
CONSTANTS
  Letters = {"a", "b"}
  MaxLength = 3
  MaxLines = 2
  Blacklist <- TwoLines
  Clients = {c1, c2}
  Silent = {c1}
  Stuck = {}
  Hasty = {}
  THREAD_COUNT = 2
  Interrupts = FALSE
PROPERTY EveryClientIsAnswered
\* Clients need not connect, and the process may end.
CHECK_DEADLOCK FALSE
