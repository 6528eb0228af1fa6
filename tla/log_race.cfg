SPECIFICATION Spec
CONSTANTS
  Threads = {"main", "worker"}
  MaxWrites = 1
INVARIANTS
  MessagesIntact
\* The number of calls is bounded.
CHECK_DEADLOCK FALSE
