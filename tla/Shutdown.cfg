SPECIFICATION Spec
CONSTANTS
  Procs = {p1, p2}
\* The simulation ends.
CHECK_DEADLOCK FALSE
INVARIANT QueueCleared
