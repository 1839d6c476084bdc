SPECIFICATION Spec
CONSTANTS
  NULL = NULL
  p1 = p1
  p2 = p2
  p3 = p3
  Procs = {p1, p2, p3}
  Runtime <- MixedRuntime
  Priority <- MixedPriority
  Algo = "HPF"
  Quantum = 1
  Timing = "prompt"
\* The simulation ends: when the scheduler has exited there is nothing left to do.
CHECK_DEADLOCK FALSE
INVARIANT NoneLeftBehind
