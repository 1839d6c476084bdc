SPECIFICATION TimedSpec
CONSTANTS
  NULL = NULL
  p1 = p1
  p2 = p2
  p3 = p3
  Procs = {p1, p2, p3}
  Runtime <- MixedRuntime
  Priority <- MixedPriority
  Algo = "RR"
  Quantum = 2
  Timing = "prompt"
  Arrival <- MixedArrival
  StartClock = 1
  MaxClock = 5
\* The simulation ends: when the scheduler has exited there is nothing left to do.
CHECK_DEADLOCK FALSE
INVARIANT UtilizationIsWork
