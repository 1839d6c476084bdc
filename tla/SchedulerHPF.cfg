SPECIFICATION TimedSpec
CONSTANTS
  NULL = NULL
  p1 = p1
  p2 = p2
  p3 = p3
  Procs = {p1, p2, p3}
  Runtime <- InvalidRuntime
  Priority <- MixedPriority
  Algo = "HPF"
  Quantum = 1
  Timing = "any"
  Arrival <- FromTheStart
  StartClock = 1
  MaxClock = 1
\* The simulation ends: when the scheduler has exited there is nothing left to do.
CHECK_DEADLOCK FALSE
INVARIANTS TypeOK HPFInv OneAtATime FinishedMeansDone NothingLost
