SPECIFICATION SysFairSpec
CONSTANTS
  NULL = NULL
  p1 = p1
  p2 = p2
  p3 = p3
  p4 = p4
  p5 = p5
  process_list <- FiveProcesses
  Procs = {p1, p2, p3, p4, p5}
  Runtime <- MixedRuntime
  Priority <- MixedPriority
  Arrival <- MixedArrival
  MemorySize <- MixedSizes
  MAX_SIZE = 4
  MapCapacity = 5
  Algo = "SRTN"
  Quantum = 1
  Timing = "apart"
\* The simulation ends.
CHECK_DEADLOCK FALSE
INVARIANT PromptInv
PROPERTIES ImplementsSimulation DispatchesShortest ShortestRuns EveryChildExits ComesToRest
