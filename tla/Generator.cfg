SPECIFICATION FairSpec
CONSTANTS
  NULL = NULL
  p1 = p1
  p2 = p2
  p3 = p3
  p4 = p4
  p5 = p5
  process_list <- FiveProcesses
  Arrival <- Sorted
  MemorySize <- MixedSizes
  MAX_SIZE = 8
  MapCapacity = 5
  Timing = "prompt"
\* The generator ends after the last process.
CHECK_DEADLOCK FALSE
INVARIANTS PromptGenInv OwnBlock AllReturned EachOnce
PROPERTIES NoOvertaking AllForked
