SPECIFICATION AllSpec
CONSTANTS
  NULL = NULL
  Items = {a, b, c, d}
  Nodes = {n1, n2, n3, n4}
  Priorities = {0, 1, 2}
  Capacity = 1
  Keys = {1, 2, 3, 4}
  Values = {v1, v2}
  capacity = 4
INVARIANTS TypeOK WellLinked HeapTypeOK HeapOrder MapInv SpaceUpToRoot
PROPERTIES ImplementsReadyQueue HeapImplements ImplementsMap
