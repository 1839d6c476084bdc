SPECIFICATION Spec
CONSTANTS
  NULL = NULL
  MAX_SIZE = 16
  Procs = {p, q, r, s}
  Sizes = {1, 2, 3, 7, 16}
INVARIANTS MemInv Tiles BlocksAreHeld Coalesced RefusesOnlyWhenFull
SYMMETRY Symmetry
