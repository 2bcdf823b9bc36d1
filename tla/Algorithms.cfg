\* Dekker as pseudocode (sequentially consistent); Dijkstra for 3 processes.
SPECIFICATION AlgorithmsSpec
CONSTANTS
  STORE_BUFFER = 2
  SEQUENTIAL = TRUE
  N = 3
INVARIANTS
  TypesOK
  MutualExclusion
PROPERTIES
  StarvationFree
  DeadlockFree
