\* A lost decrement: main spins for ever.
SPECIFICATION Spec
CONSTANTS
  THREAD_BURST = 2
  NUM_RESOURCES = 2
  NUM_TASKS = 1
  MAX_BURSTS = 1
PROPERTIES
  QuitsAfterBurst
CHECK_DEADLOCK FALSE
