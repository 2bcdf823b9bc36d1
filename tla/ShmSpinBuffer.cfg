\* A ring of 3 slots, 4 operations: the consumer spins for ever.
SPECIFICATION Spec
CONSTANTS
  BUFFER_SIZE = 3
  NUM_OPERATIONS = 4
PROPERTIES
  ConsumerFinishes
\* The consumer may spin for ever once the producer has ended.
CHECK_DEADLOCK FALSE
