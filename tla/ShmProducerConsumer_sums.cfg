\* The values read against the values written.
SPECIFICATION Spec
CONSTANTS
  Producers = {p1}
  Consumers = {c1}
  BUFFER_SIZE = 2
  OPS_PER_PRODUCER = 3
  OPS_PER_CONSUMER = 3
  ConsumerStarts = 1
  NoItem = NoItem
INVARIANTS
  ConsumesWhatWasProduced
\* The producers wait for ever when consumer.c gave up.
CHECK_DEADLOCK FALSE
