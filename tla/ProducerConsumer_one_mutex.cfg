\* producer_consumer_1_m.c, with the single mutex s: 1 producer of 4 items, 2
\* consumers of 2, 3 slots.
SPECIFICATION Spec
CONSTANTS
  Producers = {p1}
  Consumers = {c1, c2}
  BUFFER_SIZE = 3
  OPS_PER_PRODUCER = 4
  OPS_PER_CONSUMER = 2
  write_s = s
  read_s = s
  NoItem = NoItem
PROPERTIES
  Termination
