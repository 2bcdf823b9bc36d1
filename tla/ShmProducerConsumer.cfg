\* 2 producers and 1 consumer of 4 items, any names left by a crashed run, consumer.c
\* started up to twice, at any time.
SPECIFICATION Spec
CONSTANTS
  Producers = {p1, p2}
  Consumers = {c1}
  BUFFER_SIZE = 2
  OPS_PER_PRODUCER = 2
  OPS_PER_CONSUMER = 4
  ConsumerStarts = 2
  NoItem = NoItem
INVARIANTS
  TypeOK
  TokenConservation
  ProducerSetsUp
PROPERTIES
  ForkedEndsClean
\* The producers wait for ever when consumer.c gave up.
CHECK_DEADLOCK FALSE
