\* producer_consumer_n_m.c: two mutexes; 2 producers of 3 items, 3 consumers of
\* 2, a ring of 2 slots, which wraps and fills up.
SPECIFICATION Spec
CONSTANTS
  Producers = {p1, p2}
  Consumers = {c1, c2, c3}
  BUFFER_SIZE = 2
  OPS_PER_PRODUCER = 3
  OPS_PER_CONSUMER = 2
  write_s = write_s
  read_s = read_s
  NoItem = NoItem
SYMMETRY Symmetry
INVARIANTS
  TypeOK
  TokenConservation
  MutualExclusion
  NoSlotRace
  FinalDeposit
PROPERTIES
  ImplementsBuffer
