\* Lab07: 2 producers, 2 consumers, 4 values of 2 bytes, a FIFO of 5 bytes.
\* Lab06: 3 lines, and each program is started up to twice.
SPECIFICATION FifosSpec
CONSTANTS
  Producers = {p1, p2}
  Consumers = {c1, c2}
  OPS_PER_PRODUCER = 2
  OPS_PER_CONSUMER = 2
  SIZEOF_INT = 2
  FIFO_SIZE = 5
  PIPE_BUF = 3
  CONSUMER_STARTS = 2
  MAX_LINES = 3
  ECHO_STARTS = 2
  CLIENT_STARTS = 2
INVARIANTS
  TypesOK
  NeverStarved
  RepliesMatch
PROPERTIES
  ImplementsBuffer
  FoundEndsWell
  OpensMeet
  LinesAnswered
\* The programs end, or wait for one another.
CHECK_DEADLOCK FALSE
