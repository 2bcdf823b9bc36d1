\* Pipe: 2 writers, 2 readers, 4 messages of 3 ints, a pipe of 2.  Copy: a
\* source of 0, 3 or 4 bytes over a file of 0 or 5, blocks of 1 to 3.  Time
\* server: 3 clients, 2 starts; the lengths tell 1, a part and all apart.
SPECIFICATION ProgramsSpec
CONSTANTS
  Writers = {w1, w2}
  Readers = {r1, r2}
  MSG_COUNT = 4
  MSG_ELEMS = 3
  PIPE_SIZE = 2
  SIZEOF_INT = 4
  SOURCE_SIZES = {0, 3, 4}
  OLD_SIZES = {0, 5}
  BLOCK_SIZES = {1, 2, 3}
  Clients = {a, b, c}
  NoClient = none
  COMMAND_LEN = 4
  REPLY_LEN = 3
  SERVER_STARTS = 2
INVARIANTS
  TypesOK
  ReadsWholeMessages
  CopiesInOrder
  PrintsReply
PROPERTIES
  ProgramsEnd
  EveryoneServed
\* The programs end, or wait for a key or for one another.
CHECK_DEADLOCK FALSE
