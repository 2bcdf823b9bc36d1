\* Lab05 and Lab07: 3 children, rounds of 2 threads; open() of the log may fail
\* once.  Lab04: 2 children, rounds of 2 threads.
SPECIFICATION ProgramsSpec
CONSTANTS
  Children = {a, b, c}
  PolledChildren = {a, b}
  M = 2
  MAX_ROUNDS = 2
  MAX_FAILURES = 1
INVARIANTS
  TypesOK
  OneWriterAtATime
  StartsTogether
  LogsComplete
PROPERTIES
  EndsWellOrFails
\* The program ends; the children of a failed main may be stuck.
CHECK_DEADLOCK FALSE
