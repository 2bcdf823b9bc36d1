\* Counters: 3 threads, 2 additions, numbers of 3 bits.  scheduler.c: up to 2
\* bursts of 2 threads; 1 resource.  Lab03/es2: 2 starts of the server, 2
\* clients, 3 threads in all, 1 CTRL+C.  req_wrk.c: 3 cells, killed up to twice.
SPECIFICATION ProgramsSpec
CONSTANTS
  N = 3
  M = 2
  VALUES <- MCValues
  LONG = 8
  INT_MAX = 3
  THREAD_BURST = 2
  NUM_RESOURCES = 1
  NUM_TASKS = 1
  MAX_BURSTS = 2
  Servers = {s1, s2}
  Clients = {c1, c2}
  NoServer = none
  MAX_THREADS = 3
  MAX_KILLS = 1
  NUM = 3
  MAX_CRASHES = 2
INVARIANTS
  TypesOK
  ResourceBound
  SingleBurstSafe
  NameRemoved
  HandOver
  ExactTotal
PROPERTIES
  ProgramsEnd
\* The programs end, spin, or wait for a key.
CHECK_DEADLOCK FALSE
