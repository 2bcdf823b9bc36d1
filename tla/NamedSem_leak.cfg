\* 2 clients of 2 threads, 1 resource: the process of one ends while a thread of
\* it holds the resource, and the threads of the other wait for ever.
SPECIFICATION Spec
CONSTANTS
  Servers = {s1}
  Clients = {c1, c2}
  THREAD_BURST = 2
  NUM_RESOURCES = 1
  NoServer = none
  MAX_THREADS = 4
  MAX_KILLS = 0
PROPERTIES
  ThreadsComplete
\* The programs end, or wait for a key.
CHECK_DEADLOCK FALSE
