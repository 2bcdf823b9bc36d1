-------------------------- MODULE SemaphoresProofs --------------------------
(***************************************************************************)
(* Safety of the programs that share something under semaphores, for any   *)
(* number of threads, resources, bursts, servers, clients and cells, and   *)
(* any number of crashes: scheduler.c (Lab02), the server and clients of   *)
(* Lab03/es2 and req_wrk.c (Lab05/01).  The counters have a module of      *)
(* their own.                                                              *)
(***************************************************************************)
EXTENDS MCSemaphores, CounterProofs, Sequences

-----------------------------------------------------------------------------
(* scheduler.c *)

Where(labels, S) == {t \in Scheduler!Threads : labels[t] \in S}

\* Who holds a resource, who is inside sem_exit.
Working == {"work", "release"}
InExit  == {"load", "store", "post_exit"}
Using   == Where(pc, Working)
Leaving == Where(pc, InExit)

\* The threads of the first burst that have not yet stored a lower ACTIVE_THREADS.
Pending == {t \in Scheduler!Threads :
              t <= THREAD_BURST /\ pc[t] \notin {"post_exit", "done", "lost"}}

SemaphoreValues ==
  /\ allocated => semaphore + Cardinality(Using) = NUM_RESOURCES
  /\ sem_exit + Cardinality(Leaving) + (IF main = "spin" THEN 1 ELSE 0) = THREAD_BURST
  /\ ~allocated <=> main = "ended"

\* Threads are created in order, and a burst is whole when main reads a key.
Spawned ==
  /\ \A t \in Scheduler!Threads : pc[t] = "none" <=> t > thread_ID
  /\ main = "spawn" => /\ bursts > 0
                       /\ THREAD_BURST * (bursts - 1) <= thread_ID
                       /\ thread_ID < THREAD_BURST * bursts
  /\ main # "spawn" => thread_ID = THREAD_BURST * bursts

\* With one burst ACTIVE_THREADS can be too high, by the decrements that are
\* lost, and never too low.
OneBurst ==
  bursts <= 1 =>
    /\ \A t \in Scheduler!Threads : pc[t] # "lost"
    /\ ~allocated => Pending = {}
    /\ ACTIVE_THREADS >= Cardinality(Pending)
    /\ \A t \in Scheduler!Threads : pc[t] = "store" => loaded[t] >= Cardinality(Pending)

SchedulerInv == Scheduler!TypeOK /\ SemaphoreValues /\ Spawned /\ OneBurst

-----------------------------------------------------------------------------
(* Lab03/es2 *)

\* The threads that have a resource of server s, or had it when their client died.
Taken(s) == {t \in NamedSem!ClientThreads :
               sem[t] = s /\ thread[t] \in {"work", "dead with resource"}}

Lifetimes ==
  /\ \A c \in Clients : /\ driver[c] = "off" => ID[c] = 0
                        /\ driver[c] = "spawn" => ID[c] < THREAD_BURST
  /\ \A t \in NamedSem!ClientThreads :
       /\ t[2] > ID[t[1]] => thread[t] = "none"
       /\ thread[t] \in {"wait", "work"} => sem[t] \in Servers
       /\ driver[t[1]] = "dead" => thread[t] \in {"none", "done", "dead", "dead with resource"}
       /\ thread[t] = "dead with resource" => driver[t[1]] = "dead"

Conserved == \A s \in Servers : value[s] + Cardinality(Taken(s)) = NUM_RESOURCES

NamedInv == NamedSem!TypeOK /\ Lifetimes /\ NamedSem!NameRemoved /\ Conserved

-----------------------------------------------------------------------------
(* req_wrk.c *)

\* main unlinks each name before it creates it, so that nothing can fail.
SettingUp ==
  /\ requester = "setup" => /\ worker_proc = "none"
                            /\ req_i = 0 /\ wrk_i = 0 /\ printed = << >>
                            /\ call > 1 => data = ReqWrk!Blank /\ sem_req = 0 /\ sem_wrk = 0
                            /\ call = 2 => "shm" \notin names
                            /\ call >= 3 => "shm" \in names
                            /\ call \in {4, 5} => "sem_req" \notin names
                            /\ call \in {5, 6} => "sem_wrk" \notin names
                            /\ call = 6 => "sem_req" \in names
  /\ requester = "cleanup" => call <= 3
  /\ requester \in {"fork", "open", "generate", "post", "wait_wrk", "print", "wait"} =>
       names = ReqWrk!ObjectNames /\ call = 1

\* The cells of f before the k-th are x, the others y; the printed p are squares.
Filled(f, k, x, y) == \A c \in ReqWrk!Cells : f[c] = IF c < k THEN x ELSE y

Squares(p) == \A k \in 1..Len(p) : p[k] = "square"

\* The array passes from one process to the other and back, with one post each.
Exchange ==
  /\ worker_proc # "failed" /\ requester # "failed"
  /\ requester \in {"off", "fork", "cleanup", "ended"} => worker_proc = "none"
  /\ requester \in {"fork", "open"} => req_i = 0 /\ Filled(data, 0, "number", "zero")
  /\ requester = "generate" => Filled(data, req_i, "number", "zero")
  /\ requester = "post" => req_i = 0 /\ Filled(data, NUM, "number", "zero")
  /\ requester \in {"fork", "open", "generate", "post"} =>
       /\ sem_req = 0 /\ sem_wrk = 0 /\ wrk_i = 0 /\ printed = << >>
  /\ requester \in {"open", "generate", "post"} => worker_proc \in {"open", "wait_req"}
  /\ requester = "wait_wrk" =>
       /\ req_i = 0 /\ printed = << >>
       /\ worker_proc \in {"open", "wait_req", "open_shm", "update"} =>
            Filled(data, wrk_i, "square", "number")
       /\ worker_proc \in {"open", "wait_req", "open_shm"} => wrk_i = 0
       /\ worker_proc \in {"post", "exited"} => Filled(data, NUM, "square", "number")
       /\ worker_proc # "none"
       /\ sem_req = IF worker_proc \in {"open", "wait_req"} THEN 1 ELSE 0
       /\ sem_wrk = IF worker_proc = "exited" THEN 1 ELSE 0
  /\ requester \in {"print", "wait"} =>
       /\ worker_proc = "exited" /\ sem_req = 0 /\ sem_wrk = 0
       /\ Filled(data, NUM, "square", "number")
  /\ requester = "print" => Len(printed) = req_i
  /\ requester \in {"wait", "cleanup"} => Len(printed) = NUM
  /\ requester # "off" => Squares(printed)

ReqWrkInv == ReqWrk!TypeOK /\ SettingUp /\ Exchange

SemaphoresInv == Inv /\ SchedulerInv /\ NamedInv /\ ReqWrkInv

-----------------------------------------------------------------------------
(* scheduler.c: its threads *)

Labels == {"none", "loop", "work", "release", "wait_exit", "load", "store", "post_exit", "done",
           "lost"}

LEMMA SchedulerSizes ==
  /\ THREAD_BURST \in Nat \ {0} /\ NUM_RESOURCES \in Nat \ {0}
  /\ NUM_TASKS \in Nat /\ MAX_BURSTS \in Nat /\ THREAD_BURST * MAX_BURSTS \in Nat
<1>1. THREAD_BURST \in Nat \ {0} /\ NUM_RESOURCES \in Nat \ {0}
      /\ NUM_TASKS \in Nat /\ MAX_BURSTS \in Nat
  BY ProgramsAssumption DEF ProgramsAssumption, Scheduler!SizesAssumption
<1> QED BY <1>1

\* Sets are counted alike in all modules.
LEMMA SchedulerCounting == \A S : Scheduler!Cardinality(S) = Cardinality(S)
BY DEF Scheduler!Cardinality, Cardinality

LEMMA ThreadSets ==
  \A S \in SUBSET Scheduler!Threads : IsFiniteSet(S) /\ Cardinality(S) \in Nat
<1>1. IsFiniteSet(Scheduler!Threads)
  BY SchedulerSizes, FS_Interval DEF Scheduler!Threads
<1> QED BY <1>1, FS_Subset, FS_CardinalityType

\* A thread that moves joins or leaves the threads at the labels S, or neither.
LEMMA WhereMoves ==
  ASSUME NEW f \in [Scheduler!Threads -> Labels], NEW t \in Scheduler!Threads,
         NEW to \in Labels, NEW g \in [Scheduler!Threads -> Labels], g[t] = to,
         \A u \in Scheduler!Threads : u # t => g[u] = f[u], NEW S
  PROVE  /\ Cardinality(Where(f, S)) \in Nat
         /\ (f[t] \in S <=> to \in S) => Cardinality(Where(g, S)) = Cardinality(Where(f, S))
         /\ f[t] \notin S /\ to \in S => Cardinality(Where(g, S)) = Cardinality(Where(f, S)) + 1
         /\ f[t] \in S /\ to \notin S => Cardinality(Where(g, S)) = Cardinality(Where(f, S)) - 1
<1>1. IsFiniteSet(Where(f, S)) /\ Cardinality(Where(f, S)) \in Nat
  BY ThreadSets DEF Where
<1>2. (f[t] \in S <=> to \in S) => Where(g, S) = Where(f, S)
  BY DEF Where
<1>3. ASSUME f[t] \notin S, to \in S
      PROVE  Cardinality(Where(g, S)) = Cardinality(Where(f, S)) + 1
  <2>1. Where(g, S) = Where(f, S) \cup {t} /\ t \notin Where(f, S)
    BY <1>3 DEF Where
  <2> QED BY <2>1, <1>1, FS_AddElement
<1>4. ASSUME f[t] \in S, to \notin S
      PROVE  Cardinality(Where(g, S)) = Cardinality(Where(f, S)) - 1
  <2>1. Where(g, S) = Where(f, S) \ {t} /\ t \in Where(f, S)
    BY <1>4 DEF Where
  <2> QED BY <2>1, <1>1, FS_RemoveElement
<1> QED BY <1>1, <1>2, <1>3, <1>4

\* A burst is whole when the number of threads is a multiple of THREAD_BURST.
LEMMA BurstEnds ==
  ASSUME NEW L \in Nat \ {0}, NEW b \in Int, NEW x \in Int, L * (b - 1) <= x, x < L * b
  PROVE  (x + 1) % L = 0 <=> x + 1 = L * b
<1> DEFINE k == b - 1
           r == x + 1 - L * k
<1>1. L * b = L * k + L /\ k \in Int /\ L * k \in Int
  OBVIOUS
<1>2. CASE x + 1 = L * b
  <2>1. (L * b + 0) % L = 0 /\ L * b + 0 = L * b
    BY ModUnique
  <2> QED BY <1>2, <2>1
<1>3. CASE x + 1 # L * b
  <2>1. r \in Int /\ 0 <= r /\ r < L /\ r # 0 /\ x + 1 = L * k + r
    BY <1>1, <1>3
  <2>2. (L * k + r) % L = r
    <3> HIDE DEF r, k
    <3> QED BY <1>1, <2>1, ModUnique
  <2> QED BY <2>1, <2>2, <1>3
<1> QED BY <1>2, <1>3

\* Bursts that are allowed fit in the threads there are.
LEMMA BurstsFit ==
  ASSUME NEW b \in 0..MAX_BURSTS
  PROVE  THREAD_BURST * b <= THREAD_BURST * MAX_BURSTS /\ THREAD_BURST * b \in Nat
<1>1. PICK c \in Nat : MAX_BURSTS = b + c
  <2>1. MAX_BURSTS - b \in Nat /\ MAX_BURSTS = b + (MAX_BURSTS - b)
    BY SchedulerSizes
  <2> QED BY <2>1
<1>2. THREAD_BURST * MAX_BURSTS = THREAD_BURST * b + THREAD_BURST * c /\ THREAD_BURST * c \in Nat
      /\ THREAD_BURST * b \in Nat
  BY <1>1, SchedulerSizes
<1> QED BY <1>2

-----------------------------------------------------------------------------
(* scheduler.c: its steps *)

\* What a thread that moves does to the two counts.
LEMMA Moved ==
  ASSUME Scheduler!TypeOK, NEW t \in Scheduler!Threads, NEW from, NEW to \in Labels,
         Scheduler!Goto(t, from, to)
  PROVE  /\ pc \in [Scheduler!Threads -> Labels] /\ pc[t] = from
         /\ pc' = [pc EXCEPT ![t] = to]
         /\ Cardinality(Using) \in Nat /\ Cardinality(Leaving) \in Nat
         /\ (from \in Working <=> to \in Working) => Cardinality(Using') = Cardinality(Using)
         /\ from \notin Working /\ to \in Working =>
              Cardinality(Using') = Cardinality(Using) + 1
         /\ from \in Working /\ to \notin Working =>
              Cardinality(Using') = Cardinality(Using) - 1
         /\ (from \in InExit <=> to \in InExit) => Cardinality(Leaving') = Cardinality(Leaving)
         /\ from \notin InExit /\ to \in InExit =>
              Cardinality(Leaving') = Cardinality(Leaving) + 1
         /\ from \in InExit /\ to \notin InExit =>
              Cardinality(Leaving') = Cardinality(Leaving) - 1
<1>1. /\ pc \in [Scheduler!Threads -> Labels] /\ pc[t] = from
      /\ pc' = [pc EXCEPT ![t] = to]
  BY DEF Scheduler!TypeOK, Labels, Scheduler!Goto
<1>2. Using' = Where(pc', Working) /\ Leaving' = Where(pc', InExit)
  BY DEF Using, Leaving
<1>3. /\ pc \in [Scheduler!Threads -> Labels] /\ pc[t] = from
      /\ pc' \in [Scheduler!Threads -> Labels] /\ pc'[t] = to
      /\ \A u \in Scheduler!Threads : u # t => pc'[u] = pc[u]
  BY <1>1
<1>4. ASSUME NEW S
      PROVE  /\ Cardinality(Where(pc, S)) \in Nat
             /\ (from \in S <=> to \in S) =>
                  Cardinality(Where(pc', S)) = Cardinality(Where(pc, S))
             /\ from \notin S /\ to \in S =>
                  Cardinality(Where(pc', S)) = Cardinality(Where(pc, S)) + 1
             /\ from \in S /\ to \notin S =>
                  Cardinality(Where(pc', S)) = Cardinality(Where(pc, S)) - 1
  BY <1>3, WhereMoves
<1> QED BY <1>1, <1>2, <1>4 DEF Using, Leaving

\* A thread of a burst that is allowed is one of the threads there are.
LEMMA SpawnedThread ==
  ASSUME Scheduler!TypeOK, Spawned, main = "spawn"
  PROVE  thread_ID + 1 \in Scheduler!Threads
<1>1. /\ thread_ID \in Nat /\ thread_ID < THREAD_BURST * bursts /\ bursts \in 0..MAX_BURSTS
  BY SchedulerSizes DEF Scheduler!TypeOK, Spawned
<1>2. THREAD_BURST * bursts <= THREAD_BURST * MAX_BURSTS /\ THREAD_BURST * bursts \in Nat
  BY <1>1, BurstsFit
<1> QED BY <1>1, <1>2, SchedulerSizes DEF Scheduler!Threads

LEMMA ValuesNext ==
  ASSUME SchedulerInv, Scheduler!Next
  PROVE  SemaphoreValues' /\ semaphore' \in Nat /\ sem_exit' \in Nat
<1> USE DEF SchedulerInv, SemaphoreValues
<1>t. /\ semaphore \in Nat /\ sem_exit \in Nat /\ THREAD_BURST \in Nat
      /\ NUM_RESOURCES \in Nat
  BY SchedulerSizes DEF Scheduler!TypeOK
<1>c. Cardinality(Using) \in Nat /\ Cardinality(Leaving) \in Nat
  BY ThreadSets DEF Using, Leaving, Where
<1>u. UNCHANGED pc => Cardinality(Using') = Cardinality(Using)
                      /\ Cardinality(Leaving') = Cardinality(Leaving)
  BY DEF Using, Leaving
<1>1. CASE \/ Scheduler!PressEnter \/ Scheduler!PressCtrlD \/ Scheduler!MainWaitExit
           \/ Scheduler!Destroy
  <2>1. Cardinality(Using') = Cardinality(Using) /\ Cardinality(Leaving') = Cardinality(Leaving)
    BY <1>1, <1>u
    DEF Scheduler!PressEnter, Scheduler!PressCtrlD, Scheduler!MainWaitExit, Scheduler!Destroy,
        Scheduler!threadVars
  <2>2. CASE Scheduler!PressEnter \/ Scheduler!PressCtrlD
    BY <2>1, <2>2, <1>t, <1>c DEF Scheduler!PressEnter, Scheduler!PressCtrlD
  <2>3. CASE Scheduler!MainWaitExit
    BY <2>1, <2>3, <1>t, <1>c DEF Scheduler!MainWaitExit
  <2>4. CASE Scheduler!Destroy
    BY <2>1, <2>4, <1>t, <1>c DEF Scheduler!Destroy
  <2> QED BY <1>1, <2>2, <2>3, <2>4
<1>2. CASE Scheduler!Spawn
  <2>1. thread_ID + 1 \in Scheduler!Threads
    BY <1>2, SpawnedThread DEF Scheduler!Spawn
  <2>2. Scheduler!Goto(thread_ID + 1, "none", "loop")
    BY <1>2 DEF Scheduler!Spawn
  <2>3. Cardinality(Using') = Cardinality(Using) /\ Cardinality(Leaving') = Cardinality(Leaving)
    BY <2>1, <2>2, Moved DEF Labels, Working, InExit
  <2> QED BY <1>2, <2>3, <1>t, <1>c DEF Scheduler!Spawn
<1>3. ASSUME NEW t \in Scheduler!Threads, Scheduler!Client(t)
      PROVE  SemaphoreValues' /\ semaphore' \in Nat /\ sem_exit' \in Nat
  <2>1. CASE Scheduler!Acquire(t)
    <3>1. Cardinality(Using') = (IF allocated THEN Cardinality(Using) + 1 ELSE Cardinality(Using))
          /\ Cardinality(Leaving') = Cardinality(Leaving)
      BY <2>1, Moved DEF Scheduler!Acquire, Labels, Working, InExit
    <3> QED BY <2>1, <3>1, <1>t, <1>c DEF Scheduler!Acquire, Scheduler!mainVars
  <2>2. CASE Scheduler!Work(t)
    <3>1. Cardinality(Using') = Cardinality(Using) /\ Cardinality(Leaving') = Cardinality(Leaving)
      BY <2>2, Moved DEF Scheduler!Work, Labels, Working, InExit
    <3> QED BY <2>2, <3>1, <1>t, <1>c DEF Scheduler!Work, Scheduler!mainVars
  <2>3. CASE Scheduler!Release(t)
    <3>1. /\ Cardinality(Using') = Cardinality(Using) - 1
          /\ Cardinality(Leaving') = Cardinality(Leaving)
      BY <2>3, Moved DEF Scheduler!Release, Labels, Working, InExit
    <3> QED BY <2>3, <3>1, <1>t, <1>c DEF Scheduler!Release, Scheduler!mainVars
  <2>4. CASE Scheduler!EndLoop(t)
    <3>1. Cardinality(Using') = Cardinality(Using) /\ Cardinality(Leaving') = Cardinality(Leaving)
      BY <2>4, Moved DEF Scheduler!EndLoop, Labels, Working, InExit
    <3> QED BY <2>4, <3>1, <1>t, <1>c DEF Scheduler!EndLoop, Scheduler!mainVars
  <2>5. CASE Scheduler!WaitExit(t)
    <3>1. /\ Cardinality(Using') = Cardinality(Using)
          /\ Cardinality(Leaving') = Cardinality(Leaving) + 1
      BY <2>5, Moved DEF Scheduler!WaitExit, Labels, Working, InExit
    <3> QED BY <2>5, <3>1, <1>t, <1>c DEF Scheduler!WaitExit, Scheduler!mainVars
  <2>6. CASE Scheduler!LoadActive(t) \/ Scheduler!StoreActive(t)
    <3>1. Cardinality(Using') = Cardinality(Using) /\ Cardinality(Leaving') = Cardinality(Leaving)
      BY <2>6, Moved DEF Scheduler!LoadActive, Scheduler!StoreActive, Labels, Working, InExit
    <3> QED BY <2>6, <3>1, <1>t, <1>c
            DEF Scheduler!LoadActive, Scheduler!StoreActive, Scheduler!mainVars
  <2>7. CASE Scheduler!PostExit(t)
    <3>1. /\ Cardinality(Using') = Cardinality(Using)
          /\ Cardinality(Leaving') = Cardinality(Leaving) - 1
      BY <2>7, Moved DEF Scheduler!PostExit, Labels, Working, InExit
    <3> QED BY <2>7, <3>1, <1>t, <1>c DEF Scheduler!PostExit, Scheduler!mainVars
  <2> QED BY <1>3, <2>1, <2>2, <2>3, <2>4, <2>5, <2>6, <2>7 DEF Scheduler!Client
<1> QED BY <1>1, <1>2, <1>3 DEF Scheduler!Next, Scheduler!Main

LEMMA SpawnedNext ==
  ASSUME SchedulerInv, Scheduler!Next
  PROVE  /\ Spawned'
         /\ thread_ID' \in 0..(THREAD_BURST * MAX_BURSTS) /\ bursts' \in 0..MAX_BURSTS
<1> USE DEF SchedulerInv
<1>t. /\ pc \in [Scheduler!Threads -> Labels] /\ bursts \in 0..MAX_BURSTS
      /\ thread_ID \in 0..(THREAD_BURST * MAX_BURSTS)
  BY DEF Scheduler!TypeOK, Labels
<1>1. CASE Scheduler!PressEnter
  <2>1. thread_ID = THREAD_BURST * bursts /\ bursts' = bursts + 1 /\ bursts' \in 0..MAX_BURSTS
    BY <1>1, <1>t, SchedulerSizes DEF Scheduler!PressEnter, Spawned
  <2>2. THREAD_BURST * bursts' = thread_ID + THREAD_BURST /\ thread_ID \in Int
    BY <2>1, <1>t, SchedulerSizes
  <2>3. bursts' - 1 = bursts
    BY <2>1, <1>t
  <2> QED BY <1>1, <1>t, <2>1, <2>2, <2>3, SchedulerSizes
          DEF Scheduler!PressEnter, Scheduler!threadVars, Spawned
<1>2. CASE Scheduler!Spawn
  <2>1. /\ bursts > 0 /\ THREAD_BURST * (bursts - 1) <= thread_ID
        /\ thread_ID < THREAD_BURST * bursts
    BY <1>2 DEF Scheduler!Spawn, Spawned
  <2>2. thread_ID + 1 \in Scheduler!Threads /\ thread_ID + 1 \in 0..(THREAD_BURST * MAX_BURSTS)
    BY <1>2, <1>t, SpawnedThread, SchedulerSizes DEF Scheduler!Spawn, Scheduler!Threads
  <2>3. (thread_ID + 1) % THREAD_BURST = 0 <=> thread_ID + 1 = THREAD_BURST * bursts
    <3>1. bursts \in Int /\ thread_ID \in Int
      BY <1>t
    <3> QED BY <2>1, <3>1, SchedulerSizes, BurstEnds
  <2>4. \A t \in Scheduler!Threads : pc'[t] = "none" <=> t > thread_ID'
    BY <1>2, <1>t, <2>2 DEF Scheduler!Spawn, Scheduler!Goto, Spawned, Scheduler!Threads
  <2>5. thread_ID' = thread_ID + 1 /\ bursts' = bursts /\ THREAD_BURST * bursts \in Int
    BY <1>2, <1>t, SchedulerSizes DEF Scheduler!Spawn
  <2>6. main' = IF (thread_ID + 1) % THREAD_BURST = 0 THEN "getchar" ELSE "spawn"
    BY <1>2 DEF Scheduler!Spawn
  <2>7. THREAD_BURST * (bursts - 1) \in Int
    BY <1>t, SchedulerSizes
  <2> QED BY <2>1, <2>2, <2>3, <2>4, <2>5, <2>6, <2>7, <1>t DEF Spawned
<1>3. CASE Scheduler!PressCtrlD \/ Scheduler!MainWaitExit \/ Scheduler!Destroy
  BY <1>3, <1>t
  DEF Scheduler!PressCtrlD, Scheduler!MainWaitExit, Scheduler!Destroy, Scheduler!threadVars,
      Spawned
<1>4. ASSUME NEW t \in Scheduler!Threads, Scheduler!Client(t)
      PROVE  Spawned' /\ UNCHANGED <<thread_ID, bursts>>
  <2>1. /\ UNCHANGED <<main, thread_ID, bursts>> /\ pc[t] # "none"
        /\ \E to \in Labels \ {"none"} : pc' = [pc EXCEPT ![t] = to]
    BY <1>4 DEF Scheduler!Client, Scheduler!Acquire, Scheduler!Work, Scheduler!Release,
                Scheduler!EndLoop, Scheduler!WaitExit, Scheduler!LoadActive,
                Scheduler!StoreActive, Scheduler!PostExit, Scheduler!Goto, Scheduler!mainVars,
                Labels
  <2> QED BY <2>1, <1>t DEF Spawned
<1> QED BY <1>1, <1>2, <1>3, <1>4, <1>t DEF Scheduler!Next, Scheduler!Main

\* The threads of one burst are the first THREAD_BURST.
LEMMA FirstBurst ==
  ASSUME SchedulerInv, bursts <= 1, NEW t \in Scheduler!Threads, pc[t] # "none"
  PROVE  t <= THREAD_BURST
<1>1. bursts \in {0, 1} /\ t \in Int /\ thread_ID \in Int /\ THREAD_BURST \in Nat
  BY SchedulerSizes DEF SchedulerInv, Scheduler!TypeOK, Scheduler!Threads
<1>2. t <= thread_ID
  BY <1>1 DEF SchedulerInv, Spawned
<1>3. thread_ID <= THREAD_BURST * bursts
  BY <1>1 DEF SchedulerInv, Spawned
<1> QED BY <1>1, <1>2, <1>3

\* A thread may store a value that is too high, one decrement or more being
\* lost; but it has read at least the number of threads that have yet to store.
LEMMA OneBurstNext ==
  ASSUME SchedulerInv, Scheduler!Next, SemaphoreValues', Spawned'
  PROVE  OneBurst'
<1> SUFFICES ASSUME bursts' <= 1  PROVE OneBurst'
  BY DEF OneBurst
<1> USE DEF SchedulerInv
<1>t. /\ pc \in [Scheduler!Threads -> Labels] /\ ACTIVE_THREADS \in Int
      /\ loaded \in [Scheduler!Threads -> Int] /\ bursts \in Nat
  BY SchedulerSizes DEF Scheduler!TypeOK, Labels
<1>b. bursts <= 1
  BY <1>t DEF Scheduler!Next, Scheduler!Main, Scheduler!PressEnter, Scheduler!Spawn,
              Scheduler!PressCtrlD, Scheduler!MainWaitExit, Scheduler!Destroy,
              Scheduler!Client, Scheduler!Acquire, Scheduler!Work, Scheduler!Release,
              Scheduler!EndLoop, Scheduler!WaitExit, Scheduler!LoadActive,
              Scheduler!StoreActive, Scheduler!PostExit, Scheduler!mainVars
<1>p. /\ IsFiniteSet(Pending) /\ Cardinality(Pending) \in Nat
  <2>1. Pending \in SUBSET Scheduler!Threads
    BY DEF Pending
  <2> QED BY <2>1, ThreadSets
<1>o. /\ \A t \in Scheduler!Threads : pc[t] # "lost"
      /\ ~allocated => Pending = {}
      /\ ACTIVE_THREADS >= Cardinality(Pending)
      /\ \A t \in Scheduler!Threads : pc[t] = "store" => loaded[t] >= Cardinality(Pending)
  BY <1>b DEF OneBurst
\* The steps that touch neither the count nor the threads that will.
<1>k. ASSUME Pending' = Pending, UNCHANGED <<ACTIVE_THREADS, loaded, allocated>>,
             \A t \in Scheduler!Threads : /\ pc'[t] # "lost"
                                          /\ pc'[t] = "store" => pc[t] = "store"
      PROVE  OneBurst'
  <2>1. Cardinality(Pending') = Cardinality(Pending)
    BY <1>k
  <2> QED BY <1>k, <1>o, <2>1 DEF OneBurst
<1>1. CASE Scheduler!PressEnter \/ Scheduler!PressCtrlD \/ Scheduler!MainWaitExit
  <2>1. UNCHANGED <<pc, ACTIVE_THREADS, loaded, allocated>>
    BY <1>1 DEF Scheduler!PressEnter, Scheduler!PressCtrlD, Scheduler!MainWaitExit,
                Scheduler!threadVars
  <2>2. Pending' = Pending
    BY <2>1 DEF Pending
  <2> QED BY <2>1, <2>2, <1>k, <1>o
<1>2. CASE Scheduler!Spawn
  <2>1. UNCHANGED <<ACTIVE_THREADS, loaded, allocated>>
    BY <1>2 DEF Scheduler!Spawn
  <2>2. \A t \in Scheduler!Threads :
          \/ pc'[t] = pc[t]
          \/ pc[t] = "none" /\ pc'[t] = "loop"
    BY <1>2, <1>t DEF Scheduler!Spawn, Scheduler!Goto
  <2>3. Pending' = Pending
    BY <2>2 DEF Pending
  <2> QED BY <2>1, <2>2, <2>3, <1>k, <1>o
<1>3. CASE Scheduler!Destroy
  <2>1. UNCHANGED <<pc, ACTIVE_THREADS, loaded>> /\ ACTIVE_THREADS = 0
    BY <1>3 DEF Scheduler!Destroy, Scheduler!threadVars
  <2>2. Pending = {}
    BY <2>1, <1>o, <1>p, FS_EmptySet
  <2>3. Pending' = {}
    BY <2>1, <2>2 DEF Pending
  <2>4. Cardinality(Pending') = Cardinality(Pending)
    BY <2>2, <2>3
  <2> QED BY <2>1, <2>3, <2>4, <1>o DEF OneBurst
<1>4. ASSUME NEW t \in Scheduler!Threads,
             Scheduler!Acquire(t) \/ Scheduler!Work(t) \/ Scheduler!Release(t)
      PROVE  OneBurst'
  <2>1. pc[t] \in {"loop", "work", "release"}
    BY <1>4 DEF Scheduler!Acquire, Scheduler!Work, Scheduler!Release, Scheduler!Goto
  <2>2. t \in Pending
    BY <2>1, <1>b, FirstBurst DEF Pending
  <2>3. allocated
    BY <2>2, <1>o
  <2>4. /\ UNCHANGED <<ACTIVE_THREADS, loaded, allocated>>
        /\ \E to \in {"loop", "work", "release"} : pc' = [pc EXCEPT ![t] = to]
    BY <1>4, <2>3 DEF Scheduler!Acquire, Scheduler!Work, Scheduler!Release, Scheduler!Goto
  <2>5. Pending' = Pending
    BY <2>1, <2>4, <1>t DEF Pending
  <2>6. \A u \in Scheduler!Threads : /\ pc'[u] # "lost"
                                     /\ pc'[u] = "store" => pc[u] = "store"
    BY <2>4, <1>t, <1>o
  <2> QED BY <2>4, <2>5, <2>6, <1>k
<1>5. ASSUME NEW t \in Scheduler!Threads,
             Scheduler!EndLoop(t) \/ Scheduler!WaitExit(t) \/ Scheduler!PostExit(t)
      PROVE  OneBurst'
  <2>1. /\ UNCHANGED <<ACTIVE_THREADS, loaded, allocated>>
        /\ \/ pc[t] \in {"loop", "wait_exit"} /\ \E to \in {"loop", "wait_exit", "load"} :
                                                    pc' = [pc EXCEPT ![t] = to]
           \/ pc[t] = "post_exit" /\ pc' = [pc EXCEPT ![t] = "done"]
    BY <1>5 DEF Scheduler!EndLoop, Scheduler!WaitExit, Scheduler!PostExit, Scheduler!Goto
  <2>2. Pending' = Pending
    BY <2>1, <1>t DEF Pending
  <2>3. \A u \in Scheduler!Threads : /\ pc'[u] # "lost"
                                     /\ pc'[u] = "store" => pc[u] = "store"
    BY <2>1, <1>t, <1>o
  <2> QED BY <2>1, <2>2, <2>3, <1>k
<1>6. ASSUME NEW t \in Scheduler!Threads, Scheduler!LoadActive(t)
      PROVE  OneBurst'
  <2>1. /\ UNCHANGED <<ACTIVE_THREADS, allocated>> /\ pc[t] = "load"
        /\ pc' = [pc EXCEPT ![t] = "store"] /\ loaded' = [loaded EXCEPT ![t] = ACTIVE_THREADS]
    BY <1>6 DEF Scheduler!LoadActive, Scheduler!Goto
  <2>2. Pending' = Pending
    BY <2>1, <1>t DEF Pending
  <2>3. Cardinality(Pending') = Cardinality(Pending)
    BY <2>2
  <2>4. \A u \in Scheduler!Threads :
           /\ pc'[u] # "lost"
           /\ pc'[u] = "store" => loaded'[u] >= Cardinality(Pending)
    BY <2>1, <1>t, <1>o
  <2> QED BY <2>1, <2>2, <2>3, <2>4, <1>o DEF OneBurst
<1>7. ASSUME NEW t \in Scheduler!Threads, Scheduler!StoreActive(t)
      PROVE  OneBurst'
  <2>1. /\ UNCHANGED <<loaded, allocated>> /\ pc[t] = "store"
        /\ pc' = [pc EXCEPT ![t] = "post_exit"] /\ ACTIVE_THREADS' = loaded[t] - 1
    BY <1>7 DEF Scheduler!StoreActive, Scheduler!Goto
  <2>2. t \in Pending /\ Pending' = Pending \ {t}
    <3>1. t \in Pending
      BY <2>1, <1>b, FirstBurst DEF Pending
    <3>2. Pending' = Pending \ {t}
      BY <2>1, <1>t DEF Pending
    <3> QED BY <3>1, <3>2
  <2>3. Cardinality(Pending') = Cardinality(Pending) - 1
    BY <2>2, <1>p, FS_RemoveElement
  <2>4. loaded[t] >= Cardinality(Pending) /\ loaded[t] \in Int
    BY <2>1, <1>o, <1>t
  <2>5. \A u \in Scheduler!Threads :
           /\ pc'[u] # "lost"
           /\ pc'[u] = "store" => loaded[u] >= Cardinality(Pending) /\ loaded[u] \in Int
    BY <2>1, <1>t, <1>o
  <2>6. ~allocated => Pending' = {}
    BY <2>2, <1>o
  <2> QED BY <2>1, <2>3, <2>4, <2>5, <2>6, <1>p DEF OneBurst
<1> QED BY <1>1, <1>2, <1>3, <1>4, <1>5, <1>6, <1>7
        DEF Scheduler!Next, Scheduler!Main, Scheduler!Client

LEMMA SchedulerTypes ==
  ASSUME SchedulerInv, Scheduler!Next, SemaphoreValues', semaphore' \in Nat, sem_exit' \in Nat,
         thread_ID' \in 0..(THREAD_BURST * MAX_BURSTS), bursts' \in 0..MAX_BURSTS
  PROVE  Scheduler!TypeOK'
<1> USE DEF SchedulerInv
<1>t. /\ pc \in [Scheduler!Threads -> Labels] /\ ACTIVE_THREADS \in Int
      /\ loaded \in [Scheduler!Threads -> Int] /\ i \in [Scheduler!Threads -> Nat]
      /\ second \in [Scheduler!Threads -> BOOLEAN] /\ allocated \in BOOLEAN
      /\ semaphore \in 0..NUM_RESOURCES
      /\ THREAD_BURST \in Nat /\ NUM_RESOURCES \in Nat /\ NUM_TASKS \in Nat
  BY SchedulerSizes DEF Scheduler!TypeOK, Labels
<1>c. Cardinality(Using') \in Nat /\ Cardinality(Leaving') \in Nat
  <2>1. Using' \in SUBSET Scheduler!Threads /\ Leaving' \in SUBSET Scheduler!Threads
    BY DEF Using, Leaving, Where
  <2> QED BY <2>1, ThreadSets
<1>1. sem_exit' \in 0..THREAD_BURST
  BY <1>t, <1>c DEF SemaphoreValues
<1>2. allocated' \in BOOLEAN /\ (allocated' \/ semaphore' = semaphore)
  BY <1>t DEF Scheduler!Next, Scheduler!Main, Scheduler!PressEnter, Scheduler!Spawn,
              Scheduler!PressCtrlD, Scheduler!MainWaitExit, Scheduler!Destroy,
              Scheduler!Client, Scheduler!Acquire, Scheduler!Work, Scheduler!Release,
              Scheduler!EndLoop, Scheduler!WaitExit, Scheduler!LoadActive,
              Scheduler!StoreActive, Scheduler!PostExit
<1>3. semaphore' \in 0..NUM_RESOURCES
  BY <1>t, <1>c, <1>2 DEF SemaphoreValues
<1>4. CASE Scheduler!Main
  <2>1. main' \in {"getchar", "spawn", "wait_exit", "spin", "ended"}
    BY <1>4 DEF Scheduler!Main, Scheduler!PressEnter, Scheduler!Spawn, Scheduler!PressCtrlD,
                Scheduler!MainWaitExit, Scheduler!Destroy
  <2>2. UNCHANGED <<ACTIVE_THREADS, loaded, i, second>>
    BY <1>4 DEF Scheduler!Main, Scheduler!PressEnter, Scheduler!Spawn, Scheduler!PressCtrlD,
                Scheduler!MainWaitExit, Scheduler!Destroy, Scheduler!threadVars
  <2>3. pc' \in [Scheduler!Threads -> Labels]
    BY <1>4, <1>t
    DEF Scheduler!Main, Scheduler!PressEnter, Scheduler!Spawn, Scheduler!PressCtrlD,
        Scheduler!MainWaitExit, Scheduler!Destroy, Scheduler!threadVars, Scheduler!Goto, Labels
  <2> QED BY <1>1, <1>2, <1>3, <2>1, <2>2, <2>3 DEF Scheduler!TypeOK, Labels
<1>5. ASSUME NEW t \in Scheduler!Threads, Scheduler!Client(t)  PROVE Scheduler!TypeOK'
  <2>1. UNCHANGED main
    BY <1>5 DEF Scheduler!Client, Scheduler!Acquire, Scheduler!Work, Scheduler!Release,
                Scheduler!EndLoop, Scheduler!WaitExit, Scheduler!LoadActive,
                Scheduler!StoreActive, Scheduler!PostExit, Scheduler!mainVars
  <2>2. pc' \in [Scheduler!Threads -> Labels]
    <3>1. \E to \in Labels : pc' = [pc EXCEPT ![t] = to]
      BY <1>5 DEF Scheduler!Client, Scheduler!Acquire, Scheduler!Work, Scheduler!Release,
                  Scheduler!EndLoop, Scheduler!WaitExit, Scheduler!LoadActive,
                  Scheduler!StoreActive, Scheduler!PostExit, Scheduler!Goto, Labels
    <3> QED BY <3>1, <1>t
  <2>3. i' \in [Scheduler!Threads -> Nat]
    <3>1. \/ UNCHANGED i
          \/ i' = [i EXCEPT ![t] = 0]
          \/ i' = [i EXCEPT ![t] = @ + IF second[t] THEN 1 ELSE 2]
      BY <1>5 DEF Scheduler!Client, Scheduler!Acquire, Scheduler!Work, Scheduler!Release,
                  Scheduler!EndLoop, Scheduler!WaitExit, Scheduler!LoadActive,
                  Scheduler!StoreActive, Scheduler!PostExit
    <3> QED BY <3>1, <1>t
  <2>4. second' \in [Scheduler!Threads -> BOOLEAN]
    <3>1. UNCHANGED second \/ second' = [second EXCEPT ![t] = TRUE]
      BY <1>5 DEF Scheduler!Client, Scheduler!Acquire, Scheduler!Work, Scheduler!Release,
                  Scheduler!EndLoop, Scheduler!WaitExit, Scheduler!LoadActive,
                  Scheduler!StoreActive, Scheduler!PostExit
    <3> QED BY <3>1, <1>t
  <2>5. ACTIVE_THREADS' \in Int /\ loaded' \in [Scheduler!Threads -> Int]
    BY <1>5, <1>t
    DEF Scheduler!Client, Scheduler!Acquire, Scheduler!Work, Scheduler!Release,
        Scheduler!EndLoop, Scheduler!WaitExit, Scheduler!LoadActive, Scheduler!StoreActive,
        Scheduler!PostExit
  <2> QED BY <1>1, <1>2, <1>3, <2>1, <2>2, <2>3, <2>4, <2>5 DEF Scheduler!TypeOK, Labels
<1> QED BY <1>4, <1>5 DEF Scheduler!Next

LEMMA SchedulerNext ==
  ASSUME SchedulerInv, Scheduler!Next
  PROVE  SchedulerInv'
BY ValuesNext, SpawnedNext, OneBurstNext, SchedulerTypes DEF SchedulerInv

LEMMA SchedulerStarts ==
  ASSUME Scheduler!Init
  PROVE  SchedulerInv
<1>1. Scheduler!TypeOK
  BY SchedulerSizes DEF Scheduler!Init, Scheduler!TypeOK
<1>2. Using = {} /\ Leaving = {}
  BY DEF Scheduler!Init, Using, Leaving, Where, Working, InExit
<1>3. SemaphoreValues
  BY <1>2, FS_EmptySet, SchedulerSizes DEF Scheduler!Init, SemaphoreValues
<1>4. Spawned
  BY SchedulerSizes DEF Scheduler!Init, Spawned, Scheduler!Threads
<1>5. Cardinality(Pending) <= THREAD_BURST
  <2>1. Pending \in SUBSET (1..THREAD_BURST)
    BY SchedulerSizes DEF Pending, Scheduler!Threads
  <2>2. IsFiniteSet(1..THREAD_BURST) /\ Cardinality(1..THREAD_BURST) = THREAD_BURST
    BY SchedulerSizes, FS_Interval
  <2> QED BY <2>1, <2>2, FS_Subset
<1>6. OneBurst
  BY <1>5 DEF Scheduler!Init, OneBurst
<1> QED BY <1>1, <1>3, <1>4, <1>6 DEF SchedulerInv

\* With one burst the semaphore is freed when no thread will use it again.
LEMMA SchedulerSafe ==
  ASSUME SchedulerInv
  PROVE  Scheduler!ResourceBound /\ Scheduler!SingleBurstSafe
<1>1. Scheduler!ResourceBound
  BY SchedulerCounting
  DEF SchedulerInv, SemaphoreValues, Using, Where, Working, Scheduler!ResourceBound,
      Scheduler!At
<1>2. ASSUME bursts = 1  PROVE Scheduler!At({"lost"}) = {}
  BY <1>2 DEF SchedulerInv, OneBurst, Scheduler!At
<1>3. ASSUME bursts = 1, ~allocated, NEW t \in Scheduler!Threads,
             pc[t] \in {"loop", "work", "release"}
      PROVE  FALSE
  <2>1. t \in Pending
    BY <1>3, FirstBurst DEF Pending
  <2> QED BY <1>3, <2>1 DEF SchedulerInv, OneBurst
<1> QED BY <1>1, <1>2, <1>3 DEF Scheduler!SingleBurstSafe, Scheduler!At

-----------------------------------------------------------------------------
(* Lab03/es2 *)

ThreadStates == {"none", "open", "wait", "work", "done", "dead", "dead with resource"}

LEMMA NamedSizes ==
  /\ THREAD_BURST \in Nat \ {0} /\ NUM_RESOURCES \in Nat \ {0}
  /\ MAX_THREADS \in Nat /\ MAX_KILLS \in Nat /\ NoServer \notin Servers
  /\ \A t \in NamedSem!ClientThreads : t[1] \in Clients /\ t[2] \in 1..THREAD_BURST
  /\ \A S \in SUBSET NamedSem!ClientThreads : IsFiniteSet(S) /\ Cardinality(S) \in Nat
<1>1. /\ THREAD_BURST \in Nat \ {0} /\ NUM_RESOURCES \in Nat \ {0}
      /\ MAX_THREADS \in Nat /\ MAX_KILLS \in Nat /\ NoServer \notin Servers
      /\ NamedSem!IsFiniteSet(Clients)
  BY ProgramsAssumption DEF ProgramsAssumption, NamedSem!ProgramsAssumption
<1>2. NamedSem!IsFiniteSet(Clients) <=> IsFiniteSet(Clients)
  BY DEF NamedSem!IsFiniteSet, IsFiniteSet
<1>3. IsFiniteSet(NamedSem!ClientThreads)
  <2>1. IsFiniteSet(1..THREAD_BURST)
    BY <1>1, FS_Interval
  <2> QED BY <1>1, <1>2, <2>1, FS_Product DEF NamedSem!ClientThreads
<1>4. \A t \in NamedSem!ClientThreads : t[1] \in Clients /\ t[2] \in 1..THREAD_BURST
  BY DEF NamedSem!ClientThreads
<1>5. \A S \in SUBSET NamedSem!ClientThreads : IsFiniteSet(S) /\ Cardinality(S) \in Nat
  BY <1>3, FS_Subset, FS_CardinalityType
<1> QED BY <1>1, <1>4, <1>5

LEMMA NamedCounting == \A S : NamedSem!Cardinality(S) = Cardinality(S)
BY DEF NamedSem!Cardinality, Cardinality

LEMMA LifetimesNext ==
  ASSUME NamedInv, NamedSem!Next
  PROVE  /\ Lifetimes' /\ ID' \in [Clients -> 0..THREAD_BURST]
         /\ thread' \in [NamedSem!ClientThreads -> ThreadStates]
         /\ sem' \in [NamedSem!ClientThreads -> Servers \cup {NoServer}]
         /\ driver' \in [Clients -> {"off", "spawn", "getchar", "exited", "dead"}]
<1> DEFINE P == /\ Lifetimes' /\ ID' \in [Clients -> 0..THREAD_BURST]
                /\ thread' \in [NamedSem!ClientThreads -> ThreadStates]
                /\ sem' \in [NamedSem!ClientThreads -> Servers \cup {NoServer}]
                /\ driver' \in [Clients -> {"off", "spawn", "getchar", "exited", "dead"}]
<1> SUFFICES P
  OBVIOUS
<1>o. \A d \in Clients : /\ driver[d] = "off" => ID[d] = 0
                         /\ driver[d] = "spawn" => ID[d] < THREAD_BURST
  BY DEF NamedInv, Lifetimes
<1>m. \A t \in NamedSem!ClientThreads : t[2] > ID[t[1]] => thread[t] = "none"
  BY DEF NamedInv, Lifetimes
<1>L. \A t \in NamedSem!ClientThreads :
        /\ thread[t] \in {"wait", "work"} => sem[t] \in Servers
        /\ driver[t[1]] = "dead" =>
              thread[t] \in {"none", "done", "dead", "dead with resource"}
        /\ thread[t] = "dead with resource" => driver[t[1]] = "dead"
  BY DEF NamedInv, Lifetimes
<1>t. /\ ID \in [Clients -> 0..THREAD_BURST] /\ thread \in [NamedSem!ClientThreads -> ThreadStates]
      /\ sem \in [NamedSem!ClientThreads -> Servers \cup {NoServer}]
      /\ driver \in [Clients -> {"off", "spawn", "getchar", "exited", "dead"}]
      /\ name \in Servers \cup {NoServer}
  BY DEF NamedInv, NamedSem!TypeOK, ThreadStates
<1>i. \A d \in Clients : ID[d] \in 0..THREAD_BURST /\ ID[d] \in Nat
  BY <1>t, NamedSizes
<1>c. /\ THREAD_BURST \in Nat \ {0}
      /\ \A t \in NamedSem!ClientThreads : t[1] \in Clients /\ t[2] \in 1..THREAD_BURST
  BY NamedSizes
<1>1. ASSUME NEW s \in Servers,
             NamedSem!Server(s) \/ NamedSem!ServerStart(s) \/ NamedSem!Interrupt(s)
      PROVE  P
  <2>1. UNCHANGED <<driver, ID, thread, sem>>
    BY <1>1 DEF NamedSem!Server, NamedSem!ServerCreate, NamedSem!SetQuitHandler,
                NamedSem!Cleanup, NamedSem!ServerStart, NamedSem!Interrupt, NamedSem!clientVars
  <2> QED BY <2>1, <1>t DEF NamedInv, Lifetimes
<1>2. ASSUME NEW c \in Clients, NamedSem!PressEnter(c) \/ NamedSem!PressCtrlD(c)
      PROVE  P
  <2>1. /\ UNCHANGED <<ID, thread, sem>> /\ driver[c] # "dead"
        /\ \/ driver[c] = "off" /\ driver' = [driver EXCEPT ![c] = "spawn"]
           \/ driver' = [driver EXCEPT ![c] = "exited"]
    BY <1>2 DEF NamedSem!PressEnter, NamedSem!PressCtrlD, NamedSem!DriverMoves
  <2>2. /\ \A d \in Clients : d # c => driver'[d] = driver[d]
        /\ \/ driver'[c] = "exited"
           \/ driver[c] = "off" /\ driver'[c] = "spawn"
        /\ driver' \in [Clients -> {"off", "spawn", "getchar", "exited", "dead"}]
    BY <2>1, <1>2, <1>t
  <2>3. UNCHANGED <<ID, thread, sem>> /\ driver[c] # "dead"
    BY <2>1
  <2>4. \A d \in Clients : /\ driver'[d] = "off" => ID[d] = 0
                           /\ driver'[d] = "spawn" => ID[d] < THREAD_BURST
    <3>1. THREAD_BURST \in Nat \ {0}
      BY <1>c
    <3> QED BY <3>1, <2>2, <1>o
  <2>5. \A t \in NamedSem!ClientThreads :
           /\ driver'[t[1]] = "dead" => driver[t[1]] = "dead"
           /\ driver[t[1]] = "dead" => driver'[t[1]] = "dead"
    BY <2>2, <2>3, <1>c
  <2> QED BY <2>2, <2>3, <2>4, <2>5, <1>t, <1>m, <1>L DEF Lifetimes
<1>3. ASSUME NEW c \in Clients, NamedSem!Spawn(c)  PROVE P
  <2> DEFINE u == <<c, ID[c] + 1>>
  <2>1. /\ driver[c] = "spawn" /\ UNCHANGED sem
        /\ driver' = [driver EXCEPT ![c] = IF ID[c] + 1 = THREAD_BURST THEN "getchar"
                                           ELSE "spawn"]
        /\ ID' = [ID EXCEPT ![c] = @ + 1]
        /\ thread' = [thread EXCEPT ![u] = "open"]
    BY <1>3 DEF NamedSem!Spawn, NamedSem!DriverMoves
  <2>2. ID[c] \in Nat /\ ID[c] < THREAD_BURST
    BY <2>1, <1>3, <1>i, <1>o
  <2>3. u \in NamedSem!ClientThreads /\ u[1] = c /\ u[2] = ID[c] + 1
    BY <2>2, <1>3, <1>c DEF NamedSem!ClientThreads
  <2> HIDE DEF u
  <2>4. /\ ID' \in [Clients -> 0..THREAD_BURST] /\ ID'[c] = ID[c] + 1
        /\ thread' \in [NamedSem!ClientThreads -> ThreadStates]
        /\ driver' \in [Clients -> {"off", "spawn", "getchar", "exited", "dead"}]
    <3>1. /\ ID' \in [Clients -> 0..THREAD_BURST] /\ ID'[c] = ID[c] + 1
      <4>1. ID[c] + 1 \in 0..THREAD_BURST
        BY <2>2, <1>c
      <4> QED BY <4>1, <2>1, <1>3, <1>t
    <3>2. thread' \in [NamedSem!ClientThreads -> ThreadStates]
      BY <2>1, <1>t DEF ThreadStates
    <3>3. driver' \in [Clients -> {"off", "spawn", "getchar", "exited", "dead"}]
      <4>1. (IF ID[c] + 1 = THREAD_BURST THEN "getchar" ELSE "spawn") \in {"getchar", "spawn"}
        OBVIOUS
      <4> QED BY <4>1, <2>1, <1>t
    <3> QED BY <3>1, <3>2, <3>3
  <2>e. /\ \A d \in Clients : d # c => driver'[d] = driver[d] /\ ID'[d] = ID[d]
        /\ driver'[c] \in {"getchar", "spawn"}
        /\ driver'[c] = "spawn" => ID[c] + 1 # THREAD_BURST
        /\ \A t \in NamedSem!ClientThreads :
              thread'[t] = IF t = u THEN "open" ELSE thread[t]
        /\ sem' = sem /\ driver[c] = "spawn"
    BY <2>1, <2>3, <1>3, <1>t
  <2>5. \A d \in Clients : /\ driver'[d] = "off" => ID'[d] = 0
                           /\ driver'[d] = "spawn" => ID'[d] < THREAD_BURST
    <3>1. driver'[c] = "spawn" => ID'[c] < THREAD_BURST
      BY <2>e, <2>2, <2>4, <1>c
    <3> QED BY <3>1, <2>e, <1>o
  <2>6. ASSUME NEW t \in NamedSem!ClientThreads
        PROVE  /\ t[2] > ID'[t[1]] => thread'[t] = "none"
               /\ thread'[t] \in {"wait", "work"} => sem'[t] \in Servers
               /\ driver'[t[1]] = "dead" =>
                     thread'[t] \in {"none", "done", "dead", "dead with resource"}
               /\ thread'[t] = "dead with resource" => driver'[t[1]] = "dead"
    <3>1. CASE t[1] = c
      <4>1. t # u => (t[2] > ID'[c] => t[2] > ID[c])
        BY <2>2, <2>4, <1>c
      <4>2. u[2] <= ID'[c]
        BY <2>2, <2>3, <2>4
      <4>3. CASE t = u
        <5>1. thread'[t] = "open" /\ driver'[t[1]] # "dead" /\ ~(t[2] > ID'[t[1]])
          BY <4>2, <4>3, <3>1, <2>e, <2>3, <2>4, <2>2
        <5> QED BY <5>1
      <4>4. CASE t # u
        <5>1. thread'[t] = thread[t] /\ sem'[t] = sem[t] /\ driver'[c] # "dead"
              /\ thread[t] # "dead with resource"
          BY <4>4, <3>1, <2>e, <1>L
        <5>2. t[2] > ID'[t[1]] => thread[t] = "none"
          BY <4>1, <4>4, <3>1, <1>m
        <5> QED BY <5>1, <5>2, <3>1, <1>L
      <4> QED BY <4>3, <4>4
    <3>2. CASE t[1] # c
      <4>1. t # u /\ t[1] \in Clients
        BY <2>3, <3>2, <1>c
      <4>2. /\ thread'[t] = thread[t] /\ sem'[t] = sem[t]
            /\ driver'[t[1]] = driver[t[1]] /\ ID'[t[1]] = ID[t[1]]
        BY <4>1, <3>2, <2>e
      <4>3. t[2] > ID'[t[1]] => thread'[t] = "none"
        BY <4>2, <1>m
      <4> QED BY <4>2, <4>3, <1>L
    <3> QED BY <3>1, <3>2
  <2> QED BY <2>1, <2>4, <2>5, <2>6, <1>t DEF Lifetimes
<1>4. ASSUME NEW c \in Clients, NamedSem!Die(c), UNCHANGED ID
      PROVE  P
  <2>1. driver' = [driver EXCEPT ![c] = "dead"]
    BY <1>4 DEF NamedSem!Die
  <2>2. thread' \in [NamedSem!ClientThreads -> ThreadStates]
        /\ sem' \in [NamedSem!ClientThreads -> Servers \cup {NoServer}]
    BY <1>4, <1>t DEF NamedSem!Die, ThreadStates
  <2>3. \A t \in NamedSem!ClientThreads :
           /\ t[1] # c => thread'[t] = thread[t] /\ sem'[t] = sem[t]
           /\ t[1] = c => /\ thread[t] = "none" => thread'[t] = "none"
                          /\ thread'[t] \in {"none", "done", "dead", "dead with resource"}
    BY <1>4, <1>t DEF NamedSem!Die
  <2>4. \A d \in Clients : /\ d # c => driver'[d] = driver[d]
                           /\ d = c => driver'[d] = "dead"
    BY <2>1, <1>t
  <2>5. /\ driver' \in [Clients -> {"off", "spawn", "getchar", "exited", "dead"}]
    BY <2>1, <1>t
  <2>m. \A t \in NamedSem!ClientThreads : t[2] > ID[t[1]] => thread'[t] = "none"
    BY <2>3, <1>m
  <2>6. \A t \in NamedSem!ClientThreads :
           /\ thread'[t] \in {"wait", "work"} => sem'[t] \in Servers
           /\ driver'[t[1]] = "dead" =>
                 thread'[t] \in {"none", "done", "dead", "dead with resource"}
           /\ thread'[t] = "dead with resource" => driver'[t[1]] = "dead"
    <3>1. ASSUME NEW t \in NamedSem!ClientThreads, t[1] # c
          PROVE  /\ driver'[t[1]] = driver[t[1]] /\ thread'[t] = thread[t] /\ sem'[t] = sem[t]
      BY <3>1, <2>3, <2>4, <1>c
    <3>2. ASSUME NEW t \in NamedSem!ClientThreads, t[1] = c
          PROVE  /\ driver'[t[1]] = "dead"
                 /\ thread'[t] \in {"none", "done", "dead", "dead with resource"}
      BY <3>2, <2>3, <2>4, <1>4
    <3> SUFFICES ASSUME NEW t \in NamedSem!ClientThreads
                 PROVE  /\ thread'[t] \in {"wait", "work"} => sem'[t] \in Servers
                        /\ driver'[t[1]] = "dead" =>
                              thread'[t] \in {"none", "done", "dead", "dead with resource"}
                        /\ thread'[t] = "dead with resource" => driver'[t[1]] = "dead"
      OBVIOUS
    <3>3. CASE t[1] = c
      BY <3>2, <3>3
    <3>4. CASE t[1] # c
      BY <3>1, <3>4, <1>L
    <3> QED BY <3>3, <3>4
  <2>7. \A d \in Clients : /\ driver'[d] = "off" => ID'[d] = 0
                           /\ driver'[d] = "spawn" => ID'[d] < THREAD_BURST
    BY <1>4, <2>4, <1>o
  <2> QED BY <1>4, <2>2, <2>5, <2>m, <2>6, <2>7, <1>t DEF Lifetimes
<1>5. ASSUME NEW c \in Clients, NamedSem!ClientKill(c)  PROVE P
  BY <1>4, <1>5 DEF NamedSem!ClientKill
<1>6. ASSUME NEW t \in NamedSem!ClientThreads, NamedSem!OpenFails(t)  PROVE P
  BY <1>4, <1>6, <1>c DEF NamedSem!OpenFails
<1>7. ASSUME NEW t \in NamedSem!ClientThreads,
             NamedSem!Open(t) \/ NamedSem!Acquire(t) \/ NamedSem!Release(t)
      PROVE  P
  <2>1. /\ UNCHANGED <<driver, ID>>
        /\ \/ /\ thread[t] = "open" /\ name \in Servers
              /\ thread' = [thread EXCEPT ![t] = "wait"] /\ sem' = [sem EXCEPT ![t] = name]
           \/ /\ thread[t] = "wait"
              /\ thread' = [thread EXCEPT ![t] = "work"] /\ UNCHANGED sem
           \/ /\ thread[t] = "work"
              /\ thread' = [thread EXCEPT ![t] = "done"]
              /\ sem' = [sem EXCEPT ![t] = NoServer]
    BY <1>7, <1>t DEF NamedSem!Open, NamedSem!Acquire, NamedSem!Release, NamedSem!ThreadMoves
  <2>2. /\ thread' \in [NamedSem!ClientThreads -> ThreadStates]
        /\ sem' \in [NamedSem!ClientThreads -> Servers \cup {NoServer}]
    BY <2>1, <1>t DEF ThreadStates
  <2>3. /\ \A u \in NamedSem!ClientThreads : u # t => thread'[u] = thread[u] /\ sem'[u] = sem[u]
        /\ thread'[t] \in {"wait", "work", "done"} /\ thread[t] \in {"open", "wait", "work"}
        /\ thread'[t] \in {"wait", "work"} => sem'[t] \in Servers
    BY <2>1, <1>7, <1>t, <1>L
  <2>m. \A u \in NamedSem!ClientThreads : u[2] > ID[u[1]] => thread'[u] = "none"
    BY <2>3, <1>7, <1>m
  <2>4. \A u \in NamedSem!ClientThreads :
           /\ thread'[u] \in {"wait", "work"} => sem'[u] \in Servers
           /\ driver[u[1]] = "dead" =>
                 thread'[u] \in {"none", "done", "dead", "dead with resource"}
           /\ thread'[u] = "dead with resource" => driver[u[1]] = "dead"
    BY <2>3, <1>7, <1>L
  <2>5. UNCHANGED <<driver, ID>>
    BY <2>1
  <2> QED BY <2>2, <2>m, <2>4, <2>5, <1>o, <1>t DEF Lifetimes
<1> QED BY <1>1, <1>2, <1>3, <1>5, <1>6, <1>7 DEF NamedSem!Next, NamedSem!Client

LEMMA ConservedNext ==
  ASSUME NamedInv, NamedSem!Next
  PROVE  Conserved' /\ value' \in [Servers -> Nat]
<1> USE DEF NamedInv
<1>t. /\ thread \in [NamedSem!ClientThreads -> ThreadStates]
      /\ sem \in [NamedSem!ClientThreads -> Servers \cup {NoServer}]
      /\ value \in [Servers -> Nat]
  <2>1. value \in [Servers -> 0..NUM_RESOURCES] /\ NUM_RESOURCES \in Nat
    BY NamedSizes DEF NamedSem!TypeOK
  <2>2. value \in [Servers -> Nat]
    BY <2>1
  <2> QED BY <2>2 DEF NamedSem!TypeOK, ThreadStates
<1>f. \A s \in Servers : IsFiniteSet(Taken(s)) /\ Cardinality(Taken(s)) \in Nat
  <2>1. \A s \in Servers : Taken(s) \in SUBSET NamedSem!ClientThreads
    BY DEF Taken
  <2> QED BY <2>1, NamedSizes
<1>k. ASSUME UNCHANGED value, \A s \in Servers : Taken(s)' = Taken(s)
      PROVE  Conserved' /\ value' \in [Servers -> Nat]
  <2>1. \A s \in Servers : Cardinality(Taken(s)') = Cardinality(Taken(s))
    BY <1>k
  <2> QED BY <1>k, <1>t, <2>1 DEF Conserved
<1>1. ASSUME NEW s \in Servers,
             NamedSem!Server(s) \/ NamedSem!ServerStart(s) \/ NamedSem!Interrupt(s)
      PROVE  Conserved' /\ value' \in [Servers -> Nat]
  BY <1>1, <1>k
  DEF NamedSem!Server, NamedSem!ServerCreate, NamedSem!SetQuitHandler, NamedSem!Cleanup,
      NamedSem!ServerStart, NamedSem!Interrupt, NamedSem!clientVars, Taken
<1>2. ASSUME NEW c \in Clients, NamedSem!PressEnter(c) \/ NamedSem!PressCtrlD(c)
      PROVE  Conserved' /\ value' \in [Servers -> Nat]
  BY <1>2, <1>k DEF NamedSem!PressEnter, NamedSem!PressCtrlD, Taken
<1>3. ASSUME NEW c \in Clients, NamedSem!Spawn(c)
      PROVE  Conserved' /\ value' \in [Servers -> Nat]
  <2>1. UNCHANGED <<value, sem>>
    BY <1>3 DEF NamedSem!Spawn
  <2>2. PICK u : /\ u \in NamedSem!ClientThreads => thread[u] = "none"
                 /\ thread' = [thread EXCEPT ![u] = "open"]
    <3> DEFINE u == <<c, ID[c] + 1>>
    <3>1. thread' = [thread EXCEPT ![u] = "open"]
      BY <1>3 DEF NamedSem!Spawn
    <3>2. u[1] = c /\ u[2] = ID[c] + 1
      OBVIOUS
    <3>4. ID[c] \in 0..THREAD_BURST /\ THREAD_BURST \in Nat
      BY <1>3, NamedSizes DEF NamedSem!TypeOK
    <3> HIDE DEF u
    <3>3. u \in NamedSem!ClientThreads => thread[u] = "none"
      <4>1. \A t \in NamedSem!ClientThreads : t[2] > ID[t[1]] => thread[t] = "none"
        BY DEF Lifetimes
      <4> QED BY <4>1, <3>2, <3>4
    <3> QED BY <3>1, <3>3
  <2>3. \A s \in Servers : Taken(s)' = Taken(s)
    BY <2>1, <2>2, <1>t DEF Taken
  <2> QED BY <2>1, <2>3, <1>k
<1>4. ASSUME NEW c \in Clients, driver[c] # "dead", NamedSem!Die(c), UNCHANGED value
      PROVE  Conserved' /\ value' \in [Servers -> Nat]
  <2>1. \A t \in NamedSem!ClientThreads : t[1] = c => thread[t] # "dead with resource"
    BY <1>4 DEF Lifetimes
  <2>2. ASSUME NEW s \in Servers, NEW t \in NamedSem!ClientThreads
        PROVE  t \in Taken(s)' <=> t \in Taken(s)
    BY <1>4, <1>t, <2>1, NamedSizes DEF NamedSem!Die, Taken
  <2>3. \A s \in Servers : Taken(s)' = Taken(s)
    BY <2>2 DEF Taken
  <2> QED BY <1>4, <2>3, <1>k
<1>5. ASSUME NEW c \in Clients, NamedSem!ClientKill(c)
      PROVE  Conserved' /\ value' \in [Servers -> Nat]
  BY <1>4, <1>5 DEF NamedSem!ClientKill
<1>6. ASSUME NEW t \in NamedSem!ClientThreads, NamedSem!OpenFails(t)
      PROVE  Conserved' /\ value' \in [Servers -> Nat]
  <2>1. t[1] \in Clients /\ driver[t[1]] # "dead"
    BY <1>6, NamedSizes DEF NamedSem!OpenFails, Lifetimes
  <2> QED BY <1>4, <1>6, <2>1 DEF NamedSem!OpenFails
<1>7. ASSUME NEW t \in NamedSem!ClientThreads, NamedSem!Open(t)
      PROVE  Conserved' /\ value' \in [Servers -> Nat]
  <2>1. /\ UNCHANGED value /\ thread[t] = "open"
        /\ thread' = [thread EXCEPT ![t] = "wait"] /\ sem' = [sem EXCEPT ![t] = name]
    BY <1>7 DEF NamedSem!Open, NamedSem!ThreadMoves
  <2>2. \A s \in Servers : Taken(s)' = Taken(s)
    BY <2>1, <1>t DEF Taken
  <2> QED BY <2>1, <2>2, <1>k
<1>8. ASSUME NEW t \in NamedSem!ClientThreads, NamedSem!Acquire(t)
      PROVE  Conserved' /\ value' \in [Servers -> Nat]
  <2>1. /\ UNCHANGED sem /\ thread[t] = "wait" /\ value[sem[t]] > 0
        /\ thread' = [thread EXCEPT ![t] = "work"]
        /\ value' = [value EXCEPT ![sem[t]] = @ - 1]
    BY <1>8 DEF NamedSem!Acquire, NamedSem!ThreadMoves
  <2>2. sem[t] \in Servers
    BY <2>1 DEF Lifetimes
  <2>3. Taken(sem[t])' = Taken(sem[t]) \cup {t} /\ t \notin Taken(sem[t])
    BY <2>1, <1>t DEF Taken
  <2>4. \A s \in Servers : s # sem[t] => Taken(s)' = Taken(s)
    BY <2>1, <1>t DEF Taken
  <2>5. PICK r \in Servers : r = sem[t]
    BY <2>2
  <2>6. Taken(r)' = Taken(r) \cup {t} /\ t \notin Taken(r)
    BY <2>1, <2>5, <1>t DEF Taken
  <2>7. Cardinality(Taken(r)') = Cardinality(Taken(r)) + 1
    BY <2>6, <1>f, FS_AddElement
  <2>8. value[r] > 0 /\ value' = [value EXCEPT ![r] = @ - 1]
    BY <2>1, <2>5
  <2>9. \A s \in Servers : s # r => Cardinality(Taken(s)') = Cardinality(Taken(s))
    BY <2>4, <2>5
  <2> QED BY <2>7, <2>8, <2>9, <1>t, <1>f DEF Conserved
<1>9. ASSUME NEW t \in NamedSem!ClientThreads, NamedSem!Release(t)
      PROVE  Conserved' /\ value' \in [Servers -> Nat]
  <2>1. /\ thread[t] = "work" /\ sem' = [sem EXCEPT ![t] = NoServer]
        /\ thread' = [thread EXCEPT ![t] = "done"]
        /\ value' = [value EXCEPT ![sem[t]] = @ + 1]
    BY <1>9 DEF NamedSem!Release, NamedSem!ThreadMoves
  <2>2. PICK r \in Servers : r = sem[t]
    BY <2>1 DEF Lifetimes
  <2>3. Taken(r)' = Taken(r) \ {t} /\ t \in Taken(r)
    BY <2>1, <2>2, <1>t DEF Taken
  <2>4. \A s \in Servers : s # r => Taken(s)' = Taken(s)
    BY <2>1, <2>2, <1>t DEF Taken
  <2>5. Cardinality(Taken(r)') = Cardinality(Taken(r)) - 1
    BY <2>3, <1>f, FS_RemoveElement
  <2>6. value' = [value EXCEPT ![r] = @ + 1]
    BY <2>1, <2>2
  <2>7. \A s \in Servers : s # r => Cardinality(Taken(s)') = Cardinality(Taken(s))
    BY <2>4
  <2> QED BY <2>5, <2>6, <2>7, <1>t, <1>f DEF Conserved
<1> QED BY <1>1, <1>2, <1>3, <1>5, <1>6, <1>7, <1>8, <1>9 DEF NamedSem!Next, NamedSem!Client

LEMMA NameNext ==
  ASSUME NamedInv, NamedSem!Next
  PROVE  /\ name' \in Servers \cup {NoServer} /\ kills' \in 0..MAX_KILLS
         /\ server' \in [Servers -> {"off", "create", "created", "running", "cleanup",
                                     "exited", "failed", "killed"}]
         /\ NamedSem!NameRemoved'
<1> DEFINE P == /\ name' \in Servers \cup {NoServer} /\ kills' \in 0..MAX_KILLS
                /\ server' \in [Servers -> {"off", "create", "created", "running", "cleanup",
                                            "exited", "failed", "killed"}]
                /\ \A s \in Servers :
                     name' = s => server'[s] \in {"created", "running", "cleanup", "killed"}
<1> SUFFICES P
  BY DEF NamedSem!NameRemoved
<1>t. /\ name \in Servers \cup {NoServer} /\ kills \in 0..MAX_KILLS
      /\ server \in [Servers -> {"off", "create", "created", "running", "cleanup",
                                 "exited", "failed", "killed"}]
      /\ \A s \in Servers :
           name = s => server[s] \in {"created", "running", "cleanup", "killed"}
      /\ NoServer \notin Servers
  BY NamedSizes DEF NamedInv, NamedSem!TypeOK, NamedSem!NameRemoved
<1>1. ASSUME NEW s \in Servers, NamedSem!ServerStart(s) \/ NamedSem!Cleanup(s)  PROVE P
  <2>1. /\ name' = NoServer /\ UNCHANGED kills
        /\ server' \in [Servers -> {"off", "create", "created", "running", "cleanup",
                                    "exited", "failed", "killed"}]
    BY <1>1, <1>t
    DEF NamedSem!ServerStart, NamedSem!Cleanup, NamedSem!ServerMoves, NamedSem!clientVars
  <2> QED BY <2>1, <1>t
<1>2. ASSUME NEW s \in Servers, NamedSem!ServerCreate(s)  PROVE P
  <2>1. /\ server[s] = "create" /\ UNCHANGED kills
        /\ \/ /\ name = NoServer /\ name' = s
              /\ server' = [server EXCEPT ![s] = "created"]
           \/ /\ UNCHANGED name
              /\ server' = [server EXCEPT ![s] = "failed"]
    BY <1>2 DEF NamedSem!ServerCreate, NamedSem!ServerMoves, NamedSem!clientVars
  <2> QED BY <2>1, <1>2, <1>t
<1>3. ASSUME NEW s \in Servers, NamedSem!SetQuitHandler(s) \/ NamedSem!Interrupt(s)
      PROVE  P
  <2>1. /\ server[s] \in {"create", "created", "running"} /\ UNCHANGED <<name, kills>>
        /\ \/ server' = [server EXCEPT ![s] = "killed"]
           \/ server' = [server EXCEPT ![s] = "running"]
           \/ server' = [server EXCEPT ![s] = "cleanup"]
    BY <1>3 DEF NamedSem!SetQuitHandler, NamedSem!Interrupt, NamedSem!ServerMoves,
                NamedSem!clientVars
  <2>2. \A r \in Servers : /\ r # s => server'[r] = server[r]
                           /\ r = s => server'[r] \in {"killed", "running", "cleanup"}
    BY <2>1, <1>t
  <2>3. server' \in [Servers -> {"off", "create", "created", "running", "cleanup",
                                "exited", "failed", "killed"}]
    BY <2>1, <1>t
  <2>4. UNCHANGED <<name, kills>>
    BY <2>1
  <2> QED BY <2>2, <2>3, <2>4, <1>t
<1>4. ASSUME UNCHANGED <<name, server>>, kills' \in 0..MAX_KILLS
      PROVE  P
  BY <1>4, <1>t
<1>5. ASSUME NEW c \in Clients,
             \/ NamedSem!Spawn(c) \/ NamedSem!PressEnter(c) \/ NamedSem!PressCtrlD(c)
             \/ NamedSem!ClientKill(c)
      PROVE  P
  <2>1. kills' \in 0..MAX_KILLS
    BY <1>5, <1>t, NamedSizes
    DEF NamedSem!Spawn, NamedSem!PressEnter, NamedSem!PressCtrlD, NamedSem!ClientKill
  <2> QED BY <2>1, <1>4, <1>5
      DEF NamedSem!Spawn, NamedSem!PressEnter, NamedSem!PressCtrlD, NamedSem!ClientKill,
          NamedSem!serverVars
<1>6. ASSUME NEW t \in NamedSem!ClientThreads, NamedSem!Client(t)  PROVE P
  BY <1>4, <1>6, <1>t
  DEF NamedSem!Client, NamedSem!Open, NamedSem!OpenFails, NamedSem!Acquire, NamedSem!Release,
      NamedSem!serverVars
<1> QED BY <1>1, <1>2, <1>3, <1>5, <1>6 DEF NamedSem!Next, NamedSem!Server

\* Every step keeps the invariant of the server and its clients.
LEMMA NamedNext == NamedInv /\ NamedSem!Next => NamedInv'
<1> SUFFICES ASSUME NamedInv, NamedSem!Next PROVE NamedInv'
  OBVIOUS
<1>1. value' \in [Servers -> 0..NUM_RESOURCES]
  <2>1. /\ value' \in [Servers -> Nat] /\ NUM_RESOURCES \in Nat
        /\ \A s \in Servers : value'[s] + Cardinality(Taken(s)') = NUM_RESOURCES
    BY ConservedNext, NamedSizes DEF Conserved
  <2>2. \A s \in Servers : Cardinality(Taken(s)') \in Nat
    <3>1. \A s \in Servers : Taken(s)' \in SUBSET NamedSem!ClientThreads
      BY DEF Taken
    <3> QED BY <3>1, NamedSizes
  <2>3. \A s \in Servers : value'[s] \in 0..NUM_RESOURCES
    BY <2>1, <2>2
  <2> QED BY <2>1, <2>3
<1>2. NamedSem!TypeOK'
  BY <1>1, LifetimesNext, NameNext DEF NamedSem!TypeOK, ThreadStates
<1> QED BY <1>2, LifetimesNext, NameNext, ConservedNext DEF NamedInv

LEMMA NamedStarts == NamedSem!Init => NamedInv
<1> SUFFICES ASSUME NamedSem!Init PROVE NamedInv
  OBVIOUS
<1>1. NamedSem!TypeOK /\ NamedSem!NameRemoved
  BY NamedSizes DEF NamedSem!Init, NamedSem!TypeOK, NamedSem!NameRemoved
<1>2. Lifetimes
  BY NamedSizes DEF NamedSem!Init, Lifetimes
<1>3. \A s \in Servers : Taken(s) = {}
  BY DEF NamedSem!Init, Taken
<1>4. Conserved
  BY <1>3, FS_EmptySet, NamedSizes DEF NamedSem!Init, Conserved
<1> QED BY <1>1, <1>2, <1>4 DEF NamedInv

\* What is taken is held by a thread, or lost with its client.
LEMMA NamedSafe ==
  ASSUME NamedInv
  PROVE  NamedSem!ResourcesConserved
<1> SUFFICES ASSUME NEW s \in Servers
             PROVE  value[s] + Cardinality(NamedSem!Holders(s)) + Cardinality(NamedSem!Lost(s))
                      = NUM_RESOURCES
  BY NamedCounting DEF NamedSem!ResourcesConserved
<1> DEFINE H == NamedSem!Holders(s)
           D == NamedSem!Lost(s)
<1>1. /\ H \in SUBSET NamedSem!ClientThreads /\ D \in SUBSET NamedSem!ClientThreads
      /\ Taken(s) = H \cup D /\ H \cap D = {}
  BY DEF NamedSem!Holders, NamedSem!Lost, Taken
<1>2. value[s] \in Nat /\ value[s] + Cardinality(Taken(s)) = NUM_RESOURCES
  <2>1. value \in [Servers -> 0..NUM_RESOURCES] /\ NUM_RESOURCES \in Nat
    BY NamedSizes DEF NamedInv, NamedSem!TypeOK
  <2> QED BY <2>1 DEF NamedInv, Conserved
<1> HIDE DEF H, D
<1>3. Cardinality(Taken(s)) = Cardinality(H) + Cardinality(D) - Cardinality({})
  BY <1>1, NamedSizes, FS_Union
<1>4. Cardinality(H) \in Nat /\ Cardinality(D) \in Nat /\ Cardinality({}) = 0
  BY <1>1, NamedSizes, FS_EmptySet
<1>5. value[s] + Cardinality(H) + Cardinality(D) = NUM_RESOURCES
  BY <1>2, <1>3, <1>4
<1> QED BY <1>5 DEF H, D

-----------------------------------------------------------------------------
(* req_wrk.c *)

LEMMA ReqWrkSizes ==
  /\ NUM \in Nat \ {0} /\ MAX_CRASHES \in Nat /\ ReqWrk!Cells = 0..(NUM - 1)
  /\ \A k \in ReqWrk!Cells : (k + 1) % NUM = IF k = NUM - 1 THEN 0 ELSE k + 1
<1>1. NUM \in Nat \ {0} /\ MAX_CRASHES \in Nat
  BY ProgramsAssumption DEF ProgramsAssumption, ReqWrk!BoundsAssumption
<1>2. ASSUME NEW k \in 0..(NUM - 1), k = NUM - 1  PROVE (k + 1) % NUM = 0
  BY <1>1, <1>2
<1>3. ASSUME NEW k \in 0..(NUM - 1), k # NUM - 1  PROVE (k + 1) % NUM = k + 1
  BY <1>1, <1>3
<1> QED BY <1>1, <1>2, <1>3 DEF ReqWrk!Cells

\* A loop over the cells turns them one by one.
LEMMA FillNext ==
  ASSUME NEW f, NEW g, NEW k \in ReqWrk!Cells, NEW x, NEW y, Filled(f, k, x, y), g[k] = x,
         \A c \in ReqWrk!Cells : c # k => g[c] = f[c]
  PROVE  Filled(g, k + 1, x, y) /\ f[k] = y
BY ReqWrkSizes DEF Filled

\* When all are turned, the first value is the one the next loop finds.
LEMMA FillAgain ==
  ASSUME NEW f, NEW x, NEW y, NEW z, Filled(f, NUM, y, x)
  PROVE  Filled(f, 0, z, y) /\ \A c \in ReqWrk!Cells : f[c] = y
BY ReqWrkSizes DEF Filled

LEMMA Calls ==
  /\ Len(ReqWrk!SetupCalls) = 6 /\ Len(ReqWrk!CleanUpCalls) = 3
  /\ \A k \in {2, 5, 6} : ReqWrk!SetupCalls[k][1] = "create"
  /\ \A k \in {1, 3, 4} : ReqWrk!SetupCalls[k][1] = "unlink"
  /\ \A k \in {1, 2} : ReqWrk!SetupCalls[k][2] = "shm"
  /\ \A k \in {3, 5} : ReqWrk!SetupCalls[k][2] = "sem_req"
  /\ \A k \in {4, 6} : ReqWrk!SetupCalls[k][2] = "sem_wrk"
BY DEF ReqWrk!SetupCalls, ReqWrk!CleanUpCalls, ReqWrk!SHM, ReqWrk!SEM_REQ, ReqWrk!SEM_WRK

LEMMA SetupNext ==
  ASSUME ReqWrkInv, ReqWrk!Setup
  PROVE  ReqWrkInv'
<1>1. /\ requester = "setup" /\ worker_proc = "none" /\ call \in 1..6
      /\ names \subseteq {"shm", "sem_req", "sem_wrk"}
      /\ req_i = 0 /\ wrk_i = 0 /\ printed = << >> /\ crashes \in 0..MAX_CRASHES
      /\ call = 2 => "shm" \notin names
      /\ call >= 3 => "shm" \in names
      /\ call \in {4, 5} => "sem_req" \notin names
      /\ call \in {5, 6} => "sem_wrk" \notin names
      /\ call = 6 => "sem_req" \in names
  BY Calls DEF ReqWrkInv, ReqWrk!TypeOK, SettingUp, ReqWrk!Setup, ReqWrk!ObjectNames,
               ReqWrk!SHM, ReqWrk!SEM_REQ, ReqWrk!SEM_WRK
<1>2. /\ data' = ReqWrk!Blank /\ sem_req' = 0 /\ sem_wrk' = 0
      /\ worker_proc' = "none" /\ req_i' = 0 /\ wrk_i' = 0 /\ printed' = << >>
      /\ UNCHANGED crashes
  BY <1>1 DEF ReqWrk!Setup
<1>3. /\ names' = CASE call \in {1} -> names \ {"shm"}
                   [] call = 2 -> names \cup {"shm"}
                   [] call = 3 -> names \ {"sem_req"}
                   [] call = 4 -> names \ {"sem_wrk"}
                   [] call = 5 -> names \cup {"sem_req"}
                   [] call = 6 -> names \cup {"sem_wrk"}
      /\ call = 6 => requester' = "fork" /\ call' = 1
      /\ call # 6 => requester' = "setup" /\ call' = call + 1
  BY <1>1, Calls DEF ReqWrk!Setup, ReqWrk!NextCall
<1>4. /\ data' \in [ReqWrk!Cells -> {"zero", "number", "square"}]
      /\ Filled(data', 0, "number", "zero")
      /\ 0 \in ReqWrk!Cells /\ printed' \in Seq({"zero", "number", "square"})
      /\ Len(printed') = 0 /\ Squares(printed')
  BY <1>2, ReqWrkSizes DEF ReqWrk!Blank, Filled, Squares
<1>5. /\ names' \subseteq {"shm", "sem_req", "sem_wrk"}
      /\ call' = 2 /\ requester' = "setup" => "shm" \notin names'
      /\ call' >= 3 => "shm" \in names'
      /\ call' \in {4, 5} => "sem_req" \notin names'
      /\ call' \in {5, 6} => "sem_wrk" \notin names'
      /\ call' = 6 => "sem_req" \in names'
      /\ requester' = "fork" => names' = {"shm", "sem_req", "sem_wrk"} /\ call' = 1
      /\ requester' \in {"setup", "fork"} /\ call' \in 1..6
  BY <1>1, <1>3
<1>6. ReqWrk!TypeOK'
  BY <1>1, <1>2, <1>4, <1>5, Calls, ReqWrkSizes
  DEF ReqWrk!TypeOK, ReqWrk!ObjectNames, ReqWrk!SHM, ReqWrk!SEM_REQ, ReqWrk!SEM_WRK
<1>7. SettingUp'
  BY <1>2, <1>5
  DEF SettingUp, ReqWrk!ObjectNames, ReqWrk!SHM, ReqWrk!SEM_REQ, ReqWrk!SEM_WRK
<1>8. Exchange'
  BY <1>2, <1>4, <1>5 DEF Exchange
<1> QED BY <1>6, <1>7, <1>8 DEF ReqWrkInv

LEMMA MainNext ==
  ASSUME ReqWrkInv, ReqWrk!Fork \/ ReqWrk!WaitWorker \/ ReqWrk!CleanUp \/ ReqWrk!Start
                    \/ ReqWrk!Crash
  PROVE  ReqWrkInv'
<1> USE DEF ReqWrkInv
<1>1. CASE ReqWrk!Fork
  <2>1. /\ requester = "fork" /\ requester' = "open" /\ worker_proc' = "open"
        /\ UNCHANGED <<names, sem_req, sem_wrk, data, call, req_i, wrk_i, printed, crashes>>
    BY <1>1 DEF ReqWrk!Fork, ReqWrk!RequesterMoves, ReqWrk!sems
  <2> QED BY <2>1 DEF ReqWrk!TypeOK, SettingUp, Exchange
<1>2. CASE ReqWrk!WaitWorker
  <2>1. /\ requester = "wait" /\ requester' = "cleanup" /\ worker_proc' = "none"
        /\ UNCHANGED <<names, sem_req, sem_wrk, data, call, req_i, wrk_i, printed, crashes>>
    BY <1>2 DEF ReqWrk!WaitWorker, Exchange, ReqWrk!sems
  <2> QED BY <2>1 DEF ReqWrk!TypeOK, SettingUp, Exchange
<1>3. CASE ReqWrk!CleanUp
  <2>1. /\ requester = "cleanup" /\ names' \subseteq names
        /\ \/ requester' = "ended" /\ call' = 1
           \/ call # 3 /\ requester' = "cleanup" /\ call' = call + 1
        /\ UNCHANGED <<sem_req, sem_wrk, data, worker_proc, req_i, wrk_i, printed, crashes>>
    BY <1>3, Calls DEF ReqWrk!CleanUp, ReqWrk!NextCall, ReqWrk!sems
  <2>2. call \in 1..3
    BY <2>1, Calls DEF ReqWrk!TypeOK, SettingUp
  <2> QED BY <2>1, <2>2, Calls DEF ReqWrk!TypeOK, SettingUp, Exchange
<1>4. CASE ReqWrk!Start
  <2>1. /\ requester = "off" /\ requester' = "setup" /\ call' = 1
        /\ req_i' = 0 /\ wrk_i' = 0 /\ printed' = << >>
        /\ UNCHANGED <<names, sem_req, sem_wrk, data, worker_proc, crashes>>
    BY <1>4 DEF ReqWrk!Start, ReqWrk!sems
  <2>2. /\ Squares(printed') /\ 0 \in ReqWrk!Cells
        /\ printed' \in Seq({"zero", "number", "square"}) /\ Len(printed') = 0
    BY <2>1, ReqWrkSizes DEF Squares
  <2> QED BY <2>1, <2>2, Calls, ReqWrkSizes DEF ReqWrk!TypeOK, SettingUp, Exchange
<1>5. CASE ReqWrk!Crash
  <2>1. /\ crashes < MAX_CRASHES /\ crashes' = crashes + 1
        /\ requester' = "off" /\ worker_proc' = "none"
        /\ UNCHANGED <<names, sem_req, sem_wrk, data, call, req_i, wrk_i, printed>>
    BY <1>5 DEF ReqWrk!Crash, ReqWrk!sems
  <2> QED BY <2>1, ReqWrkSizes DEF ReqWrk!TypeOK, SettingUp, Exchange
<1> QED BY <1>1, <1>2, <1>3, <1>4, <1>5

LEMMA RequestNext ==
  ASSUME ReqWrkInv, ReqWrk!Request
  PROVE  ReqWrkInv'
<1> USE DEF ReqWrkInv
<1>t. /\ req_i \in ReqWrk!Cells /\ 0 \in ReqWrk!Cells /\ req_i \in Nat /\ NUM \in Nat
      /\ data \in [ReqWrk!Cells -> {"zero", "number", "square"}]
      /\ printed \in Seq({"zero", "number", "square"}) /\ Len(printed) \in Nat
      /\ (req_i + 1) % NUM = IF req_i = NUM - 1 THEN 0 ELSE req_i + 1
      /\ req_i # NUM - 1 => req_i + 1 \in ReqWrk!Cells
      /\ req_i = NUM - 1 => req_i + 1 = NUM
      /\ req_i < NUM
  BY ReqWrkSizes DEF ReqWrk!TypeOK
<1>1. CASE ReqWrk!RequestOpen
  <2>1. /\ requester = "open" /\ requester' = "generate"
        /\ UNCHANGED <<names, sem_req, sem_wrk, data, call, worker_proc, req_i, wrk_i, printed,
                       crashes>>
    BY <1>1 DEF ReqWrk!RequestOpen, ReqWrk!RequesterMoves, ReqWrk!sems, SettingUp
  <2> QED BY <2>1 DEF ReqWrk!TypeOK, SettingUp, Exchange
<1>2. CASE ReqWrk!Generate
  <2>1. /\ requester = "generate" /\ req_i' = (req_i + 1) % NUM
        /\ requester' = IF req_i = NUM - 1 THEN "post" ELSE "generate"
        /\ data' = [data EXCEPT ![req_i] = "number"]
        /\ UNCHANGED <<names, sem_req, sem_wrk, call, worker_proc, wrk_i, printed, crashes>>
    BY <1>2 DEF ReqWrk!Generate, ReqWrk!RequesterMoves, ReqWrk!sems
  <2>2. /\ data' \in [ReqWrk!Cells -> {"zero", "number", "square"}]
        /\ data'[req_i] = "number" /\ \A c \in ReqWrk!Cells : c # req_i => data'[c] = data[c]
    BY <2>1, <1>t
  <2>3. Filled(data, req_i, "number", "zero")
    BY <2>1 DEF Exchange
  <2>4. Filled(data', req_i + 1, "number", "zero")
    BY <2>2, <2>3, <1>t, FillNext
  <2>5. /\ req_i' \in ReqWrk!Cells /\ requester' \in {"post", "generate"}
        /\ requester' = "post" => req_i' = 0 /\ Filled(data', NUM, "number", "zero")
        /\ requester' = "generate" => Filled(data', req_i', "number", "zero")
    <3>1. CASE req_i = NUM - 1
      BY <3>1, <2>1, <2>4, <1>t
    <3>2. CASE req_i # NUM - 1
      BY <3>2, <2>1, <2>4, <1>t
    <3> QED BY <3>1, <3>2
  <2>6. UNCHANGED <<names, sem_req, sem_wrk, call, worker_proc, wrk_i, printed, crashes>>
    BY <2>1
  <2>7. requester = "generate"
    BY <2>1
  <2> QED BY <2>2, <2>5, <2>6, <2>7 DEF ReqWrk!TypeOK, SettingUp, Exchange
<1>3. CASE ReqWrk!PostReq
  <2>1. /\ requester = "post" /\ requester' = "wait_wrk" /\ sem_req' = sem_req + 1
        /\ UNCHANGED <<names, sem_wrk, data, call, worker_proc, req_i, wrk_i, printed, crashes>>
    BY <1>3 DEF ReqWrk!PostReq, ReqWrk!RequesterMoves
  <2>2. Filled(data, 0, "square", "number")
    <3>1. Filled(data, NUM, "number", "zero")
      BY <2>1 DEF Exchange
    <3> QED BY <3>1, FillAgain
  <2> QED BY <2>1, <2>2 DEF ReqWrk!TypeOK, SettingUp, Exchange
<1>4. CASE ReqWrk!WaitWrk
  <2>1. /\ requester = "wait_wrk" /\ requester' = "print" /\ sem_wrk > 0
        /\ sem_wrk' = sem_wrk - 1
        /\ UNCHANGED <<names, sem_req, data, call, worker_proc, req_i, wrk_i, printed, crashes>>
    BY <1>4 DEF ReqWrk!WaitWrk, ReqWrk!RequesterMoves
  <2>2. worker_proc = "exited" /\ sem_wrk = 1 /\ sem_req = 0 /\ Len(printed) = req_i
    BY <2>1 DEF Exchange
  <2> QED BY <2>1, <2>2 DEF ReqWrk!TypeOK, SettingUp, Exchange
<1>5. CASE ReqWrk!PrintData
  <2>1. /\ requester = "print" /\ req_i' = (req_i + 1) % NUM
        /\ requester' = IF req_i = NUM - 1 THEN "wait" ELSE "print"
        /\ printed' = Append(printed, data[req_i])
        /\ UNCHANGED <<names, sem_req, sem_wrk, data, call, worker_proc, wrk_i, crashes>>
    BY <1>5 DEF ReqWrk!PrintData, ReqWrk!RequesterMoves, ReqWrk!sems
  <2>2. data[req_i] = "square" /\ Len(printed) = req_i /\ Squares(printed)
    <3>1. Filled(data, NUM, "square", "number")
      BY <2>1 DEF Exchange
    <3> QED BY <3>1, <2>1, <1>t, FillAgain DEF Exchange
  <2>3. /\ Len(printed') = req_i + 1 /\ Squares(printed')
        /\ printed' \in Seq({"zero", "number", "square"})
    <3>1. /\ Len(printed') = Len(printed) + 1 /\ printed'[Len(printed) + 1] = "square"
          /\ \A k \in 1..Len(printed) : printed'[k] = printed[k]
          /\ printed' \in Seq({"zero", "number", "square"})
      BY <2>1, <2>2, <1>t
    <3> QED BY <3>1, <2>2, <1>t DEF Squares
  <2>4. /\ req_i' \in ReqWrk!Cells /\ requester' \in {"print", "wait"}
        /\ requester' = "print" => Len(printed') = req_i'
        /\ requester' = "wait" => Len(printed') = NUM
        /\ Len(printed') <= NUM
    <3>1. CASE req_i = NUM - 1
      BY <3>1, <2>1, <2>3, <1>t
    <3>2. CASE req_i # NUM - 1
      BY <3>2, <2>1, <2>3, <1>t
    <3> QED BY <3>1, <3>2
  <2>5. UNCHANGED <<names, sem_req, sem_wrk, data, call, worker_proc, wrk_i, crashes>>
    BY <2>1
  <2>6. requester = "print"
    BY <2>1
  <2> QED BY <2>3, <2>4, <2>5, <2>6 DEF ReqWrk!TypeOK, SettingUp, Exchange
<1> QED BY <1>1, <1>2, <1>3, <1>4, <1>5 DEF ReqWrk!Request

LEMMA WorkNext ==
  ASSUME ReqWrkInv, ReqWrk!Work
  PROVE  ReqWrkInv'
<1> USE DEF ReqWrkInv
<1>p. /\ requester \in {"open", "generate", "post", "wait_wrk", "print", "wait"}
      /\ worker_proc \in {"open_shm", "update", "post"} => requester = "wait_wrk"
      /\ worker_proc # "exited" => requester \notin {"print", "wait"}
      /\ names = {"shm", "sem_req", "sem_wrk"}
  <2>1. worker_proc \in {"open", "wait_req", "open_shm", "update", "post"}
    BY DEF ReqWrk!Work, ReqWrk!WorkOpenSems, ReqWrk!WaitReq, ReqWrk!WorkOpenShm, ReqWrk!Update,
           ReqWrk!PostWrk, ReqWrk!WorkerMoves
  <2>2. requester \in {"open", "generate", "post", "wait_wrk", "print", "wait"}
    BY <2>1 DEF ReqWrk!TypeOK, SettingUp, Exchange
  <2>3. names = {"shm", "sem_req", "sem_wrk"}
    BY <2>2 DEF SettingUp, ReqWrk!ObjectNames, ReqWrk!SHM, ReqWrk!SEM_REQ, ReqWrk!SEM_WRK
  <2> QED BY <2>1, <2>2, <2>3 DEF Exchange
<1>1. CASE ReqWrk!WorkOpenSems
  <2>1. /\ worker_proc = "open" /\ worker_proc' = "wait_req"
        /\ UNCHANGED <<names, sem_req, sem_wrk, data, requester, call, req_i, wrk_i, printed,
                       crashes>>
    BY <1>1, <1>p DEF ReqWrk!WorkOpenSems, ReqWrk!WorkerMoves, ReqWrk!SEM_REQ, ReqWrk!SEM_WRK,
                      ReqWrk!sems
  <2> QED BY <2>1, <1>p DEF ReqWrk!TypeOK, SettingUp, Exchange
<1>2. CASE ReqWrk!WaitReq
  <2>1. /\ worker_proc = "wait_req" /\ worker_proc' = "open_shm"
        /\ sem_req > 0 /\ sem_req' = sem_req - 1
        /\ UNCHANGED <<names, sem_wrk, data, requester, call, req_i, wrk_i, printed, crashes>>
    BY <1>2 DEF ReqWrk!WaitReq, ReqWrk!WorkerMoves
  <2>2. requester = "wait_wrk" /\ sem_req = 1
    BY <2>1, <1>p DEF Exchange
  <2> QED BY <2>1, <2>2 DEF ReqWrk!TypeOK, SettingUp, Exchange
<1>3. CASE ReqWrk!WorkOpenShm
  <2>1. /\ worker_proc = "open_shm" /\ worker_proc' = "update"
        /\ UNCHANGED <<names, sem_req, sem_wrk, data, requester, call, req_i, wrk_i, printed,
                       crashes>>
    BY <1>3, <1>p DEF ReqWrk!WorkOpenShm, ReqWrk!WorkerMoves, ReqWrk!SHM, ReqWrk!sems
  <2> QED BY <2>1, <1>p DEF ReqWrk!TypeOK, SettingUp, Exchange
<1>4. CASE ReqWrk!Update
  <2>1. /\ worker_proc = "update" /\ wrk_i' = (wrk_i + 1) % NUM
        /\ worker_proc' = IF wrk_i = NUM - 1 THEN "post" ELSE "update"
        /\ data' = [data EXCEPT ![wrk_i] = ReqWrk!Square(data[wrk_i])]
        /\ UNCHANGED <<names, sem_req, sem_wrk, requester, call, req_i, printed, crashes>>
    BY <1>4 DEF ReqWrk!Update, ReqWrk!WorkerMoves, ReqWrk!sems
  <2>t. /\ wrk_i \in ReqWrk!Cells /\ 0 \in ReqWrk!Cells
        /\ data \in [ReqWrk!Cells -> {"zero", "number", "square"}]
        /\ (wrk_i + 1) % NUM = IF wrk_i = NUM - 1 THEN 0 ELSE wrk_i + 1
        /\ wrk_i # NUM - 1 => wrk_i + 1 \in ReqWrk!Cells
        /\ wrk_i = NUM - 1 => wrk_i + 1 = NUM
    BY ReqWrkSizes DEF ReqWrk!TypeOK
  <2>2. requester = "wait_wrk" /\ Filled(data, wrk_i, "square", "number")
    BY <2>1, <1>p DEF Exchange
  <2>3. data[wrk_i] = "number"
    BY <2>2, <2>t, ReqWrkSizes DEF Filled
  <2>4. /\ data' \in [ReqWrk!Cells -> {"zero", "number", "square"}]
        /\ data'[wrk_i] = "square" /\ \A c \in ReqWrk!Cells : c # wrk_i => data'[c] = data[c]
    BY <2>1, <2>3, <2>t DEF ReqWrk!Square
  <2>5. Filled(data', wrk_i + 1, "square", "number")
    BY <2>2, <2>4, <2>t, FillNext
  <2>6. /\ wrk_i' \in ReqWrk!Cells /\ worker_proc' \in {"post", "update"}
        /\ worker_proc' = "post" => Filled(data', NUM, "square", "number")
        /\ worker_proc' = "update" => Filled(data', wrk_i', "square", "number")
    <3>1. CASE wrk_i = NUM - 1
      BY <3>1, <2>1, <2>5, <2>t
    <3>2. CASE wrk_i # NUM - 1
      BY <3>2, <2>1, <2>5, <2>t
    <3> QED BY <3>1, <3>2
  <2>7. UNCHANGED <<names, sem_req, sem_wrk, requester, call, req_i, printed, crashes>>
    BY <2>1
  <2>8. worker_proc = "update"
    BY <2>1
  <2> QED BY <2>2, <2>4, <2>6, <2>7, <2>8 DEF ReqWrk!TypeOK, SettingUp, Exchange
<1>5. CASE ReqWrk!PostWrk
  <2>1. /\ worker_proc = "post" /\ worker_proc' = "exited" /\ sem_wrk' = sem_wrk + 1
        /\ UNCHANGED <<names, sem_req, data, requester, call, req_i, wrk_i, printed, crashes>>
    BY <1>5 DEF ReqWrk!PostWrk, ReqWrk!WorkerMoves
  <2> QED BY <2>1, <1>p DEF ReqWrk!TypeOK, SettingUp, Exchange
<1> QED BY <1>1, <1>2, <1>3, <1>4, <1>5 DEF ReqWrk!Work

LEMMA ReqWrkNext == ReqWrkInv /\ ReqWrk!Next => ReqWrkInv'
BY SetupNext, MainNext, RequestNext, WorkNext DEF ReqWrk!Next, ReqWrk!Main

LEMMA ReqWrkStarts == ReqWrk!Init => ReqWrkInv
<1> SUFFICES ASSUME ReqWrk!Init PROVE ReqWrkInv
  OBVIOUS
<1>1. /\ data \in [ReqWrk!Cells -> {"zero", "number", "square"}] /\ 0 \in ReqWrk!Cells
      /\ printed \in Seq({"zero", "number", "square"}) /\ Len(printed) = 0
  BY ReqWrkSizes DEF ReqWrk!Init, ReqWrk!Blank
<1> QED BY <1>1, Calls, ReqWrkSizes DEF ReqWrk!Init, ReqWrkInv, ReqWrk!TypeOK, SettingUp, Exchange

\* What is printed is as long as the array, and squares.
LEMMA ReqWrkSafe ==
  ASSUME ReqWrkInv
  PROVE  ReqWrk!HandOver
<1>1. worker_proc = "update" => requester = "wait_wrk"
  BY DEF ReqWrkInv, ReqWrk!TypeOK, SettingUp, Exchange
<1>2. ASSUME requester = "cleanup"  PROVE printed = [k \in 1..NUM |-> "square"]
  <2>1. /\ printed \in Seq({"zero", "number", "square"}) /\ Len(printed) = NUM
        /\ \A k \in 1..Len(printed) : printed[k] = "square"
    BY <1>2 DEF ReqWrkInv, ReqWrk!TypeOK, Exchange, Squares
  <2> QED BY <2>1
<1> QED BY <1>1, <1>2 DEF ReqWrk!HandOver

-----------------------------------------------------------------------------
(* The programs *)

\* A program that does not run stays as it is.
LEMMA Unmoved ==
  /\ Inv /\ UNCHANGED vars => Inv'
  /\ SchedulerInv /\ UNCHANGED schedulerVars => SchedulerInv'
  /\ NamedInv /\ UNCHANGED namedVars => NamedInv'
  /\ ReqWrkInv /\ UNCHANGED reqWrkVars => ReqWrkInv'
<1>1. Inv /\ UNCHANGED vars => Inv'
  BY InvStep
<1>2. SchedulerInv /\ UNCHANGED schedulerVars => SchedulerInv'
  BY DEF SchedulerInv, schedulerVars, Scheduler!TypeOK, SemaphoreValues, Spawned, OneBurst,
         Using, Leaving, Where, Pending
<1>3. NamedInv /\ UNCHANGED namedVars => NamedInv'
  <2> SUFFICES ASSUME NamedInv, UNCHANGED namedVars PROVE NamedInv'
    OBVIOUS
  <2>1. NamedSem!TypeOK' /\ NamedSem!NameRemoved'
    BY DEF NamedInv, namedVars, NamedSem!TypeOK, NamedSem!NameRemoved
  <2>2. Lifetimes'
    BY Zenon DEF NamedInv, namedVars, Lifetimes
  <2>3. Conserved'
    BY Zenon DEF NamedInv, namedVars, Conserved, Taken
  <2> QED BY <2>1, <2>2, <2>3 DEF NamedInv
<1>4. ReqWrkInv /\ UNCHANGED reqWrkVars => ReqWrkInv'
  BY DEF ReqWrkInv, reqWrkVars, ReqWrk!TypeOK, SettingUp, Exchange
<1> QED BY <1>1, <1>2, <1>3, <1>4

\* Each program's invariant, whichever of them runs.
LEMMA Invariance == ProgramsSpec => []SemaphoresInv
<1>1. ProgramsInit => SemaphoresInv
  BY InitInv, SchedulerStarts, NamedStarts, ReqWrkStarts DEF ProgramsInit, SemaphoresInv
<1>2. SemaphoresInv /\ [ProgramsNext]_allVars => SemaphoresInv'
  <2> SUFFICES ASSUME SemaphoresInv, [ProgramsNext]_allVars PROVE SemaphoresInv'
    OBVIOUS
  <2>1. CASE CounterRuns /\ Next
    BY <2>1, InvStep, Unmoved DEF SemaphoresInv, CounterRuns
  <2>2. CASE SchedulerRuns /\ Scheduler!Next
    BY <2>2, SchedulerNext, Unmoved DEF SemaphoresInv, SchedulerRuns
  <2>3. CASE NamedSemRuns /\ NamedSem!Next
    BY <2>3, NamedNext, Unmoved DEF SemaphoresInv, NamedSemRuns
  <2>4. CASE ReqWrkRuns /\ ReqWrk!Next
    BY <2>4, ReqWrkNext, Unmoved DEF SemaphoresInv, ReqWrkRuns
  <2>5. CASE UNCHANGED allVars
    BY <2>5, Unmoved DEF SemaphoresInv, allVars
  <2> QED BY <2>1, <2>2, <2>3, <2>4, <2>5 DEF ProgramsNext
<1> QED BY <1>1, <1>2, PTL DEF ProgramsSpec

\* Every variable keeps its type: semaphore and sem_exit of scheduler.c do not
\* exceed the values they begin with, nor does the semaphore of any server of
\* Lab03/es2, and those of req_wrk.c are 0 or 1.
THEOREM ProgramsTyping == ProgramsSpec => []TypesOK
<1>1. SemaphoresInv => TypesOK
  BY DEF SemaphoresInv, Inv, SchedulerInv, NamedInv, ReqWrkInv, TypesOK
<1> QED BY <1>1, Invariance, PTL

\* Every resource of scheduler.c and of each server of Lab03/es2 is free, has
\* one holder, or is lost with a client that died, whatever clients die and
\* servers restart.
THEOREM ResourcesAreBounded == ProgramsSpec => []ResourceBound
<1>1. SemaphoresInv => ResourceBound
  BY SchedulerSafe, NamedSafe DEF SemaphoresInv, ResourceBound
<1> QED BY <1>1, Invariance, PTL

\* With one burst, decrements of ACTIVE_THREADS that are lost keep scheduler.c
\* spinning and never make it free its semaphores too early.
THEOREM FreedAfterLastUse == ProgramsSpec => []SingleBurstSafe
<1>1. SemaphoresInv => SingleBurstSafe
  BY SchedulerSafe DEF SemaphoresInv, SingleBurstSafe
<1> QED BY <1>1, Invariance, PTL

\* A server of Lab03/es2 that has handled CTRL+C leaves no name of its own.
THEOREM NamesAreRemoved == ProgramsSpec => []NameRemoved
<1>1. SemaphoresInv => NameRemoved
  BY DEF SemaphoresInv, NamedInv, NameRemoved
<1> QED BY <1>1, Invariance, PTL

\* req_wrk.c: the worker updates only while the requester waits for it, and as
\* many squares are printed as the array has cells, wherever earlier runs were
\* killed.
THEOREM ArrayIsHandedOver == ProgramsSpec => []HandOver
<1>1. SemaphoresInv => HandOver
  BY ReqWrkSafe DEF SemaphoresInv, HandOver
<1> QED BY <1>1, Invariance, PTL

\* The totals of the counters are exact also beside the other programs.
THEOREM TotalsAreExact == ProgramsSpec => []ExactTotal
<1>1. SemaphoresInv => ExactTotal
  BY InvExact DEF SemaphoresInv
<1> QED BY <1>1, Invariance, PTL
=============================================================================
