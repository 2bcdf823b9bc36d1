----------------------------- MODULE Scheduler -----------------------------
(***************************************************************************)
(* Lab02/code/scheduler.c: each ENTER spawns THREAD_BURST detached threads *)
(* that share NUM_RESOURCES resources through a semaphore; at CTRL+D main  *)
(* spins until ACTIVE_THREADS is 0, destroys the semaphore and ends.       *)
(*                                                                         *)
(* ACTIVE_THREADS starts at THREAD_BURST, whatever is spawned; it is       *)
(* decremented (a load and a store) inside sem_exit, whose initial value   *)
(* is THREAD_BURST and not 1.                                              *)
(***************************************************************************)
EXTENDS Integers, FiniteSets

CONSTANTS THREAD_BURST, NUM_RESOURCES, NUM_TASKS,
          MAX_BURSTS     \* bound: how often ENTER is pressed

Threads == 1..(THREAD_BURST * MAX_BURSTS)

\* What the constants are (assumed where the module is instantiated).
SizesAssumption ==
  /\ THREAD_BURST \in Nat \ {0} /\ NUM_RESOURCES \in Nat \ {0}
  /\ NUM_TASKS \in Nat /\ MAX_BURSTS \in Nat

VARIABLES semaphore, sem_exit,
          allocated,       \* the memory of semaphore is not freed
          ACTIVE_THREADS,
          main,            \* where main stands
          thread_ID,       \* threads created so far
          bursts,          \* ENTERs so far
          pc, i,           \* where each thread stands, its loop counter
          second,          \* the thread is in the second of its two loops
          loaded           \* the value a thread read from ACTIVE_THREADS

threadVars == <<pc, i, second, loaded>>
mainVars == <<main, thread_ID, bursts>>
vars == <<semaphore, sem_exit, allocated, ACTIVE_THREADS, mainVars, threadVars>>

\* Mutation: the count of active threads starts one too low.
InitOneLess == /\ semaphore = NUM_RESOURCES
               /\ sem_exit = THREAD_BURST
               /\ allocated = TRUE
               /\ ACTIVE_THREADS = THREAD_BURST - 1
               /\ main = "getchar" /\ thread_ID = 0 /\ bursts = 0
               /\ pc = [t \in Threads |-> "none"]
               /\ i = [t \in Threads |-> 0]
               /\ second = [t \in Threads |-> FALSE]
               /\ loaded = [t \in Threads |-> 0]

Init == /\ semaphore = NUM_RESOURCES
        /\ sem_exit = THREAD_BURST
        /\ allocated = TRUE
        /\ ACTIVE_THREADS = THREAD_BURST
        /\ main = "getchar" /\ thread_ID = 0 /\ bursts = 0
        /\ pc = [t \in Threads |-> "none"]
        /\ i = [t \in Threads |-> 0]
        /\ second = [t \in Threads |-> FALSE]
        /\ loaded = [t \in Threads |-> 0]

Goto(t, from, to) == /\ pc[t] = from
                     /\ pc' = [pc EXCEPT ![t] = to]

-----------------------------------------------------------------------------
(* main *)

PressEnter == /\ main = "getchar" /\ bursts < MAX_BURSTS
              /\ bursts' = bursts + 1
              /\ main' = "spawn"
              /\ UNCHANGED <<semaphore, sem_exit, allocated, ACTIVE_THREADS, thread_ID,
                             threadVars>>

\* pthread_create and pthread_detach of one thread of the burst.
Spawn == /\ main = "spawn"
         /\ thread_ID' = thread_ID + 1
         /\ Goto(thread_ID + 1, "none", "loop")
         /\ main' = IF (thread_ID + 1) % THREAD_BURST = 0 THEN "getchar" ELSE "spawn"
         /\ UNCHANGED <<semaphore, sem_exit, allocated, ACTIVE_THREADS, bursts, i, second,
                        loaded>>

PressCtrlD == /\ main = "getchar"
              /\ main' = "wait_exit"
              /\ UNCHANGED <<semaphore, sem_exit, allocated, ACTIVE_THREADS, thread_ID,
                             bursts, threadVars>>

MainWaitExit == /\ main = "wait_exit"
                /\ sem_exit > 0
                /\ sem_exit' = sem_exit - 1
                /\ main' = "spin"
                /\ UNCHANGED <<semaphore, allocated, ACTIVE_THREADS, thread_ID, bursts,
                               threadVars>>

\* while (ACTIVE_THREADS != 0); then semaphore is destroyed and freed.
Destroy == /\ main = "spin"
           /\ ACTIVE_THREADS = 0
           /\ allocated' = FALSE
           /\ sem_exit' = sem_exit + 1
           /\ main' = "ended"
           /\ UNCHANGED <<semaphore, ACTIVE_THREADS, thread_ID, bursts, threadVars>>

-----------------------------------------------------------------------------
(* client.  A thread that touches the freed semaphore is lost: anything may *)
(* happen then, and nothing further is modelled.                            *)

Acquire(t) == /\ i[t] < NUM_TASKS
              /\ allocated => semaphore > 0
              /\ semaphore' = IF allocated THEN semaphore - 1 ELSE semaphore
              /\ Goto(t, "loop", IF allocated THEN "work" ELSE "lost")
              /\ UNCHANGED <<sem_exit, allocated, ACTIVE_THREADS, mainVars, i, second,
                             loaded>>

\* The work on the resource: it changes nothing that is shared.
Work(t) == /\ Goto(t, "work", "release")
           /\ UNCHANGED <<semaphore, sem_exit, allocated, ACTIVE_THREADS, mainVars, i, second,
                          loaded>>

Release(t) == /\ semaphore' = IF allocated THEN semaphore + 1 ELSE semaphore
              /\ Goto(t, "release", IF allocated THEN "loop" ELSE "lost")
              /\ i' = [i EXCEPT ![t] = @ + IF second[t] THEN 1 ELSE 2]
              /\ UNCHANGED <<sem_exit, allocated, ACTIVE_THREADS, mainVars, second,
                             loaded>>

\* The end of a loop: the second begins at 0 again, for all the tasks.
EndLoop(t) == /\ i[t] >= NUM_TASKS
              /\ Goto(t, "loop", IF second[t] THEN "wait_exit" ELSE "loop")
              /\ i' = [i EXCEPT ![t] = 0]
              /\ second' = [second EXCEPT ![t] = TRUE]
              /\ UNCHANGED <<semaphore, sem_exit, allocated, ACTIVE_THREADS, mainVars,
                             loaded>>

WaitExit(t) == /\ sem_exit > 0
               /\ sem_exit' = sem_exit - 1
               /\ Goto(t, "wait_exit", "load")
               /\ UNCHANGED <<semaphore, allocated, ACTIVE_THREADS, mainVars, i, second,
                              loaded>>

LoadActive(t) == /\ loaded' = [loaded EXCEPT ![t] = ACTIVE_THREADS]
                 /\ Goto(t, "load", "store")
                 /\ UNCHANGED <<semaphore, sem_exit, allocated, ACTIVE_THREADS, mainVars, i,
                                second>>

StoreActive(t) == /\ ACTIVE_THREADS' = loaded[t] - 1
                  /\ Goto(t, "store", "post_exit")
                  /\ UNCHANGED <<semaphore, sem_exit, allocated, mainVars, i, second,
                                 loaded>>

\* Mutation: sem_exit is posted twice.
PostExitTwice(t) == /\ sem_exit' = sem_exit + 2
                    /\ Goto(t, "post_exit", "done")
                    /\ UNCHANGED <<semaphore, allocated, ACTIVE_THREADS, mainVars, i, second,
                                   loaded>>

PostExit(t) == /\ sem_exit' = sem_exit + 1
               /\ Goto(t, "post_exit", "done")
               /\ UNCHANGED <<semaphore, allocated, ACTIVE_THREADS, mainVars, i, second,
                              loaded>>

-----------------------------------------------------------------------------
Main == PressEnter \/ Spawn \/ PressCtrlD \/ MainWaitExit \/ Destroy
Client(t) == \/ Acquire(t) \/ Work(t) \/ Release(t) \/ EndLoop(t) \/ WaitExit(t)
             \/ LoadActive(t) \/ StoreActive(t) \/ PostExit(t)

Next == Main \/ \E t \in Threads : Client(t)

\* What has been started runs; nobody has to press a key.
Fairness == /\ WF_vars(Spawn \/ MainWaitExit \/ Destroy)
            /\ \A t \in Threads : WF_vars(Client(t))

Spec == Init /\ [][Next]_vars /\ Fairness

-----------------------------------------------------------------------------
At(labels) == {t \in Threads : pc[t] \in labels}

TypeOK ==
  /\ semaphore \in 0..NUM_RESOURCES
  /\ sem_exit \in 0..THREAD_BURST
  /\ allocated \in BOOLEAN
  /\ ACTIVE_THREADS \in Int
  /\ main \in {"getchar", "spawn", "wait_exit", "spin", "ended"}
  /\ thread_ID \in 0..(THREAD_BURST * MAX_BURSTS) /\ bursts \in 0..MAX_BURSTS
  /\ pc \in [Threads -> {"none", "loop", "work", "release", "wait_exit", "load", "store",
                         "post_exit", "done", "lost"}]
  /\ i \in [Threads -> Nat]
  /\ second \in [Threads -> BOOLEAN]
  /\ loaded \in [Threads -> Int]

(***************************************************************************)
(* "no more than NUM_RESOURCES threads can get exclusive access to them at *)
(* the same time": every resource is free or has one holder.               *)
(***************************************************************************)
ResourceBound ==
  allocated =>
    semaphore + Cardinality(At({"work", "release"})) = NUM_RESOURCES

\* With a single burst main frees the semaphore only when all of its threads
\* are past their last use of it, lost decrements notwithstanding.
SingleBurstSafe ==
  bursts = 1 => /\ At({"lost"}) = {}
                /\ ~allocated => At({"loop", "work", "release"}) = {}

\* Every thread that is spawned gets its turns and comes to its end, or finds
\* the semaphore freed: again and again there comes a time when all have.
ThreadsFinish == []<>(\A t \in Threads : pc[t] \in {"none", "done", "lost"})

(***************************************************************************)
(* "Press CTRL+D to quit": after one burst, main ends once its threads     *)
(* have.  Two threads inside sem_exit can lose a decrement.                *)
(***************************************************************************)
QuitsAfterBurst == (main = "spin" /\ bursts = 1) ~> main = "ended"
=============================================================================
