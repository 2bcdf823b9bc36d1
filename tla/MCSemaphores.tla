---------------------------- MODULE MCSemaphores ----------------------------
(***************************************************************************)
(* Instances for TLC of the programs of Lab01, Lab02, Lab03/es2 and        *)
(* Lab05/01 that share a variable, a resource or an array under            *)
(* semaphores.  They have nothing in common: a behaviour is one of the     *)
(* program that the variable program names, and the others stay as they    *)
(* are before they start.                                                  *)
(***************************************************************************)
EXTENDS Counter

CONSTANTS THREAD_BURST, NUM_RESOURCES, NUM_TASKS, MAX_BURSTS,
          Servers, Clients, NoServer, MAX_THREADS, MAX_KILLS,
          NUM, MAX_CRASHES

VARIABLES program,
          semaphore, sem_exit, allocated, ACTIVE_THREADS, main, thread_ID, bursts,
          pc, i, second, loaded,
          name, value, server, driver, ID, thread, sem, kills,
          names, sem_req, sem_wrk, data, requester, call, worker_proc, req_i, wrk_i,
          printed, crashes

Scheduler == INSTANCE Scheduler
NamedSem  == INSTANCE NamedSemServer
ReqWrk    == INSTANCE ReqWrk

ASSUME ProgramsAssumption == /\ Scheduler!SizesAssumption
                             /\ NamedSem!ProgramsAssumption
                             /\ ReqWrk!BoundsAssumption

MCValues == {-1, 3}   \* a total that goes below 0, and one that does not fit in an int

schedulerVars == <<semaphore, sem_exit, allocated, ACTIVE_THREADS, main, thread_ID, bursts,
                   pc, i, second, loaded>>
namedVars == <<name, value, server, driver, ID, thread, sem, kills>>
reqWrkVars == <<names, sem_req, sem_wrk, data, requester, call, worker_proc, req_i, wrk_i,
                printed, crashes>>
allVars == <<program, vars, schedulerVars, namedVars, reqWrkVars>>

ProgramsInit == /\ program \in {"counter", "scheduler", "named", "request"}
                /\ Init
                /\ program # "counter" => ~cells /\ v = CHOOSE x \in VALUES : TRUE
                /\ Scheduler!Init
                /\ NamedSem!Init
                /\ ReqWrk!Init

CounterRuns   == /\ program = "counter"
                 /\ UNCHANGED <<program, schedulerVars, namedVars, reqWrkVars>>
SchedulerRuns == /\ program = "scheduler"
                 /\ UNCHANGED <<program, vars, namedVars, reqWrkVars>>
NamedSemRuns  == /\ program = "named"
                 /\ UNCHANGED <<program, vars, schedulerVars, reqWrkVars>>
ReqWrkRuns    == /\ program = "request"
                 /\ UNCHANGED <<program, vars, schedulerVars, namedVars>>

ProgramsNext == \/ CounterRuns /\ Next
                \/ SchedulerRuns /\ Scheduler!Next
                \/ NamedSemRuns /\ NamedSem!Next
                \/ ReqWrkRuns /\ ReqWrk!Next

\* Each program's fairness; it asks nothing of a program that has not started.
ProgramsFairness == Fairness /\ Scheduler!Fairness /\ NamedSem!Fairness /\ ReqWrk!Fairness

ProgramsSpec == ProgramsInit /\ [][ProgramsNext]_allVars /\ ProgramsFairness

\* Every program keeps the types of its variables.
TypesOK == TypeOK /\ Scheduler!TypeOK /\ NamedSem!TypeOK /\ ReqWrk!TypeOK

\* Every resource is free or has one holder, or is lost with a client: of
\* scheduler.c, and of every server of Lab03/es2.
ResourceBound == Scheduler!ResourceBound /\ NamedSem!ResourcesConserved

\* With one burst scheduler.c frees its semaphore after everybody's last use.
SingleBurstSafe == Scheduler!SingleBurstSafe

\* A server of Lab03/es2 that handles CTRL+C leaves no name of its own.
NameRemoved == NamedSem!NameRemoved

\* req_wrk.c: the array has one owner at a time, and squares are printed.
HandOver == ReqWrk!HandOver

\* The counters print their total; every thread of scheduler.c comes to its
\* end; every thread of client.c that waits is served unless what it waits for
\* is lost; req_wrk.c comes to its end and leaves no name.
ProgramsEnd == /\ TotalPrinted
               /\ Scheduler!ThreadsFinish
               /\ NamedSem!WaitersServed
               /\ ReqWrk!EndsClean
=============================================================================
