------------------------------ MODULE ReqWrk ------------------------------
(***************************************************************************)
(* Lab05/src/01/req_wrk.c: main makes an array in shared memory and two    *)
(* named semaphores of value 0, forks the worker, and becomes the          *)
(* requester.  The requester fills the array and posts sem_req; the worker *)
(* squares every element and posts sem_wrk; the requester prints the array *)
(* and removes the names.                                                  *)
(*                                                                         *)
(* An element is "zero" as ftruncate leaves it, "number" when request has  *)
(* stored it, and "square" when work has squared the number.               *)
(***************************************************************************)
EXTENDS Naturals, Sequences

CONSTANTS NUM,
          MAX_CRASHES    \* bound: how often the program is killed and started again

SHM     == "shm"
SEM_REQ == "sem_req"
SEM_WRK == "sem_wrk"
ObjectNames == {SHM, SEM_REQ, SEM_WRK}
Cells == 0..(NUM - 1)

\* What the constants are (assumed where the module is instantiated).
BoundsAssumption == NUM \in Nat \ {0} /\ MAX_CRASHES \in Nat

VARIABLES names,               \* the names that are there
          sem_req, sem_wrk,    \* the values of this run's semaphores
          data,
          requester, call,     \* where main and request stand, the library call main is at
          worker_proc,         \* where work stands
          req_i, wrk_i,        \* their loop counters
          printed,             \* what request has printed, cell by cell
          crashes

sems == <<sem_req, sem_wrk>>
vars == <<names, sems, data, requester, call, worker_proc, req_i, wrk_i, printed, crashes>>

Blank == [c \in Cells |-> "zero"]

Init == /\ names = {}
        /\ sem_req = 0 /\ sem_wrk = 0
        /\ data = Blank
        /\ requester = "off" /\ call = 1
        /\ worker_proc = "none"
        /\ req_i = 0 /\ wrk_i = 0
        /\ printed = <<>>
        /\ crashes = 0

-----------------------------------------------------------------------------
(* main *)

\* The calls of main before fork, and after wait.
SetupCalls == << <<"unlink", SHM>>, <<"create", SHM>>,
                 <<"unlink", SEM_REQ>>, <<"unlink", SEM_WRK>>,
                 <<"create", SEM_REQ>>, <<"create", SEM_WRK>> >>
CleanUpCalls == << <<"unlink", SEM_WRK>>, <<"unlink", SEM_REQ>>, <<"unlink", SHM>> >>

Start == /\ requester = "off"
         /\ requester' = "setup" /\ call' = 1
         /\ req_i' = 0 /\ wrk_i' = 0 /\ printed' = <<>>
         /\ UNCHANGED <<names, sems, data, worker_proc, crashes>>

NextCall(calls, at, next) == IF call = Len(calls) THEN requester' = next /\ call' = 1
                                                  ELSE requester' = at /\ call' = call + 1

\* Mutation: what an earlier run left is not unlinked.
SetupNoUnlink ==
  /\ requester = "setup"
  /\ LET op == SetupCalls[call][1]
         name == SetupCalls[call][2]
     IN  IF op = "create" /\ name \in names
           THEN requester' = "failed" /\ UNCHANGED <<names, call>>
           ELSE names' = names \cup {name} /\ NextCall(SetupCalls, "setup", "fork")
  /\ data' = Blank /\ sem_req' = 0 /\ sem_wrk' = 0
  /\ UNCHANGED <<worker_proc, req_i, wrk_i, printed, crashes>>

\* Creation is exclusive: it fails on a name that is there.  A new object is
\* zero; until it is created nobody holds the old one.
Setup ==
  /\ requester = "setup"
  /\ LET op == SetupCalls[call][1]
         name == SetupCalls[call][2]
     IN  IF op = "create" /\ name \in names
           THEN requester' = "failed" /\ UNCHANGED <<names, call>>
           ELSE /\ names' = IF op = "create" THEN names \cup {name} ELSE names \ {name}
                /\ NextCall(SetupCalls, "setup", "fork")
  /\ data' = Blank /\ sem_req' = 0 /\ sem_wrk' = 0
  /\ UNCHANGED <<worker_proc, req_i, wrk_i, printed, crashes>>

RequesterMoves(from, to) == requester = from /\ requester' = to

Fork == /\ RequesterMoves("fork", "open")
        /\ worker_proc' = "open"
        /\ UNCHANGED <<names, sems, data, call, req_i, wrk_i, printed, crashes>>

\* wait(&status), and a failure of the worker is one of main.
WaitWorker == /\ requester = "wait" /\ worker_proc \in {"exited", "failed"}
              /\ requester' = IF worker_proc = "exited" THEN "cleanup" ELSE "failed"
              /\ worker_proc' = "none"
              /\ UNCHANGED <<names, sems, data, call, req_i, wrk_i, printed, crashes>>

CleanUp == /\ requester = "cleanup"
           /\ names' = names \ {CleanUpCalls[call][2]}
           /\ NextCall(CleanUpCalls, "cleanup", "ended")
           /\ UNCHANGED <<sems, data, worker_proc, req_i, wrk_i, printed, crashes>>

\* CTRL+C at any time kills both processes; the names stay.
Crash == /\ requester \notin {"off", "ended", "failed"} /\ crashes < MAX_CRASHES
         /\ crashes' = crashes + 1
         /\ requester' = "off" /\ worker_proc' = "none"
         /\ UNCHANGED <<names, sems, data, call, req_i, wrk_i, printed>>

-----------------------------------------------------------------------------
(* request *)

RequestOpen == /\ RequesterMoves("open", IF names = ObjectNames THEN "generate" ELSE "failed")
               /\ UNCHANGED <<names, sems, data, call, worker_proc, req_i, wrk_i, printed,
                              crashes>>

Generate == /\ RequesterMoves("generate", IF req_i = NUM - 1 THEN "post" ELSE "generate")
            /\ data' = [data EXCEPT ![req_i] = "number"]
            /\ req_i' = (req_i + 1) % NUM
            /\ UNCHANGED <<names, sems, call, worker_proc, wrk_i, printed, crashes>>

PostReq == /\ RequesterMoves("post", "wait_wrk")
           /\ sem_req' = sem_req + 1
           /\ UNCHANGED <<names, sem_wrk, data, call, worker_proc, req_i, wrk_i, printed,
                          crashes>>

\* Mutation: request waits for its own post.
WaitOwnPost == /\ RequesterMoves("wait_wrk", "print")
               /\ sem_req > 0 \/ sem_wrk > 0
               /\ UNCHANGED <<names, sems, data, call, worker_proc, req_i, wrk_i, printed,
                              crashes>>

WaitWrk == /\ RequesterMoves("wait_wrk", "print")
           /\ sem_wrk > 0
           /\ sem_wrk' = sem_wrk - 1
           /\ UNCHANGED <<names, sem_req, data, call, worker_proc, req_i, wrk_i, printed,
                          crashes>>

PrintData == /\ RequesterMoves("print", IF req_i = NUM - 1 THEN "wait" ELSE "print")
             /\ printed' = Append(printed, data[req_i])
             /\ req_i' = (req_i + 1) % NUM
             /\ UNCHANGED <<names, sems, data, call, worker_proc, wrk_i, crashes>>

-----------------------------------------------------------------------------
(* work *)

WorkerMoves(from, to) == worker_proc = from /\ worker_proc' = to

WorkOpenSems ==
  /\ WorkerMoves("open", IF {SEM_REQ, SEM_WRK} \subseteq names THEN "wait_req" ELSE "failed")
  /\ UNCHANGED <<names, sems, data, requester, call, req_i, wrk_i, printed, crashes>>

WaitReq == /\ WorkerMoves("wait_req", "open_shm")
           /\ sem_req > 0
           /\ sem_req' = sem_req - 1
           /\ UNCHANGED <<names, sem_wrk, data, requester, call, req_i, wrk_i, printed,
                          crashes>>

WorkOpenShm ==
  /\ WorkerMoves("open_shm", IF SHM \in names THEN "update" ELSE "failed")
  /\ UNCHANGED <<names, sems, data, requester, call, req_i, wrk_i, printed, crashes>>

Square(x) == IF x = "number" THEN "square" ELSE IF x = "zero" THEN "zero" ELSE "fourth power"

Update == /\ WorkerMoves("update", IF wrk_i = NUM - 1 THEN "post" ELSE "update")
          /\ data' = [data EXCEPT ![wrk_i] = Square(@)]
          /\ wrk_i' = (wrk_i + 1) % NUM
          /\ UNCHANGED <<names, sems, requester, call, req_i, printed, crashes>>

PostWrk == /\ WorkerMoves("post", "exited")
           /\ sem_wrk' = sem_wrk + 1
           /\ UNCHANGED <<names, sem_req, data, requester, call, req_i, wrk_i, printed,
                          crashes>>

-----------------------------------------------------------------------------
Main == Setup \/ Fork \/ WaitWorker \/ CleanUp
Request == RequestOpen \/ Generate \/ PostReq \/ WaitWrk \/ PrintData
Work == WorkOpenSems \/ WaitReq \/ WorkOpenShm \/ Update \/ PostWrk

Next == Main \/ Request \/ Work \/ Start \/ Crash

\* Started processes run; the program need not be started, nor killed.
Fairness == WF_vars(Main \/ Request) /\ WF_vars(Work)

Spec == Init /\ [][Next]_vars /\ Fairness

-----------------------------------------------------------------------------
TypeOK ==
  /\ names \subseteq ObjectNames
  /\ sem_req \in {0, 1} /\ sem_wrk \in {0, 1}
  /\ data \in [Cells -> {"zero", "number", "square"}]
  /\ requester \in {"off", "setup", "fork", "open", "generate", "post", "wait_wrk", "print",
                    "wait", "cleanup", "ended", "failed"}
  /\ call \in 1..Len(SetupCalls)
  /\ worker_proc \in {"none", "open", "wait_req", "open_shm", "update", "post", "exited",
                      "failed"}
  /\ req_i \in Cells /\ wrk_i \in Cells
  /\ printed \in Seq({"zero", "number", "square"}) /\ Len(printed) <= NUM
  /\ crashes \in 0..MAX_CRASHES

(***************************************************************************)
(* "Signal the worker that it can start the elaboration and wait it has    *)
(* terminated": the array belongs to one process at a time, and what is    *)
(* printed is the square of every number, however the processes run.       *)
(***************************************************************************)
HandOver ==
  /\ worker_proc = "update" => requester = "wait_wrk"
  /\ requester = "cleanup" => printed = [k \in 1..NUM |-> "square"]

\* Unless it is killed, the program comes to its end and leaves no name, also
\* when an earlier run was killed anywhere.
EndsClean == []<>(\/ requester = "off"
                  \/ requester = "ended" /\ names = {})
=============================================================================
