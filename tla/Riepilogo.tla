----------------------------- MODULE Riepilogo -----------------------------
(***************************************************************************)
(* Lab05/src/00/riepilogo.c, and Lab07/src/02 riepilogo/riepilogo.c.  main *)
(* forks n children, waits until all are ready, starts them, sleeps, and   *)
(* tells them to end by a flag in shared memory.  Until then a child runs  *)
(* rounds of m threads; a thread appends its child's id to a log file      *)
(* inside a critical section common to all processes.  main waits for the  *)
(* children and then counts the records of the log.                        *)
(*                                                                         *)
(* In Lab05 main and each child open the shared memory by name when they   *)
(* need it; in Lab07 they keep or inherit main's mapping.  Which of the    *)
(* two programs runs is the initial value of by_name.                      *)
(***************************************************************************)
EXTENDS Naturals, FiniteSets

CONSTANTS Children, M,
          MAX_ROUNDS,    \* bound: rounds of a child before main's notification
          MAX_FAILURES   \* bound: how often open() of the log fails

Workers == 1..M
N == Cardinality(Children)

SHM == "shm"
Names == {SHM, "main_waits", "children_wait", "critical"}

ASSUME ParametersAssumption ==
  /\ IsFiniteSet(Children) /\ Children # {}
  /\ M \in Nat \ {0} /\ MAX_ROUNDS \in Nat \ {0} /\ MAX_FAILURES \in Nat

VARIABLES by_name,                   \* the program is Lab05's
          names,                     \* the named objects that exist
          data,                      \* the flag in the shared memory
          main_waits_for_children, children_wait_for_main, critical_section,
          file,                      \* the records of each child in the log
          main, i,                   \* where main stands, its loop counter
          child, thread,             \* where each child, and each of its threads, stands
          rounds,                    \* rounds a child has completed
          stats,                     \* what parseOutput counted
          failures

sems == <<main_waits_for_children, children_wait_for_main, critical_section>>
vars == <<by_name, names, data, sems, file, main, i, child, thread, rounds, stats, failures>>

NoRecords == [c \in Children |-> 0]

\* Names and a log may be left from an earlier run.
Init == /\ by_name \in BOOLEAN
        /\ names \in SUBSET Names
        /\ data = 0
        /\ main_waits_for_children = 0 /\ children_wait_for_main = 0
        /\ critical_section = 0
        /\ file \in [Children -> {0, 1}]
        /\ main = "setup" /\ i = 0
        /\ child = [c \in Children |-> "none"]
        /\ thread = [c \in Children |-> [w \in Workers |-> "none"]]
        /\ rounds = NoRecords
        /\ stats = NoRecords
        /\ failures = 0

-----------------------------------------------------------------------------
(* main *)

InitFile == file' = NoRecords

\* create_named_semaphore unlinks a name before it creates it, and so does the
\* code that opens the shared memory: what an earlier run left is harmless.
CreateObjects == /\ names' = Names
                 /\ data' = 0
                 /\ main_waits_for_children' = 0 /\ children_wait_for_main' = 0
                 /\ critical_section' = 1

Setup == /\ main = "setup"
         /\ CreateObjects
         /\ InitFile
         /\ main' = "fork"
         /\ UNCHANGED <<i, child, thread, rounds, stats, failures>>

\* fork: when no child is left to create main goes on.
Fork == /\ main = "fork"
        /\ \/ \E c \in Children : /\ child[c] = "none"
                                  /\ child' = [child EXCEPT ![c] = "ready"]
                                  /\ UNCHANGED main
           \/ /\ \A c \in Children : child[c] # "none"
              /\ main' = "wait_ready"
              /\ UNCHANGED child
        /\ UNCHANGED <<names, data, sems, file, i, thread, rounds, stats, failures>>

\* One turn of a loop of n turns, after which main is at next.
Turn(next) == /\ i' = (i + 1) % N
              /\ main' = IF i + 1 = N THEN next ELSE main

\* Mutation: the loop ends one turn early.
WaitReadyShort == /\ main = "wait_ready"
                  /\ main_waits_for_children > 0
                  /\ main_waits_for_children' = main_waits_for_children - 1
                  /\ i' = IF i + 2 >= N THEN 0 ELSE i + 1
                  /\ main' = IF i + 2 >= N THEN "start" ELSE main
                  /\ UNCHANGED <<names, data, children_wait_for_main, critical_section, file,
                                 child, thread, rounds, stats, failures>>

WaitReady == /\ main = "wait_ready"
             /\ main_waits_for_children > 0
             /\ main_waits_for_children' = main_waits_for_children - 1
             /\ Turn("start")
             /\ UNCHANGED <<names, data, children_wait_for_main, critical_section, file,
                            child, thread, rounds, stats, failures>>

Start == /\ main = "start"
         /\ children_wait_for_main' = children_wait_for_main + 1
         /\ Turn("sleep")
         /\ UNCHANGED <<names, data, main_waits_for_children, critical_section, file, child,
                        thread, rounds, stats, failures>>

\* Mutation: main takes the name of the shared memory away with the notification.
NotifyUnlink == /\ main = "sleep"
                /\ data' = 1
                /\ names' = names \ {SHM}
                /\ main' = "wait"
                /\ UNCHANGED <<sems, file, i, child, thread, rounds, stats, failures>>

\* After the sleep: shm_open by name (Lab05), then *data = 1.
Notify == /\ main = "sleep"
          /\ by_name => SHM \in names
          /\ data' = 1
          /\ main' = "wait"
          /\ UNCHANGED <<names, sems, file, i, child, thread, rounds, stats, failures>>

\* wait() returns a child that has ended; main gives up if it failed.
Wait(c) ==
  /\ main = "wait"
  /\ child' = [child EXCEPT ![c] = "reaped"]
  /\ \/ child[c] = "exited" /\ Turn("parse")
     \/ child[c] = "failed" /\ main' = "failed" /\ UNCHANGED i
  /\ UNCHANGED <<names, data, sems, file, thread, rounds, stats, failures>>

ParseOutput == /\ main = "parse"
               /\ stats' = file
               /\ main' = "cleanup"
               /\ UNCHANGED <<names, data, sems, file, i, child, thread, rounds, failures>>

\* sem_close and sem_unlink of the three semaphores, shm_unlink.
CleanUp == /\ main = "cleanup"
           /\ names' = names \ Names
           /\ main' = "ended"
           /\ UNCHANGED <<data, sems, file, i, child, thread, rounds, stats, failures>>

-----------------------------------------------------------------------------
(* child_process *)

ChildMoves(c, from, to) == /\ child[c] = from
                           /\ child' = [child EXCEPT ![c] = to]

ChildReady(c) == /\ ChildMoves(c, "ready", "wait_start")
                 /\ main_waits_for_children' = main_waits_for_children + 1
                 /\ UNCHANGED <<names, data, children_wait_for_main, critical_section, file,
                                main, i, thread, rounds, stats, failures>>

ChildStart(c) == /\ children_wait_for_main > 0
                 /\ children_wait_for_main' = children_wait_for_main - 1
                 /\ ChildMoves(c, "wait_start", IF by_name THEN "open" ELSE "round")
                 /\ UNCHANGED <<names, data, main_waits_for_children, critical_section, file,
                                main, i, thread, rounds, stats, failures>>

ChildOpen(c) == /\ ChildMoves(c, "open", IF SHM \in names THEN "round" ELSE "failed")
                /\ UNCHANGED <<names, data, sems, file, main, i, thread, rounds, stats,
                               failures>>

ChildCreate(c, w) == /\ child[c] = "round"
                     /\ thread[c][w] = "none"
                     /\ \A v \in 1..(w - 1) : thread[c][v] # "none"
                     /\ thread' = [thread EXCEPT ![c][w] = "enter"]
                     /\ UNCHANGED <<names, data, sems, file, main, i, child, rounds, stats,
                                    failures>>

ChildJoin(c) == /\ \A w \in Workers : thread[c][w] = "done"
                /\ ChildMoves(c, "round", "check")
                /\ thread' = [thread EXCEPT ![c] = [w \in Workers |-> "none"]]
                /\ rounds' = [rounds EXCEPT ![c] = @ + 1]
                /\ UNCHANGED <<names, data, sems, file, main, i, stats, failures>>

\* if (*data == 1) break, and on exit the child closes what it has open.
ChildCheck(c) == /\ \/ data = 1 /\ ChildMoves(c, "check", "exited")
                    \/ /\ data # 1 /\ rounds[c] < MAX_ROUNDS
                       /\ ChildMoves(c, "check", "round")
                 /\ UNCHANGED <<names, data, sems, file, main, i, thread, rounds, stats,
                                failures>>

-----------------------------------------------------------------------------
(* thread_function *)

ThreadMoves(c, w, from, to) == /\ thread[c][w] = from
                               /\ thread' = [thread EXCEPT ![c][w] = to]

ThreadEnter(c, w) == /\ critical_section > 0
                     /\ critical_section' = critical_section - 1
                     /\ ThreadMoves(c, w, "enter", "append")
                     /\ UNCHANGED <<names, data, main_waits_for_children,
                                    children_wait_for_main, file, main, i, child, rounds,
                                    stats, failures>>

ThreadAppend(c, w) == /\ ThreadMoves(c, w, "append", "leave")
                      /\ file' = [file EXCEPT ![c] = @ + 1]
                      /\ UNCHANGED <<names, data, sems, main, i, child, rounds, stats,
                                     failures>>

\* open() of the log fails: handle_error ends the whole process, its threads
\* with it, and nobody posts critical_section.
ThreadFail(c, w) == /\ failures < MAX_FAILURES
                    /\ failures' = failures + 1
                    /\ thread[c][w] = "append"
                    /\ child' = [child EXCEPT ![c] = "failed"]
                    /\ thread' = [thread EXCEPT ![c] = [v \in Workers |-> "none"]]
                    /\ UNCHANGED <<names, data, sems, file, main, i, rounds, stats>>

\* Mutation: the semaphore is posted twice.
ThreadLeaveTwice(c, w) == /\ ThreadMoves(c, w, "leave", "done")
                          /\ critical_section' = critical_section + 2
                          /\ UNCHANGED <<names, data, main_waits_for_children,
                                         children_wait_for_main, file, main, i, child,
                                         rounds, stats, failures>>

ThreadLeave(c, w) == /\ ThreadMoves(c, w, "leave", "done")
                     /\ critical_section' = critical_section + 1
                     /\ UNCHANGED <<names, data, main_waits_for_children,
                                    children_wait_for_main, file, main, i, child, rounds,
                                    stats, failures>>

-----------------------------------------------------------------------------
MainStep == /\ \/ Setup \/ Fork \/ WaitReady \/ Start \/ Notify \/ ParseOutput \/ CleanUp
               \/ \E c \in Children : Wait(c)
            /\ UNCHANGED by_name
ChildStep(c) == /\ \/ ChildReady(c) \/ ChildStart(c) \/ ChildOpen(c) \/ ChildJoin(c)
                   \/ ChildCheck(c)
                   \/ \E w \in Workers : ChildCreate(c, w)
                /\ UNCHANGED by_name
ThreadStep(c, w) == /\ ThreadEnter(c, w) \/ ThreadAppend(c, w) \/ ThreadLeave(c, w)
                    /\ UNCHANGED by_name

ThreadDies(c, w) == ThreadFail(c, w) /\ UNCHANGED by_name

Next == \/ MainStep
        \/ \E c \in Children : \/ ChildStep(c)
                               \/ \E w \in Workers : ThreadStep(c, w) \/ ThreadDies(c, w)

\* main, the children and their threads are scheduled; open() need not fail.
Fairness == /\ WF_vars(MainStep)
            /\ \A c \in Children : /\ WF_vars(ChildStep(c))
                                   /\ \A w \in Workers : WF_vars(ThreadStep(c, w))

Spec == Init /\ [][Next]_vars /\ Fairness

-----------------------------------------------------------------------------
TypeOK ==
  /\ by_name \in BOOLEAN
  /\ names \subseteq Names
  /\ data \in {0, 1}
  /\ main_waits_for_children \in 0..N /\ children_wait_for_main \in 0..N
  /\ critical_section \in {0, 1}
  /\ file \in [Children -> Nat] /\ stats \in [Children -> Nat]
  /\ main \in {"setup", "fork", "wait_ready", "start", "sleep", "wait", "parse", "cleanup",
               "ended", "failed"}
  /\ i \in 0..(N - 1)
  /\ child \in [Children -> {"none", "ready", "wait_start", "open", "round", "check",
                             "exited", "failed", "reaped"}]
  /\ thread \in [Children -> [Workers -> {"none", "enter", "append", "leave", "done"}]]
  /\ rounds \in [Children -> 0..MAX_ROUNDS]
  /\ failures \in 0..MAX_FAILURES

\* At most one thread of all the processes writes to the log at a time.
OneWriter ==
  \A c, d \in Children : \A w, v \in Workers :
     thread[c][w] \in {"append", "leave"} /\ thread[d][v] \in {"append", "leave"}
       => c = d /\ w = v

(***************************************************************************)
(* "main process wait for all the children to start": no child begins its  *)
(* activities while another has not announced itself.                      *)
(***************************************************************************)
StartTogether ==
  (\E c \in Children : child[c] \notin {"none", "ready", "wait_start"}) =>
     \A d \in Children : child[d] \notin {"none", "ready"}

(***************************************************************************)
(* What main counts is complete: the log it parses has m records of every  *)
(* child for every round the child has run, no record of an earlier run,   *)
(* and no child is left that could append more.                            *)
(***************************************************************************)
ParsesEverything ==
  main \in {"cleanup", "ended"} =>
     \A c \in Children : child[c] = "reaped" /\ stats[c] = M * rounds[c]

(***************************************************************************)
(* main always ends: without I/O failures it ends well and no name is      *)
(* left, whatever the rounds of the children and the end of the shared     *)
(* memory's name; and it ends, with an error, even if a child has died in  *)
(* the critical section and the others wait for it for ever.               *)
(***************************************************************************)
EndsWell == <>(\/ main = "ended" /\ names = {}
               \/ main = "failed" /\ failures > 0)
=============================================================================
