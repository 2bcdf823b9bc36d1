--------------------------- MODULE RiepilogoLab04 ---------------------------
(***************************************************************************)
(* Lab04/code/riepilogo.c: the log program of Riepilogo built on three     *)
(* named semaphores, whose value is polled rather than waited for.  main   *)
(* polls ready_sem and a child polls halt_sem; main does not wait for its  *)
(* children before it unlinks the names and parses the log; file_sem is    *)
(* private to a process, so fork leaves each child with its own.           *)
(*                                                                         *)
(* Both polling loops compare the variable check with N before they assign *)
(* it: its first value is whatever the stack holds, N or not.              *)
(***************************************************************************)
EXTENDS Naturals, FiniteSets

CONSTANTS Children, M,
          MAX_ROUNDS    \* bound: rounds of a child before halt_sem reaches N

Workers == 1..M
N == Cardinality(Children)

\* What the constants are (assumed where the module is instantiated).
ParametersAssumption ==
  /\ IsFiniteSet(Children) /\ Children # {}
  /\ M \in Nat \ {0} /\ MAX_ROUNDS \in Nat \ {0}

VARIABLES linked,                 \* the names of the semaphores exist
          ready_sem, start_sem, halt_sem,
          file_sem,               \* each child's copy of the thread semaphore
          file,                   \* the records of each child in the log
          main, i,                \* where main stands, its loop counter
          child, thread,          \* where each child, and each of its threads, stands
          rounds,                 \* rounds a child has completed
          stats                   \* what parseOutput counted

sems == <<ready_sem, start_sem, halt_sem>>
vars == <<linked, sems, file_sem, file, main, i, child, thread, rounds, stats>>

NoRecords == [c \in Children |-> 0]

\* The log and the names may be left from an earlier run.
Init == /\ linked \in BOOLEAN
        /\ ready_sem = 0 /\ start_sem = 0 /\ halt_sem = 0
        /\ file_sem = [c \in Children |-> 1]
        /\ file \in [Children -> {0, 1}]
        /\ main = "setup" /\ i = 0
        /\ child = [c \in Children |-> "none"]
        /\ thread = [c \in Children |-> [w \in Workers |-> "none"]]
        /\ rounds = NoRecords
        /\ stats = NoRecords

-----------------------------------------------------------------------------
(* main and mainProcess *)

\* Mutation: init_file opens the log without O_TRUNC.
SetupNoTrunc == /\ main = "setup"
                /\ linked' = TRUE
                /\ main' = "fork"
                /\ UNCHANGED <<sems, file_sem, file, i, child, thread, rounds, stats>>

\* init_file, then sem_unlink and sem_open(O_CREAT | O_EXCL) of the three names.
Setup == /\ main = "setup"
         /\ linked' = TRUE
         /\ file' = NoRecords
         /\ main' = "fork"
         /\ UNCHANGED <<sems, file_sem, i, child, thread, rounds, stats>>

\* When no child is left to create mainProcess begins; if check happens to
\* hold N it does not poll at all.
Fork == /\ main = "fork"
        /\ \/ \E c \in Children : /\ child[c] = "none"
                                  /\ child' = [child EXCEPT ![c] = "ready"]
                                  /\ UNCHANGED main
           \/ /\ \A c \in Children : child[c] # "none"
              /\ main' \in {"poll", "start"}
              /\ UNCHANGED child
        /\ UNCHANGED <<linked, sems, file_sem, file, i, thread, rounds, stats>>

\* One turn of a loop of N turns, after which main is at next.
Turn(next) == /\ i' = (i + 1) % N
              /\ main' = IF i + 1 = N THEN next ELSE main

PollReady == /\ main = "poll"
             /\ ready_sem = N
             /\ main' = "start"
             /\ UNCHANGED <<linked, sems, file_sem, file, i, child, thread, rounds, stats>>

Start == /\ main = "start"
         /\ start_sem' = start_sem + 1
         /\ Turn("halt")
         /\ UNCHANGED <<linked, ready_sem, halt_sem, file_sem, file, child, thread, rounds,
                        stats>>

\* After the sleep.
Halt == /\ main = "halt"
        /\ halt_sem' = halt_sem + 1
        /\ Turn("unlink")
        /\ UNCHANGED <<linked, ready_sem, start_sem, file_sem, file, child, thread, rounds,
                       stats>>

Unlink == /\ main = "unlink"
          /\ linked' = FALSE
          /\ main' = "parse"
          /\ UNCHANGED <<sems, file_sem, file, i, child, thread, rounds, stats>>

ParseOutput == /\ main = "parse"
               /\ stats' = file
               /\ main' = "ended"
               /\ UNCHANGED <<linked, sems, file_sem, file, i, child, thread, rounds>>

-----------------------------------------------------------------------------
(* childProcess.  A child that finds a name gone ends with an error. *)

ChildMoves(c, from, to) == /\ child[c] = from
                           /\ child' = [child EXCEPT ![c] = to]

ChildReady(c) == /\ ChildMoves(c, "ready", IF linked THEN "open_start" ELSE "failed")
                 /\ ready_sem' = IF linked THEN ready_sem + 1 ELSE ready_sem
                 /\ UNCHANGED <<linked, start_sem, halt_sem, file_sem, file, main, i, thread,
                                rounds, stats>>

ChildOpenStart(c) ==
  /\ ChildMoves(c, "open_start", IF linked THEN "wait_start" ELSE "failed")
  /\ UNCHANGED <<linked, sems, file_sem, file, main, i, thread, rounds, stats>>

ChildStart(c) == /\ start_sem > 0
                 /\ start_sem' = start_sem - 1
                 /\ ChildMoves(c, "wait_start", "open_halt")
                 /\ UNCHANGED <<linked, ready_sem, halt_sem, file_sem, file, main, i, thread,
                                rounds, stats>>

\* With N in check the child leaves at once.
ChildOpenHalt(c) ==
  /\ \/ linked /\ ChildMoves(c, "open_halt", "poll")
     \/ linked /\ ChildMoves(c, "open_halt", "exited")
     \/ ~linked /\ ChildMoves(c, "open_halt", "failed")
  /\ UNCHANGED <<linked, sems, file_sem, file, main, i, thread, rounds, stats>>

\* sem_getvalue; the round follows even if the value is N, and is the last.
ChildPoll(c) ==
  /\ \/ halt_sem = N /\ ChildMoves(c, "poll", "last_round")
     \/ /\ halt_sem # N /\ rounds[c] < MAX_ROUNDS
        /\ ChildMoves(c, "poll", "round")
  /\ UNCHANGED <<linked, sems, file_sem, file, main, i, thread, rounds, stats>>

ChildCreate(c, w) == /\ child[c] \in {"round", "last_round"}
                     /\ thread[c][w] = "none"
                     /\ \A v \in 1..(w - 1) : thread[c][v] # "none"
                     /\ thread' = [thread EXCEPT ![c][w] = "enter"]
                     /\ UNCHANGED <<linked, sems, file_sem, file, main, i, child, rounds,
                                    stats>>

ChildJoin(c) == /\ \A w \in Workers : thread[c][w] = "done"
                /\ \/ ChildMoves(c, "round", "poll")
                   \/ ChildMoves(c, "last_round", "exited")
                /\ thread' = [thread EXCEPT ![c] = [w \in Workers |-> "none"]]
                /\ rounds' = [rounds EXCEPT ![c] = @ + 1]
                /\ UNCHANGED <<linked, sems, file_sem, file, main, i, stats>>

-----------------------------------------------------------------------------
(* thread_function *)

ThreadMoves(c, w, from, to) == /\ thread[c][w] = from
                               /\ thread' = [thread EXCEPT ![c][w] = to]

\* Mutation: the log is opened before sem_wait.
ThreadEnterNoWait(c, w) ==
  /\ ThreadMoves(c, w, "enter", "append")
  /\ UNCHANGED <<linked, sems, file_sem, file, main, i, child, rounds, stats>>

ThreadEnter(c, w) == /\ file_sem[c] > 0
                     /\ file_sem' = [file_sem EXCEPT ![c] = @ - 1]
                     /\ ThreadMoves(c, w, "enter", "append")
                     /\ UNCHANGED <<linked, sems, file, main, i, child, rounds, stats>>

\* open(O_APPEND) and a write of one int, which is appended in one piece.
ThreadAppend(c, w) == /\ ThreadMoves(c, w, "append", "leave")
                      /\ file' = [file EXCEPT ![c] = @ + 1]
                      /\ UNCHANGED <<linked, sems, file_sem, main, i, child, rounds, stats>>

ThreadLeave(c, w) == /\ ThreadMoves(c, w, "leave", "done")
                     /\ file_sem' = [file_sem EXCEPT ![c] = @ + 1]
                     /\ UNCHANGED <<linked, sems, file, main, i, child, rounds, stats>>

-----------------------------------------------------------------------------
MainStep == Setup \/ Fork \/ PollReady \/ Start \/ Halt \/ Unlink \/ ParseOutput
ChildStep(c) == \/ ChildReady(c) \/ ChildOpenStart(c) \/ ChildStart(c) \/ ChildOpenHalt(c)
                \/ ChildPoll(c) \/ ChildJoin(c)
                \/ \E w \in Workers : ChildCreate(c, w)
ThreadStep(c, w) == ThreadEnter(c, w) \/ ThreadAppend(c, w) \/ ThreadLeave(c, w)

Next == \/ MainStep
        \/ \E c \in Children : ChildStep(c) \/ \E w \in Workers : ThreadStep(c, w)

\* main, the children and their threads are scheduled.
Fairness == /\ WF_vars(MainStep)
            /\ \A c \in Children : /\ WF_vars(ChildStep(c))
                                   /\ \A w \in Workers : WF_vars(ThreadStep(c, w))

Spec == Init /\ [][Next]_vars /\ Fairness

-----------------------------------------------------------------------------
TypeOK ==
  /\ linked \in BOOLEAN
  /\ ready_sem \in 0..N /\ start_sem \in 0..N /\ halt_sem \in 0..N
  /\ file_sem \in [Children -> {0, 1}]
  /\ file \in [Children -> Nat] /\ stats \in [Children -> Nat]
  /\ main \in {"setup", "fork", "poll", "start", "halt", "unlink", "parse", "ended"}
  /\ i \in 0..(N - 1)
  /\ child \in [Children -> {"none", "ready", "open_start", "wait_start", "open_halt", "poll",
                             "round", "last_round", "exited", "failed"}]
  /\ thread \in [Children -> [Workers -> {"none", "enter", "append", "leave", "done"}]]
  /\ rounds \in [Children -> 0..MAX_ROUNDS + 1]

Ended(c) == child[c] \in {"exited", "failed"}

\* Within a process one thread at a time has the log open.
OneThreadPerProcess ==
  \A c \in Children : \A w, v \in Workers :
     thread[c][w] \in {"append", "leave"} /\ thread[c][v] \in {"append", "leave"} => w = v

\* The log of a child that has ended holds all the records of its rounds and
\* no other, however many processes append to it at once.
LogComplete ==
  \A c \in Children : Ended(c) => file[c] = M * rounds[c]

(***************************************************************************)
(* Nobody is left behind.  main does not wait for the children, so this is *)
(* not implied by its end: names may be unlinked under a child's feet, and *)
(* N posts of halt_sem must reach a child that polls at any pace.          *)
(***************************************************************************)
EverybodyEnds == <>(main = "ended" /\ \A c \in Children : Ended(c))
=============================================================================
