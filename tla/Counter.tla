------------------------------ MODULE Counter ------------------------------
(***************************************************************************)
(* Lab01/code/concurrent_threads.c and Lab02/code/concurrent_threads.c: N  *)
(* threads add v to a total, M times each, and main prints it beside the   *)
(* value it should have.  In Lab02 the threads add to shared_variable,     *)
(* inside the binary semaphore my_sem; in Lab01 each adds up in an int of  *)
(* its own, and main sums these when all threads are joined.  Which of the *)
(* two programs runs is the initial value of cells.                        *)
(*                                                                         *)
(* shared_variable is an unsigned long, a thread's local total is an int.  *)
(***************************************************************************)
EXTENDS Integers, FiniteSets

CONSTANTS N, M,
          VALUES,        \* what v may be given on the command line
          LONG,          \* 2^64, the number of values of an unsigned long
          INT_MAX

Threads == 1..N

ASSUME NumbersAssumption ==
  /\ N \in Nat /\ M \in Nat
  /\ VALUES \subseteq Int
  /\ LONG \in Nat \ {0} /\ INT_MAX \in Nat

VARIABLES cells,             \* the program is Lab01's
          v,
          shared_variable, my_sem,
          BUF,               \* each thread's cell (Lab01)
          counter, j,        \* where main stands, the cells it has summed
          worker, iter,      \* where each thread stands, its completed additions
          sum                \* the total a thread has computed and not stored

vars == <<cells, v, shared_variable, my_sem, BUF, counter, j, worker, iter, sum>>

Zero == [t \in Threads |-> 0]

Init == /\ cells \in BOOLEAN
        /\ v \in VALUES
        /\ shared_variable = 0
        /\ my_sem = 0
        /\ BUF = Zero
        /\ counter = "off" /\ j = 0
        /\ worker = [t \in Threads |-> "none"]
        /\ iter = Zero
        /\ sum = Zero

\* An int addition that overflows wraps around.
ToInt(x) == ((x + INT_MAX + 1) % (2 * (INT_MAX + 1))) - (INT_MAX + 1)

FitsInt(x) == -INT_MAX - 1 <= x /\ x <= INT_MAX

Goto(t, from, to) == /\ worker[t] = from
                     /\ worker' = [worker EXCEPT ![t] = to]

MainMoves(from, to) == /\ counter = from
                       /\ counter' = to

-----------------------------------------------------------------------------
(* thread_work, Lab02 *)

\* Mutation: the addition is not inside the semaphore.
WaitNot(t) == /\ iter[t] < M
              /\ Goto(t, "loop", "load")
              /\ UNCHANGED <<cells, v, shared_variable, my_sem, BUF, counter, j, iter, sum>>

Wait(t) == /\ iter[t] < M
           /\ my_sem > 0
           /\ my_sem' = my_sem - 1
           /\ Goto(t, "loop", "load")
           /\ UNCHANGED <<cells, v, shared_variable, BUF, counter, j, iter, sum>>

\* shared_variable += v is a load and a store.
Load(t) == /\ sum' = [sum EXCEPT ![t] = (shared_variable + v) % LONG]
           /\ Goto(t, "load", "store")
           /\ UNCHANGED <<cells, v, shared_variable, my_sem, BUF, counter, j, iter>>

Store(t) == /\ shared_variable' = sum[t]
            /\ Goto(t, "store", "post")
            /\ UNCHANGED <<cells, v, my_sem, BUF, counter, j, iter, sum>>

Post(t) == /\ my_sem' = my_sem + 1
           /\ iter' = [iter EXCEPT ![t] = @ + 1]
           /\ Goto(t, "post", "loop")
           /\ UNCHANGED <<cells, v, shared_variable, BUF, counter, j, sum>>

Return(t) == /\ iter[t] = M
             /\ Goto(t, "loop", "done")
             /\ UNCHANGED <<cells, v, shared_variable, my_sem, BUF, counter, j, iter, sum>>

(* thread_work, Lab01: the loop touches only a local variable. *)
WriteCell(t) == /\ BUF' = [BUF EXCEPT ![t] = ToInt(M * v)]
                /\ Goto(t, "add", "done")
                /\ UNCHANGED <<cells, v, shared_variable, my_sem, counter, j, iter, sum>>

-----------------------------------------------------------------------------
(* main *)

Start == /\ MainMoves("off", "create")
         /\ shared_variable' = 0
         /\ my_sem' = IF cells THEN my_sem ELSE 1
         /\ UNCHANGED <<cells, v, BUF, j, worker, iter, sum>>

Create(t) == /\ counter = "create"
             /\ \A u \in 1..(t - 1) : worker[u] # "none"
             /\ BUF' = IF cells THEN [BUF EXCEPT ![t] = 0] ELSE BUF
             /\ Goto(t, "none", IF cells THEN "add" ELSE "loop")
             /\ UNCHANGED <<cells, v, shared_variable, my_sem, counter, j, iter, sum>>

\* All threads are created and joined.
Join == /\ MainMoves("create", IF cells THEN "sum" ELSE "printed")
        /\ \A t \in Threads : worker[t] = "done"
        /\ UNCHANGED <<cells, v, shared_variable, my_sem, BUF, j, worker, iter, sum>>

SumCell == /\ counter = "sum" /\ j < N
           /\ shared_variable' = (shared_variable + BUF[j + 1]) % LONG
           /\ j' = j + 1
           /\ UNCHANGED <<cells, v, my_sem, BUF, counter, worker, iter, sum>>

PrintTotal == /\ MainMoves("sum", "printed")
              /\ j = N
              /\ UNCHANGED <<cells, v, shared_variable, my_sem, BUF, j, worker, iter, sum>>

-----------------------------------------------------------------------------
Adding(t) == Wait(t) \/ Load(t) \/ Store(t) \/ Post(t) \/ Return(t) \/ WriteCell(t)
Main == Join \/ SumCell \/ PrintTotal \/ \E t \in Threads : Create(t)

Next == Start \/ Main \/ \E t \in Threads : Adding(t)

\* Once started, main and every thread run.
Fairness == WF_vars(Main) /\ \A t \in Threads : WF_vars(Adding(t))

Spec == Init /\ [][Next]_vars /\ Fairness

-----------------------------------------------------------------------------
TypeOK ==
  /\ cells \in BOOLEAN /\ v \in VALUES
  /\ shared_variable \in 0..(LONG - 1)
  /\ my_sem \in {0, 1}
  /\ BUF \in [Threads -> Int]
  /\ counter \in {"off", "create", "sum", "printed"} /\ j \in 0..N
  /\ worker \in [Threads -> {"none", "loop", "load", "store", "post", "add", "done"}]
  /\ iter \in [Threads -> 0..M]
  /\ sum \in [Threads -> 0..(LONG - 1)]

(***************************************************************************)
(* "The value of the shared variable is %lu. It should have been %lu": the *)
(* two are the same and no addition is lost, in unsigned long arithmetic,  *)
(* which wraps around the same way on both sides.  Lab01 needs that the    *)
(* total of a single thread fits in an int.                                *)
(***************************************************************************)
ExactTotal ==
  counter = "printed" /\ (cells => FitsInt(M * v)) => shared_variable = (N * M * v) % LONG

\* The total is printed: every thread comes to its end.
TotalPrinted == []<>(counter \in {"off", "printed"})
=============================================================================
