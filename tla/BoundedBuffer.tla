--------------------------- MODULE BoundedBuffer ---------------------------
(***************************************************************************)
(* What every producer/consumer program of the repository promises: items  *)
(* are handed over first-in first-out through a buffer of bounded          *)
(* capacity, each exactly once.  The programs implement this promise with  *)
(* ring buffers, semaphores, shared memory or FIFOs; the modules that      *)
(* model them refer to this one with INSTANCE.                             *)
(***************************************************************************)
EXTENDS Naturals, Sequences

CONSTANTS Items,      \* the values that can be handed over
          Capacity    \* how many of them the buffer holds

VARIABLES queue,      \* what has been put and not yet taken, oldest first
          delivered   \* how many times each item has been taken

bvars == <<queue, delivered>>

Init == /\ queue = << >>
        /\ delivered = [x \in Items |-> 0]

\* An item is put at most once: it is neither waiting nor already delivered.
Fresh(x) == /\ delivered[x] = 0
            /\ \A i \in DOMAIN queue : queue[i] # x

Put(x) == /\ Len(queue) < Capacity
          /\ Fresh(x)
          /\ queue' = Append(queue, x)
          /\ UNCHANGED delivered

Get == /\ queue # << >>
       /\ delivered' = [delivered EXCEPT ![Head(queue)] = @ + 1]
       /\ queue' = Tail(queue)

Next == (\E x \in Items : Put(x)) \/ Get

Spec == Init /\ [][Next]_bvars
=============================================================================
