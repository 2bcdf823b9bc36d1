------------------------- MODULE ProducerConsumer -------------------------
(***************************************************************************)
(* Lab03/code/es1: threads that produce and consume transactions through a *)
(* ring buffer guarded by counting semaphores (e: empty slots, n: items    *)
(* not yet consumed) and by a mutex for each end of the buffer.            *)
(*                                                                         *)
(* producer_consumer_n_m.c has a mutex of its own for the producers        *)
(* (write_s) and one for the consumers (read_s).  In _1_m.c and _n_1.c     *)
(* both ends use the one mutex s: instantiate write_s and read_s with the  *)
(* same value to obtain those programs.                                    *)
(*                                                                         *)
(* A transaction is named by the producer and by the value of numOps when  *)
(* it was produced, so that no two are equal; the deposit is the bag of    *)
(* the transactions credited to it (the code adds their amounts up).       *)
(***************************************************************************)
EXTENDS Integers, FiniteSets

CONSTANTS Producers, Consumers,
          BUFFER_SIZE, OPS_PER_PRODUCER, OPS_PER_CONSUMER,
          write_s, read_s, NoItem

Threads == Producers \cup Consumers
Mutexes == {write_s, read_s}
Items   == Producers \X (1..OPS_PER_PRODUCER)
Slots   == 0..(BUFFER_SIZE - 1)

ASSUME ThreadsAssumption ==
  /\ IsFiniteSet(Producers)
  /\ IsFiniteSet(Consumers)
  /\ Producers \cap Consumers = {}

ASSUME SizesAssumption ==
  /\ BUFFER_SIZE \in Nat \ {0}
  /\ OPS_PER_PRODUCER \in Nat
  /\ OPS_PER_CONSUMER \in Nat

\* The test the preprocessor makes at compile time.
ASSUME OperationsMatch ==
  OPS_PER_CONSUMER * Cardinality(Consumers) = OPS_PER_PRODUCER * Cardinality(Producers)

ASSUME NoItemAssumption == NoItem \notin Items

VARIABLES transactions,   \* the ring buffer
          write_index, read_index,
          deposit,        \* how often each transaction was credited
          e, n,           \* the counting semaphores
          mutex,          \* the value of each binary semaphore
          numOps,         \* operations each thread still has to do
          loaded,         \* the deposit a consumer has computed and not stored
          pc,             \* where each thread stands
          main            \* where main stands

buffer == <<transactions, write_index, read_index>>
vars == <<buffer, deposit, e, n, mutex, numOps, loaded, pc, main>>

Nothing == [x \in Items |-> 0]

\* The mutex a thread brackets its access to the buffer with.
MutexOf(t) == IF t \in Producers THEN write_s ELSE read_s

\* The transaction a producer is about to store.
Current(p) == <<p, numOps[p]>>

Init == /\ transactions = [i \in Slots |-> NoItem]
        /\ write_index = 0
        /\ read_index = 0
        /\ deposit = Nothing
        /\ e = BUFFER_SIZE
        /\ n = 0
        /\ mutex = [m \in Mutexes |-> 1]
        /\ numOps = [t \in Threads |-> IF t \in Producers THEN OPS_PER_PRODUCER
                                                          ELSE OPS_PER_CONSUMER]
        /\ loaded = [c \in Consumers |-> Nothing]
        /\ pc = [t \in Threads |-> "unborn"]
        /\ main = "create"

Goto(t, from, to) == /\ pc[t] = from
                     /\ pc' = [pc EXCEPT ![t] = to]

-----------------------------------------------------------------------------
(* performTransactions *)

\* Mutation: the producer does not wait for an empty slot.
ProducerNoWait(p) == /\ numOps[p] > 0
                     /\ Goto(p, "wait_e", "lock")
                     /\ UNCHANGED <<buffer, deposit, e, n, mutex, numOps, loaded, main>>

ProducerWaitE(p) == /\ numOps[p] > 0
                    /\ e > 0
                    /\ e' = e - 1
                    /\ Goto(p, "wait_e", "lock")
                    /\ UNCHANGED <<buffer, deposit, n, mutex, numOps, loaded, main>>

ProducerWrite(p) == /\ transactions' = [transactions EXCEPT ![write_index] = Current(p)]
                    /\ Goto(p, "write", "advance")
                    /\ UNCHANGED <<write_index, read_index, deposit, e, n, mutex,
                                   numOps, loaded, main>>

\* Mutation: the index does not wrap.
ProducerAdvanceNoWrap(p) == /\ write_index' = write_index + 1
                            /\ Goto(p, "advance", "unlock")
                            /\ UNCHANGED <<transactions, read_index, deposit, e, n, mutex,
                                           numOps, loaded, main>>

ProducerAdvance(p) == /\ write_index' = (write_index + 1) % BUFFER_SIZE
                      /\ Goto(p, "advance", "unlock")
                      /\ UNCHANGED <<transactions, read_index, deposit, e, n, mutex,
                                     numOps, loaded, main>>

ProducerPostN(p) == /\ n' = n + 1
                    /\ numOps' = [numOps EXCEPT ![p] = @ - 1]
                    /\ Goto(p, "post_n", "wait_e")
                    /\ UNCHANGED <<buffer, deposit, e, mutex, loaded, main>>

-----------------------------------------------------------------------------
(* processTransactions *)

ConsumerWaitN(c) == /\ numOps[c] > 0
                    /\ n > 0
                    /\ n' = n - 1
                    /\ Goto(c, "wait_n", "lock")
                    /\ UNCHANGED <<buffer, deposit, e, mutex, numOps, loaded, main>>

\* deposit += transactions[read_index] is a load and a store.
\* Mutation: the index is moved on before the item is read.
ConsumerLoadNext(c) == LET x == transactions[(read_index + 1) % BUFFER_SIZE] IN
                       /\ loaded' = [loaded EXCEPT ![c] =
                                        [y \in Items |-> deposit[y] + IF y = x THEN 1 ELSE 0]]
                       /\ Goto(c, "load", "store")
                       /\ UNCHANGED <<buffer, deposit, e, n, mutex, numOps, main>>

ConsumerLoad(c) == LET x == transactions[read_index] IN
                   /\ loaded' = [loaded EXCEPT ![c] =
                                    [y \in Items |-> deposit[y] + IF y = x THEN 1 ELSE 0]]
                   /\ Goto(c, "load", "store")
                   /\ UNCHANGED <<buffer, deposit, e, n, mutex, numOps, main>>

ConsumerStore(c) == /\ deposit' = loaded[c]
                    /\ loaded' = [loaded EXCEPT ![c] = Nothing]
                    /\ Goto(c, "store", "advance")
                    /\ UNCHANGED <<buffer, e, n, mutex, numOps, main>>

ConsumerAdvance(c) == /\ read_index' = (read_index + 1) % BUFFER_SIZE
                      /\ Goto(c, "advance", "unlock")
                      /\ UNCHANGED <<transactions, write_index, deposit, e, n, mutex,
                                     numOps, loaded, main>>

\* Mutation: the slot is not given back.
ConsumerNoPost(c) == /\ numOps' = [numOps EXCEPT ![c] = @ - 1]
                     /\ Goto(c, "post_e", "wait_n")
                     /\ UNCHANGED <<buffer, deposit, e, n, mutex, loaded, main>>

ConsumerPostE(c) == /\ e' = e + 1
                    /\ numOps' = [numOps EXCEPT ![c] = @ - 1]
                    /\ Goto(c, "post_e", "wait_n")
                    /\ UNCHANGED <<buffer, deposit, n, mutex, loaded, main>>

-----------------------------------------------------------------------------
(* sem_wait and sem_post on the mutex, and the end of a thread *)

\* Mutation: the thread enters without waiting for the mutex.
LockNoWait(t) == /\ Goto(t, "lock", IF t \in Producers THEN "write" ELSE "load")
                 /\ UNCHANGED <<buffer, deposit, e, n, mutex, numOps, loaded, main>>

Lock(t) == /\ mutex[MutexOf(t)] > 0
           /\ mutex' = [mutex EXCEPT ![MutexOf(t)] = @ - 1]
           /\ Goto(t, "lock", IF t \in Producers THEN "write" ELSE "load")
           /\ UNCHANGED <<buffer, deposit, e, n, numOps, loaded, main>>

Unlock(t) == /\ mutex' = [mutex EXCEPT ![MutexOf(t)] = @ + 1]
             /\ Goto(t, "unlock", IF t \in Producers THEN "post_n" ELSE "post_e")
             /\ UNCHANGED <<buffer, deposit, e, n, numOps, loaded, main>>

Exit(t) == /\ numOps[t] = 0
           /\ Goto(t, IF t \in Producers THEN "wait_e" ELSE "wait_n", "done")
           /\ UNCHANGED <<buffer, deposit, e, n, mutex, numOps, loaded, main>>

-----------------------------------------------------------------------------
(* main *)

CreateProducer(p) == /\ main = "create"
                     /\ Goto(p, "unborn", "wait_e")
                     /\ UNCHANGED <<buffer, deposit, e, n, mutex, numOps, loaded, main>>

CreateConsumer(c) == /\ main = "create"
                     /\ \A p \in Producers : pc[p] # "unborn"
                     /\ Goto(c, "unborn", "wait_n")
                     /\ UNCHANGED <<buffer, deposit, e, n, mutex, numOps, loaded, main>>

\* All threads are created: join the producers, then the consumers.
MainMoves(from, to) == /\ main = from
                       /\ main' = to
                       /\ UNCHANGED <<buffer, deposit, e, n, mutex, numOps, loaded, pc>>

EndCreate == /\ \A t \in Threads : pc[t] # "unborn"
             /\ MainMoves("create", "join_producers")

JoinProducers == /\ \A p \in Producers : pc[p] = "done"
                 /\ MainMoves("join_producers", "join_consumers")

\* Mutation: main does not join the consumers.
JoinNoConsumers == MainMoves("join_consumers", "destroyed")

\* Once the consumers are joined main prints the deposit and destroys the
\* semaphores.
JoinConsumers == /\ \A c \in Consumers : pc[c] = "done"
                 /\ MainMoves("join_consumers", "destroyed")

Terminating == main = "destroyed" /\ UNCHANGED vars

-----------------------------------------------------------------------------
ProducerStep(p) == \/ ProducerWaitE(p) \/ ProducerWrite(p) \/ ProducerAdvance(p)
                   \/ ProducerPostN(p)
ConsumerStep(c) == \/ ConsumerWaitN(c) \/ ConsumerLoad(c) \/ ConsumerStore(c)
                   \/ ConsumerAdvance(c) \/ ConsumerPostE(c)
ThreadStep(t) == Lock(t) \/ Unlock(t) \/ Exit(t)
MainStep == \/ \E p \in Producers : CreateProducer(p)
            \/ \E c \in Consumers : CreateConsumer(c)
            \/ EndCreate \/ JoinProducers \/ JoinConsumers

Next == \/ \E p \in Producers : ProducerStep(p)
        \/ \E c \in Consumers : ConsumerStep(c)
        \/ \E t \in Threads : ThreadStep(t)
        \/ MainStep
        \/ Terminating

\* The scheduler lets every thread that can run take a step in the end; a
\* thread's turn at a semaphore is not promised beyond that.
Fairness == /\ \A p \in Producers : WF_vars(ProducerStep(p))
            /\ \A c \in Consumers : WF_vars(ConsumerStep(c))
            /\ \A t \in Threads : WF_vars(ThreadStep(t))
            /\ WF_vars(MainStep)

Spec == Init /\ [][Next]_vars /\ Fairness

-----------------------------------------------------------------------------
(* Where the threads are *)

At(T, labels) == {t \in T : pc[t] \in labels}

InMutex == {"write", "load", "store", "advance", "unlock"}

\* Producers that own a slot they have not announced, and those of them whose
\* item is in the slot.
ProducersHolding == At(Producers, {"lock", "write", "advance", "unlock", "post_n"})
Unannounced      == At(Producers, {"advance", "unlock", "post_n"})

\* Consumers that own an item whose slot they have not given back, and those
\* of them that have not credited it.
ConsumersHolding == At(Consumers, {"lock", "load", "store", "advance", "unlock", "post_e"})
Uncredited       == At(Consumers, {"lock", "load", "store"})

TypeOK ==
  /\ transactions \in [Slots -> Items \cup {NoItem}]
  /\ write_index \in Slots /\ read_index \in Slots
  /\ deposit \in [Items -> Nat]
  /\ e \in Nat /\ n \in Nat
  /\ mutex \in [Mutexes -> {0, 1}]
  /\ numOps \in [Threads -> Nat]
  /\ loaded \in [Consumers -> [Items -> Nat]]
  /\ pc \in [Threads -> {"unborn", "wait_e", "wait_n", "lock", "write", "load", "store",
                          "advance", "unlock", "post_n", "post_e", "done"}]
  /\ main \in {"create", "join_producers", "join_consumers", "destroyed"}

(***************************************************************************)
(* Every slot is accounted for by exactly one owner: it is free (e), full  *)
(* (n), or a single thread between its sem_wait and its sem_post owns it.  *)
(***************************************************************************)
TokenConservation ==
  e + n + Cardinality(ProducersHolding) + Cardinality(ConsumersHolding) = BUFFER_SIZE

\* Two threads are never between sem_wait and sem_post of the same mutex.
MutualExclusion ==
  \A t, u \in Threads :
     pc[t] \in InMutex /\ pc[u] \in InMutex /\ MutexOf(t) = MutexOf(u) => t = u

(***************************************************************************)
(* The two mutexes of the n_m program let a producer and a consumer into   *)
(* the buffer together; they are never at the same slot.                   *)
(***************************************************************************)
NoSlotRace ==
  \A p \in Producers, c \in Consumers :
     pc[p] = "write" /\ pc[c] = "load" => write_index # read_index

(***************************************************************************)
(* The balance main prints, after joining the threads, has every           *)
(* transaction credited exactly once ("make this code yield the same       *)
(* result across different runs"), and no thread is left that would touch  *)
(* the semaphores main destroys and frees.                                 *)
(***************************************************************************)
FinalDeposit ==
  main = "destroyed" => /\ deposit = [x \in Items |-> 1]
                        /\ \A t \in Threads : pc[t] = "done"

(***************************************************************************)
(* The buffer hands items over first-in first-out, each exactly once, and  *)
(* never holds more than BUFFER_SIZE.  The queue is read off the ring: it  *)
(* starts at read_index, or one slot further while a consumer has credited *)
(* the item there and not yet moved the index.                             *)
(***************************************************************************)
QueueLength == n + Cardinality(Unannounced) + Cardinality(Uncredited)
QueueStart  == read_index + Cardinality(At(Consumers, {"advance"}))

ringQueue == [i \in 1..QueueLength |-> transactions[(QueueStart + i - 1) % BUFFER_SIZE]]

Buffer == INSTANCE BoundedBuffer WITH
            Capacity <- BUFFER_SIZE, queue <- ringQueue, delivered <- deposit

ImplementsBuffer == Buffer!Spec

\* Every thread finishes and main prints: no operation waits for ever.
Termination == <>(main = "destroyed")
=============================================================================
