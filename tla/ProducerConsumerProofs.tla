---------------------- MODULE ProducerConsumerProofs ----------------------
(***************************************************************************)
(* Safety of the producer/consumer programs of Lab03/code/es1 for any      *)
(* number of threads, operations and slots, with one mutex or with two.    *)
(*                                                                         *)
(* The invariant has four parts: the labels a thread can stand at (Places),*)
(* the mutexes (Locks), the accounting of slots (TokenConservation) and    *)
(* the distance of the two indexes (Indexes).  With the history of the     *)
(* transactions (BufferInv) it gives the exact deposit and the refinement  *)
(* of BoundedBuffer.                                                       *)
(***************************************************************************)
EXTENDS ProducerConsumer, Sequences, FiniteSetTheorems, TLAPS

ProducerLabels == {"unborn", "wait_e", "lock", "write", "advance", "unlock", "post_n", "done"}
ConsumerLabels == {"unborn", "wait_n", "lock", "load", "store", "advance", "unlock", "post_e",
                   "done"}
Idle == {"unborn", "wait_e", "wait_n", "done"}

Places == /\ \A p \in Producers : pc[p] \in ProducerLabels
          /\ \A c \in Consumers : pc[c] \in ConsumerLabels
          /\ \A t \in Threads : pc[t] \notin Idle => numOps[t] > 0
          /\ \A p \in Producers : numOps[p] \in 0..OPS_PER_PRODUCER

Locks == /\ MutualExclusion
         /\ \A t \in Threads : pc[t] \in InMutex => mutex[MutexOf(t)] = 0

TypeInv == TypeOK /\ Places /\ Locks

Advanced == At(Producers, {"unlock", "post_n"})
Reading  == At(Consumers, {"lock", "load", "store", "advance"})

\* How far write_index is ahead of read_index.
Distance == n + Cardinality(Advanced) + Cardinality(Reading)

Indexes == \/ write_index = read_index + Distance
           \/ write_index = read_index + Distance - BUFFER_SIZE

Inv == TypeInv /\ TokenConservation /\ Indexes

\* What a thread that moves between two labels adds to the number at L.
Gain(L, from, to) == (IF to \in L THEN 1 ELSE 0) - (IF from \in L THEN 1 ELSE 0)

\* The threads of T that f places at one of the labels L.
Where(T, f, L) == {t \in T : f[t] \in L}

-----------------------------------------------------------------------------
(* Lemmas *)

\* The index after x in the ring.
LEMMA NextSlot ==
  ASSUME NEW x \in Slots
  PROVE  (x + 1) % BUFFER_SIZE = IF x = BUFFER_SIZE - 1 THEN 0 ELSE x + 1
<1>1. BUFFER_SIZE \in Nat /\ BUFFER_SIZE > 0 /\ x \in Nat /\ x < BUFFER_SIZE
  BY SizesAssumption DEF Slots
<1>2. CASE x = BUFFER_SIZE - 1
  BY <1>1, <1>2
<1>3. CASE x # BUFFER_SIZE - 1
  BY <1>1, <1>3
<1> QED BY <1>2, <1>3

\* How the number of threads of T at the labels L changes when only u moves.
LEMMA CountMove ==
  ASSUME NEW T, IsFiniteSet(T), NEW L, NEW f, NEW g, NEW u \in T,
         \A t \in T : t # u => g[t] = f[t]
  PROVE  Cardinality(Where(T, g, L)) = Cardinality(Where(T, f, L)) + Gain(L, f[u], g[u])
<1> DEFINE B == Where(T, f, L)
           A == Where(T, g, L)
<1>1. IsFiniteSet(A) /\ IsFiniteSet(B)
  BY FS_Subset DEF Where
<1>2. Cardinality(A) \in Nat /\ Cardinality(B) \in Nat
  BY <1>1, FS_CardinalityType
<1>3. CASE g[u] \in L /\ f[u] \notin L
  <2>1. A = B \cup {u} /\ u \notin B
    BY <1>3 DEF Where
  <2>2. Cardinality(A) = Cardinality(B) + 1
    BY <2>1, <1>1, FS_AddElement
  <2> QED BY <1>2, <1>3, <2>2 DEF Gain
<1>4. CASE g[u] \notin L /\ f[u] \in L
  <2>1. B = A \cup {u} /\ u \notin A
    BY <1>4 DEF Where
  <2>2. Cardinality(B) = Cardinality(A) + 1
    BY <2>1, <1>1, FS_AddElement
  <2> QED BY <1>2, <1>4, <2>2 DEF Gain
<1>5. CASE g[u] \in L <=> f[u] \in L
  <2>1. A = B
    BY <1>5 DEF Where
  <2> QED BY <1>2, <1>5, <2>1 DEF Gain
<1> QED BY <1>3, <1>4, <1>5

\* The two indexes and their distance when write_index moves on.
LEMMA WriteIndexMoves ==
  ASSUME NEW w \in Slots, NEW r \in Slots, NEW d \in Nat, d < BUFFER_SIZE,
         w = r + d \/ w = r + d - BUFFER_SIZE
  PROVE  LET v == (w + 1) % BUFFER_SIZE
         IN  v = r + d + 1 \/ v = r + d + 1 - BUFFER_SIZE
BY SizesAssumption, NextSlot DEF Slots

\* The same when read_index moves on.
LEMMA ReadIndexMoves ==
  ASSUME NEW w \in Slots, NEW r \in Slots, NEW d \in Nat, d <= BUFFER_SIZE, d > 0,
         w = r + d \/ w = r + d - BUFFER_SIZE
  PROVE  LET v == (r + 1) % BUFFER_SIZE
         IN  w = v + (d - 1) \/ w = v + (d - 1) - BUFFER_SIZE
BY SizesAssumption, NextSlot DEF Slots

-----------------------------------------------------------------------------
(* Types, places and locks *)

\* The initial state has the types, places and locks of the invariant.
LEMMA TypeInit == Init => TypeInv
<1> SUFFICES ASSUME Init PROVE TypeInv
  OBVIOUS
<1> USE DEF Init, Threads, Mutexes
<1>1. TypeOK
  <2>1. 0 \in Slots /\ BUFFER_SIZE \in Nat
    BY SizesAssumption DEF Slots
  <2>2. Nothing \in [Items -> Nat]
    BY DEF Nothing
  <2> QED BY <2>1, <2>2, SizesAssumption DEF TypeOK
<1>2. Places
  BY SizesAssumption, ThreadsAssumption
  DEF Places, ProducerLabels, ConsumerLabels, Idle
<1>3. Locks
  BY DEF Locks, MutualExclusion, InMutex
<1> QED BY <1>1, <1>2, <1>3 DEF TypeInv

\* A step that leaves the mutexes alone and moves one thread without taking
\* it into the protected region keeps the mutexes right.
LEMMA LocksKept ==
  ASSUME TypeInv, NEW t \in Threads, NEW to,
         pc' = [pc EXCEPT ![t] = to], mutex' = mutex,
         to \in InMutex => pc[t] \in InMutex
  PROVE  Locks'
<1>1. \A u \in Threads : pc'[u] \in InMutex => pc[u] \in InMutex
  BY DEF TypeInv, TypeOK
<1>2. MutualExclusion'
  BY <1>1 DEF TypeInv, Locks, MutualExclusion, MutexOf
<1>3. \A u \in Threads : pc'[u] \in InMutex => mutex'[MutexOf(u)] = 0
  BY <1>1 DEF TypeInv, Locks
<1> QED BY <1>2, <1>3 DEF Locks, MutexOf

\* A thread moves to a label of its kind.
LEMMA PlacesKept ==
  ASSUME TypeInv, NEW t \in Threads, NEW to, pc' = [pc EXCEPT ![t] = to],
         t \in Producers => to \in ProducerLabels,
         t \in Consumers => to \in ConsumerLabels,
         numOps' = numOps, to \notin Idle => numOps[t] > 0
  PROVE  Places' /\ (pc \in [Threads -> ProducerLabels \cup ConsumerLabels])'
<1>1. pc \in [Threads -> ProducerLabels \cup ConsumerLabels]
  BY DEF TypeInv, TypeOK, ProducerLabels, ConsumerLabels
<1> QED BY <1>1 DEF TypeInv, Places, Threads

\* Every step keeps types, places and locks.
LEMMA TypeNext == TypeInv /\ [Next]_vars => TypeInv'
<1> SUFFICES ASSUME TypeInv, [Next]_vars PROVE TypeInv'
  OBVIOUS
<1> USE ThreadsAssumption, SizesAssumption DEF Threads
<1>0. /\ pc \in [Threads -> ProducerLabels \cup ConsumerLabels]
      /\ 0 \in Slots
      /\ \A x \in Slots : (x + 1) % BUFFER_SIZE \in Slots
  <2>1. pc \in [Threads -> ProducerLabels \cup ConsumerLabels]
    BY DEF TypeInv, TypeOK, ProducerLabels, ConsumerLabels
  <2>2. \A x \in Slots : (x + 1) % BUFFER_SIZE \in Slots
    BY NextSlot DEF Slots
  <2> QED BY <2>1, <2>2 DEF Slots
<1>1. ASSUME NEW p \in Producers, ProducerWaitE(p) PROVE TypeInv'
  <2>1. Locks'
    BY <1>1, LocksKept DEF ProducerWaitE, Goto, InMutex
  <2>2. Places'
    BY <1>1, PlacesKept DEF ProducerWaitE, Goto, ProducerLabels, Idle
  <2>3. TypeOK'
    BY <1>1 DEF TypeInv, TypeOK, ProducerWaitE, Goto, buffer
  <2> QED BY <2>1, <2>2, <2>3 DEF TypeInv
<1>2. ASSUME NEW p \in Producers, ProducerWrite(p) PROVE TypeInv'
  <2>1. Locks'
    BY <1>2, LocksKept DEF ProducerWrite, Goto, InMutex
  <2>2. Places'
    BY <1>2, PlacesKept DEF ProducerWrite, Goto, ProducerLabels, Idle, TypeInv, Places
  <2>3. Current(p) \in Items
    BY <1>2 DEF ProducerWrite, Goto, Current, Items, TypeInv, Places, Idle, TypeOK
  <2>4. TypeOK'
    BY <1>2, <2>3 DEF TypeInv, TypeOK, ProducerWrite, Goto
  <2> QED BY <2>1, <2>2, <2>4 DEF TypeInv
<1>3. ASSUME NEW p \in Producers, ProducerAdvance(p) PROVE TypeInv'
  <2>1. Locks'
    BY <1>3, LocksKept DEF ProducerAdvance, Goto, InMutex
  <2>2. Places'
    BY <1>3, PlacesKept DEF ProducerAdvance, Goto, ProducerLabels, Idle, TypeInv, Places
  <2>3. TypeOK'
    BY <1>0, <1>3 DEF TypeInv, TypeOK, ProducerAdvance, Goto
  <2> QED BY <2>1, <2>2, <2>3 DEF TypeInv
<1>4. ASSUME NEW p \in Producers, ProducerPostN(p) PROVE TypeInv'
  <2>1. Locks'
    BY <1>4, LocksKept DEF ProducerPostN, Goto, InMutex
  <2>2. Places'
    BY <1>0, <1>4 DEF ProducerPostN, Goto, ProducerLabels, Idle, TypeInv, TypeOK, Places
  <2>3. TypeOK'
    BY <1>4 DEF TypeInv, TypeOK, ProducerPostN, Goto, buffer, Places, Idle
  <2> QED BY <2>1, <2>2, <2>3 DEF TypeInv
<1>5. ASSUME NEW c \in Consumers, ConsumerWaitN(c) PROVE TypeInv'
  <2>1. Locks'
    BY <1>5, LocksKept DEF ConsumerWaitN, Goto, InMutex
  <2>2. Places'
    BY <1>5, PlacesKept DEF ConsumerWaitN, Goto, ConsumerLabels, Idle
  <2>3. TypeOK'
    BY <1>5 DEF TypeInv, TypeOK, ConsumerWaitN, Goto, buffer
  <2> QED BY <2>1, <2>2, <2>3 DEF TypeInv
<1>6. ASSUME NEW c \in Consumers, ConsumerLoad(c) PROVE TypeInv'
  <2>1. Locks'
    BY <1>6, LocksKept DEF ConsumerLoad, Goto, InMutex
  <2>2. Places'
    BY <1>6, PlacesKept DEF ConsumerLoad, Goto, ConsumerLabels, Idle, TypeInv, Places
  <2>3. loaded' \in [Consumers -> [Items -> Nat]]
    <3> DEFINE new == [y \in Items |-> deposit[y] + IF y = transactions[read_index]
                                                    THEN 1 ELSE 0]
    <3>1. new \in [Items -> Nat]
      BY DEF TypeInv, TypeOK
    <3>2. loaded' = [loaded EXCEPT ![c] = new]
      BY <1>6 DEF ConsumerLoad
    <3> HIDE DEF new
    <3> QED BY <3>1, <3>2 DEF TypeInv, TypeOK
  <2>4. TypeOK'
    BY <1>6, <2>3 DEF TypeInv, TypeOK, ConsumerLoad, Goto, buffer
  <2> QED BY <2>1, <2>2, <2>4 DEF TypeInv
<1>7. ASSUME NEW c \in Consumers, ConsumerStore(c) PROVE TypeInv'
  <2>1. Locks'
    BY <1>7, LocksKept DEF ConsumerStore, Goto, InMutex
  <2>2. Places'
    BY <1>7, PlacesKept DEF ConsumerStore, Goto, ConsumerLabels, Idle, TypeInv, Places
  <2>3. Nothing \in [Items -> Nat]
    BY DEF Nothing
  <2>4. TypeOK'
    BY <1>7, <2>3 DEF TypeInv, TypeOK, ConsumerStore, Goto, buffer
  <2> QED BY <2>1, <2>2, <2>4 DEF TypeInv
<1>8. ASSUME NEW c \in Consumers, ConsumerAdvance(c) PROVE TypeInv'
  <2>1. Locks'
    BY <1>8, LocksKept DEF ConsumerAdvance, Goto, InMutex
  <2>2. Places'
    BY <1>8, PlacesKept DEF ConsumerAdvance, Goto, ConsumerLabels, Idle, TypeInv, Places
  <2>3. TypeOK'
    BY <1>0, <1>8 DEF TypeInv, TypeOK, ConsumerAdvance, Goto
  <2> QED BY <2>1, <2>2, <2>3 DEF TypeInv
<1>9. ASSUME NEW c \in Consumers, ConsumerPostE(c) PROVE TypeInv'
  <2>1. Locks'
    BY <1>9, LocksKept DEF ConsumerPostE, Goto, InMutex
  <2>2. Places'
    BY <1>0, <1>9 DEF ConsumerPostE, Goto, ConsumerLabels, Idle, TypeInv, TypeOK, Places
  <2>3. TypeOK'
    BY <1>9 DEF TypeInv, TypeOK, ConsumerPostE, Goto, buffer, Places, Idle
  <2> QED BY <2>1, <2>2, <2>3 DEF TypeInv
<1>10. ASSUME NEW t \in Threads, Lock(t) PROVE TypeInv'
  <2> DEFINE to == IF t \in Producers THEN "write" ELSE "load"
  <2>1. /\ pc' = [pc EXCEPT ![t] = to] /\ pc[t] = "lock" /\ numOps' = numOps
        /\ mutex[MutexOf(t)] = 1 /\ mutex' = [mutex EXCEPT ![MutexOf(t)] = 0]
    <3>1. /\ pc' = [pc EXCEPT ![t] = to] /\ pc[t] = "lock" /\ numOps' = numOps
          /\ mutex[MutexOf(t)] > 0
          /\ mutex' = [mutex EXCEPT ![MutexOf(t)] = mutex[MutexOf(t)] - 1]
      BY <1>10 DEF Lock, Goto
    <3>2. mutex[MutexOf(t)] \in {0, 1}
      BY DEF TypeInv, TypeOK, MutexOf, Mutexes
    <3>3. mutex[MutexOf(t)] = 1
      BY <3>1, <3>2
    <3> QED BY <3>1, <3>3
  <2>2. Places'
    BY <2>1, PlacesKept DEF ProducerLabels, ConsumerLabels, Idle, TypeInv, Places
  <2>3. \A u \in Threads : pc[u] \in InMutex => MutexOf(u) # MutexOf(t)
    BY <2>1 DEF TypeInv, Locks
  <2>4. \A u \in Threads : pc'[u] \in InMutex => u = t \/ pc[u] \in InMutex
    BY <2>1, <1>0
  <2>5. MutualExclusion'
    BY <2>3, <2>4 DEF TypeInv, Locks, MutualExclusion, MutexOf
  <2>6. \A u \in Threads : pc'[u] \in InMutex => mutex'[MutexOf(u)] = 0
    BY <2>1, <2>3, <2>4 DEF TypeInv, TypeOK, Locks, MutexOf, Mutexes
  <2>7. TypeOK'
    BY <1>10, <2>1 DEF TypeInv, TypeOK, Lock, buffer, MutexOf, Mutexes
  <2> QED BY <2>2, <2>5, <2>6, <2>7 DEF TypeInv, Locks, MutexOf
<1>11. ASSUME NEW t \in Threads, Unlock(t) PROVE TypeInv'
  <2> DEFINE to == IF t \in Producers THEN "post_n" ELSE "post_e"
  <2>1. /\ pc' = [pc EXCEPT ![t] = to] /\ pc[t] = "unlock" /\ numOps' = numOps
    BY <1>11 DEF Unlock, Goto
  <2>2. Places'
    BY <2>1, PlacesKept DEF ProducerLabels, ConsumerLabels, Idle, TypeInv, Places
  <2>3. mutex[MutexOf(t)] = 0 /\ mutex' = [mutex EXCEPT ![MutexOf(t)] = 1]
    <3>1. mutex[MutexOf(t)] = 0
      BY <2>1 DEF TypeInv, Locks, InMutex
    <3>2. mutex' = [mutex EXCEPT ![MutexOf(t)] = mutex[MutexOf(t)] + 1]
      BY <1>11 DEF Unlock
    <3> QED BY <3>1, <3>2
  <2>4. \A u \in Threads : pc'[u] \in InMutex =>
                          pc[u] \in InMutex /\ MutexOf(u) # MutexOf(t)
    BY <2>1, <1>0 DEF TypeInv, Locks, MutualExclusion, InMutex
  <2>5. MutualExclusion'
    BY <2>4 DEF TypeInv, Locks, MutualExclusion, MutexOf
  <2>6. \A u \in Threads : pc'[u] \in InMutex => mutex'[MutexOf(u)] = 0
    BY <2>3, <2>4 DEF TypeInv, TypeOK, Locks, MutexOf, Mutexes
  <2>7. TypeOK'
    BY <1>11, <2>1, <2>3 DEF TypeInv, TypeOK, Unlock, buffer, MutexOf, Mutexes
  <2> QED BY <2>2, <2>5, <2>6, <2>7 DEF TypeInv, Locks, MutexOf
<1>12. ASSUME NEW t \in Threads, Exit(t) PROVE TypeInv'
  <2>1. Locks'
    BY <1>12, LocksKept DEF Exit, Goto, InMutex
  <2>2. Places'
    BY <1>12, PlacesKept DEF Exit, Goto, ProducerLabels, ConsumerLabels, Idle
  <2>3. TypeOK'
    BY <1>12 DEF TypeInv, TypeOK, Exit, Goto, buffer
  <2> QED BY <2>1, <2>2, <2>3 DEF TypeInv
<1>13. ASSUME NEW p \in Producers, CreateProducer(p) PROVE TypeInv'
  <2>1. Locks'
    BY <1>13, LocksKept DEF CreateProducer, Goto, InMutex
  <2>2. Places'
    BY <1>13, PlacesKept DEF CreateProducer, Goto, ProducerLabels, Idle
  <2>3. TypeOK'
    BY <1>13 DEF TypeInv, TypeOK, CreateProducer, Goto, buffer
  <2> QED BY <2>1, <2>2, <2>3 DEF TypeInv
<1>14. ASSUME NEW c \in Consumers, CreateConsumer(c) PROVE TypeInv'
  <2>1. Locks'
    BY <1>14, LocksKept DEF CreateConsumer, Goto, InMutex
  <2>2. Places'
    BY <1>14, PlacesKept DEF CreateConsumer, Goto, ConsumerLabels, Idle
  <2>3. TypeOK'
    BY <1>14 DEF TypeInv, TypeOK, CreateConsumer, Goto, buffer
  <2> QED BY <2>1, <2>2, <2>3 DEF TypeInv
<1>15. ASSUME EndCreate \/ JoinProducers \/ JoinConsumers \/ UNCHANGED vars
       PROVE TypeInv'
  BY <1>15 DEF EndCreate, JoinProducers, JoinConsumers, MainMoves, vars, buffer, TypeInv,
               TypeOK, Places, Locks, MutualExclusion, MutexOf
<1> QED
  BY <1>1, <1>2, <1>3, <1>4, <1>5, <1>6, <1>7, <1>8, <1>9, <1>10, <1>11, <1>12, <1>13,
     <1>14, <1>15
  DEF Next, ProducerStep, ConsumerStep, ThreadStep, MainStep, Terminating
-----------------------------------------------------------------------------
(* Slots *)

\* Initially every slot is free and the indexes are equal.
LEMMA SlotsInit == Init => TokenConservation /\ Indexes
<1> SUFFICES ASSUME Init PROVE TokenConservation /\ Indexes
  OBVIOUS
<1>1. /\ ProducersHolding = {} /\ ConsumersHolding = {}
      /\ Advanced = {} /\ Reading = {}
  BY DEF Init, At, ProducersHolding, ConsumersHolding, Advanced, Reading, Threads
<1>2. Cardinality({}) = 0
  BY FS_EmptySet
<1> QED BY <1>1, <1>2, SizesAssumption DEF Init, TokenConservation, Indexes, Distance

\* The counts are numbers, whatever the state.
LEMMA CountsType ==
  /\ Cardinality(ProducersHolding) \in Nat /\ Cardinality(ConsumersHolding) \in Nat
  /\ Cardinality(Advanced) \in Nat /\ Cardinality(Reading) \in Nat
<1>1. /\ IsFiniteSet(ProducersHolding) /\ IsFiniteSet(ConsumersHolding)
      /\ IsFiniteSet(Advanced) /\ IsFiniteSet(Reading)
  BY FS_Subset, ThreadsAssumption
  DEF At, ProducersHolding, ConsumersHolding, Advanced, Reading
<1> QED BY <1>1, FS_CardinalityType

\* How the counts change when a producer moves.
LEMMA ProducerMoves ==
  ASSUME TypeInv, NEW u \in Producers, NEW to, pc' = [pc EXCEPT ![u] = to]
  PROVE  /\ Cardinality(ProducersHolding)' = Cardinality(ProducersHolding) +
              Gain({"lock", "write", "advance", "unlock", "post_n"}, pc[u], to)
         /\ Cardinality(Advanced)' = Cardinality(Advanced) +
              Gain({"unlock", "post_n"}, pc[u], to)
         /\ UNCHANGED <<ConsumersHolding, Reading>>
<1>1. /\ pc'[u] = to
      /\ \A t \in Producers : t # u => pc'[t] = pc[t]
      /\ \A t \in Consumers : pc'[t] = pc[t]
  BY ThreadsAssumption DEF TypeInv, TypeOK, Threads
<1>2. UNCHANGED <<ConsumersHolding, Reading>>
  BY <1>1 DEF At, ConsumersHolding, Reading
<1>3. ASSUME NEW L
      PROVE  Cardinality(Where(Producers, pc', L)) =
             Cardinality(Where(Producers, pc, L)) + Gain(L, pc[u], pc'[u])
  <2> DEFINE f == pc
             g == pc'
  <2>1. IsFiniteSet(Producers) /\ \A t \in Producers : t # u => g[t] = f[t]
    BY <1>1, ThreadsAssumption
  <2> HIDE DEF f, g
  <2>2. Cardinality(Where(Producers, g, L)) = Cardinality(Where(Producers, f, L)) +
          Gain(L, f[u], g[u])
    BY <2>1, CountMove
  <2> QED BY <2>2 DEF f, g
<1>4. \A L : At(Producers, L) = Where(Producers, pc, L)
        /\ At(Producers, L)' = Where(Producers, pc', L)
  BY DEF At, Where
<1> QED BY <1>1, <1>2, <1>3, <1>4 DEF ProducersHolding, Advanced

\* How the counts change when a consumer moves.
LEMMA ConsumerMoves ==
  ASSUME TypeInv, NEW u \in Consumers, NEW to, pc' = [pc EXCEPT ![u] = to]
  PROVE  /\ Cardinality(ConsumersHolding)' = Cardinality(ConsumersHolding) +
              Gain({"lock", "load", "store", "advance", "unlock", "post_e"}, pc[u], to)
         /\ Cardinality(Reading)' = Cardinality(Reading) +
              Gain({"lock", "load", "store", "advance"}, pc[u], to)
         /\ UNCHANGED <<ProducersHolding, Advanced>>
<1>1. /\ pc'[u] = to
      /\ \A t \in Consumers : t # u => pc'[t] = pc[t]
      /\ \A t \in Producers : pc'[t] = pc[t]
  BY ThreadsAssumption DEF TypeInv, TypeOK, Threads
<1>2. UNCHANGED <<ProducersHolding, Advanced>>
  BY <1>1 DEF At, ProducersHolding, Advanced
<1>3. ASSUME NEW L
      PROVE  Cardinality(Where(Consumers, pc', L)) =
             Cardinality(Where(Consumers, pc, L)) + Gain(L, pc[u], pc'[u])
  <2> DEFINE f == pc
             g == pc'
  <2>1. IsFiniteSet(Consumers) /\ \A t \in Consumers : t # u => g[t] = f[t]
    BY <1>1, ThreadsAssumption
  <2> HIDE DEF f, g
  <2>2. Cardinality(Where(Consumers, g, L)) = Cardinality(Where(Consumers, f, L)) +
          Gain(L, f[u], g[u])
    BY <2>1, CountMove
  <2> QED BY <2>2 DEF f, g
<1>4. \A L : At(Consumers, L) = Where(Consumers, pc, L)
        /\ At(Consumers, L)' = Where(Consumers, pc', L)
  BY DEF At, Where
<1> QED BY <1>1, <1>2, <1>3, <1>4 DEF ConsumersHolding, Reading

\* Every step keeps the accounting of slots and the distance of the indexes.
LEMMA SlotsNext == Inv /\ [Next]_vars => TokenConservation' /\ Indexes'
<1> SUFFICES ASSUME Inv, [Next]_vars PROVE TokenConservation' /\ Indexes'
  OBVIOUS
<1> DEFINE PH == Cardinality(ProducersHolding)
           CH == Cardinality(ConsumersHolding)
           AD == Cardinality(Advanced)
           RD == Cardinality(Reading)
<1>0. /\ PH \in Nat /\ CH \in Nat /\ AD \in Nat /\ RD \in Nat /\ e \in Nat /\ n \in Nat
      /\ BUFFER_SIZE \in Nat /\ AD <= PH /\ RD <= CH
      /\ write_index \in Slots /\ read_index \in Slots
  <2>1. /\ e \in Nat /\ n \in Nat /\ BUFFER_SIZE \in Nat
        /\ write_index \in Slots /\ read_index \in Slots
    BY SizesAssumption DEF Inv, TypeInv, TypeOK
  <2>2. Advanced \subseteq ProducersHolding /\ Reading \subseteq ConsumersHolding
    BY DEF Advanced, Reading, ProducersHolding, ConsumersHolding, At
  <2>3. IsFiniteSet(ProducersHolding) /\ IsFiniteSet(ConsumersHolding)
    BY FS_Subset, ThreadsAssumption DEF ProducersHolding, ConsumersHolding, At
  <2>4. AD <= PH /\ RD <= CH
    BY <2>2, <2>3, FS_Subset
  <2> QED BY <2>1, <2>4, CountsType
<1>t. e + n + PH + CH = BUFFER_SIZE
  BY DEF Inv, TokenConservation
<1>d. Distance = n + AD + RD /\ Distance' = n' + AD' + RD'
  BY DEF Distance
<1>s. ASSUME e' + n' + PH' + CH' = BUFFER_SIZE, Distance' = Distance,
             UNCHANGED <<write_index, read_index>>
      PROVE  TokenConservation' /\ Indexes'
  BY <1>s DEF Inv, TokenConservation, Indexes
<1>1. ASSUME NEW p \in Producers, ProducerWaitE(p) PROVE TokenConservation' /\ Indexes'
  <2>1. /\ pc[p] = "wait_e" /\ pc' = [pc EXCEPT ![p] = "lock"]
        /\ e' = e - 1 /\ n' = n
        /\ UNCHANGED <<write_index, read_index>>
    BY <1>1 DEF ProducerWaitE, Goto, buffer
  <2>2. PH' = PH + 1 /\ AD' = AD /\ UNCHANGED <<CH, RD>>
    <3>1. /\ PH' = PH + Gain({"lock", "write", "advance", "unlock", "post_n"}, pc[p], "lock")
          /\ AD' = AD + Gain({"unlock", "post_n"}, pc[p], "lock")
          /\ UNCHANGED <<CH, RD>>
      BY <2>1, ProducerMoves DEF Inv
    <3> QED BY <2>1, <3>1, <1>0 DEF Gain
  <2>3. e' + n' + PH' + CH' = BUFFER_SIZE /\ Distance' = Distance
    BY <2>1, <2>2, <1>0, <1>t, <1>d
  <2> QED BY <2>1, <2>3, <1>s
<1>2. ASSUME NEW p \in Producers, ProducerWrite(p) PROVE TokenConservation' /\ Indexes'
  <2>1. /\ pc[p] = "write" /\ pc' = [pc EXCEPT ![p] = "advance"]
        /\ e' = e /\ n' = n
        /\ UNCHANGED <<write_index, read_index>>
    BY <1>2 DEF ProducerWrite, Goto, buffer
  <2>2. PH' = PH /\ AD' = AD /\ UNCHANGED <<CH, RD>>
    <3>1. /\ PH' = PH + Gain({"lock", "write", "advance", "unlock", "post_n"}, pc[p], "advance")
          /\ AD' = AD + Gain({"unlock", "post_n"}, pc[p], "advance")
          /\ UNCHANGED <<CH, RD>>
      BY <2>1, ProducerMoves DEF Inv
    <3> QED BY <2>1, <3>1, <1>0 DEF Gain
  <2>3. e' + n' + PH' + CH' = BUFFER_SIZE /\ Distance' = Distance
    BY <2>1, <2>2, <1>0, <1>t, <1>d
  <2> QED BY <2>1, <2>3, <1>s
<1>3. ASSUME NEW p \in Producers, ProducerAdvance(p) PROVE TokenConservation' /\ Indexes'
  <2>1. /\ pc[p] = "advance" /\ pc' = [pc EXCEPT ![p] = "unlock"]
        /\ e' = e /\ n' = n
        /\ write_index' = (write_index + 1) % BUFFER_SIZE /\ read_index' = read_index
    BY <1>3 DEF ProducerAdvance, Goto, buffer
  <2>2. PH' = PH /\ AD' = AD + 1 /\ UNCHANGED <<CH, RD>>
    <3>1. /\ PH' = PH + Gain({"lock", "write", "advance", "unlock", "post_n"}, pc[p], "unlock")
          /\ AD' = AD + Gain({"unlock", "post_n"}, pc[p], "unlock")
          /\ UNCHANGED <<CH, RD>>
      BY <2>1, ProducerMoves DEF Inv
    <3> QED BY <2>1, <3>1, <1>0 DEF Gain
  <2>3. p \in ProducersHolding \ Advanced
    BY <2>1 DEF ProducersHolding, Advanced, At
  <2>4. AD < PH
    <3>1. Advanced \subseteq ProducersHolding /\ IsFiniteSet(ProducersHolding)
      BY FS_Subset, ThreadsAssumption DEF ProducersHolding, Advanced, At
    <3> QED BY <3>1, <2>3, <1>0, FS_Subset
  <2>5. /\ Distance \in Nat /\ Distance < BUFFER_SIZE /\ Distance' = Distance + 1
        /\ e' + n' + PH' + CH' = BUFFER_SIZE
    BY <2>1, <2>2, <2>4, <1>0, <1>t, <1>d
  <2>6. Indexes'
    <3>1. write_index = read_index + Distance \/ write_index = read_index + Distance - BUFFER_SIZE
      BY DEF Inv, Indexes
    <3>2. \/ write_index' = read_index + Distance + 1
          \/ write_index' = read_index + Distance + 1 - BUFFER_SIZE
      BY <2>1, <2>5, <3>1, <1>0, WriteIndexMoves
    <3>3. read_index \in Int
      BY <1>0 DEF Slots
    <3> QED BY <2>1, <2>5, <3>2, <3>3, <1>0 DEF Indexes
  <2> QED BY <2>5, <2>6 DEF TokenConservation
<1>4. ASSUME NEW p \in Producers, ProducerPostN(p) PROVE TokenConservation' /\ Indexes'
  <2>1. /\ pc[p] = "post_n" /\ pc' = [pc EXCEPT ![p] = "wait_e"]
        /\ e' = e /\ n' = n + 1
        /\ UNCHANGED <<write_index, read_index>>
    BY <1>4 DEF ProducerPostN, Goto, buffer
  <2>2. PH' = PH - 1 /\ AD' = AD - 1 /\ UNCHANGED <<CH, RD>>
    <3>1. /\ PH' = PH + Gain({"lock", "write", "advance", "unlock", "post_n"}, pc[p], "wait_e")
          /\ AD' = AD + Gain({"unlock", "post_n"}, pc[p], "wait_e")
          /\ UNCHANGED <<CH, RD>>
      BY <2>1, ProducerMoves DEF Inv
    <3> QED BY <2>1, <3>1, <1>0 DEF Gain
  <2>3. e' + n' + PH' + CH' = BUFFER_SIZE /\ Distance' = Distance
    BY <2>1, <2>2, <1>0, <1>t, <1>d
  <2> QED BY <2>1, <2>3, <1>s
<1>5. ASSUME NEW c \in Consumers, ConsumerWaitN(c) PROVE TokenConservation' /\ Indexes'
  <2>1. /\ pc[c] = "wait_n" /\ pc' = [pc EXCEPT ![c] = "lock"]
        /\ e' = e /\ n' = n - 1
        /\ UNCHANGED <<write_index, read_index>>
    BY <1>5 DEF ConsumerWaitN, Goto, buffer
  <2>2. CH' = CH + 1 /\ RD' = RD + 1 /\ UNCHANGED <<PH, AD>>
    <3>1. /\ CH' = CH +
               Gain({"lock", "load", "store", "advance", "unlock", "post_e"}, pc[c], "lock")
          /\ RD' = RD + Gain({"lock", "load", "store", "advance"}, pc[c], "lock")
          /\ UNCHANGED <<PH, AD>>
      BY <2>1, ConsumerMoves DEF Inv
    <3> QED BY <2>1, <3>1, <1>0 DEF Gain
  <2>3. e' + n' + PH' + CH' = BUFFER_SIZE /\ Distance' = Distance
    BY <2>1, <2>2, <1>0, <1>t, <1>d
  <2> QED BY <2>1, <2>3, <1>s
<1>6. ASSUME NEW c \in Consumers, ConsumerLoad(c) PROVE TokenConservation' /\ Indexes'
  <2>1. /\ pc[c] = "load" /\ pc' = [pc EXCEPT ![c] = "store"]
        /\ e' = e /\ n' = n
        /\ UNCHANGED <<write_index, read_index>>
    BY <1>6 DEF ConsumerLoad, Goto, buffer
  <2>2. CH' = CH /\ RD' = RD /\ UNCHANGED <<PH, AD>>
    <3>1. /\ CH' = CH +
               Gain({"lock", "load", "store", "advance", "unlock", "post_e"}, pc[c], "store")
          /\ RD' = RD + Gain({"lock", "load", "store", "advance"}, pc[c], "store")
          /\ UNCHANGED <<PH, AD>>
      BY <2>1, ConsumerMoves DEF Inv
    <3> QED BY <2>1, <3>1, <1>0 DEF Gain
  <2>3. e' + n' + PH' + CH' = BUFFER_SIZE /\ Distance' = Distance
    BY <2>1, <2>2, <1>0, <1>t, <1>d
  <2> QED BY <2>1, <2>3, <1>s
<1>7. ASSUME NEW c \in Consumers, ConsumerStore(c) PROVE TokenConservation' /\ Indexes'
  <2>1. /\ pc[c] = "store" /\ pc' = [pc EXCEPT ![c] = "advance"]
        /\ e' = e /\ n' = n
        /\ UNCHANGED <<write_index, read_index>>
    BY <1>7 DEF ConsumerStore, Goto, buffer
  <2>2. CH' = CH /\ RD' = RD /\ UNCHANGED <<PH, AD>>
    <3>1. /\ CH' = CH +
               Gain({"lock", "load", "store", "advance", "unlock", "post_e"}, pc[c], "advance")
          /\ RD' = RD + Gain({"lock", "load", "store", "advance"}, pc[c], "advance")
          /\ UNCHANGED <<PH, AD>>
      BY <2>1, ConsumerMoves DEF Inv
    <3> QED BY <2>1, <3>1, <1>0 DEF Gain
  <2>3. e' + n' + PH' + CH' = BUFFER_SIZE /\ Distance' = Distance
    BY <2>1, <2>2, <1>0, <1>t, <1>d
  <2> QED BY <2>1, <2>3, <1>s
<1>8. ASSUME NEW c \in Consumers, ConsumerAdvance(c) PROVE TokenConservation' /\ Indexes'
  <2>1. /\ pc[c] = "advance" /\ pc' = [pc EXCEPT ![c] = "unlock"]
        /\ e' = e /\ n' = n
        /\ read_index' = (read_index + 1) % BUFFER_SIZE /\ write_index' = write_index
    BY <1>8 DEF ConsumerAdvance, Goto, buffer
  <2>2. CH' = CH /\ RD' = RD - 1 /\ UNCHANGED <<PH, AD>>
    <3>1. /\ CH' = CH +
               Gain({"lock", "load", "store", "advance", "unlock", "post_e"}, pc[c], "unlock")
          /\ RD' = RD + Gain({"lock", "load", "store", "advance"}, pc[c], "unlock")
          /\ UNCHANGED <<PH, AD>>
      BY <2>1, ConsumerMoves DEF Inv
    <3> QED BY <2>1, <3>1, <1>0 DEF Gain
  <2>3. c \in Reading
    BY <2>1 DEF Reading, At
  <2>4. RD > 0
    <3>1. IsFiniteSet(Reading)
      BY FS_Subset, ThreadsAssumption DEF Reading, At
    <3> QED BY <3>1, <2>3, <1>0, FS_EmptySet
  <2>5. /\ Distance \in Nat /\ Distance > 0 /\ Distance <= BUFFER_SIZE
        /\ Distance' = Distance - 1 /\ e' + n' + PH' + CH' = BUFFER_SIZE
    BY <2>1, <2>2, <2>4, <1>0, <1>t, <1>d
  <2>6. Indexes'
    BY <2>1, <2>5, <1>0, ReadIndexMoves DEF Inv, Indexes
  <2> QED BY <2>5, <2>6 DEF TokenConservation
<1>9. ASSUME NEW c \in Consumers, ConsumerPostE(c) PROVE TokenConservation' /\ Indexes'
  <2>1. /\ pc[c] = "post_e" /\ pc' = [pc EXCEPT ![c] = "wait_n"]
        /\ e' = e + 1 /\ n' = n
        /\ UNCHANGED <<write_index, read_index>>
    BY <1>9 DEF ConsumerPostE, Goto, buffer
  <2>2. CH' = CH - 1 /\ RD' = RD /\ UNCHANGED <<PH, AD>>
    <3>1. /\ CH' = CH +
               Gain({"lock", "load", "store", "advance", "unlock", "post_e"}, pc[c], "wait_n")
          /\ RD' = RD + Gain({"lock", "load", "store", "advance"}, pc[c], "wait_n")
          /\ UNCHANGED <<PH, AD>>
      BY <2>1, ConsumerMoves DEF Inv
    <3> QED BY <2>1, <3>1, <1>0 DEF Gain
  <2>3. e' + n' + PH' + CH' = BUFFER_SIZE /\ Distance' = Distance
    BY <2>1, <2>2, <1>0, <1>t, <1>d
  <2> QED BY <2>1, <2>3, <1>s
<1>10. ASSUME NEW p \in Producers, CreateProducer(p) PROVE TokenConservation' /\ Indexes'
  <2>1. /\ pc[p] = "unborn" /\ pc' = [pc EXCEPT ![p] = "wait_e"]
        /\ e' = e /\ n' = n
        /\ UNCHANGED <<write_index, read_index>>
    BY <1>10 DEF CreateProducer, Goto, buffer
  <2>2. PH' = PH /\ AD' = AD /\ UNCHANGED <<CH, RD>>
    <3>1. /\ PH' = PH + Gain({"lock", "write", "advance", "unlock", "post_n"}, pc[p], "wait_e")
          /\ AD' = AD + Gain({"unlock", "post_n"}, pc[p], "wait_e")
          /\ UNCHANGED <<CH, RD>>
      BY <2>1, ProducerMoves DEF Inv
    <3> QED BY <2>1, <3>1, <1>0 DEF Gain
  <2>3. e' + n' + PH' + CH' = BUFFER_SIZE /\ Distance' = Distance
    BY <2>1, <2>2, <1>0, <1>t, <1>d
  <2> QED BY <2>1, <2>3, <1>s
<1>11. ASSUME NEW c \in Consumers, CreateConsumer(c) PROVE TokenConservation' /\ Indexes'
  <2>1. /\ pc[c] = "unborn" /\ pc' = [pc EXCEPT ![c] = "wait_n"]
        /\ e' = e /\ n' = n
        /\ UNCHANGED <<write_index, read_index>>
    BY <1>11 DEF CreateConsumer, Goto, buffer
  <2>2. CH' = CH /\ RD' = RD /\ UNCHANGED <<PH, AD>>
    <3>1. /\ CH' = CH +
               Gain({"lock", "load", "store", "advance", "unlock", "post_e"}, pc[c], "wait_n")
          /\ RD' = RD + Gain({"lock", "load", "store", "advance"}, pc[c], "wait_n")
          /\ UNCHANGED <<PH, AD>>
      BY <2>1, ConsumerMoves DEF Inv
    <3> QED BY <2>1, <3>1, <1>0 DEF Gain
  <2>3. e' + n' + PH' + CH' = BUFFER_SIZE /\ Distance' = Distance
    BY <2>1, <2>2, <1>0, <1>t, <1>d
  <2> QED BY <2>1, <2>3, <1>s
<1>12. ASSUME NEW t \in Threads, Lock(t) PROVE TokenConservation' /\ Indexes'
  <2>1. UNCHANGED <<e, n, write_index, read_index>>
    BY <1>12 DEF Lock, buffer
  <2>2. UNCHANGED <<PH, CH, AD, RD>>
    <3>1. CASE t \in Producers
      <4>1. pc[t] = "lock" /\ pc' = [pc EXCEPT ![t] = "write"]
        BY <1>12, <3>1 DEF Lock, Goto
      <4>2. /\ PH' = PH + Gain({"lock", "write", "advance", "unlock", "post_n"}, pc[t], "write")
            /\ AD' = AD + Gain({"unlock", "post_n"}, pc[t], "write")
            /\ UNCHANGED <<CH, RD>>
        BY <3>1, <4>1, ProducerMoves DEF Inv
      <4> QED BY <4>1, <4>2, <1>0 DEF Gain
    <3>2. CASE t \notin Producers
      <4>1. pc[t] = "lock" /\ pc' = [pc EXCEPT ![t] = "load"] /\ t \in Consumers
        BY <1>12, <3>2 DEF Lock, Goto, Threads
      <4>2. /\ CH' = CH +
                 Gain({"lock", "load", "store", "advance", "unlock", "post_e"}, pc[t], "load")
            /\ RD' = RD + Gain({"lock", "load", "store", "advance"}, pc[t], "load")
            /\ UNCHANGED <<PH, AD>>
        BY <4>1, ConsumerMoves DEF Inv
      <4> QED BY <4>1, <4>2, <1>0 DEF Gain
    <3> QED BY <3>1, <3>2
  <2> QED BY <2>1, <2>2, <1>s, <1>t, <1>d
<1>13. ASSUME NEW t \in Threads, Unlock(t) PROVE TokenConservation' /\ Indexes'
  <2>1. UNCHANGED <<e, n, write_index, read_index>>
    BY <1>13 DEF Unlock, buffer
  <2>2. UNCHANGED <<PH, CH, AD, RD>>
    <3>1. CASE t \in Producers
      <4>1. pc[t] = "unlock" /\ pc' = [pc EXCEPT ![t] = "post_n"]
        BY <1>13, <3>1 DEF Unlock, Goto
      <4>2. /\ PH' = PH + Gain({"lock", "write", "advance", "unlock", "post_n"}, pc[t], "post_n")
            /\ AD' = AD + Gain({"unlock", "post_n"}, pc[t], "post_n")
            /\ UNCHANGED <<CH, RD>>
        BY <3>1, <4>1, ProducerMoves DEF Inv
      <4> QED BY <4>1, <4>2, <1>0 DEF Gain
    <3>2. CASE t \notin Producers
      <4>1. pc[t] = "unlock" /\ pc' = [pc EXCEPT ![t] = "post_e"] /\ t \in Consumers
        BY <1>13, <3>2 DEF Unlock, Goto, Threads
      <4>2. /\ CH' = CH +
                 Gain({"lock", "load", "store", "advance", "unlock", "post_e"}, pc[t], "post_e")
            /\ RD' = RD + Gain({"lock", "load", "store", "advance"}, pc[t], "post_e")
            /\ UNCHANGED <<PH, AD>>
        BY <4>1, ConsumerMoves DEF Inv
      <4> QED BY <4>1, <4>2, <1>0 DEF Gain
    <3> QED BY <3>1, <3>2
  <2> QED BY <2>1, <2>2, <1>s, <1>t, <1>d
<1>14. ASSUME NEW t \in Threads, Exit(t) PROVE TokenConservation' /\ Indexes'
  <2>1. UNCHANGED <<e, n, write_index, read_index>>
    BY <1>14 DEF Exit, buffer
  <2>2. UNCHANGED <<PH, CH, AD, RD>>
    <3>1. CASE t \in Producers
      <4>1. pc[t] = "wait_e" /\ pc' = [pc EXCEPT ![t] = "done"]
        BY <1>14, <3>1 DEF Exit, Goto
      <4>2. /\ PH' = PH + Gain({"lock", "write", "advance", "unlock", "post_n"}, pc[t], "done")
            /\ AD' = AD + Gain({"unlock", "post_n"}, pc[t], "done")
            /\ UNCHANGED <<CH, RD>>
        BY <3>1, <4>1, ProducerMoves DEF Inv
      <4> QED BY <4>1, <4>2, <1>0 DEF Gain
    <3>2. CASE t \notin Producers
      <4>1. pc[t] = "wait_n" /\ pc' = [pc EXCEPT ![t] = "done"] /\ t \in Consumers
        BY <1>14, <3>2 DEF Exit, Goto, Threads
      <4>2. /\ CH' = CH +
                 Gain({"lock", "load", "store", "advance", "unlock", "post_e"}, pc[t], "done")
            /\ RD' = RD + Gain({"lock", "load", "store", "advance"}, pc[t], "done")
            /\ UNCHANGED <<PH, AD>>
        BY <4>1, ConsumerMoves DEF Inv
      <4> QED BY <4>1, <4>2, <1>0 DEF Gain
    <3> QED BY <3>1, <3>2
  <2> QED BY <2>1, <2>2, <1>s, <1>t, <1>d
<1>15. ASSUME EndCreate \/ JoinProducers \/ JoinConsumers \/ UNCHANGED vars
       PROVE TokenConservation' /\ Indexes'
  <2>1. UNCHANGED <<e, n, write_index, read_index, pc>>
    BY <1>15 DEF EndCreate, JoinProducers, JoinConsumers, MainMoves, vars, buffer
  <2>2. UNCHANGED <<PH, CH, AD, RD>>
    BY <2>1 DEF At, ProducersHolding, ConsumersHolding, Advanced, Reading
  <2> QED BY <2>1, <2>2, <1>s, <1>t, <1>d
<1> QED
  BY <1>1, <1>2, <1>3, <1>4, <1>5, <1>6, <1>7, <1>8, <1>9, <1>10, <1>11, <1>12, <1>13, <1>14, <1>15
  DEF Next, ProducerStep, ConsumerStep, ThreadStep, MainStep, Terminating

\* A producer that writes and a consumer that has not moved read_index on yet
\* are at different slots.
LEMMA WriterElsewhere ==
  ASSUME Inv, NEW p \in Producers, NEW c \in Consumers,
         pc[p] = "write", pc[c] \in {"load", "store"}
  PROVE  write_index # read_index
<1>1. p \in ProducersHolding \ Advanced /\ c \in Reading
  BY DEF ProducersHolding, Advanced, Reading, At
<1>2. /\ IsFiniteSet(ProducersHolding) /\ IsFiniteSet(ConsumersHolding)
      /\ Advanced \subseteq ProducersHolding /\ Reading \subseteq ConsumersHolding
  BY FS_Subset, ThreadsAssumption
  DEF ProducersHolding, ConsumersHolding, Advanced, Reading, At
<1>3. /\ Cardinality(Advanced) < Cardinality(ProducersHolding)
      /\ Cardinality(Reading) <= Cardinality(ConsumersHolding)
  BY <1>1, <1>2, CountsType, FS_Subset
<1>4. Cardinality(Reading) > 0
  BY <1>1, <1>2, CountsType, FS_EmptySet, FS_Subset
<1>5. Distance > 0 /\ Distance < BUFFER_SIZE /\ Distance \in Nat
  BY <1>3, <1>4, CountsType DEF Inv, TypeInv, TypeOK, TokenConservation, Distance
<1>6. write_index \in Int /\ read_index \in Int /\ BUFFER_SIZE \in Nat
  BY SizesAssumption DEF Inv, TypeInv, TypeOK, Slots
<1> QED BY <1>5, <1>6 DEF Inv, Indexes

-----------------------------------------------------------------------------
(* The theorems *)

\* The four parts together are inductive.
LEMMA InductiveInvariant == Spec => []Inv
<1>1. Init => Inv
  BY TypeInit, SlotsInit DEF Inv
<1>2. Inv /\ [Next]_vars => Inv'
  BY TypeNext, SlotsNext DEF Inv
<1> QED BY <1>1, <1>2, PTL DEF Spec

(***************************************************************************)
(* The variables keep their types.  That a mutex never counts past 1 and   *)
(* that numOps never drops below 0 rest on the rest of the invariant.      *)
(***************************************************************************)
THEOREM Typing == Spec => []TypeOK
<1>1. Inv => TypeOK
  BY DEF Inv, TypeInv
<1> QED BY <1>1, InductiveInvariant, PTL

\* Two threads are never inside the same mutex, whether the program has one or two.
THEOREM MutualExclusionHolds == Spec => []MutualExclusion
<1>1. Inv => MutualExclusion
  BY DEF Inv, TypeInv, Locks
<1> QED BY <1>1, InductiveInvariant, PTL

\* Every slot of the buffer has exactly one owner at any time.
THEOREM SlotsConserved == Spec => []TokenConservation
<1>1. Inv => TokenConservation
  BY DEF Inv
<1> QED BY <1>1, InductiveInvariant, PTL

(***************************************************************************)
(* A producer that writes and a consumer that reads at the same time, each *)
(* inside a mutex of its own, are at different slots, for every size of    *)
(* the ring and any number of threads: the writer's slot is not among the  *)
(* Distance slots that start at read_index, and the reader's is the first  *)
(* of them.                                                                *)
(***************************************************************************)
THEOREM SlotsNeverRace == Spec => []NoSlotRace
<1>1. Inv => NoSlotRace
  BY WriterElsewhere DEF NoSlotRace
<1> QED BY <1>1, InductiveInvariant, PTL

-----------------------------------------------------------------------------
(* The buffer and the deposit *)

\* The transactions that have been put into the ring.
Produced == {x \in Items : \/ x[2] > numOps[x[1]]
                           \/ x[2] = numOps[x[1]] /\ x[1] \in Unannounced}

\* A transaction waits in the ring or is credited, not both, and never twice.
History ==
  /\ \A x \in Items : deposit[x] \in {0, 1} /\ (deposit[x] = 1 => x \in Produced)
  /\ \A i \in 1..QueueLength : /\ ringQueue[i] \in Items
                               /\ ringQueue[i] \in Produced
                               /\ deposit[ringQueue[i]] = 0
  /\ \A i, j \in 1..QueueLength : ringQueue[i] = ringQueue[j] => i = j

\* What a consumer is about to store is still the deposit and the oldest item.
Loads ==
  \A c \in Consumers : pc[c] = "store" =>
     loaded[c] = [y \in Items |-> deposit[y] + IF y = transactions[read_index] THEN 1 ELSE 0]

\* The operations of consumers that have credited a transaction, by the value
\* numOps had.
Credits == {a \in Consumers \X (1..OPS_PER_CONSUMER) :
              \/ a[2] > numOps[a[1]]
              \/ a[2] = numOps[a[1]] /\ a[1] \in At(Consumers, {"advance", "unlock", "post_e"})}

Delivered == {x \in Items : deposit[x] = 1}

Ends == /\ \A c \in Consumers : numOps[c] \in 0..OPS_PER_CONSUMER
        /\ \A t \in Threads : pc[t] = "done" => numOps[t] = 0
        /\ main \in {"join_consumers", "destroyed"} => \A p \in Producers : pc[p] = "done"
        /\ main = "destroyed" => \A c \in Consumers : pc[c] = "done"

BufferInv == /\ Inv /\ History /\ Loads /\ Ends
             /\ Cardinality(Delivered) = Cardinality(Credits)

-----------------------------------------------------------------------------
(* Lemmas on the ring *)

\* An index of the ring, at most twice around.
LEMMA RingIndex ==
  ASSUME NEW r \in 0..BUFFER_SIZE, NEW k \in 0..BUFFER_SIZE
  PROVE  /\ (r + k) % BUFFER_SIZE = IF r + k < BUFFER_SIZE THEN r + k
                                    ELSE IF r + k < 2 * BUFFER_SIZE THEN r + k - BUFFER_SIZE
                                    ELSE 0
         /\ (r + k) % BUFFER_SIZE \in Slots
<1>1. (r + k) % BUFFER_SIZE = IF r + k < BUFFER_SIZE THEN r + k
                              ELSE IF r + k < 2 * BUFFER_SIZE THEN r + k - BUFFER_SIZE
                              ELSE 0
  BY SizesAssumption
<1> QED BY <1>1, SizesAssumption DEF Slots

\* Places less than a turn apart are different.
LEMMA RingDiffers ==
  ASSUME NEW r \in 0..BUFFER_SIZE, NEW j \in 0..BUFFER_SIZE, NEW k \in 0..BUFFER_SIZE,
         j < k, k < BUFFER_SIZE
  PROVE  (r + j) % BUFFER_SIZE # (r + k) % BUFFER_SIZE
<1>1. (r + j) % BUFFER_SIZE = IF r + j < BUFFER_SIZE THEN r + j ELSE r + j - BUFFER_SIZE
  BY SizesAssumption
<1>2. (r + k) % BUFFER_SIZE = IF r + k < BUFFER_SIZE THEN r + k ELSE r + k - BUFFER_SIZE
  BY SizesAssumption
<1> QED BY <1>1, <1>2, SizesAssumption

\* A full turn leads back.
LEMMA RingTurn ==
  ASSUME NEW j \in 0..BUFFER_SIZE, j < BUFFER_SIZE
  PROVE  (0 + j) % BUFFER_SIZE = (BUFFER_SIZE + j) % BUFFER_SIZE
<1>1. (0 + j) % BUFFER_SIZE = j
  BY SizesAssumption
<1>2. (BUFFER_SIZE + j) % BUFFER_SIZE = j
  BY SizesAssumption
<1> QED BY <1>1, <1>2

\* Appending to a sequence, index by index.
LEMMA AppendByIndex ==
  ASSUME NEW S, NEW m \in Nat, NEW f \in [1..m -> S], NEW x \in S,
         NEW g \in [1..(m + 1) -> S], g[m + 1] = x, \A i \in 1..m : g[i] = f[i]
  PROVE  g = Append(f, x)
OBVIOUS

\* The same for the tail.
LEMMA TailByIndex ==
  ASSUME NEW S, NEW m \in Nat \ {0}, NEW f \in [1..m -> S],
         NEW g \in [1..(m - 1) -> S], \A i \in 1..(m - 1) : g[i] = f[i + 1]
  PROVE  f # << >> /\ Head(f) = f[1] /\ g = Tail(f)
OBVIOUS

\* Two ways to say that one more x has been counted.
LEMMA OneMore ==
  ASSUME NEW S, NEW f \in [S -> Nat], NEW x \in S
  PROVE  [y \in S |-> f[y] + IF y = x THEN 1 ELSE 0] = [f EXCEPT ![x] = @ + 1]
<1>1. \A y \in S : f[y] + (IF y = x THEN 1 ELSE 0) = IF y = x THEN f[x] + 1 ELSE f[y]
  OBVIOUS
<1> QED BY <1>1

\* How the number of threads of one kind at the labels L changes.
LEMMA AtMoves ==
  ASSUME TypeInv, NEW T \in {Producers, Consumers}, NEW L, NEW u \in T, NEW to,
         pc' = [pc EXCEPT ![u] = to]
  PROVE  /\ Cardinality(At(T, L))' = Cardinality(At(T, L)) + Gain(L, pc[u], to)
         /\ IsFiniteSet(At(T, L)) /\ Cardinality(At(T, L)) \in Nat
<1>1. IsFiniteSet(T) /\ T \subseteq Threads
  BY ThreadsAssumption DEF Threads
<1>2. /\ pc'[u] = to
      /\ \A t \in T : t # u => pc'[t] = pc[t]
  BY <1>1 DEF TypeInv, TypeOK
<1>3. Cardinality(Where(T, pc', L)) = Cardinality(Where(T, pc, L)) + Gain(L, pc[u], pc'[u])
  <2> DEFINE f == pc
             g == pc'
  <2>1. \A t \in T : t # u => g[t] = f[t]
    BY <1>2
  <2> HIDE DEF f, g
  <2>2. Cardinality(Where(T, g, L)) = Cardinality(Where(T, f, L)) + Gain(L, f[u], g[u])
    BY <1>1, <2>1, CountMove
  <2> QED BY <2>2 DEF f, g
<1>4. At(T, L) = Where(T, pc, L) /\ At(T, L)' = Where(T, pc', L)
  BY DEF At, Where
<1>5. IsFiniteSet(At(T, L)) /\ Cardinality(At(T, L)) \in Nat
  BY <1>1, FS_Subset, FS_CardinalityType DEF At
<1> QED BY <1>2, <1>3, <1>4, <1>5

\* How the parts of the queue's length and start change when a producer moves.
LEMMA ProducerMovesQueue ==
  ASSUME TypeInv, NEW u \in Producers, NEW to, pc' = [pc EXCEPT ![u] = to]
  PROVE  /\ Cardinality(Unannounced)' =
               Cardinality(Unannounced) + Gain({"advance", "unlock", "post_n"}, pc[u], to)
         /\ UNCHANGED <<Uncredited, At(Consumers, {"advance"})>>
<1>1. \A t \in Consumers : pc'[t] = pc[t]
  BY ThreadsAssumption DEF TypeInv, TypeOK, Threads
<1>2. UNCHANGED <<Uncredited, At(Consumers, {"advance"})>>
  BY <1>1 DEF Uncredited, At
<1>3. Producers \in {Producers, Consumers}
  OBVIOUS
<1>4. Cardinality(At(Producers, {"advance", "unlock", "post_n"}))' =
        Cardinality(At(Producers, {"advance", "unlock", "post_n"}))
          + Gain({"advance", "unlock", "post_n"}, pc[u], to)
  BY <1>3, AtMoves
<1> QED BY <1>2, <1>4 DEF Unannounced

\* The same when a consumer moves.
LEMMA ConsumerMovesQueue ==
  ASSUME TypeInv, NEW u \in Consumers, NEW to, pc' = [pc EXCEPT ![u] = to]
  PROVE  /\ Cardinality(Uncredited)' =
               Cardinality(Uncredited) + Gain({"lock", "load", "store"}, pc[u], to)
         /\ Cardinality(At(Consumers, {"advance"}))' =
               Cardinality(At(Consumers, {"advance"})) + Gain({"advance"}, pc[u], to)
         /\ UNCHANGED Unannounced
<1>1. \A t \in Producers : pc'[t] = pc[t]
  BY ThreadsAssumption DEF TypeInv, TypeOK, Threads
<1>2. UNCHANGED Unannounced
  BY <1>1 DEF Unannounced, At
<1>3. Consumers \in {Producers, Consumers}
  OBVIOUS
<1>4. Cardinality(At(Consumers, {"lock", "load", "store"}))' =
        Cardinality(At(Consumers, {"lock", "load", "store"}))
          + Gain({"lock", "load", "store"}, pc[u], to)
  BY <1>3, AtMoves
<1>5. Cardinality(At(Consumers, {"advance"}))' =
        Cardinality(At(Consumers, {"advance"})) + Gain({"advance"}, pc[u], to)
  BY <1>3, AtMoves
<1> QED BY <1>2, <1>4, <1>5 DEF Uncredited

\* A thread inside its mutex is the only one of its kind there.
LEMMA AloneInMutex ==
  ASSUME Inv, NEW T \in {Producers, Consumers}, NEW u \in T, pc[u] \in InMutex,
         NEW L, L \subseteq InMutex
  PROVE  Cardinality(At(T, L)) = IF pc[u] \in L THEN 1 ELSE 0
<1>1. \A t \in T : pc[t] \in InMutex => t = u
  BY ThreadsAssumption DEF Inv, TypeInv, Locks, MutualExclusion, MutexOf, Threads
<1>2. At(T, L) = IF pc[u] \in L THEN {u} ELSE {}
  BY <1>1 DEF At
<1> QED BY <1>2, FS_EmptySet, FS_Singleton

\* The numbers the queue is made of.
LEMMA QueueNumbers ==
  ASSUME Inv
  PROVE  /\ Cardinality(Unannounced) \in Nat /\ Cardinality(Uncredited) \in Nat
         /\ Cardinality(At(Consumers, {"advance"})) \in {0, 1}
         /\ Cardinality(Unannounced) <= Cardinality(ProducersHolding)
         /\ Cardinality(Uncredited) <= Cardinality(ConsumersHolding)
         /\ n \in Nat /\ e \in Nat /\ read_index \in Slots /\ write_index \in Slots
         /\ QueueLength \in 0..BUFFER_SIZE /\ QueueStart \in 0..BUFFER_SIZE
<1>1. /\ IsFiniteSet(ProducersHolding) /\ IsFiniteSet(ConsumersHolding)
      /\ Unannounced \subseteq ProducersHolding /\ Uncredited \subseteq ConsumersHolding
  BY FS_Subset, ThreadsAssumption
  DEF ProducersHolding, ConsumersHolding, Unannounced, Uncredited, At
<1>2. /\ Cardinality(Unannounced) \in Nat /\ Cardinality(Uncredited) \in Nat
      /\ Cardinality(ProducersHolding) \in Nat /\ Cardinality(ConsumersHolding) \in Nat
      /\ Cardinality(Unannounced) <= Cardinality(ProducersHolding)
      /\ Cardinality(Uncredited) <= Cardinality(ConsumersHolding)
  BY <1>1, FS_Subset, FS_CardinalityType
<1>3. Cardinality(At(Consumers, {"advance"})) \in {0, 1}
  <2>1. CASE \E c \in Consumers : pc[c] = "advance"
    <3>1. PICK c \in Consumers : pc[c] = "advance"
      BY <2>1
    <3> QED BY <3>1, AloneInMutex DEF InMutex
  <2>2. CASE ~ \E c \in Consumers : pc[c] = "advance"
    <3>1. At(Consumers, {"advance"}) = {}
      BY <2>2 DEF At
    <3> QED BY <3>1, FS_EmptySet
  <2> QED BY <2>1, <2>2
<1>4. n \in Nat /\ e \in Nat /\ read_index \in Slots /\ write_index \in Slots
  BY DEF Inv, TypeInv, TypeOK
<1>5. e + n + Cardinality(ProducersHolding) + Cardinality(ConsumersHolding) = BUFFER_SIZE
  BY DEF Inv, TokenConservation
<1>6. QueueLength \in 0..BUFFER_SIZE
  BY <1>2, <1>4, <1>5, SizesAssumption DEF QueueLength
<1>7. QueueStart \in 0..BUFFER_SIZE
  BY <1>3, <1>4, SizesAssumption DEF QueueStart, Slots
<1> QED BY <1>2, <1>3, <1>4, <1>6, <1>7

\* What stands at the place i of the queue.
LEMMA QueueItems ==
  ASSUME Inv
  PROVE  /\ ringQueue \in [1..QueueLength -> Items \cup {NoItem}]
         /\ \A i \in 1..QueueLength :
               /\ (QueueStart + i - 1) % BUFFER_SIZE \in Slots
               /\ ringQueue[i] = transactions[(QueueStart + i - 1) % BUFFER_SIZE]
<1>1. ASSUME NEW i \in 1..QueueLength
      PROVE  (QueueStart + i - 1) % BUFFER_SIZE \in Slots
  <2>1. i - 1 \in 0..BUFFER_SIZE /\ QueueStart + i - 1 = QueueStart + (i - 1)
    BY QueueNumbers, SizesAssumption
  <2> QED BY <2>1, QueueNumbers, RingIndex
<1> QED BY <1>1 DEF ringQueue, Inv, TypeInv, TypeOK

\* A producer that writes puts its item behind the last one: the slot at
\* write_index is the first after the queue, and none of the queue's.
LEMMA WritePuts ==
  ASSUME Inv, NEW p \in Producers, ProducerWrite(p)
  PROVE  /\ QueueLength < BUFFER_SIZE /\ QueueLength' = QueueLength + 1
         /\ ringQueue' = Append(ringQueue, Current(p))
         /\ Current(p) \in Items
<1> DEFINE UN == Cardinality(Unannounced)
           UC == Cardinality(Uncredited)
           AC == Cardinality(At(Consumers, {"advance"}))
<1> USE SizesAssumption
<1>1. /\ pc[p] = "write" /\ pc' = [pc EXCEPT ![p] = "advance"]
      /\ transactions' = [transactions EXCEPT ![write_index] = Current(p)]
      /\ UNCHANGED <<n, read_index, write_index>>
  BY DEF ProducerWrite, Goto
<1>2. /\ Current(p) \in Items
      /\ transactions \in [Slots -> Items \cup {NoItem}]
  BY <1>1 DEF Inv, TypeInv, TypeOK, Places, Idle, Current, Items, Threads
<1>3. UN' = UN + 1 /\ UC' = UC /\ AC' = AC
  <2>1. /\ UN' = UN + Gain({"advance", "unlock", "post_n"}, pc[p], "advance")
        /\ UNCHANGED <<Uncredited, At(Consumers, {"advance"})>>
    BY <1>1, ProducerMovesQueue DEF Inv
  <2> QED BY <2>1, <1>1, QueueNumbers DEF Gain
<1>4. QueueLength' = QueueLength + 1 /\ QueueStart' = QueueStart
  BY <1>1, <1>3, QueueNumbers DEF QueueLength, QueueStart
<1>5. QueueLength < BUFFER_SIZE
  <2>1. /\ IsFiniteSet(ProducersHolding) /\ Unannounced \subseteq ProducersHolding
        /\ p \in ProducersHolding \ Unannounced
    BY <1>1, FS_Subset, ThreadsAssumption DEF ProducersHolding, Unannounced, At
  <2>2. UN < Cardinality(ProducersHolding)
    BY <2>1, QueueNumbers, CountsType, FS_Subset
  <2> QED BY <2>2, QueueNumbers, CountsType DEF Inv, TokenConservation, QueueLength
<1>6. write_index = (QueueStart + QueueLength) % BUFFER_SIZE
  <2>1. UN = Cardinality(Advanced)
    <3>1. Cardinality(At(Producers, {"advance"})) = 0
      BY <1>1, AloneInMutex DEF InMutex
    <3>2. IsFiniteSet(At(Producers, {"advance"}))
      BY FS_Subset, ThreadsAssumption DEF At
    <3>3. At(Producers, {"advance"}) = {}
      BY <3>1, <3>2, FS_EmptySet
    <3>4. Unannounced = Advanced
      BY <3>3 DEF At, Unannounced, Advanced
    <3> QED BY <3>4
  <2>2. Cardinality(Reading) = UC + AC
    <3>1. IsFiniteSet(Uncredited) /\ IsFiniteSet(At(Consumers, {"advance"}))
      BY FS_Subset, ThreadsAssumption DEF At, Uncredited
    <3>2. Reading = Uncredited \cup At(Consumers, {"advance"})
          /\ Uncredited \cap At(Consumers, {"advance"}) = {}
      BY DEF Reading, Uncredited, At
    <3>3. Cardinality(Reading) = UC + AC - Cardinality({})
      BY <3>1, <3>2, FS_Union
    <3> QED BY <3>3, FS_EmptySet, QueueNumbers
  <2>3. QueueStart + QueueLength = read_index + Distance
    BY <2>1, <2>2, QueueNumbers DEF QueueStart, QueueLength, Distance, Slots
  <2>4. \/ write_index = QueueStart + QueueLength
        \/ write_index = QueueStart + QueueLength - BUFFER_SIZE
    <3>1. \/ write_index = read_index + Distance
          \/ write_index = read_index + Distance - BUFFER_SIZE
      BY DEF Inv, Indexes
    <3>2. /\ Distance \in Int /\ QueueStart \in Int /\ QueueLength \in Int
          /\ read_index \in Int /\ write_index \in Int
      BY QueueNumbers, CountsType DEF Distance, Slots
    <3> QED BY <2>3, <3>1, <3>2
  <2>5. QueueLength < BUFFER_SIZE
    BY <1>5
  <2>6. write_index = IF QueueStart + QueueLength < BUFFER_SIZE
                      THEN QueueStart + QueueLength
                      ELSE QueueStart + QueueLength - BUFFER_SIZE
    BY <2>4, <2>5, QueueNumbers DEF Slots
  <2>7. QueueStart \in 0..BUFFER_SIZE /\ QueueLength \in 0..BUFFER_SIZE
    BY QueueNumbers
  <2>8. QueueStart + QueueLength < 2 * BUFFER_SIZE
    BY <2>5, <2>7
  <2>9. (QueueStart + QueueLength) % BUFFER_SIZE =
          IF QueueStart + QueueLength < BUFFER_SIZE THEN QueueStart + QueueLength
          ELSE IF QueueStart + QueueLength < 2 * BUFFER_SIZE
          THEN QueueStart + QueueLength - BUFFER_SIZE ELSE 0
    BY <2>7, RingIndex
  <2> QED BY <2>6, <2>8, <2>9
<1>7. ASSUME NEW i \in 1..QueueLength
      PROVE  (QueueStart + i - 1) % BUFFER_SIZE # write_index
  <2>1. i - 1 \in 0..BUFFER_SIZE /\ QueueStart + i - 1 = QueueStart + (i - 1)
    BY QueueNumbers
  <2>2. i - 1 < QueueLength /\ QueueLength \in 0..BUFFER_SIZE /\ QueueStart \in 0..BUFFER_SIZE
    BY QueueNumbers
  <2>3. (QueueStart + (i - 1)) % BUFFER_SIZE # (QueueStart + QueueLength) % BUFFER_SIZE
    BY <2>1, <2>2, <1>5, RingDiffers
  <2> QED BY <2>1, <2>3, <1>6
<1>8. ringQueue' \in [1..(QueueLength + 1) -> Items \cup {NoItem}]
      /\ ringQueue'[QueueLength + 1] = Current(p)
      /\ \A i \in 1..QueueLength : ringQueue'[i] = ringQueue[i]
  <2>1. ringQueue' = [i \in 1..(QueueLength + 1) |->
                         transactions'[(QueueStart + i - 1) % BUFFER_SIZE]]
    BY <1>4 DEF ringQueue
  <2>2. QueueStart + (QueueLength + 1) - 1 = QueueStart + QueueLength
    BY QueueNumbers
  <2>3. (QueueStart + (QueueLength + 1) - 1) % BUFFER_SIZE = write_index
    BY <2>2, <1>6
  <2>4. ringQueue'[QueueLength + 1] = Current(p)
    BY <2>1, <2>3, <1>1, <1>2, QueueNumbers
  <2>5. \A i \in 1..QueueLength : ringQueue'[i] = ringQueue[i]
    BY <2>1, <1>1, <1>2, <1>7, QueueItems, QueueNumbers
  <2>6. \A i \in 1..(QueueLength + 1) : ringQueue'[i] \in Items \cup {NoItem}
    <3>1. \A i \in 1..(QueueLength + 1) : i \in 1..QueueLength \/ i = QueueLength + 1
      BY QueueNumbers
    <3> QED BY <3>1, <2>4, <2>5, <1>2, QueueItems
  <2> QED BY <2>1, <2>4, <2>5, <2>6
<1>9. ringQueue' = Append(ringQueue, Current(p))
  BY <1>2, <1>8, AppendByIndex, QueueItems, QueueNumbers
<1> QED BY <1>2, <1>4, <1>5, <1>9

\* A consumer that stores takes the first item of the queue.
LEMMA StoreTakes ==
  ASSUME Inv, History, Loads, NEW c \in Consumers, ConsumerStore(c)
  PROVE  /\ QueueLength > 0 /\ QueueLength' = QueueLength - 1
         /\ ringQueue # << >> /\ ringQueue' = Tail(ringQueue)
         /\ Head(ringQueue) = ringQueue[1] /\ ringQueue[1] \in Items
         /\ ringQueue[1] = transactions[read_index]
         /\ deposit' = [deposit EXCEPT ![ringQueue[1]] = @ + 1]
         /\ \A i \in 1..QueueLength' : i + 1 \in 1..QueueLength /\ ringQueue'[i] = ringQueue[i + 1]
<1> DEFINE UN == Cardinality(Unannounced)
           UC == Cardinality(Uncredited)
           AC == Cardinality(At(Consumers, {"advance"}))
<1> USE SizesAssumption
<1>1. /\ pc[c] = "store" /\ pc' = [pc EXCEPT ![c] = "advance"]
      /\ deposit' = loaded[c]
      /\ UNCHANGED <<n, read_index, transactions>>
  BY DEF ConsumerStore, Goto, buffer
<1>2. AC = 0
  BY <1>1, AloneInMutex DEF InMutex
<1>3. UC > 0
  <2>1. IsFiniteSet(Uncredited) /\ c \in Uncredited
    BY <1>1, FS_Subset, ThreadsAssumption DEF At, Uncredited
  <2> QED BY <2>1, FS_EmptySet, QueueNumbers
<1>4. UC' = UC - 1 /\ AC' = AC + 1 /\ UN' = UN
  <2>1. /\ UC' = UC + Gain({"lock", "load", "store"}, pc[c], "advance")
        /\ AC' = AC + Gain({"advance"}, pc[c], "advance")
        /\ UNCHANGED Unannounced
    BY <1>1, ConsumerMovesQueue DEF Inv
  <2> QED BY <2>1, <1>1, QueueNumbers DEF Gain
<1>5. /\ QueueLength > 0 /\ QueueLength' = QueueLength - 1
      /\ QueueStart = read_index /\ QueueStart' = read_index + 1
  BY <1>1, <1>2, <1>3, <1>4, QueueNumbers DEF QueueLength, QueueStart, Slots
<1>6. ringQueue' = [i \in 1..(QueueLength - 1) |->
                       transactions[(read_index + 1 + i - 1) % BUFFER_SIZE]]
  BY <1>1, <1>5 DEF ringQueue
<1>7. ASSUME NEW i \in 1..(QueueLength - 1)
      PROVE  i + 1 \in 1..QueueLength /\ ringQueue'[i] = ringQueue[i + 1]
  <2>1. i + 1 \in 1..QueueLength /\ read_index + 1 + i - 1 = QueueStart + (i + 1) - 1
    BY <1>5, QueueNumbers DEF Slots
  <2> QED BY <2>1, <1>6, QueueItems
<1>8. ringQueue' \in [1..(QueueLength - 1) -> Items \cup {NoItem}]
  BY <1>6, <1>7, QueueItems
<1>9. ringQueue # << >> /\ Head(ringQueue) = ringQueue[1] /\ ringQueue' = Tail(ringQueue)
  <2>1. QueueLength \in Nat \ {0}
    BY <1>5, QueueNumbers
  <2> QED BY <2>1, <1>7, <1>8, TailByIndex, QueueItems
<1>10. ringQueue[1] = transactions[read_index] /\ ringQueue[1] \in Items
  <2>1. 1 \in 1..QueueLength /\ QueueStart + 1 - 1 = read_index + 0
    BY <1>5, QueueNumbers DEF Slots
  <2>2. (read_index + 0) % BUFFER_SIZE = read_index
    BY QueueNumbers, RingIndex DEF Slots
  <2> QED BY <2>1, <2>2, QueueItems DEF History
<1>11. deposit' = [deposit EXCEPT ![ringQueue[1]] = @ + 1]
  <2>1. deposit' = [y \in Items |-> deposit[y] + IF y = transactions[read_index] THEN 1 ELSE 0]
    BY <1>1 DEF Loads
  <2>2. deposit \in [Items -> Nat]
    BY DEF Inv, TypeInv, TypeOK
  <2>3. deposit' = [y \in Items |-> deposit[y] + IF y = ringQueue[1] THEN 1 ELSE 0]
    BY <2>1, <1>10
  <2>4. ringQueue[1] \in Items
    BY <1>10
  <2> QED BY <2>2, <2>3, <2>4, OneMore
<1> QED BY <1>5, <1>7, <1>9, <1>10, <1>11

\* A consumer that moves read_index on leaves the queue as it is.
LEMMA AdvanceKeepsQueue ==
  ASSUME Inv, NEW c \in Consumers, ConsumerAdvance(c)
  PROVE  UNCHANGED <<QueueLength, ringQueue, deposit>>
<1> DEFINE UN == Cardinality(Unannounced)
           UC == Cardinality(Uncredited)
           AC == Cardinality(At(Consumers, {"advance"}))
<1> USE SizesAssumption
<1>1. /\ pc[c] = "advance" /\ pc' = [pc EXCEPT ![c] = "unlock"]
      /\ read_index' = (read_index + 1) % BUFFER_SIZE
      /\ UNCHANGED <<n, transactions, deposit>>
  BY DEF ConsumerAdvance, Goto
<1>2. AC = 1 /\ AC' = 0 /\ UC' = UC /\ UN' = UN
  <2>1. AC = 1
    BY <1>1, AloneInMutex DEF InMutex
  <2>2. /\ UC' = UC + Gain({"lock", "load", "store"}, pc[c], "unlock")
        /\ AC' = AC + Gain({"advance"}, pc[c], "unlock")
        /\ UNCHANGED Unannounced
    BY <1>1, ConsumerMovesQueue DEF Inv
  <2> QED BY <2>1, <2>2, <1>1, QueueNumbers DEF Gain
<1>3. /\ QueueLength' = QueueLength /\ QueueStart = read_index + 1
      /\ QueueStart' = (read_index + 1) % BUFFER_SIZE
  <2>1. (read_index + 1) % BUFFER_SIZE \in Slots
    BY NextSlot, QueueNumbers DEF Slots
  <2> QED BY <2>1, <1>1, <1>2, QueueNumbers DEF QueueLength, QueueStart, Slots
<1>4. ASSUME NEW i \in 1..QueueLength
      PROVE  (QueueStart' + i - 1) % BUFFER_SIZE = (QueueStart + i - 1) % BUFFER_SIZE
  <2>1. /\ i - 1 \in 0..BUFFER_SIZE /\ QueueStart' \in 0..BUFFER_SIZE
        /\ QueueStart' + i - 1 = QueueStart' + (i - 1)
        /\ QueueStart + i - 1 = QueueStart + (i - 1)
        /\ QueueStart' = IF QueueStart = BUFFER_SIZE THEN 0 ELSE QueueStart
    BY <1>3, NextSlot, QueueNumbers DEF Slots
  <2>2. \/ QueueStart' = QueueStart
        \/ QueueStart = BUFFER_SIZE /\ QueueStart' = 0
    BY <2>1
  <2>3. (0 + (i - 1)) % BUFFER_SIZE = (BUFFER_SIZE + (i - 1)) % BUFFER_SIZE
    <3>1. BUFFER_SIZE \in 0..BUFFER_SIZE /\ 0 \in 0..BUFFER_SIZE /\ i - 1 < BUFFER_SIZE
      BY QueueNumbers
    <3> QED BY <2>1, <3>1, RingTurn
  <2> QED BY <2>1, <2>2, <2>3
<1>5. ringQueue' = ringQueue
  BY <1>1, <1>3, <1>4 DEF ringQueue
<1> QED BY <1>1, <1>3, <1>5

\* A step that does not touch what the queue is made of leaves it as it is.
LEMMA QueueStays ==
  ASSUME Inv, UNCHANGED <<transactions, read_index, deposit>>,
         n' + Cardinality(Unannounced)' + Cardinality(Uncredited)' =
           n + Cardinality(Unannounced) + Cardinality(Uncredited),
         Cardinality(At(Consumers, {"advance"}))' = Cardinality(At(Consumers, {"advance"}))
  PROVE  UNCHANGED <<QueueLength, ringQueue, deposit>>
<1>1. QueueLength' = QueueLength /\ QueueStart' = QueueStart
  BY DEF QueueLength, QueueStart
<1> QED BY <1>1 DEF ringQueue

\* A thread that passes a mutex, begins or ends leaves the queue as it is.
LEMMA ThreadKeepsQueue ==
  ASSUME Inv, NEW t \in Threads, NEW to, pc' = [pc EXCEPT ![t] = to],
         UNCHANGED <<n, transactions, read_index, deposit>>,
         t \in Producers =>
           (to \in {"advance", "unlock", "post_n"} <=> pc[t] \in {"advance", "unlock", "post_n"}),
         t \in Consumers => /\ to \in {"lock", "load", "store"}
                                 <=> pc[t] \in {"lock", "load", "store"}
                            /\ to = "advance" <=> pc[t] = "advance"
  PROVE  UNCHANGED <<QueueLength, ringQueue, deposit>>
<1>1. CASE t \in Producers
  <2>1. /\ Cardinality(Unannounced)' =
             Cardinality(Unannounced) + Gain({"advance", "unlock", "post_n"}, pc[t], to)
        /\ UNCHANGED <<Uncredited, At(Consumers, {"advance"})>>
    BY <1>1, ProducerMovesQueue DEF Inv
  <2> QED BY <1>1, <2>1, QueueNumbers, QueueStays DEF Gain
<1>2. CASE t \in Consumers
  <2>1. /\ Cardinality(Uncredited)' =
             Cardinality(Uncredited) + Gain({"lock", "load", "store"}, pc[t], to)
        /\ Cardinality(At(Consumers, {"advance"}))' =
             Cardinality(At(Consumers, {"advance"})) + Gain({"advance"}, pc[t], to)
        /\ UNCHANGED Unannounced
    BY <1>2, ConsumerMovesQueue DEF Inv
  <2> QED BY <1>2, <2>1, QueueNumbers, QueueStays DEF Gain
<1> QED BY <1>1, <1>2 DEF Threads

\* Every step puts, takes, or leaves queue and deposit alone.
LEMMA QueueSteps ==
  ASSUME Inv, [Next]_vars
  PROVE  \/ \E p \in Producers : ProducerWrite(p)
         \/ \E c \in Consumers : ConsumerStore(c)
         \/ UNCHANGED <<QueueLength, ringQueue, deposit>>
<1> DEFINE Kept == UNCHANGED <<QueueLength, ringQueue, deposit>>
<1> USE DEF Threads
<1>1. ASSUME NEW p \in Producers, ProducerWaitE(p) PROVE Kept
  BY <1>1, ThreadKeepsQueue, ThreadsAssumption DEF ProducerWaitE, Goto, buffer
<1>2. ASSUME NEW p \in Producers, ProducerAdvance(p) PROVE Kept
  <2>1. /\ pc[p] = "advance" /\ pc' = [pc EXCEPT ![p] = "unlock"]
        /\ UNCHANGED <<n, transactions, read_index, deposit>>
    BY <1>2 DEF ProducerAdvance, Goto
  <2>2. /\ Cardinality(Unannounced)' =
             Cardinality(Unannounced) + Gain({"advance", "unlock", "post_n"}, pc[p], "unlock")
        /\ UNCHANGED <<Uncredited, At(Consumers, {"advance"})>>
    BY <2>1, ProducerMovesQueue DEF Inv
  <2> QED BY <2>1, <2>2, QueueNumbers, QueueStays DEF Gain
<1>3. ASSUME NEW p \in Producers, ProducerPostN(p) PROVE Kept
  <2>1. /\ pc[p] = "post_n" /\ pc' = [pc EXCEPT ![p] = "wait_e"]
        /\ n' = n + 1 /\ UNCHANGED <<transactions, read_index, deposit>>
    BY <1>3 DEF ProducerPostN, Goto, buffer
  <2>2. /\ Cardinality(Unannounced)' =
             Cardinality(Unannounced) + Gain({"advance", "unlock", "post_n"}, pc[p], "wait_e")
        /\ UNCHANGED <<Uncredited, At(Consumers, {"advance"})>>
    BY <2>1, ProducerMovesQueue DEF Inv
  <2> QED BY <2>1, <2>2, QueueNumbers, QueueStays DEF Gain
<1>4. ASSUME NEW c \in Consumers, ConsumerWaitN(c) PROVE Kept
  <2>1. /\ pc[c] = "wait_n" /\ pc' = [pc EXCEPT ![c] = "lock"]
        /\ n' = n - 1 /\ UNCHANGED <<transactions, read_index, deposit>>
    BY <1>4 DEF ConsumerWaitN, Goto, buffer
  <2>2. /\ Cardinality(Uncredited)' =
             Cardinality(Uncredited) + Gain({"lock", "load", "store"}, pc[c], "lock")
        /\ Cardinality(At(Consumers, {"advance"}))' =
             Cardinality(At(Consumers, {"advance"})) + Gain({"advance"}, pc[c], "lock")
        /\ UNCHANGED Unannounced
    BY <2>1, ConsumerMovesQueue DEF Inv
  <2> QED BY <2>1, <2>2, QueueNumbers, QueueStays DEF Gain
<1>5. ASSUME NEW c \in Consumers, ConsumerLoad(c) PROVE Kept
  <2>1. /\ pc[c] = "load" /\ pc' = [pc EXCEPT ![c] = "store"]
        /\ UNCHANGED <<n, transactions, read_index, deposit>>
    BY <1>5 DEF ConsumerLoad, Goto, buffer
  <2>2. /\ Cardinality(Uncredited)' =
             Cardinality(Uncredited) + Gain({"lock", "load", "store"}, pc[c], "store")
        /\ Cardinality(At(Consumers, {"advance"}))' =
             Cardinality(At(Consumers, {"advance"})) + Gain({"advance"}, pc[c], "store")
        /\ UNCHANGED Unannounced
    BY <2>1, ConsumerMovesQueue DEF Inv
  <2> QED BY <2>1, <2>2, QueueNumbers, QueueStays DEF Gain
<1>6. ASSUME NEW c \in Consumers, ConsumerAdvance(c) PROVE Kept
  BY <1>6, AdvanceKeepsQueue
<1>7. ASSUME NEW c \in Consumers, ConsumerPostE(c) PROVE Kept
  BY <1>7, ThreadKeepsQueue, ThreadsAssumption DEF ConsumerPostE, Goto, buffer
<1>8. ASSUME NEW t \in Threads, Lock(t) PROVE Kept
  BY <1>8, ThreadKeepsQueue, ThreadsAssumption DEF Lock, Goto, buffer
<1>9. ASSUME NEW t \in Threads, Unlock(t) PROVE Kept
  BY <1>9, ThreadKeepsQueue, ThreadsAssumption DEF Unlock, Goto, buffer
<1>10. ASSUME NEW t \in Threads, Exit(t) PROVE Kept
  BY <1>10, ThreadKeepsQueue, ThreadsAssumption DEF Exit, Goto, buffer
<1>11. ASSUME NEW p \in Producers, CreateProducer(p) PROVE Kept
  BY <1>11, ThreadKeepsQueue, ThreadsAssumption DEF CreateProducer, Goto, buffer
<1>12. ASSUME NEW c \in Consumers, CreateConsumer(c) PROVE Kept
  BY <1>12, ThreadKeepsQueue, ThreadsAssumption DEF CreateConsumer, Goto, buffer
<1>13. ASSUME EndCreate \/ JoinProducers \/ JoinConsumers \/ UNCHANGED vars PROVE Kept
  <2>1. UNCHANGED <<n, transactions, read_index, deposit, pc>>
    BY <1>13 DEF EndCreate, JoinProducers, JoinConsumers, MainMoves, vars, buffer
  <2>2. UNCHANGED <<Unannounced, Uncredited, At(Consumers, {"advance"})>>
    BY <2>1 DEF Unannounced, Uncredited, At
  <2> QED BY <2>1, <2>2, QueueStays
<1> QED
  BY <1>1, <1>2, <1>3, <1>4, <1>5, <1>6, <1>7, <1>8, <1>9, <1>10, <1>11, <1>12, <1>13
  DEF Next, ProducerStep, ConsumerStep, ThreadStep, MainStep, Terminating

-----------------------------------------------------------------------------
(* The history of the transactions *)

\* What has been put into the ring stays put.
LEMMA ProducedStays ==
  ASSUME Inv, [Next]_vars, NEW x \in Produced
  PROVE  x \in Produced'
<1> USE ThreadsAssumption DEF Threads
<1>0. /\ numOps \in [Threads -> Nat] /\ x \in Items /\ x[1] \in Producers /\ x[2] \in Nat
      /\ pc \in [Threads -> ProducerLabels \cup ConsumerLabels]
  BY DEF Inv, TypeInv, TypeOK, ProducerLabels, ConsumerLabels, Items, Produced
<1> DEFINE InRing == x[2] = numOps[x[1]] /\ pc[x[1]] \in {"advance", "unlock", "post_n"}
<1>1. /\ x \in Produced <=> x[2] > numOps[x[1]] \/ InRing
      /\ x \in Produced' <=> (x[2] > numOps[x[1]] \/ InRing)'
  BY <1>0 DEF Produced, Unannounced, At
<1>2. ASSUME NEW p \in Producers, ProducerStep(p) PROVE (x[2] > numOps[x[1]] \/ InRing)'
  <2>1. CASE ProducerWaitE(p)
    BY <1>0, <1>1, <2>1 DEF ProducerWaitE, Goto
  <2>2. CASE ProducerWrite(p)
    BY <1>0, <1>1, <2>2 DEF ProducerWrite, Goto
  <2>3. CASE ProducerAdvance(p)
    BY <1>0, <1>1, <2>3 DEF ProducerAdvance, Goto
  <2>4. CASE ProducerPostN(p)
    BY <1>0, <1>1, <2>4 DEF ProducerPostN, Goto
  <2> QED BY <1>2, <2>1, <2>2, <2>3, <2>4 DEF ProducerStep
<1>3. ASSUME NEW c \in Consumers, ConsumerStep(c) PROVE (x[2] > numOps[x[1]] \/ InRing)'
  BY <1>0, <1>1, <1>3
  DEF ConsumerStep, ConsumerWaitN, ConsumerLoad, ConsumerStore, ConsumerAdvance, ConsumerPostE,
      Goto
<1>4. ASSUME NEW t \in Threads, ThreadStep(t) PROVE (x[2] > numOps[x[1]] \/ InRing)'
  BY <1>0, <1>1, <1>4 DEF ThreadStep, Lock, Unlock, Exit, Goto
<1>5. ASSUME MainStep \/ UNCHANGED vars PROVE (x[2] > numOps[x[1]] \/ InRing)'
  BY <1>0, <1>1, <1>5
  DEF MainStep, CreateProducer, CreateConsumer, EndCreate, JoinProducers, JoinConsumers,
      MainMoves, vars, Goto
<1> QED BY <1>1, <1>2, <1>3, <1>4, <1>5 DEF Next, Terminating

\* Putting and taking keep every transaction in one place.
LEMMA HistoryNext == Inv /\ History /\ Loads /\ [Next]_vars => History'
<1> SUFFICES ASSUME Inv, History, Loads, [Next]_vars PROVE History'
  OBVIOUS
<1>0. QueueLength \in Nat /\ deposit \in [Items -> Nat]
  BY QueueNumbers DEF Inv, TypeInv, TypeOK
<1>1. ASSUME NEW p \in Producers, ProducerWrite(p) PROVE History'
  <2> DEFINE x == Current(p)
  <2>1. /\ QueueLength' = QueueLength + 1 /\ x \in Items
        /\ ringQueue' = Append(ringQueue, x)
    BY <1>1, WritePuts
  <2>2. deposit' = deposit
    BY <1>1 DEF ProducerWrite
  <2>3. x \notin Produced /\ x \in Produced'
    <3>1. /\ pc[p] = "write" /\ pc'[p] = "advance" /\ numOps' = numOps /\ numOps[p] \in Nat
      BY <1>1 DEF ProducerWrite, Goto, Inv, TypeInv, TypeOK, Threads
    <3> QED BY <2>1, <3>1 DEF Produced, Current, Unannounced, At
  <2>4. deposit[x] = 0 /\ \A i \in 1..QueueLength : ringQueue[i] # x
    BY <2>1, <2>3 DEF History
  <2>5. /\ \A i \in 1..QueueLength : ringQueue'[i] = ringQueue[i]
        /\ ringQueue'[QueueLength + 1] = x
        /\ \A i \in 1..(QueueLength + 1) : i \in 1..QueueLength \/ i = QueueLength + 1
    <3>1. ringQueue \in [1..QueueLength -> Items \cup {NoItem}]
      BY QueueItems
    <3>2. Len(ringQueue) = QueueLength
      BY <3>1, <1>0
    <3> QED BY <2>1, <3>1, <3>2, <1>0
  <2>6. \A y \in Items : deposit'[y] \in {0, 1} /\ (deposit'[y] = 1 => y \in Produced')
    BY <2>2, ProducedStays DEF History
  <2>7. ASSUME NEW i \in 1..QueueLength'
        PROVE  ringQueue'[i] \in Items /\ ringQueue'[i] \in Produced' /\ deposit'[ringQueue'[i]] = 0
    <3>1. CASE i \in 1..QueueLength
      BY <2>2, <2>5, <3>1, ProducedStays DEF History
    <3>2. CASE i = QueueLength + 1
      BY <2>1, <2>2, <2>3, <2>4, <2>5, <3>2
    <3> QED BY <2>1, <2>5, <3>1, <3>2
  <2>8. ASSUME NEW i \in 1..QueueLength', NEW j \in 1..QueueLength',
               ringQueue'[i] = ringQueue'[j]
        PROVE  i = j
    BY <2>1, <2>4, <2>5, <2>8 DEF History
  <2> QED BY <2>6, <2>7, <2>8 DEF History
<1>2. ASSUME NEW c \in Consumers, ConsumerStore(c) PROVE History'
  <2> DEFINE h == ringQueue[1]
  <2>1. /\ QueueLength > 0 /\ QueueLength' = QueueLength - 1 /\ h \in Items
        /\ deposit' = [deposit EXCEPT ![h] = @ + 1]
        /\ \A i \in 1..QueueLength' : i + 1 \in 1..QueueLength /\ ringQueue'[i] = ringQueue[i + 1]
    BY <1>2, StoreTakes
  <2>2. 1 \in 1..QueueLength /\ deposit[h] = 0 /\ h \in Produced
    BY <2>1, <1>0 DEF History
  <2>3. /\ deposit'[h] = 1
        /\ \A y \in Items : y # h => deposit'[y] = deposit[y]
    BY <2>1, <2>2, <1>0
  <2>4. \A y \in Items : deposit'[y] \in {0, 1} /\ (deposit'[y] = 1 => y \in Produced')
    BY <2>2, <2>3, ProducedStays DEF History
  <2>5. ASSUME NEW i \in 1..QueueLength'
        PROVE  /\ i + 1 \in 1..QueueLength /\ ringQueue'[i] = ringQueue[i + 1]
               /\ ringQueue'[i] \in Items /\ ringQueue'[i] \in Produced'
               /\ deposit'[ringQueue'[i]] = 0
    <3>1. i + 1 \in 1..QueueLength /\ ringQueue'[i] = ringQueue[i + 1] /\ i + 1 # 1
      BY <2>1, <1>0
    <3>2. ringQueue[i + 1] # h
      BY <3>1, <2>2 DEF History
    <3>3. ringQueue[i + 1] \in Items /\ ringQueue[i + 1] \in Produced
            /\ deposit[ringQueue[i + 1]] = 0
      BY <3>1 DEF History
    <3> QED BY <3>1, <3>2, <3>3, <2>3, ProducedStays
  <2>6. ASSUME NEW i \in 1..QueueLength', NEW j \in 1..QueueLength',
               ringQueue'[i] = ringQueue'[j]
        PROVE  i = j
    <3>1. i + 1 = j + 1
      BY <2>5, <2>6 DEF History
    <3> QED BY <3>1, <2>1, <1>0
  <2> QED BY <2>4, <2>5, <2>6 DEF History
<1>3. ASSUME UNCHANGED <<QueueLength, ringQueue, deposit>> PROVE History'
  BY <1>3, ProducedStays DEF History
<1> QED BY <1>1, <1>2, <1>3, QueueSteps

\* Nothing a consumer has read changes before it stores: it is alone in its
\* mutex, and no producer writes where it reads.
LEMMA LoadsNext == Inv /\ Loads /\ [Next]_vars => Loads'
<1> SUFFICES ASSUME Inv, Loads, [Next]_vars, NEW c \in Consumers, pc'[c] = "store"
             PROVE  loaded'[c] = [y \in Items |-> deposit'[y] +
                                     IF y = transactions'[read_index'] THEN 1 ELSE 0]
  BY DEF Loads
<1> USE ThreadsAssumption DEF Threads
<1>0. /\ pc \in [Threads -> ProducerLabels \cup ConsumerLabels]
      /\ loaded \in [Consumers -> [Items -> Nat]]
  BY DEF Inv, TypeInv, TypeOK, ProducerLabels, ConsumerLabels
<1>1. CASE ConsumerLoad(c)
  BY <1>0, <1>1 DEF ConsumerLoad, buffer
<1>2. CASE pc[c] = "store" /\ UNCHANGED <<deposit, loaded, transactions, read_index>>
  BY <1>2 DEF Loads
<1>3. \A d \in Consumers : pc[d] \in InMutex => pc[c] \notin InMutex \/ d = c
  BY DEF Inv, TypeInv, Locks, MutualExclusion, MutexOf
<1>4. ASSUME NEW p \in Producers, ProducerStep(p)
      PROVE  pc[c] = "store" /\ UNCHANGED <<deposit, loaded, read_index>>
             /\ transactions'[read_index] = transactions[read_index]
  <2>1. pc[c] = "store" /\ UNCHANGED <<deposit, loaded, read_index>>
    BY <1>0, <1>4 DEF ProducerStep, ProducerWaitE, ProducerWrite, ProducerAdvance, ProducerPostN,
                      Goto, buffer
  <2>2. CASE ProducerWrite(p)
    <3>1. write_index # read_index
      BY <2>1, <2>2, WriterElsewhere DEF ProducerWrite, Goto
    <3> QED BY <2>1, <2>2, <3>1 DEF ProducerWrite, Inv, TypeInv, TypeOK
  <2>3. CASE ~ProducerWrite(p)
    BY <1>4, <2>1, <2>3 DEF ProducerStep, ProducerWaitE, ProducerAdvance, ProducerPostN, buffer
  <2> QED BY <2>1, <2>2, <2>3
<1>5. ASSUME NEW d \in Consumers, ConsumerStep(d), ~ConsumerLoad(c)
      PROVE  pc[c] = "store" /\ UNCHANGED <<deposit, transactions, read_index>>
             /\ loaded'[c] = loaded[c]
  <2>1. CASE ConsumerWaitN(d)
    BY <1>0, <2>1 DEF ConsumerWaitN, Goto, buffer
  <2>2. CASE ConsumerLoad(d)
    BY <1>0, <1>3, <1>5, <2>2 DEF ConsumerLoad, Goto, buffer
  <2>3. CASE ConsumerStore(d)
    BY <1>0, <1>3, <2>3 DEF ConsumerStore, Goto, buffer, InMutex
  <2>4. CASE ConsumerAdvance(d)
    BY <1>0, <1>3, <2>4 DEF ConsumerAdvance, Goto, InMutex
  <2>5. CASE ConsumerPostE(d)
    BY <1>0, <2>5 DEF ConsumerPostE, Goto, buffer
  <2> QED BY <1>5, <2>1, <2>2, <2>3, <2>4, <2>5 DEF ConsumerStep
<1>6. ASSUME NEW t \in Threads, ThreadStep(t)
      PROVE  pc[c] = "store" /\ UNCHANGED <<deposit, loaded, transactions, read_index>>
  BY <1>0, <1>6 DEF ThreadStep, Lock, Unlock, Exit, Goto, buffer
<1>7. ASSUME MainStep \/ UNCHANGED vars
      PROVE  pc[c] = "store" /\ UNCHANGED <<deposit, loaded, transactions, read_index>>
  BY <1>0, <1>7
  DEF MainStep, CreateProducer, CreateConsumer, EndCreate, JoinProducers, JoinConsumers,
      MainMoves, vars, Goto, buffer
<1> QED BY <1>1, <1>2, <1>4, <1>5, <1>6, <1>7 DEF Next, Terminating, Loads

-----------------------------------------------------------------------------
(* The count of the operations and the end of the programs *)

\* A step but a store keeps the set of operations that have credited.
LEMMA CreditsStay ==
  ASSUME Inv, Ends, [Next]_vars, \A c \in Consumers : ~ConsumerStore(c)
  PROVE  Credits' = Credits
<1> USE ThreadsAssumption DEF Threads
<1>0. /\ numOps \in [Threads -> Nat]
      /\ pc \in [Threads -> ProducerLabels \cup ConsumerLabels]
  BY DEF Inv, TypeInv, TypeOK, ProducerLabels, ConsumerLabels
<1> DEFINE Credited(c, k) ==
             k > numOps[c] \/ (k = numOps[c] /\ pc[c] \in {"advance", "unlock", "post_e"})
           Same(c) == \A k \in 1..OPS_PER_CONSUMER : Credited(c, k) <=> Credited(c, k)'
<1>1. SUFFICES ASSUME NEW c \in Consumers PROVE Same(c)
  BY DEF Credits, At
<1>2. ASSUME NEW p \in Producers, ProducerStep(p) PROVE Same(c)
  BY <1>0, <1>2
  DEF ProducerStep, ProducerWaitE, ProducerWrite, ProducerAdvance, ProducerPostN, Goto
<1>3. ASSUME NEW d \in Consumers, ConsumerStep(d) PROVE Same(c)
  <2>1. CASE ConsumerWaitN(d)
    BY <1>0, <2>1 DEF ConsumerWaitN, Goto
  <2>2. CASE ConsumerLoad(d)
    BY <1>0, <2>2 DEF ConsumerLoad, Goto
  <2>3. CASE ConsumerAdvance(d)
    BY <1>0, <2>3 DEF ConsumerAdvance, Goto
  <2>4. CASE ConsumerPostE(d)
    BY <1>0, <2>4 DEF ConsumerPostE, Goto
  <2> QED BY <1>3, <2>1, <2>2, <2>3, <2>4 DEF ConsumerStep
<1>4. ASSUME NEW t \in Threads, ThreadStep(t) PROVE Same(c)
  BY <1>0, <1>4 DEF ThreadStep, Lock, Unlock, Exit, Goto
<1>5. ASSUME MainStep \/ UNCHANGED vars PROVE Same(c)
  BY <1>0, <1>5
  DEF MainStep, CreateProducer, CreateConsumer, EndCreate, JoinProducers, JoinConsumers,
      MainMoves, vars, Goto
<1> QED BY <1>2, <1>3, <1>4, <1>5 DEF Next, Terminating

\* The pairs of a finite set and an initial segment of the numbers.
LEMMA Pairs ==
  ASSUME NEW S, IsFiniteSet(S), NEW k \in Nat
  PROVE  IsFiniteSet(S \X (1..k)) /\ Cardinality(S \X (1..k)) = k * Cardinality(S)
<1>1. IsFiniteSet(1..k) /\ Cardinality(1..k) = k
  BY FS_Interval
<1>2. Cardinality(S) \in Nat
  BY FS_CardinalityType
<1>3. IsFiniteSet(S \X (1..k)) /\ Cardinality(S \X (1..k)) = Cardinality(S) * Cardinality(1..k)
  BY <1>1, FS_Product
<1> QED BY <1>1, <1>2, <1>3

\* Every store credits one transaction for one operation.
LEMMA CountNext ==
  BufferInv /\ [Next]_vars => (Cardinality(Delivered) = Cardinality(Credits))'
<1> SUFFICES ASSUME BufferInv, [Next]_vars
             PROVE  Cardinality(Delivered') = Cardinality(Credits')
  OBVIOUS
<1>0. /\ deposit \in [Items -> Nat] /\ numOps \in [Threads -> Nat]
      /\ pc \in [Threads -> ProducerLabels \cup ConsumerLabels]
      /\ Inv /\ History /\ Loads /\ Ends /\ Cardinality(Delivered) = Cardinality(Credits)
  BY DEF BufferInv, Inv, TypeInv, TypeOK, ProducerLabels, ConsumerLabels
<1>1. ASSUME NEW c \in Consumers, ConsumerStore(c)
      PROVE  Cardinality(Delivered') = Cardinality(Credits')
  <2> DEFINE h == ringQueue[1]
             a == <<c, numOps[c]>>
  <2>1. h \in Items /\ deposit[h] = 0 /\ deposit' = [deposit EXCEPT ![h] = @ + 1]
    <3>1. /\ QueueLength > 0 /\ h \in Items /\ deposit' = [deposit EXCEPT ![h] = @ + 1]
      BY <1>0, <1>1, StoreTakes
    <3>2. 1 \in 1..QueueLength
      BY <1>0, <3>1, QueueNumbers
    <3> QED BY <1>0, <3>1, <3>2 DEF History
  <2>2. Delivered' = Delivered \cup {h} /\ h \notin Delivered
    BY <1>0, <2>1 DEF Delivered
  <2>3. /\ pc[c] = "store" /\ pc' = [pc EXCEPT ![c] = "advance"] /\ numOps' = numOps
        /\ c \in Threads /\ numOps[c] \in 1..OPS_PER_CONSUMER
    <3>1. /\ pc[c] = "store" /\ pc' = [pc EXCEPT ![c] = "advance"] /\ numOps' = numOps
      BY <1>1 DEF ConsumerStore, Goto
    <3> QED BY <1>0, <3>1, SizesAssumption
        DEF BufferInv, Inv, TypeInv, Places, Idle, Ends, Threads
  <2>4. Credits' = Credits \cup {a} /\ a \notin Credits
    <3> DEFINE Done == {"advance", "unlock", "post_e"}
               In(b) == b[2] > numOps[b[1]] \/ (b[2] = numOps[b[1]] /\ pc[b[1]] \in Done)
               Now(b) == b[2] > numOps[b[1]] \/ (b[2] = numOps[b[1]] /\ pc'[b[1]] \in Done)
               Pair == Consumers \X (1..OPS_PER_CONSUMER)
    <3>1. Credits = {b \in Pair : In(b)}
      BY DEF Credits, At
    <3>2. Credits' = {b \in Pair : Now(b)}
      BY <2>3 DEF Credits, At
    <3>3. a \in Pair /\ ~In(a) /\ Now(a)
      BY <2>3, <1>0, SizesAssumption
    <3>4. \A b \in Pair : b # a => (In(b) <=> Now(b))
      <4> SUFFICES ASSUME NEW b \in Pair, b # a PROVE In(b) <=> Now(b)
        OBVIOUS
      <4>1. b = <<b[1], b[2]>> /\ b[1] \in Consumers
        OBVIOUS
      <4>2. CASE b[1] = c
        <5>1. b[2] # numOps[c]
          BY <4>1, <4>2
        <5> QED BY <4>2, <5>1
      <4>3. CASE b[1] # c
        BY <4>1, <4>3, <2>3, <1>0
      <4> QED BY <4>2, <4>3
    <3> QED BY <3>1, <3>2, <3>3, <3>4
  <2>5. IsFiniteSet(Delivered) /\ IsFiniteSet(Credits)
    BY Pairs, FS_Subset, ThreadsAssumption, SizesAssumption DEF Delivered, Credits, Items
  <2>6. Cardinality(Delivered') = Cardinality(Delivered) + 1
    BY <2>2, <2>5, FS_AddElement
  <2>7. Cardinality(Credits') = Cardinality(Credits) + 1
    BY <2>4, <2>5, FS_AddElement
  <2> QED BY <1>0, <2>6, <2>7
<1>2. ASSUME NEW p \in Producers, ProducerWrite(p)
      PROVE  Cardinality(Delivered') = Cardinality(Credits')
  <2>1. \A c \in Consumers : ~ConsumerStore(c)
    <3>1. pc'[p] = "advance" /\ pc[p] = "write" /\ p \in Threads
      BY <1>0, <1>2 DEF ProducerWrite, Goto, Threads
    <3>2. ASSUME NEW c \in Consumers, ConsumerStore(c) PROVE FALSE
      <4>1. pc' = [pc EXCEPT ![c] = "advance"] /\ c # p
        BY <3>2, ThreadsAssumption DEF ConsumerStore, Goto
      <4> QED BY <1>0, <3>1, <4>1
    <3> QED BY <3>2
  <2>2. Delivered' = Delivered
    BY <1>2 DEF ProducerWrite, Delivered
  <2> QED BY <1>0, <2>1, <2>2, CreditsStay
<1>3. ASSUME UNCHANGED deposit, \A c \in Consumers : ~ConsumerStore(c)
      PROVE  Cardinality(Delivered') = Cardinality(Credits')
  BY <1>0, <1>3, CreditsStay DEF Delivered
<1>4. \/ \E p \in Producers : ProducerWrite(p)
      \/ \E c \in Consumers : ConsumerStore(c)
      \/ UNCHANGED deposit
  BY <1>0, QueueSteps
<1> QED BY <1>1, <1>2, <1>3, <1>4

\* Threads end with nothing left to do, and main waits for them.
LEMMA EndsNext == Inv /\ Ends /\ [Next]_vars => Ends'
<1> SUFFICES ASSUME Inv, Ends, [Next]_vars PROVE Ends'
  OBVIOUS
<1> USE ThreadsAssumption, SizesAssumption DEF Threads, Ends
<1>0. /\ numOps \in [Threads -> Nat]
      /\ pc \in [Threads -> ProducerLabels \cup ConsumerLabels]
      /\ \A t \in Threads : pc[t] \notin Idle => numOps[t] > 0
  BY DEF Inv, TypeInv, TypeOK, Places, ProducerLabels, ConsumerLabels
<1>1. ASSUME NEW p \in Producers, ProducerStep(p) PROVE Ends'
  BY <1>0, <1>1
  DEF ProducerStep, ProducerWaitE, ProducerWrite, ProducerAdvance, ProducerPostN, Goto
<1>2. ASSUME NEW c \in Consumers, ConsumerStep(c) PROVE Ends'
  <2>1. CASE ConsumerPostE(c)
    BY <1>0, <2>1 DEF ConsumerPostE, Goto, Idle
  <2>2. CASE ~ConsumerPostE(c)
    BY <1>0, <1>2, <2>2
    DEF ConsumerStep, ConsumerWaitN, ConsumerLoad, ConsumerStore, ConsumerAdvance, Goto
  <2> QED BY <2>1, <2>2
<1>3. ASSUME NEW t \in Threads, ThreadStep(t) PROVE Ends'
  BY <1>0, <1>3 DEF ThreadStep, Lock, Unlock, Exit, Goto
<1>4. ASSUME MainStep \/ UNCHANGED vars PROVE Ends'
  BY <1>0, <1>4
  DEF MainStep, CreateProducer, CreateConsumer, EndCreate, JoinProducers, JoinConsumers,
      MainMoves, vars, Goto
<1> QED BY <1>1, <1>2, <1>3, <1>4 DEF Next, Terminating

\* Initially nothing has been produced, credited or done.
LEMMA BufferInit == Init => BufferInv /\ QueueLength = 0
<1> SUFFICES ASSUME Init PROVE BufferInv /\ QueueLength = 0
  OBVIOUS
<1> USE ThreadsAssumption, SizesAssumption DEF Threads
<1>1. Inv
  BY TypeInit, SlotsInit DEF Inv
<1>2. Unannounced = {} /\ Uncredited = {}
  BY DEF Init, At, Unannounced, Uncredited
<1>3. QueueLength = 0
  BY <1>2, FS_EmptySet DEF Init, QueueLength
<1>4. \A x \in Items : deposit[x] = 0
  BY DEF Init, Nothing
<1>5. History
  BY <1>3, <1>4 DEF History
<1>6. Loads /\ Ends
  BY DEF Init, Loads, Ends
<1>7. Delivered = {}
  BY <1>4 DEF Delivered
<1>8. Credits = {}
  BY DEF Credits, Init, At
<1> QED BY <1>1, <1>3, <1>5, <1>6, <1>7, <1>8 DEF BufferInv

\* The invariant with the history of the transactions is inductive.
LEMMA BufferInvariant == Spec => []BufferInv
<1>1. Init => BufferInv
  BY BufferInit
<1>2. BufferInv /\ [Next]_vars => BufferInv'
  <2> SUFFICES ASSUME BufferInv, [Next]_vars PROVE BufferInv'
    OBVIOUS
  <2>1. Inv'
    BY TypeNext, SlotsNext DEF BufferInv, Inv
  <2> QED BY <2>1, HistoryNext, LoadsNext, CountNext, EndsNext DEF BufferInv
<1> QED BY <1>1, <1>2, PTL DEF Spec

(***************************************************************************)
(* The balance main prints is exact, however many threads, operations and  *)
(* slots there are: consumers have credited as many different transactions *)
(* as they have done operations, that is all of them.                      *)
(***************************************************************************)
THEOREM DepositIsExact == Spec => []FinalDeposit
<1>1. ASSUME BufferInv, main = "destroyed"
      PROVE  /\ deposit = [x \in Items |-> 1]
             /\ \A t \in Threads : pc[t] = "done"
  <2>1. \A t \in Threads : pc[t] = "done" /\ numOps[t] = 0
    BY <1>1 DEF BufferInv, Ends, Threads
  <2>2. Credits = Consumers \X (1..OPS_PER_CONSUMER)
    BY <2>1 DEF Credits, Threads
  <2>3. Cardinality(Credits) = OPS_PER_CONSUMER * Cardinality(Consumers)
    BY <2>2, Pairs, ThreadsAssumption, SizesAssumption
  <2>4. /\ IsFiniteSet(Items) /\ Cardinality(Items) = OPS_PER_PRODUCER * Cardinality(Producers)
    BY Pairs, ThreadsAssumption, SizesAssumption DEF Items
  <2>5. Cardinality(Delivered) = Cardinality(Items)
    BY <1>1, <2>3, <2>4, OperationsMatch DEF BufferInv
  <2>6. Delivered = Items
    BY <2>4, <2>5, FS_Subset DEF Delivered
  <2>7. deposit \in [Items -> Nat]
    BY <1>1 DEF BufferInv, Inv, TypeInv, TypeOK
  <2>8. \A x \in Items : deposit[x] = 1
    BY <2>6 DEF Delivered
  <2> QED BY <2>1, <2>7, <2>8
<1>2. BufferInv => FinalDeposit
  BY <1>1 DEF FinalDeposit
<1> QED BY <1>2, BufferInvariant, PTL

(***************************************************************************)
(* The programs implement the bounded buffer: a producer's write puts its  *)
(* transaction, which is neither waiting nor credited, behind the others,  *)
(* a consumer's store takes the oldest one, and no other step changes what *)
(* the buffer holds.                                                       *)
(***************************************************************************)
THEOREM Refinement == Spec => ImplementsBuffer
<1>1. Init => Buffer!Init
  <2> SUFFICES ASSUME Init PROVE ringQueue = << >> /\ deposit = [x \in Items |-> 0]
    BY DEF Buffer!Init
  <2>1. QueueLength = 0
    BY BufferInit
  <2> QED BY <2>1 DEF Init, Nothing, ringQueue
<1>2. BufferInv /\ [Next]_vars => [Buffer!Next]_Buffer!bvars
  <2> SUFFICES ASSUME BufferInv, [Next]_vars PROVE Buffer!Next \/ UNCHANGED <<ringQueue, deposit>>
    BY DEF Buffer!bvars
  <2>1. ASSUME NEW p \in Producers, ProducerWrite(p) PROVE Buffer!Put(Current(p))
    <3>1. /\ QueueLength < BUFFER_SIZE /\ Current(p) \in Items
          /\ ringQueue' = Append(ringQueue, Current(p))
      BY <2>1, WritePuts DEF BufferInv
    <3>2. deposit' = deposit
      BY <2>1 DEF ProducerWrite
    <3>3. QueueLength \in Nat /\ ringQueue \in [1..QueueLength -> Items \cup {NoItem}]
      BY QueueNumbers, QueueItems DEF BufferInv
    <3>4. Current(p) \notin Produced
      <4>1. pc[p] = "write" /\ numOps[p] \in Nat
        BY <2>1 DEF ProducerWrite, Goto, BufferInv, Inv, TypeInv, TypeOK, Threads
      <4> QED BY <4>1 DEF Produced, Current, Unannounced, At
    <3>5. deposit[Current(p)] = 0 /\ \A i \in 1..QueueLength : ringQueue[i] # Current(p)
      BY <3>1, <3>4 DEF BufferInv, History
    <3>6. Len(ringQueue) = QueueLength /\ DOMAIN ringQueue = 1..QueueLength
      BY <3>3
    <3> QED BY <3>1, <3>2, <3>5, <3>6 DEF Buffer!Put, Buffer!Fresh
  <2>2. ASSUME NEW c \in Consumers, ConsumerStore(c) PROVE Buffer!Get
    BY <2>2, StoreTakes DEF BufferInv, Buffer!Get
  <2>3. ASSUME NEW p \in Producers, ProducerWrite(p) PROVE Buffer!Next
    <3>1. Current(p) \in Items
      BY <2>3, WritePuts DEF BufferInv
    <3> QED BY <2>1, <2>3, <3>1 DEF Buffer!Next
  <2>4. ASSUME NEW c \in Consumers, ConsumerStore(c) PROVE Buffer!Next
    BY <2>2, <2>4 DEF Buffer!Next
  <2> QED BY <2>3, <2>4, QueueSteps DEF BufferInv
<1> QED BY <1>1, <1>2, BufferInvariant, PTL DEF Spec, ImplementsBuffer, Buffer!Spec
=============================================================================
