--------------------- MODULE ShmProducerConsumerProofs ---------------------
(***************************************************************************)
(* Safety of Lab05/src/02's producer.c and consumer.c, for any number of   *)
(* workers, operations, slots and starts of consumer.c, and any names that *)
(* a crashed run has left.                                                 *)
(***************************************************************************)
EXTENDS ShmProducerConsumer, FiniteSetTheorems, SequenceTheorems, TLAPS

\* A worker in the middle of an operation holds one slot.
Middle == {"wait_cs", "write", "read", "advance", "post_cs", "post"}
Held == Cardinality(At(Threads, Middle))

NoConsumer == \A c \in Consumers : pc[c] = "unborn"

\* A worker has been forked by its program, which had all the objects.
Forked ==
  /\ \A p \in Producers : /\ pc[p] # "unborn" => producer \in {"fork", "close", "ended"}
                          /\ pc[p] \in Middle => numOps[p] > 0
                          /\ numOps[p] <= OPS_PER_PRODUCER
  /\ \A c \in Consumers :
       /\ pc[c] # "unborn" => /\ consumer \notin {"off", FILLED, EMPTY, CS_CONS, MEM}
                              /\ opened[FILLED] # "none" /\ opened[EMPTY] # "none"
                              /\ opened[MEM] # "none"
       /\ pc[c] \in Middle => numOps[c] > 0

\* consumer.c opens the names in this order.
Opening ==
  /\ consumer = FILLED => opened[EMPTY] = "none"
  /\ consumer \in {EMPTY, CS_CONS, MEM, "fork"} => opened[FILLED] # "none"
  /\ consumer \in {CS_CONS, MEM, "fork"} => opened[EMPTY] # "none"
  /\ consumer = "fork" => opened[MEM] # "none"

\* How far the set-up is tells what the names can refer to: first what a crash
\* left, then nothing, then what this run made.
SettingUp ==
  /\ producer = "setup" => call <= 10
  /\ producer \in {"fork", "close", "ended"} => call = 11
  /\ names[FILLED] = "old" => call <= 1
  /\ names[FILLED] = "new" => call > 5
  /\ names[EMPTY] = "old" => call <= 2
  /\ names[EMPTY] = "new" => call > 6
  /\ names[CS_PROD] = "old" => call <= 3
  /\ names[CS_PROD] = "new" => call > 7
  /\ names[MEM] = "old" => call <= 8
  /\ names[MEM] = "new" => call > 9

\* Who has this run's sem_filled has, or will have, this run's sem_empty too.
Found ==
  /\ opened[FILLED] = "new" => call > 5
  /\ opened[EMPTY] = "new" => call > 6
  /\ opened[FILLED] = "new" => opened[EMPTY] # "old"

\* From the creation of sem_empty on the slots are conserved, unless workers
\* take from the sem_filled of a crashed run.
Tokens ==
  /\ call = 6 => sem[FILLED]["new"] = 0
  /\ call > 6 /\ (opened[FILLED] # "old" \/ NoConsumer) =>
       sem[EMPTY]["new"] + sem[FILLED]["new"] + Held = BUFFER_SIZE

Inv == TypeOK /\ ProducerSetsUp /\ Forked /\ Opening /\ SettingUp /\ Found /\ Tokens

-----------------------------------------------------------------------------
(* The operators *)

WorkerLabels == {"unborn", "loop", "wait_cs", "write", "read", "advance", "post_cs", "post",
                 "done"}

LEMMA Constants ==
  /\ BUFFER_SIZE \in Nat \ {0} /\ ConsumerStarts \in Nat
  /\ OPS_PER_PRODUCER \in Nat /\ OPS_PER_CONSUMER \in Nat
  /\ Producers \subseteq Threads /\ Consumers \subseteq Threads /\ IsFiniteSet(Threads)
  /\ \A p \in Producers, c \in Consumers : p # c
  /\ \A t \in Threads : t \in Producers \/ t \in Consumers
  /\ 0 \in Slots /\ BUFFER_SIZE - 1 \in Slots
  /\ \A x \in Slots : (x + 1) % BUFFER_SIZE \in Slots
<1>1. IsFiniteSet(Threads)
  BY FS_Union, ThreadsAssumption DEF ThreadsAssumption, Threads
<1>2. 0 \in Slots /\ BUFFER_SIZE - 1 \in Slots
  BY SizesAssumption DEF SizesAssumption, Slots
<1>3. \A x \in Slots : (x + 1) % BUFFER_SIZE \in Slots
  BY SizesAssumption DEF SizesAssumption, Slots
<1> QED BY <1>1, <1>2, <1>3, SizesAssumption, ThreadsAssumption
    DEF SizesAssumption, ThreadsAssumption, Threads

\* The names differ.
LEMMA NamesAre ==
  /\ FILLED \in SemNames /\ EMPTY \in SemNames /\ CS_PROD \in SemNames /\ CS_CONS \in SemNames
  /\ MEM \in Names /\ SemNames \subseteq Names /\ MEM \notin SemNames
  /\ FILLED # EMPTY /\ FILLED # CS_PROD /\ FILLED # CS_CONS /\ EMPTY # CS_PROD
  /\ EMPTY # CS_CONS /\ CS_PROD # CS_CONS
  /\ \A m \in {FILLED, EMPTY, CS_PROD, CS_CONS, MEM} :
       m \notin {"off", "fork", "close", "close_empty", "close_cs_prod", "close_cs_cons",
                 "ended", "failed"}
BY DEF FILLED, EMPTY, CS_PROD, CS_CONS, MEM, SemNames, Names

\* The calls of the producer's set-up, one by one.
LEMMA SetupIs ==
  /\ Len(Setup) = 10
  /\ Setup[1] = Unlink(FILLED) /\ Setup[2] = Unlink(EMPTY) /\ Setup[3] = Unlink(CS_PROD)
  /\ Setup[4] = Unlink(CS_CONS) /\ Setup[5] = Create(FILLED, 0)
  /\ Setup[6] = Create(EMPTY, BUFFER_SIZE) /\ Setup[7] = Create(CS_PROD, 1)
  /\ Setup[8] = Unlink(MEM) /\ Setup[9] = Create(MEM, 0)
  /\ Setup[10] = [op |-> "clear", name |-> MEM]
<1> DEFINE S == {InitSemaphores[k] : k \in 1..7} \cup {InitMemory[k] : k \in 1..3}
<1>1. InitSemaphores \in Seq(S) /\ Len(InitSemaphores) = 7
  BY DEF InitSemaphores
<1>2. InitMemory \in Seq(S) /\ Len(InitMemory) = 3
  BY DEF InitMemory
<1> HIDE DEF S
<1>3. /\ Len(Setup) = 7 + 3
      /\ \A k \in 1..(7 + 3) : Setup[k] = IF k <= 7 THEN InitSemaphores[k] ELSE InitMemory[k - 7]
  <2>1. /\ Len(Setup) = Len(InitSemaphores) + Len(InitMemory)
        /\ \A k \in 1..Len(InitSemaphores) + Len(InitMemory) :
             Setup[k] = IF k <= Len(InitSemaphores) THEN InitSemaphores[k]
                        ELSE InitMemory[k - Len(InitSemaphores)]
    BY <1>1, <1>2, ConcatProperties DEF Setup
  <2> QED BY <2>1, <1>1, <1>2
<1>4. /\ Len(Setup) = 10
      /\ \A k \in 1..7 : Setup[k] = InitSemaphores[k]
      /\ Setup[8] = InitMemory[1] /\ Setup[9] = InitMemory[2] /\ Setup[10] = InitMemory[3]
  BY <1>3
<1>5. /\ Setup[1] = Unlink(FILLED) /\ Setup[2] = Unlink(EMPTY) /\ Setup[3] = Unlink(CS_PROD)
      /\ Setup[4] = Unlink(CS_CONS) /\ Setup[5] = Create(FILLED, 0)
      /\ Setup[6] = Create(EMPTY, BUFFER_SIZE) /\ Setup[7] = Create(CS_PROD, 1)
  BY <1>4 DEF InitSemaphores
<1>6. /\ Setup[8] = Unlink(MEM) /\ Setup[9] = Create(MEM, 0)
      /\ Setup[10] = [op |-> "clear", name |-> MEM]
  BY <1>4 DEF InitMemory
<1> QED BY <1>4, <1>5, <1>6

\* One value of one semaphore changes.
LEMMA SemMoves ==
  ASSUME sem \in [SemNames -> [Generations -> Nat]], NEW m \in SemNames,
         NEW g \in Generations, NEW v \in Nat, sem' = [sem EXCEPT ![m][g] = v]
  PROVE  /\ sem' \in [SemNames -> [Generations -> Nat]]
         /\ sem'[m][g] = v
         /\ \A n \in SemNames, h \in Generations : n # m \/ h # g => sem'[n][h] = sem[n][h]
OBVIOUS

\* The slots that are held when one worker moves.
LEMMA HeldMoves ==
  ASSUME TypeOK, NEW t \in Threads, NEW to, pc' = [pc EXCEPT ![t] = to]
  PROVE  /\ Held \in Nat /\ Held' \in Nat
         /\ pc[t] \in Middle <=> to \in Middle => Held' = Held
         /\ pc[t] \notin Middle /\ to \in Middle => Held' = Held + 1
         /\ pc[t] \in Middle /\ to \notin Middle => Held' = Held - 1
<1> DEFINE A == At(Threads, Middle)
           B == At(Threads, Middle)'
<1>1. IsFiniteSet(A) /\ IsFiniteSet(B)
  BY Constants, FS_Subset DEF At
<1>2. Cardinality(A) \in Nat /\ Cardinality(B) \in Nat
  BY <1>1, FS_CardinalityType
<1>3. pc'[t] = to /\ \A x \in Threads : x # t => pc'[x] = pc[x]
  BY DEF TypeOK
<1>4. CASE pc[t] \in Middle <=> to \in Middle
  <2>1. A = B
    BY <1>3, <1>4 DEF At
  <2> QED BY <2>1, <1>2, <1>4 DEF Held
<1>5. CASE pc[t] \notin Middle /\ to \in Middle
  <2>1. B = A \cup {t} /\ t \notin A
    BY <1>3, <1>5 DEF At
  <2>2. Cardinality(B) = Cardinality(A) + 1
    BY <2>1, <1>1, FS_AddElement
  <2> QED BY <2>2, <1>2, <1>5 DEF Held
<1>6. CASE pc[t] \in Middle /\ to \notin Middle
  <2>1. A = B \cup {t} /\ t \notin B
    BY <1>3, <1>6 DEF At
  <2>2. Cardinality(A) = Cardinality(B) + 1
    BY <2>1, <1>1, FS_AddElement
  <2> QED BY <2>2, <1>2, <1>6 DEF Held
<1> QED BY <1>4, <1>5, <1>6

-----------------------------------------------------------------------------
(* The workers *)

\* A worker that has been forked moves and keeps the types.
Moves(t) ==
  /\ pc[t] # "unborn" /\ pc'[t] # "unborn" /\ pc' \in [Threads -> WorkerLabels]
  /\ \A x \in Threads : x # t => pc'[x] = pc[x]
  /\ numOps' \in [Threads -> Nat] /\ numOps'[t] <= numOps[t]
  /\ pc'[t] \in Middle => numOps'[t] > 0
  /\ \A x \in Threads : x # t => numOps'[x] = numOps[x]
  /\ UNCHANGED <<names, opened, call, producer, consumer, starts>>

DataOK ==
  /\ sem \in [SemNames -> [Generations -> Nat]]
  /\ buf \in [Generations -> [Slots -> Items \cup {NoItem}]]
  /\ read_index \in [Generations -> Slots] /\ write_index \in [Generations -> Slots]
  /\ consumed \in [Items \cup {NoItem} -> Nat]

\* The slots a worker leaves as many as they were.
SumKept ==
  sem'[EMPTY]["new"] + sem'[FILLED]["new"] + Held'
    = sem[EMPTY]["new"] + sem[FILLED]["new"] + Held

\* The step of a worker that keeps the sum of the slots, unless it takes from
\* the sem_filled of a crashed run.
LEMMA WorkerMoves ==
  ASSUME Inv, NEW t \in Threads, Moves(t), DataOK',
         call = 6 => sem'[FILLED]["new"] = sem[FILLED]["new"],
         (t \in Consumers => opened[FILLED] # "old") => SumKept
  PROVE  Inv'
<1> USE DEF Inv
<1>1. /\ pc[t] # "unborn" /\ pc'[t] # "unborn"
      /\ \A x \in Threads : x # t => pc'[x] = pc[x]
  BY DEF Moves
<1>2. TypeOK'
  BY DEF TypeOK, Moves, DataOK, WorkerLabels
<1>3. ProducerSetsUp' /\ Opening' /\ SettingUp' /\ Found'
  BY DEF ProducerSetsUp, Opening, SettingUp, Found, Moves
<1>4. Forked'
  <2>1. ASSUME NEW x \in Threads
        PROVE  /\ pc'[x] # "unborn" => pc[x] # "unborn"
               /\ pc'[x] \in Middle => x = t \/ pc[x] \in Middle
               /\ x # t => numOps'[x] = numOps[x]
    BY <1>1 DEF Moves
  <2>2. numOps'[t] <= numOps[t] /\ (pc'[t] \in Middle => numOps'[t] > 0)
    BY DEF Moves
  <2>3. ASSUME NEW p \in Producers
        PROVE  /\ pc'[p] # "unborn" => producer \in {"fork", "close", "ended"}
               /\ pc'[p] \in Middle => numOps'[p] > 0
               /\ numOps'[p] <= OPS_PER_PRODUCER
    <3>1. numOps[p] <= OPS_PER_PRODUCER /\ numOps[p] \in Nat /\ numOps'[p] \in Nat
      BY Constants DEF Forked, TypeOK, Moves
    <3>2. numOps'[p] <= OPS_PER_PRODUCER
      BY <2>1, <2>2, <3>1, Constants
    <3> QED BY <3>2, <2>1, <2>2, Constants DEF Forked
  <2>4. ASSUME NEW c \in Consumers
        PROVE  /\ pc'[c] # "unborn" => pc[c] # "unborn"
               /\ pc'[c] \in Middle => numOps'[c] > 0
    BY <2>1, <2>2, Constants DEF Forked
  <2>5. UNCHANGED <<producer, consumer, opened>>
    BY DEF Moves
  <2> QED BY <2>3, <2>4, <2>5 DEF Forked
<1>5. NoConsumer' <=> NoConsumer
  <2>1. \A x \in Threads : pc'[x] = "unborn" <=> pc[x] = "unborn"
    BY <1>1
  <2> QED BY <2>1, Constants DEF NoConsumer
<1>6. Tokens'
  <2>1. t \in Consumers => ~NoConsumer
    BY <1>1 DEF NoConsumer
  <2>2. opened' = opened /\ call' = call
    BY DEF Moves
  <2>3. call' = 6 => sem'[FILLED]["new"] = 0
    BY <2>2 DEF Tokens
  <2>4. ASSUME call' > 6, opened'[FILLED] # "old" \/ NoConsumer'
        PROVE  sem'[EMPTY]["new"] + sem'[FILLED]["new"] + Held' = BUFFER_SIZE
    BY <2>1, <2>2, <2>4, <1>5 DEF Tokens, SumKept
  <2> QED BY <2>3, <2>4 DEF Tokens
<1> QED BY <1>2, <1>3, <1>4, <1>6

\* One worker goes from a label to another, and its numOps remain.
LEMMA Steps ==
  ASSUME Inv, NEW t \in Threads, NEW to \in WorkerLabels \ {"unborn"},
         pc' = [pc EXCEPT ![t] = to], pc[t] # "unborn",
         UNCHANGED <<numOps, names, opened, call, producer, consumer, starts>>,
         to \in Middle => pc[t] \in Middle \/ numOps[t] > 0
  PROVE  Moves(t)
<1>1. /\ pc'[t] = to /\ pc' \in [Threads -> WorkerLabels]
      /\ \A x \in Threads : x # t => pc'[x] = pc[x]
  BY DEF Inv, TypeOK, WorkerLabels
<1>2. numOps \in [Threads -> Nat] /\ (pc[t] \in Middle => numOps[t] > 0)
  BY Constants DEF Inv, TypeOK, Forked
<1> QED BY <1>1, <1>2 DEF Moves

\* It takes the last step of an operation.
LEMMA LastStep ==
  ASSUME Inv, NEW t \in Threads, pc[t] = "post", pc' = [pc EXCEPT ![t] = "loop"],
         numOps' = [numOps EXCEPT ![t] = @ - 1],
         UNCHANGED <<names, opened, call, producer, consumer, starts>>
  PROVE  Moves(t)
<1>1. /\ pc'[t] = "loop" /\ pc' \in [Threads -> WorkerLabels]
      /\ \A x \in Threads : x # t => pc'[x] = pc[x]
  BY DEF Inv, TypeOK, WorkerLabels
<1>2. numOps \in [Threads -> Nat] /\ numOps[t] > 0
  BY Constants DEF Inv, TypeOK, Forked, Middle
<1>3. numOps[t] - 1 \in Nat /\ numOps[t] \in Nat
  BY <1>2
<1>4. /\ numOps' \in [Threads -> Nat] /\ numOps'[t] = numOps[t] - 1
      /\ \A x \in Threads : x # t => numOps'[x] = numOps[x]
  BY <1>2, <1>3
<1> QED BY <1>1, <1>3, <1>4 DEF Moves, Middle

\* A worker of the producer: sem_empty, the mutex, the slot, the mutex again,
\* and sem_filled.
LEMMA ProduceNext ==
  ASSUME Inv, NEW p \in Producers, Produce(p)
  PROVE  Inv'
<1>t. DataOK /\ TypeOK /\ sem \in [SemNames -> [Generations -> Nat]]
  BY DEF Inv, TypeOK, DataOK
<1>p. p \in Threads /\ "new" \in Generations /\ numOps[p] \in Nat
  BY Constants DEF Inv, TypeOK, Generations
<1>s. /\ sem[EMPTY]["new"] \in Nat /\ sem[FILLED]["new"] \in Nat /\ sem[CS_PROD]["new"] \in Nat
      /\ Held \in Nat
  BY <1>t, <1>p, NamesAre, Constants, FS_Subset, FS_CardinalityType DEF Held, At
<1>c. pc[p] # "unborn" => call # 6
  BY DEF Inv, Forked, SettingUp
<1>1. CASE ProduceWaitEmpty(p)
  <2>1. /\ numOps[p] > 0 /\ sem[EMPTY]["new"] > 0 /\ pc[p] = "loop"
        /\ sem' = [sem EXCEPT ![EMPTY]["new"] = sem[EMPTY]["new"] - 1]
        /\ pc' = [pc EXCEPT ![p] = "wait_cs"]
        /\ UNCHANGED <<names, opened, buf, read_index, write_index, consumed, numOps, call,
                       producer, consumer, starts>>
    BY <1>1 DEF ProduceWaitEmpty, Goto, memory
  <2>2. Moves(p)
    BY <2>1, <1>p, Steps DEF WorkerLabels
  <2>3. sem[EMPTY]["new"] - 1 \in Nat
    BY <2>1, <1>s
  <2>4. /\ sem' \in [SemNames -> [Generations -> Nat]]
        /\ sem'[EMPTY]["new"] = sem[EMPTY]["new"] - 1
        /\ sem'[FILLED]["new"] = sem[FILLED]["new"]
    BY <2>1, <2>3, <1>p, <1>t, NamesAre, SemMoves
  <2>5. DataOK'
    BY <2>1, <2>4, <1>t DEF DataOK
  <2>6. Held' = Held + 1
    BY <2>1, <1>p, <1>t, HeldMoves DEF Middle
  <2>7. SumKept
    <3>1. /\ sem'[EMPTY]["new"] = sem[EMPTY]["new"] - 1
          /\ sem'[FILLED]["new"] = sem[FILLED]["new"]
      BY <2>4
    <3> QED BY <3>1, <2>6, <1>s DEF SumKept
  <2>8. sem'[FILLED]["new"] = sem[FILLED]["new"]
    BY <2>4
  <2> QED BY <2>2, <2>5, <2>7, <2>8, <1>p, WorkerMoves
<1>2. ASSUME NEW v \in Nat, NEW to \in {"write", "post"}, pc[p] \in Middle,
             pc' = [pc EXCEPT ![p] = to], sem' = [sem EXCEPT ![CS_PROD]["new"] = v],
             UNCHANGED <<names, opened, buf, read_index, write_index, consumed, numOps, call,
                         producer, consumer, starts>>
      PROVE  Inv'
  <2>1. Moves(p)
    BY <1>2, <1>p, Steps DEF WorkerLabels, Middle
  <2>2. /\ sem' \in [SemNames -> [Generations -> Nat]]
        /\ sem'[EMPTY]["new"] = sem[EMPTY]["new"] /\ sem'[FILLED]["new"] = sem[FILLED]["new"]
    BY <1>2, <1>p, <1>t, NamesAre, SemMoves
  <2>3. DataOK'
    BY <2>2, <1>2, <1>t DEF DataOK
  <2>4. Held' = Held
    BY <1>2, <1>p, <1>t, HeldMoves DEF Middle
  <2>5. SumKept
    BY <2>2, <2>4 DEF SumKept
  <2> QED BY <2>1, <2>2, <2>3, <2>5, <1>p, WorkerMoves
<1>3. CASE ProduceWaitCs(p)
  <2>1. sem[CS_PROD]["new"] - 1 \in Nat
    BY <1>3, <1>s DEF ProduceWaitCs
  <2> QED BY <2>1, <1>2, <1>3 DEF ProduceWaitCs, Goto, memory, Middle
<1>4. CASE ProducePostCs(p)
  <2>1. sem[CS_PROD]["new"] + 1 \in Nat
    BY <1>s
  <2> QED BY <2>1, <1>2, <1>4 DEF ProducePostCs, Goto, memory, Middle
<1>5. CASE ProduceWrite(p)
  <2>1. /\ pc[p] = "write" /\ pc' = [pc EXCEPT ![p] = "advance"]
        /\ buf' = [buf EXCEPT !["new"][write_index["new"]] = <<p, numOps[p]>>]
        /\ UNCHANGED <<names, sem, opened, read_index, write_index, consumed, numOps, call,
                       producer, consumer, starts>>
    BY <1>5 DEF ProduceWrite, Goto
  <2>2. Moves(p)
    BY <2>1, <1>p, Steps DEF WorkerLabels, Middle
  <2>3. <<p, numOps[p]>> \in Items
    <3>1. numOps[p] > 0 /\ numOps[p] <= OPS_PER_PRODUCER
      BY <2>1 DEF Middle, Inv, Forked
    <3> QED BY <3>1, <1>p, Constants DEF Items
  <2>4. DataOK'
    BY <2>1, <2>3, <1>t, <1>p DEF DataOK
  <2>5. Held' = Held
    BY <2>1, <1>p, <1>t, HeldMoves DEF Middle
  <2>6. SumKept /\ sem' = sem
    BY <2>1, <2>5 DEF SumKept
  <2> QED BY <2>2, <2>4, <2>6, <1>p, WorkerMoves
<1>6. CASE ProduceAdvance(p)
  <2>1. /\ pc[p] = "advance" /\ pc' = [pc EXCEPT ![p] = "post_cs"]
        /\ write_index' = [write_index EXCEPT !["new"] = (write_index["new"] + 1) % BUFFER_SIZE]
        /\ UNCHANGED <<names, sem, opened, buf, read_index, consumed, numOps, call, producer,
                       consumer, starts>>
    BY <1>6 DEF ProduceAdvance, Goto
  <2>2. Moves(p)
    BY <2>1, <1>p, Steps DEF WorkerLabels, Middle
  <2>3. write_index' \in [Generations -> Slots]
    BY <2>1, <1>t, <1>p, Constants DEF DataOK
  <2>4. DataOK'
    BY <2>1, <2>3, <1>t DEF DataOK
  <2>5. Held' = Held
    BY <2>1, <1>p, <1>t, HeldMoves DEF Middle
  <2>6. SumKept /\ sem' = sem
    BY <2>1, <2>5 DEF SumKept
  <2> QED BY <2>2, <2>4, <2>6, <1>p, WorkerMoves
<1>7. CASE ProducePostFilled(p)
  <2>1. /\ pc[p] = "post" /\ pc' = [pc EXCEPT ![p] = "loop"]
        /\ sem' = [sem EXCEPT ![FILLED]["new"] = sem[FILLED]["new"] + 1]
        /\ UNCHANGED <<names, opened, buf, read_index, write_index, consumed, call, producer,
                       consumer, starts>>
    BY <1>7 DEF ProducePostFilled, Goto, memory
  <2>2. Moves(p)
    BY <1>7, <1>p, LastStep DEF ProducePostFilled, Goto
  <2>3. sem[FILLED]["new"] + 1 \in Nat
    BY <1>s
  <2>4. /\ sem' \in [SemNames -> [Generations -> Nat]]
        /\ sem'[FILLED]["new"] = sem[FILLED]["new"] + 1
        /\ sem'[EMPTY]["new"] = sem[EMPTY]["new"]
    BY <2>1, <2>3, <1>p, <1>t, NamesAre, SemMoves
  <2>5. DataOK'
    BY <2>1, <2>4, <1>t DEF DataOK
  <2>6. Held' = Held - 1
    <3>1. pc[p] \in Middle /\ "loop" \notin Middle /\ pc' = [pc EXCEPT ![p] = "loop"]
      BY <2>1 DEF Middle
    <3> QED BY <3>1, <1>p, <1>t, HeldMoves
  <2>7. SumKept
    <3>1. /\ sem'[FILLED]["new"] = sem[FILLED]["new"] + 1
          /\ sem'[EMPTY]["new"] = sem[EMPTY]["new"]
      BY <2>4
    <3> QED BY <3>1, <2>6, <1>s DEF SumKept
  <2>8. call # 6
    BY <2>1, <1>c
  <2> QED BY <2>2, <2>5, <2>7, <2>8, <1>p, WorkerMoves
<1> QED BY <1>1, <1>3, <1>4, <1>5, <1>6, <1>7 DEF Produce

\* A worker of the consumer works on what its program has opened, but for the
\* mutex, which its program has made.
LEMMA ConsumeNext ==
  ASSUME Inv, NEW c \in Consumers, Consume(c)
  PROVE  Inv'
<1>t. DataOK /\ TypeOK /\ sem \in [SemNames -> [Generations -> Nat]]
  BY DEF Inv, TypeOK, DataOK
<1>p. c \in Threads /\ "new" \in Generations /\ numOps[c] \in Nat
  BY Constants DEF Inv, TypeOK, Generations
<1>s. /\ sem[EMPTY]["new"] \in Nat /\ sem[FILLED]["new"] \in Nat /\ sem[CS_CONS]["new"] \in Nat
      /\ Held \in Nat
  BY <1>t, <1>p, NamesAre, Constants, FS_Subset, FS_CardinalityType DEF Held, At
<1>o. pc[c] # "unborn" =>
        /\ opened[FILLED] \in Generations /\ opened[EMPTY] \in Generations
        /\ opened[MEM] \in Generations
        /\ opened[FILLED] = "new" => opened[EMPTY] = "new" /\ call # 6
        /\ opened[FILLED] # "old" => opened[FILLED] = "new"
  <2>1. opened \in [Names -> Generations \cup {"none"}]
    BY DEF Inv, TypeOK
  <2>2. pc[c] # "unborn" => /\ opened[FILLED] \in Generations /\ opened[EMPTY] \in Generations
                            /\ opened[MEM] \in Generations
    BY <2>1, NamesAre DEF Inv, Forked
  <2> QED BY <2>2 DEF Generations, Inv, Found
<1>1. CASE ConsumeWaitFilled(c)
  <2> DEFINE g == opened[FILLED]
  <2>1. /\ numOps[c] > 0 /\ sem[FILLED][g] > 0 /\ pc[c] = "loop"
        /\ sem' = [sem EXCEPT ![FILLED][g] = sem[FILLED][g] - 1]
        /\ pc' = [pc EXCEPT ![c] = "wait_cs"]
        /\ UNCHANGED <<names, opened, buf, read_index, write_index, consumed, numOps, call,
                       producer, consumer, starts>>
    BY <1>1 DEF ConsumeWaitFilled, Goto, memory
  <2>g. g \in Generations /\ (g # "old" => g = "new" /\ call # 6) /\ (g = "old" => g # "new")
    BY <2>1, <1>o
  <2> HIDE DEF g
  <2>2. Moves(c)
    BY <2>1, <1>p, Steps DEF WorkerLabels
  <2>3. sem[FILLED][g] - 1 \in Nat
    BY <2>1, <2>g, <1>t, NamesAre
  <2>4. /\ sem' \in [SemNames -> [Generations -> Nat]]
        /\ sem'[FILLED][g] = sem[FILLED][g] - 1
        /\ sem'[EMPTY]["new"] = sem[EMPTY]["new"]
        /\ g # "new" => sem'[FILLED]["new"] = sem[FILLED]["new"]
    BY <2>1, <2>3, <2>g, <1>p, <1>t, NamesAre, SemMoves
  <2>5. DataOK'
    BY <2>1, <2>4, <1>t DEF DataOK
  <2>6. Held' = Held + 1
    BY <2>1, <1>p, <1>t, HeldMoves DEF Middle
  <2>7. g # "old" => SumKept
    <3>1. ASSUME g # "old"
          PROVE  /\ sem'[FILLED]["new"] = sem[FILLED]["new"] - 1
                 /\ sem'[EMPTY]["new"] = sem[EMPTY]["new"]
      BY <2>4, <2>g, <3>1
    <3> QED BY <3>1, <2>6, <1>s DEF SumKept
  <2>8. call = 6 => sem'[FILLED]["new"] = sem[FILLED]["new"]
    BY <2>4, <2>g
  <2> QED BY <2>2, <2>5, <2>7, <2>8, <1>p, WorkerMoves DEF g
<1>2. ASSUME NEW v \in Nat, NEW to \in {"read", "post"}, pc[c] \in Middle,
             pc' = [pc EXCEPT ![c] = to], sem' = [sem EXCEPT ![CS_CONS]["new"] = v],
             UNCHANGED <<names, opened, buf, read_index, write_index, consumed, numOps, call,
                         producer, consumer, starts>>
      PROVE  Inv'
  <2>1. Moves(c)
    BY <1>2, <1>p, Steps DEF WorkerLabels, Middle
  <2>2. /\ sem' \in [SemNames -> [Generations -> Nat]]
        /\ sem'[EMPTY]["new"] = sem[EMPTY]["new"] /\ sem'[FILLED]["new"] = sem[FILLED]["new"]
    BY <1>2, <1>p, <1>t, NamesAre, SemMoves
  <2>3. DataOK'
    BY <2>2, <1>2, <1>t DEF DataOK
  <2>4. Held' = Held
    BY <1>2, <1>p, <1>t, HeldMoves DEF Middle
  <2>5. SumKept
    BY <2>2, <2>4 DEF SumKept
  <2> QED BY <2>1, <2>2, <2>3, <2>5, <1>p, WorkerMoves
<1>3. CASE ConsumeWaitCs(c)
  <2>1. sem[CS_CONS]["new"] - 1 \in Nat
    BY <1>3, <1>s DEF ConsumeWaitCs
  <2> QED BY <2>1, <1>2, <1>3 DEF ConsumeWaitCs, Goto, memory, Middle
<1>4. CASE ConsumePostCs(c)
  <2>1. sem[CS_CONS]["new"] + 1 \in Nat
    BY <1>s
  <2> QED BY <2>1, <1>2, <1>4 DEF ConsumePostCs, Goto, memory, Middle
<1>5. CASE ConsumeRead(c)
  <2> DEFINE x == buf[opened[MEM]][read_index[opened[MEM]]]
  <2>1. /\ pc[c] = "read" /\ pc' = [pc EXCEPT ![c] = "advance"]
        /\ consumed' = [consumed EXCEPT ![x] = consumed[x] + 1]
        /\ UNCHANGED <<names, sem, opened, buf, read_index, write_index, numOps, call,
                       producer, consumer, starts>>
    BY <1>5 DEF ConsumeRead, Goto, memory
  <2>2. Moves(c)
    BY <2>1, <1>p, Steps DEF WorkerLabels, Middle
  <2>3. x \in Items \cup {NoItem}
    BY <2>1, <1>o, <1>t DEF DataOK
  <2> HIDE DEF x
  <2>4. consumed' \in [Items \cup {NoItem} -> Nat]
    <3>1. consumed[x] + 1 \in Nat
      BY <2>3, <1>t DEF DataOK
    <3> QED BY <3>1, <2>1, <2>3, <1>t DEF DataOK
  <2>5. DataOK'
    BY <2>1, <2>4, <1>t DEF DataOK
  <2>6. Held' = Held
    BY <2>1, <1>p, <1>t, HeldMoves DEF Middle
  <2>7. SumKept /\ sem' = sem
    BY <2>1, <2>6 DEF SumKept
  <2> QED BY <2>2, <2>5, <2>7, <1>p, WorkerMoves
<1>6. CASE ConsumeAdvance(c)
  <2> DEFINE g == opened[MEM]
  <2>1. /\ pc[c] = "advance" /\ pc' = [pc EXCEPT ![c] = "post_cs"]
        /\ read_index' = [read_index EXCEPT ![g] = (read_index[g] + 1) % BUFFER_SIZE]
        /\ UNCHANGED <<names, sem, opened, buf, write_index, consumed, numOps, call, producer,
                       consumer, starts>>
    BY <1>6 DEF ConsumeAdvance, Goto
  <2>2. Moves(c)
    BY <2>1, <1>p, Steps DEF WorkerLabels, Middle
  <2>3. g \in Generations
    BY <2>1, <1>o
  <2> HIDE DEF g
  <2>4. read_index' \in [Generations -> Slots]
    BY <2>1, <2>3, <1>t, Constants DEF DataOK
  <2>5. DataOK'
    BY <2>1, <2>4, <1>t DEF DataOK
  <2>6. Held' = Held
    BY <2>1, <1>p, <1>t, HeldMoves DEF Middle
  <2>7. SumKept /\ sem' = sem
    BY <2>1, <2>6 DEF SumKept
  <2> QED BY <2>2, <2>5, <2>7, <1>p, WorkerMoves
<1>7. CASE ConsumePostEmpty(c)
  <2> DEFINE g == opened[EMPTY]
  <2>1. /\ pc[c] = "post" /\ pc' = [pc EXCEPT ![c] = "loop"]
        /\ sem' = [sem EXCEPT ![EMPTY][g] = sem[EMPTY][g] + 1]
        /\ UNCHANGED <<names, opened, buf, read_index, write_index, consumed, call, producer,
                       consumer, starts>>
    BY <1>7 DEF ConsumePostEmpty, Goto, memory
  <2>g. g \in Generations /\ (opened[FILLED] # "old" => g = "new")
    BY <2>1, <1>o
  <2> HIDE DEF g
  <2>2. Moves(c)
    BY <1>7, <1>p, LastStep DEF ConsumePostEmpty, Goto
  <2>3. sem[EMPTY][g] + 1 \in Nat
    BY <2>g, <1>t, NamesAre
  <2>4. /\ sem' \in [SemNames -> [Generations -> Nat]]
        /\ sem'[EMPTY][g] = sem[EMPTY][g] + 1
        /\ sem'[FILLED]["new"] = sem[FILLED]["new"]
    BY <2>1, <2>3, <2>g, <1>p, <1>t, NamesAre, SemMoves
  <2>5. DataOK'
    BY <2>1, <2>4, <1>t DEF DataOK
  <2>6. Held' = Held - 1
    <3>1. pc[c] \in Middle /\ "loop" \notin Middle /\ pc' = [pc EXCEPT ![c] = "loop"]
      BY <2>1 DEF Middle
    <3> QED BY <3>1, <1>p, <1>t, HeldMoves
  <2>7. opened[FILLED] # "old" => SumKept
    <3>1. ASSUME g = "new"
          PROVE  /\ sem'[EMPTY]["new"] = sem[EMPTY]["new"] + 1
                 /\ sem'[FILLED]["new"] = sem[FILLED]["new"]
      BY <2>4, <3>1
    <3> QED BY <3>1, <2>g, <2>6, <1>s DEF SumKept
  <2>8. sem'[FILLED]["new"] = sem[FILLED]["new"]
    BY <2>4
  <2> QED BY <2>2, <2>5, <2>7, <2>8, <1>p, WorkerMoves
<1> QED BY <1>1, <1>3, <1>4, <1>5, <1>6, <1>7 DEF Consume

LEMMA ExitNext ==
  ASSUME Inv, NEW t \in Threads, WorkerExit(t)
  PROVE  Inv'
<1>1. /\ pc[t] = "loop" /\ pc' = [pc EXCEPT ![t] = "done"]
      /\ UNCHANGED <<names, sem, opened, buf, read_index, write_index, consumed, numOps, call,
                     producer, consumer, starts>>
  BY DEF WorkerExit, Goto, memory
<1>2. Moves(t)
  BY <1>1, Steps DEF WorkerLabels, Middle
<1>3. DataOK'
  BY <1>1 DEF Inv, TypeOK, DataOK
<1>4. Held' = Held
  <2>1. TypeOK /\ pc[t] \notin Middle /\ "done" \notin Middle /\ pc' = [pc EXCEPT ![t] = "done"]
    BY <1>1 DEF Inv, Middle
  <2> QED BY <2>1, HeldMoves
<1>5. SumKept /\ sem' = sem
  BY <1>1, <1>4 DEF SumKept
<1> QED BY <1>2, <1>3, <1>5, WorkerMoves

-----------------------------------------------------------------------------
(* The main programs *)

\* No worker moves, and what is opened changes only before there are workers.
LEMMA TokensKept ==
  ASSUME Tokens, UNCHANGED <<pc, call>>,
         sem'[EMPTY]["new"] = sem[EMPTY]["new"], sem'[FILLED]["new"] = sem[FILLED]["new"],
         opened'[FILLED] = opened[FILLED] \/ NoConsumer
  PROVE  Tokens'
BY DEF Tokens, Held, At, NoConsumer

\* A worker is forked.
LEMMA ForkNext ==
  ASSUME Inv, NEW t \in Threads,
         \/ t \in Producers /\ ProducerFork(t)
         \/ t \in Consumers /\ ConsumerFork(t)
  PROVE  Inv'
<1> USE DEF Inv
<1>1. /\ pc[t] = "unborn" /\ pc' = [pc EXCEPT ![t] = "loop"]
      /\ t \in Producers => producer = "fork"
      /\ t \in Consumers => consumer = "fork"
      /\ UNCHANGED <<names, sem, opened, buf, read_index, write_index, consumed, numOps, call,
                     producer, consumer, starts>>
  BY Constants DEF ProducerFork, ConsumerFork, Goto, memory
<1>2. pc'[t] = "loop" /\ \A x \in Threads : x # t => pc'[x] = pc[x]
  BY <1>1 DEF TypeOK
<1>3. TypeOK'
  BY <1>1 DEF TypeOK
<1>4. ProducerSetsUp' /\ Opening' /\ SettingUp' /\ Found'
  BY <1>1 DEF ProducerSetsUp, Opening, SettingUp, Found
<1>5. Forked'
  <2>1. UNCHANGED <<numOps, opened, producer, consumer>>
    BY <1>1
  <2>2. \A x \in Threads : /\ x # t => pc'[x] = pc[x]
                           /\ pc'[x] \in Middle => pc[x] \in Middle
    BY <1>2 DEF Middle
  <2>3. ASSUME t \in Consumers
        PROVE  /\ consumer \notin {"off", FILLED, EMPTY, CS_CONS, MEM}
               /\ opened[FILLED] # "none" /\ opened[EMPTY] # "none" /\ opened[MEM] # "none"
    BY <2>3, <1>1, NamesAre DEF Opening
  <2>4. t \in Producers => producer \in {"fork", "close", "ended"}
    BY <1>1
  <2> QED BY <2>1, <2>2, <2>3, <2>4, Constants DEF Forked
<1>6. Tokens'
  <2>1. Held' = Held
    <3>1. pc[t] \notin Middle /\ "loop" \notin Middle /\ pc' = [pc EXCEPT ![t] = "loop"]
      BY <1>1 DEF Middle
    <3> QED BY <3>1, HeldMoves
  <2>2. NoConsumer' => NoConsumer
    BY <1>1, <1>2, Constants DEF NoConsumer
  <2>3. UNCHANGED <<sem, opened, call>>
    BY <1>1
  <2> QED BY <2>1, <2>2, <2>3 DEF Tokens
<1> QED BY <1>3, <1>4, <1>5, <1>6

\* The producer waits for its workers and takes the memory's name away.
LEMMA ProducerEndNext ==
  ASSUME Inv, ProducerWaitAll \/ ProducerClose
  PROVE  Inv'
<1> USE DEF Inv
<1>1. /\ \/ producer = "fork" /\ producer' = "close" /\ UNCHANGED names
         \/ /\ producer = "close" /\ producer' = "ended"
            /\ names' = [names EXCEPT ![MEM] = "none"]
      /\ UNCHANGED <<sem, opened, buf, read_index, write_index, consumed, numOps, pc, call,
                     consumer, starts>>
  BY DEF ProducerWaitAll, ProducerClose, memory, workers
<1>2. /\ producer \in {"fork", "close"} /\ producer' \in {"close", "ended"}
      /\ names' \in [Names -> Generations \cup {"none"}]
      /\ \A m \in Names : names'[m] \in {names[m], "none"}
  BY <1>1, NamesAre DEF TypeOK
<1>3. TypeOK'
  BY <1>1, <1>2 DEF TypeOK
<1>4. ProducerSetsUp' /\ Opening' /\ Found'
  BY <1>1, <1>2 DEF ProducerSetsUp, Opening, Found
<1>5. SettingUp'
  <2>1. UNCHANGED call
    BY <1>1
  <2>2. /\ names'[FILLED] \in {names[FILLED], "none"} /\ names'[EMPTY] \in {names[EMPTY], "none"}
        /\ names'[CS_PROD] \in {names[CS_PROD], "none"} /\ names'[MEM] \in {names[MEM], "none"}
    BY <1>2, NamesAre
  <2> QED BY <2>1, <2>2, <1>2 DEF SettingUp
<1>6. Forked'
  BY <1>1, <1>2 DEF Forked
<1>7. Tokens'
  BY <1>1, TokensKept
<1> QED BY <1>3, <1>4, <1>5, <1>6, <1>7

\* consumer.c starts, or opens a name.
LEMMA ConsumerOpensNext ==
  ASSUME Inv, ConsumerStart \/ OpenSemaphores \/ OpenMemory
  PROVE  Inv'
<1> USE DEF Inv
<1>t. /\ opened \in [Names -> Generations \cup {"none"}]
      /\ names \in [Names -> Generations \cup {"none"}]
      /\ sem \in [SemNames -> [Generations -> Nat]]
  BY DEF TypeOK
<1>n. consumer \in {"off", FILLED, EMPTY, CS_CONS, MEM} => NoConsumer
  BY DEF Forked, NoConsumer
<1>1. CASE ConsumerStart
  <2>1. /\ NoConsumer /\ consumer' = FILLED /\ starts' = starts + 1 /\ starts < ConsumerStarts
        /\ opened' = [m \in Names |-> "none"]
        /\ UNCHANGED <<names, sem, buf, read_index, write_index, consumed, numOps, pc, call,
                       producer>>
    BY <1>1 DEF ConsumerStart, NoConsumer, memory, workers
  <2>2. opened'[FILLED] = "none" /\ opened'[EMPTY] = "none" /\ opened'[MEM] = "none"
    BY <2>1, NamesAre
  <2>3. TypeOK'
    BY <2>1, Constants DEF TypeOK
  <2>4. ProducerSetsUp' /\ Opening' /\ Found' /\ SettingUp'
    BY <2>1, <2>2, NamesAre DEF ProducerSetsUp, Opening, Found, SettingUp
  <2>5. Forked'
    BY <2>1 DEF Forked, NoConsumer, Middle
  <2>6. Tokens'
    BY <2>1, TokensKept
  <2> QED BY <2>3, <2>4, <2>5, <2>6
<1>2. ASSUME NEW m \in {FILLED, EMPTY, MEM}, NEW next,
             m = FILLED => next = EMPTY, m = EMPTY => next = CS_CONS, m = MEM => next = "fork",
             OpenStep(m, next)
      PROVE  Inv'
  <2>1. /\ consumer = m
        /\ \/ names[m] # "none" /\ opened' = [opened EXCEPT ![m] = names[m]] /\ consumer' = next
           \/ consumer' = "failed" /\ UNCHANGED opened
        /\ UNCHANGED <<names, sem, buf, read_index, write_index, consumed, numOps, pc, call,
                       producer, starts>>
    BY <1>2 DEF OpenStep, memory, workers
  <2>2. NoConsumer
    BY <2>1, <1>n
  <2>3. m \in Names /\ consumer' \in {EMPTY, CS_CONS, "fork", "failed"}
        /\ opened' \in [Names -> Generations \cup {"none"}]
    BY <2>1, <1>2, <1>t, NamesAre
  <2>4. TypeOK'
    BY <2>1, <2>3 DEF TypeOK
  <2>5. UNCHANGED <<names, sem, numOps, pc, call, producer>>
    BY <2>1
  <2>6. ProducerSetsUp' /\ SettingUp' /\ Forked' /\ Tokens'
    BY <2>2, <2>5, TokensKept DEF ProducerSetsUp, SettingUp, Forked, NoConsumer, Middle
  <2>7. Opening' /\ Found'
    <3>1. CASE consumer' = "failed" /\ UNCHANGED opened
      BY <3>1, <2>5, NamesAre DEF Opening, Found
    <3>2. CASE names[m] # "none" /\ opened' = [opened EXCEPT ![m] = names[m]]
               /\ consumer' = next
      <4>1. /\ opened'[m] = names[m] /\ opened'[m] # "none" /\ consumer = m /\ consumer' = next
            /\ \A n \in Names : n # m => opened'[n] = opened[n]
        BY <3>2, <2>1, <2>3, <1>t
      <4>2. FILLED \in Names /\ EMPTY \in Names /\ MEM \in Names
        BY NamesAre
      <4>3. CASE m = FILLED
        <5>1. /\ opened'[FILLED] = names[FILLED] /\ opened'[EMPTY] = opened[EMPTY]
              /\ consumer' = EMPTY /\ opened[EMPTY] = "none" /\ opened'[FILLED] # "none"
          BY <4>1, <4>2, <4>3, <1>2, NamesAre DEF Opening
        <5> QED BY <5>1, <2>5, NamesAre DEF Opening, Found, SettingUp
      <4>4. CASE m = EMPTY
        <5>1. /\ opened'[EMPTY] = names[EMPTY] /\ opened'[FILLED] = opened[FILLED]
              /\ consumer' = CS_CONS /\ opened[FILLED] # "none" /\ opened'[EMPTY] # "none"
          BY <4>1, <4>2, <4>4, <1>2, NamesAre DEF Opening
        <5>2. opened[FILLED] = "new" => names[EMPTY] # "old"
          BY DEF Found, SettingUp, TypeOK
        <5> QED BY <5>1, <5>2, <2>5, NamesAre DEF Opening, Found, SettingUp
      <4>5. CASE m = MEM
        <5>1. /\ opened'[EMPTY] = opened[EMPTY] /\ opened'[FILLED] = opened[FILLED]
              /\ consumer' = "fork" /\ opened[FILLED] # "none" /\ opened[EMPTY] # "none"
              /\ opened'[MEM] # "none"
          BY <4>1, <4>2, <4>5, <1>2, NamesAre DEF Opening
        <5> QED BY <5>1, <2>5, NamesAre DEF Opening, Found
      <4> QED BY <4>3, <4>4, <4>5, <1>2
    <3> QED BY <3>1, <3>2, <2>1
  <2> QED BY <2>4, <2>6, <2>7
<1>3. CASE CreateCsCons
  <2>1. /\ consumer = CS_CONS
        /\ \/ /\ names' = [names EXCEPT ![CS_CONS] = "new"]
              /\ sem' = [sem EXCEPT ![CS_CONS]["new"] = 1]
              /\ opened' = [opened EXCEPT ![CS_CONS] = "new"]
              /\ consumer' = MEM
           \/ consumer' = "failed" /\ UNCHANGED <<names, sem, opened>>
        /\ UNCHANGED <<buf, read_index, write_index, consumed, numOps, pc, call, producer,
                       starts>>
    BY <1>3 DEF CreateCsCons, memory, workers
  <2>2. NoConsumer
    BY <2>1, <1>n
  <2>3. /\ names' \in [Names -> Generations \cup {"none"}]
        /\ \A n \in Names : n # CS_CONS => names'[n] = names[n]
    BY <2>1, <1>t DEF Generations
  <2>4. /\ opened' \in [Names -> Generations \cup {"none"}]
        /\ \A n \in Names : n # CS_CONS => opened'[n] = opened[n]
    BY <2>1, <1>t DEF Generations
  <2>5. /\ sem' \in [SemNames -> [Generations -> Nat]]
        /\ sem'[EMPTY]["new"] = sem[EMPTY]["new"] /\ sem'[FILLED]["new"] = sem[FILLED]["new"]
    <3>1. CASE UNCHANGED sem
      BY <3>1, <1>t
    <3>2. CASE sem' = [sem EXCEPT ![CS_CONS]["new"] = 1]
      <4>1. "new" \in Generations /\ 1 \in Nat
        BY DEF Generations
      <4> QED BY <4>1, <3>2, <1>t, NamesAre, SemMoves
    <3> QED BY <3>1, <3>2, <2>1
  <2>6. consumer' \in {MEM, "failed"} /\ UNCHANGED <<numOps, pc, call, producer>>
    BY <2>1
  <2>7. TypeOK'
    BY <2>1, <2>3, <2>4, <2>5 DEF TypeOK
  <2>8. /\ names'[FILLED] = names[FILLED] /\ names'[EMPTY] = names[EMPTY]
        /\ names'[CS_PROD] = names[CS_PROD] /\ names'[MEM] = names[MEM]
        /\ opened'[FILLED] = opened[FILLED] /\ opened'[EMPTY] = opened[EMPTY]
    BY <2>3, <2>4, NamesAre
  <2>9. ProducerSetsUp' /\ SettingUp' /\ Found'
    BY <2>6, <2>8 DEF ProducerSetsUp, SettingUp, Found
  <2>10. Opening'
    BY <2>1, <2>6, <2>8, NamesAre DEF Opening
  <2>11. Forked' /\ Tokens'
    BY <2>2, <2>5, <2>6, <2>8, TokensKept DEF Forked, NoConsumer, Middle
  <2> QED BY <2>7, <2>9, <2>10, <2>11
<1> QED BY <1>1, <1>2, <1>3, NamesAre DEF OpenSemaphores, OpenMemory

\* consumer.c waits for its workers and takes the semaphores' names away.
LEMMA ConsumerEndNext ==
  ASSUME Inv, ConsumerWaitAll \/ CloseAndDestroySemaphores
  PROVE  Inv'
<1> USE DEF Inv
<1>1. /\ consumer \in {"fork", "close", "close_empty", "close_cs_prod", "close_cs_cons"}
      /\ consumer' \in {"close", "close_empty", "close_cs_prod", "close_cs_cons", "ended",
                        "failed"}
      /\ UNCHANGED names \/ \E m \in SemNames : names' = [names EXCEPT ![m] = "none"]
      /\ UNCHANGED <<sem, opened, buf, read_index, write_index, consumed, numOps, pc, call,
                     producer, starts>>
  BY NamesAre
  DEF ConsumerWaitAll, CloseAndDestroySemaphores, UnlinkSem, memory, workers
<1>2. /\ names' \in [Names -> Generations \cup {"none"}]
      /\ \A m \in Names : names'[m] \in {names[m], "none"}
  BY <1>1, NamesAre DEF TypeOK
<1>3. TypeOK'
  BY <1>1, <1>2 DEF TypeOK
<1>4. UNCHANGED <<sem, opened, numOps, pc, call, producer>>
  BY <1>1
<1>5. ProducerSetsUp' /\ Found' /\ Tokens'
  BY <1>4, TokensKept DEF ProducerSetsUp, Found
<1>6. Opening'
  BY <1>1, <1>4, NamesAre DEF Opening
<1>7. SettingUp'
  <2>1. /\ names'[FILLED] \in {names[FILLED], "none"} /\ names'[EMPTY] \in {names[EMPTY], "none"}
        /\ names'[CS_PROD] \in {names[CS_PROD], "none"} /\ names'[MEM] \in {names[MEM], "none"}
    BY <1>2, NamesAre
  <2> QED BY <2>1, <1>4 DEF SettingUp
<1>8. Forked'
  <2>1. consumer' \notin {"off", FILLED, EMPTY, CS_CONS, MEM}
    BY <1>1, NamesAre
  <2> QED BY <2>1, <1>4 DEF Forked
<1> QED BY <1>3, <1>5, <1>6, <1>7, <1>8

\* When sem_empty is made nobody holds a slot, unless of a crashed run.
LEMMA NoneHeld ==
  ASSUME Inv, producer = "setup", call <= 6, opened[FILLED] # "old" \/ NoConsumer
  PROVE  Held = 0
<1>1. \A p \in Producers : pc[p] = "unborn"
  BY DEF Inv, Forked
<1>2. \A c \in Consumers : pc[c] = "unborn"
  <2> SUFFICES ASSUME NEW c \in Consumers, pc[c] # "unborn" PROVE FALSE
    OBVIOUS
  <2>1. opened[FILLED] # "none" /\ opened[EMPTY] # "none" /\ opened[FILLED] # "old"
    BY DEF Inv, Forked, NoConsumer
  <2>2. opened[FILLED] = "new" /\ opened[EMPTY] = "new"
    BY <2>1, NamesAre DEF Inv, TypeOK, Found, Generations
  <2>3. call > 6 /\ call \in Nat
    BY <2>2 DEF Inv, TypeOK, Found
  <2> QED BY <2>3
<1>3. At(Threads, Middle) = {}
  BY <1>1, <1>2, Constants DEF At, Middle
<1> QED BY <1>3, FS_EmptySet DEF Held

\* A call of the set-up, told what it does to the names and the semaphores.
LEMMA CallMoves ==
  ASSUME Inv, producer = "setup", call \in 1..10, call' = call + 1,
         producer' = IF call = 10 THEN "fork" ELSE "setup",
         names' \in [Names -> Generations \cup {"none"}], DataOK',
         SettingUp',
         call = 5 => sem'[FILLED]["new"] = 0,
         call = 6 => /\ sem'[FILLED]["new"] = sem[FILLED]["new"]
                     /\ sem'[EMPTY]["new"] = BUFFER_SIZE,
         call > 6 => /\ sem'[FILLED]["new"] = sem[FILLED]["new"]
                     /\ sem'[EMPTY]["new"] = sem[EMPTY]["new"],
         UNCHANGED <<opened, numOps, pc, consumer, starts>>
  PROVE  Inv'
<1> USE DEF Inv
<1>1. TypeOK'
  BY SetupIs DEF TypeOK, DataOK
<1>2. ProducerSetsUp' /\ Opening' /\ Found'
  BY DEF ProducerSetsUp, Opening, Found
<1>3. Forked'
  BY DEF Forked
<1>4. Held' = Held /\ Held \in Nat
  BY Constants, FS_Subset, FS_CardinalityType DEF Held, At
<1>5. Tokens'
  <2>1. call' = 6 => sem'[FILLED]["new"] = 0
    OBVIOUS
  <2>2. ASSUME call' > 6, opened'[FILLED] # "old" \/ NoConsumer'
        PROVE  sem'[EMPTY]["new"] + sem'[FILLED]["new"] + Held' = BUFFER_SIZE
    <3>1. opened[FILLED] # "old" \/ NoConsumer
      BY <2>2 DEF NoConsumer
    <3>2. CASE call = 6
      <4>1. Held = 0
        BY <3>1, <3>2, NoneHeld
      <4>2. sem[FILLED]["new"] = 0
        BY <3>2 DEF Tokens
      <4> QED BY <3>2, <4>1, <4>2, <1>4, Constants
    <3>3. CASE call > 6
      BY <3>1, <3>3, <1>4 DEF Tokens
    <3> QED BY <2>2, <3>2, <3>3
  <2> QED BY <2>1, <2>2 DEF Tokens
<1> QED BY <1>1, <1>2, <1>3, <1>5

\* The set-up, call by call: no create finds its name.
LEMMA SetupNext ==
  ASSUME Inv, ProducerSetup
  PROVE  Inv'
<1>t. /\ names \in [Names -> Generations \cup {"none"}]
      /\ sem \in [SemNames -> [Generations -> Nat]] /\ DataOK
      /\ "new" \in Generations /\ "none" \in Generations \cup {"none"}
  BY DEF Inv, TypeOK, DataOK, Generations
<1>1. /\ producer = "setup" /\ call \in 1..10 /\ call' = call + 1
      /\ UNCHANGED <<opened, numOps, pc, consumer, starts>>
      /\ consumed' = consumed
  <2>1. call \in 1..11 /\ (producer = "setup" => call <= 10)
    BY SetupIs DEF Inv, TypeOK, SettingUp
  <2> QED BY <2>1 DEF ProducerSetup, workers
<1>s. SettingUp
  BY DEF Inv
<1>2. ASSUME NEW m \in Names, Setup[call] = Unlink(m),
             call \in {1, 2, 3, 4, 8},
             call = 1 => m = FILLED, call = 2 => m = EMPTY, call = 3 => m = CS_PROD,
             call = 4 => m = CS_CONS, call = 8 => m = MEM
      PROVE  Inv'
  <2>1. /\ names' = [names EXCEPT ![m] = "none"]
        /\ UNCHANGED <<sem, buf, read_index, write_index, producer>>
    BY <1>2 DEF ProducerSetup, UnlinkStep, Unlink, memory
  <2>2. /\ names' \in [Names -> Generations \cup {"none"}] /\ names'[m] = "none"
        /\ \A n \in Names : n # m => names'[n] = names[n]
    BY <2>1, <1>t
  <2>3. DataOK'
    BY <2>1, <1>1, <1>t DEF DataOK
  <2>4. SettingUp'
    <3>1. /\ FILLED \in Names /\ EMPTY \in Names /\ CS_PROD \in Names /\ MEM \in Names
      BY NamesAre
    <3>2. /\ names'[FILLED] = IF m = FILLED THEN "none" ELSE names[FILLED]
          /\ names'[EMPTY] = IF m = EMPTY THEN "none" ELSE names[EMPTY]
          /\ names'[CS_PROD] = IF m = CS_PROD THEN "none" ELSE names[CS_PROD]
          /\ names'[MEM] = IF m = MEM THEN "none" ELSE names[MEM]
      BY <2>2, <3>1
    <3>3. producer' = "setup" /\ call' = call + 1
      BY <2>1, <1>1
    <3> QED BY <3>2, <3>3, <1>1, <1>2, <1>s, NamesAre DEF SettingUp
  <2>5. producer' = IF call = 10 THEN "fork" ELSE "setup"
    BY <2>1, <1>1, <1>2
  <2>6. UNCHANGED sem /\ call # 5 /\ call # 6
    BY <2>1, <1>2
  <2> QED BY <2>2, <2>3, <2>4, <2>5, <2>6, <1>1, CallMoves
<1>3. ASSUME NEW m \in Names, NEW v \in Nat, Setup[call] = Create(m, v),
             call \in {5, 6, 7, 9},
             call = 5 => m = FILLED /\ v = 0, call = 6 => m = EMPTY /\ v = BUFFER_SIZE,
             call = 7 => m = CS_PROD, call = 9 => m = MEM
      PROVE  Inv'
  <2>1. names[m] = "none"
    <3>1. \/ call = 5 /\ names[m] = names[FILLED]
          \/ call = 6 /\ names[m] = names[EMPTY]
          \/ call = 7 /\ names[m] = names[CS_PROD]
          \/ call = 9 /\ names[m] = names[MEM]
      BY <1>3
    <3>2. names[m] \notin {"old", "new"}
      BY <3>1, <1>s DEF SettingUp
    <3>3. names[m] \in {"old", "new"} \cup {"none"}
      BY <1>t DEF Generations
    <3> QED BY <3>2, <3>3
  <2>2. /\ names' = [names EXCEPT ![m] = "new"]
        /\ sem' = IF m = MEM THEN sem ELSE [sem EXCEPT ![m]["new"] = v]
        /\ UNCHANGED <<buf, read_index, write_index, producer>>
    BY <1>3, <2>1 DEF ProducerSetup, CreateStep, Create, memory
  <2>3. /\ names' \in [Names -> Generations \cup {"none"}] /\ names'[m] = "new"
        /\ \A n \in Names : n # m => names'[n] = names[n]
    BY <2>2, <1>t
  <2>4. /\ sem' \in [SemNames -> [Generations -> Nat]]
        /\ m # MEM => sem'[m]["new"] = v
        /\ m # FILLED => sem'[FILLED]["new"] = sem[FILLED]["new"]
        /\ m # EMPTY => sem'[EMPTY]["new"] = sem[EMPTY]["new"]
    <3>1. CASE m = MEM
      BY <3>1, <2>2, <1>t
    <3>2. CASE m # MEM
      <4>1. m \in SemNames /\ sem' = [sem EXCEPT ![m]["new"] = v]
        BY <3>2, <2>2 DEF Names
      <4> QED BY <4>1, <1>t, NamesAre, SemMoves
    <3> QED BY <3>1, <3>2
  <2>5. DataOK'
    BY <2>2, <2>4, <1>1, <1>t DEF DataOK
  <2>6. SettingUp'
    <3>1. /\ FILLED \in Names /\ EMPTY \in Names /\ CS_PROD \in Names /\ MEM \in Names
      BY NamesAre
    <3>2. /\ names'[FILLED] = IF m = FILLED THEN "new" ELSE names[FILLED]
          /\ names'[EMPTY] = IF m = EMPTY THEN "new" ELSE names[EMPTY]
          /\ names'[CS_PROD] = IF m = CS_PROD THEN "new" ELSE names[CS_PROD]
          /\ names'[MEM] = IF m = MEM THEN "new" ELSE names[MEM]
      BY <2>3, <3>1
    <3>3. producer' = "setup" /\ call' = call + 1
      BY <2>2, <1>1
    <3> QED BY <3>2, <3>3, <1>1, <1>3, <1>s, NamesAre DEF SettingUp
  <2>7. producer' = IF call = 10 THEN "fork" ELSE "setup"
    BY <2>2, <1>1, <1>3
  <2>8. /\ call = 5 => sem'[FILLED]["new"] = 0
        /\ call = 6 => /\ sem'[FILLED]["new"] = sem[FILLED]["new"]
                       /\ sem'[EMPTY]["new"] = BUFFER_SIZE
        /\ call > 6 => /\ sem'[FILLED]["new"] = sem[FILLED]["new"]
                       /\ sem'[EMPTY]["new"] = sem[EMPTY]["new"]
    BY <2>4, <1>3, NamesAre
  <2> QED BY <2>3, <2>5, <2>6, <2>7, <2>8, <1>1, CallMoves
<1>4. CASE call = 10
  <2>1. /\ buf' = [buf EXCEPT !["new"] = [k \in Slots |-> NoItem]]
        /\ read_index' = [read_index EXCEPT !["new"] = BUFFER_SIZE - 1]
        /\ write_index' = [write_index EXCEPT !["new"] = 0]
        /\ producer' = "fork"
        /\ UNCHANGED <<names, sem>>
    BY <1>4, SetupIs DEF ProducerSetup, ClearStep
  <2>2. DataOK'
    BY <2>1, <1>1, <1>t, Constants DEF DataOK
  <2>3. SettingUp'
    BY <2>1, <1>1, <1>4, <1>s DEF SettingUp
  <2>4. UNCHANGED sem /\ producer' = (IF call = 10 THEN "fork" ELSE "setup")
        /\ names' \in [Names -> Generations \cup {"none"}]
    BY <2>1, <1>4, <1>t
  <2> QED BY <2>2, <2>3, <2>4, <1>1, <1>4, CallMoves
<1>5. CASE call \in {1, 2, 3, 4, 8}
  BY <1>2, <1>5, SetupIs, NamesAre
<1>6. CASE call \in {5, 6, 7, 9}
  BY <1>3, <1>6, SetupIs, NamesAre, Constants
<1> QED BY <1>1, <1>4, <1>5, <1>6

-----------------------------------------------------------------------------
(* The invariant and the theorems *)

LEMMA InvStarts == Init => Inv
<1> SUFFICES ASSUME Init PROVE Inv
  OBVIOUS
<1>1. /\ names \in [Names -> {"none", "old"}]
      /\ opened = [m \in Names |-> "none"]
      /\ pc = [t \in Threads |-> "unborn"]
      /\ numOps = [t \in Threads |-> IF t \in Producers THEN OPS_PER_PRODUCER
                                                        ELSE OPS_PER_CONSUMER]
      /\ call = 1 /\ producer = "setup" /\ consumer = "off" /\ starts = 0
  BY DEF Init
<1>2. /\ opened \in [Names -> Generations \cup {"none"}]
      /\ \A m \in Names : opened[m] = "none" /\ names[m] # "new"
  BY <1>1
<1>3. sem \in [SemNames -> [Generations -> Nat]]
  <2>1. PICK v \in 0..BUFFER_SIZE :
          sem = [m \in SemNames |-> [g \in Generations |->
                   IF m = FILLED /\ g = "old" THEN v ELSE 0]]
    BY DEF Init
  <2>2. v \in Nat
    BY Constants
  <2> QED BY <2>1, <2>2
<1>4. DataOK
  <2>1. buf \in [Generations -> [Slots -> Items \cup {NoItem}]]
    BY DEF Init
  <2>2. read_index \in [Generations -> Slots] /\ write_index \in [Generations -> Slots]
    BY Constants DEF Init
  <2>3. consumed \in [Items \cup {NoItem} -> Nat]
    BY DEF Init
  <2> QED BY <1>3, <2>1, <2>2, <2>3 DEF DataOK
<1>5. /\ numOps \in [Threads -> Nat]
      /\ \A p \in Producers : numOps[p] = OPS_PER_PRODUCER
      /\ \A t \in Threads : pc[t] = "unborn"
  BY <1>1, Constants
<1>6. TypeOK
  <2>1. names \in [Names -> Generations \cup {"none"}] /\ starts \in 0..ConsumerStarts
    BY <1>1, Constants DEF Generations
  <2> QED BY <1>1, <1>2, <1>4, <1>5, <2>1, SetupIs DEF TypeOK, DataOK
<1>7. ProducerSetsUp /\ Opening /\ SettingUp /\ Found /\ Tokens
  BY <1>1, <1>2, NamesAre DEF ProducerSetsUp, Opening, SettingUp, Found, Tokens
<1>8. Forked
  BY <1>1, <1>5, Constants DEF Forked, Middle
<1> QED BY <1>6, <1>7, <1>8 DEF Inv

LEMMA InvNext == Inv /\ [Next]_vars => Inv'
<1> SUFFICES ASSUME Inv, [Next]_vars PROVE Inv'
  OBVIOUS
<1>1. CASE ProducerMain
  BY <1>1, SetupNext, ProducerEndNext, ForkNext, Constants DEF ProducerMain
<1>2. CASE ConsumerMain \/ ConsumerStart
  BY <1>2, ConsumerOpensNext, ConsumerEndNext, ForkNext, Constants DEF ConsumerMain
<1>3. CASE \E p \in Producers : Produce(p)
  BY <1>3, ProduceNext
<1>4. CASE \E c \in Consumers : Consume(c)
  BY <1>4, ConsumeNext
<1>5. CASE \E t \in Threads : WorkerExit(t)
  BY <1>5, ExitNext
<1>6. CASE UNCHANGED vars
  <2>1. UNCHANGED <<names, sem, opened, buf, read_index, write_index, consumed, numOps, pc,
                    call, producer, consumer, starts>>
    BY <1>6 DEF vars, memory, workers
  <2>2. TypeOK'
    BY <2>1 DEF Inv, TypeOK
  <2>3. ProducerSetsUp' /\ Opening' /\ SettingUp' /\ Found' /\ Tokens'
    BY <2>1, TokensKept DEF Inv, ProducerSetsUp, Opening, SettingUp, Found
  <2>4. Forked'
    BY <2>1 DEF Inv, Forked
  <2> QED BY <2>2, <2>3, <2>4 DEF Inv
<1> QED BY <1>1, <1>2, <1>3, <1>4, <1>5, <1>6 DEF Next

LEMMA Invariance == Spec => []Inv
BY InvStarts, InvNext, PTL DEF Spec

\* Every index stays in the buffer, no semaphore is negative, and the set-up
\* never runs past its last call.
THEOREM Typing == Spec => []TypeOK
<1>1. Inv => TypeOK
  BY DEF Inv
<1> QED BY <1>1, Invariance, PTL

\* initSemaphores and initMemory never meet a name that exists, whatever a
\* crashed run has left and whenever consumer.c is started beside it.
THEOREM SetUpSucceeds == Spec => []ProducerSetsUp
<1>1. Inv => ProducerSetsUp
  BY DEF Inv
<1> QED BY <1>1, Invariance, PTL

\* From the end of the set-up on every slot is counted once, by sem_empty, by
\* sem_filled or by the worker that holds it.
THEOREM SlotsConserved == Spec => []TokenConservation
<1>1. Inv => TokenConservation
  BY DEF Inv, SettingUp, Tokens, TokenConservation, Held, Middle
<1> QED BY <1>1, Invariance, PTL
=============================================================================
