------------------------ MODULE ShmProducerConsumer ------------------------
(***************************************************************************)
(* Lab05/src/02: producer.c and consumer.c, two programs that share a ring *)
(* buffer in POSIX shared memory and find it, and the semaphores, by name. *)
(* Each program sets up (or opens) the named objects, forks its workers,   *)
(* waits for them and takes the names away again.                          *)
(*                                                                         *)
(* A name refers to at most one object.  An earlier run that crashed may   *)
(* have left any of the names behind; the objects they name are of         *)
(* generation "old", the ones created in this run of generation "new".  A  *)
(* program that opened an object keeps it after its name is gone.          *)
(***************************************************************************)
EXTENDS Integers, Sequences, FiniteSets

CONSTANTS Producers, Consumers,
          BUFFER_SIZE, OPS_PER_PRODUCER, OPS_PER_CONSUMER,
          ConsumerStarts, \* bound: how often consumer.c is started
          NoItem          \* the 0 of a slot that was never written

FILLED == "filled"
EMPTY  == "empty"
CS_PROD == "cs_prod"
CS_CONS == "cs_cons"
MEM    == "mem"

SemNames    == {FILLED, EMPTY, CS_PROD, CS_CONS}
Names       == SemNames \cup {MEM}
Generations == {"old", "new"}
Threads     == Producers \cup Consumers
Items       == Producers \X (1..OPS_PER_PRODUCER)
Slots       == 0..(BUFFER_SIZE - 1)

ASSUME ThreadsAssumption ==
  IsFiniteSet(Producers) /\ IsFiniteSet(Consumers) /\ Producers \cap Consumers = {}

ASSUME SizesAssumption ==
  /\ BUFFER_SIZE \in Nat \ {0} /\ ConsumerStarts \in Nat
  /\ OPS_PER_PRODUCER \in Nat /\ OPS_PER_CONSUMER \in Nat

\* common.h refuses to compile otherwise.
ASSUME OperationsMatch ==
  OPS_PER_CONSUMER * Cardinality(Consumers) = OPS_PER_PRODUCER * Cardinality(Producers)

VARIABLES names,     \* the object each name refers to: "none" or a generation
          sem,       \* the value of each semaphore, by name and generation
          opened,    \* the generation consumer.c holds of each name, or "none"
          buf, read_index, write_index,   \* the shared memory, by generation
          consumed,  \* how often each value was read by a consumer
          numOps,    \* the loop counter of each worker
          pc,        \* where each worker stands
          call,      \* the next call of the producer's set-up
          producer, consumer,   \* where the two main programs stand
          starts     \* how often consumer.c was started

memory == <<buf, read_index, write_index>>
workers == <<numOps, pc>>
vars == <<names, sem, opened, memory, consumed, workers, call, producer, consumer, starts>>

\* The run before may have died with any number of values in its buffer.
Init == /\ names \in [Names -> {"none", "old"}]
        /\ \E v \in 0..BUFFER_SIZE :
              /\ names[FILLED] = "none" => v = 0
              /\ sem = [m \in SemNames |-> [g \in Generations |->
                          IF m = FILLED /\ g = "old" THEN v ELSE 0]]
        /\ opened = [m \in Names |-> "none"]
        /\ buf = [g \in Generations |-> [i \in Slots |-> NoItem]]
        /\ read_index = [g \in Generations |-> 0]
        /\ write_index = [g \in Generations |-> 0]
        /\ consumed = [x \in Items \cup {NoItem} |-> 0]
        /\ numOps = [t \in Threads |-> IF t \in Producers THEN OPS_PER_PRODUCER
                                                          ELSE OPS_PER_CONSUMER]
        /\ pc = [t \in Threads |-> "unborn"]
        /\ call = 1
        /\ producer = "setup"
        /\ consumer = "off"
        /\ starts = 0

Goto(t, from, to) == /\ pc[t] = from
                     /\ pc' = [pc EXCEPT ![t] = to]

-----------------------------------------------------------------------------
(* producer.c: main *)

Unlink(m) == [op |-> "unlink", name |-> m]
Create(m, v) == [op |-> "create", name |-> m, value |-> v]

\* Mutation: initSemaphores does not unlink the name a crash left behind.
InitSemaphoresNoUnlink ==
  << Unlink(FILLED), Unlink(CS_PROD), Unlink(CS_CONS),
     Create(FILLED, 0), Create(EMPTY, BUFFER_SIZE), Create(CS_PROD, 1) >>

\* The calls initSemaphores makes, in order.
InitSemaphores ==
  << Unlink(FILLED), Unlink(EMPTY), Unlink(CS_PROD), Unlink(CS_CONS),
     Create(FILLED, 0), Create(EMPTY, BUFFER_SIZE), Create(CS_PROD, 1) >>

\* The calls initMemory makes; "clear" is ftruncate, mmap and the assignments.
InitMemory == << Unlink(MEM), Create(MEM, 0), [op |-> "clear", name |-> MEM] >>

Setup == InitSemaphores \o InitMemory

UnlinkStep(c) == /\ names' = [names EXCEPT ![c.name] = "none"]
                 /\ UNCHANGED <<sem, memory, producer>>

\* O_CREAT | O_EXCL: the call fails, and the program exits, if the name exists.
CreateStep(c) ==
  \/ /\ names[c.name] = "none"
     /\ names' = [names EXCEPT ![c.name] = "new"]
     /\ sem' = IF c.name = MEM THEN sem ELSE [sem EXCEPT ![c.name]["new"] = c.value]
     /\ UNCHANGED <<memory, producer>>
  \/ /\ names[c.name] # "none"
     /\ producer' = "failed"
     /\ UNCHANGED <<names, sem, memory>>

ClearStep == /\ buf' = [buf EXCEPT !["new"] = [i \in Slots |-> NoItem]]
             /\ read_index' = [read_index EXCEPT !["new"] = BUFFER_SIZE - 1]
             /\ write_index' = [write_index EXCEPT !["new"] = 0]
             /\ producer' = "fork"
             /\ UNCHANGED <<names, sem>>

ProducerSetup == /\ producer = "setup"
                 /\ call' = call + 1
                 /\ LET c == Setup[call] IN
                    \/ c.op = "unlink" /\ UnlinkStep(c)
                    \/ c.op = "create" /\ CreateStep(c)
                    \/ c.op = "clear" /\ ClearStep
                 /\ UNCHANGED <<opened, consumed, workers, consumer, starts>>

ProducerFork(p) == /\ producer = "fork"
                   /\ Goto(p, "unborn", "loop")
                   /\ UNCHANGED <<names, sem, opened, memory, consumed, numOps, producer,
                                  consumer, starts, call>>

ProducerWaitAll == /\ producer = "fork"
                   /\ \A p \in Producers : pc[p] = "done"
                   /\ producer' = "close"
                   /\ UNCHANGED <<names, sem, opened, memory, consumed, workers, consumer,
                                  starts, call>>

\* closeSemaphores only closes; closeMemory takes the name away too.
ProducerClose == /\ producer = "close"
                 /\ names[MEM] # "none"
                 /\ names' = [names EXCEPT ![MEM] = "none"]
                 /\ producer' = "ended"
                 /\ UNCHANGED <<sem, opened, memory, consumed, workers, consumer, starts, call>>

-----------------------------------------------------------------------------
(* producer.c: produce *)

ProduceWaitEmpty(p) == /\ numOps[p] > 0
                       /\ sem[EMPTY]["new"] > 0
                       /\ sem' = [sem EXCEPT ![EMPTY]["new"] = @ - 1]
                       /\ Goto(p, "loop", "wait_cs")
                       /\ UNCHANGED <<names, opened, memory, consumed, numOps, producer,
                                      consumer, starts, call>>

ProduceWaitCs(p) == /\ sem[CS_PROD]["new"] > 0
                    /\ sem' = [sem EXCEPT ![CS_PROD]["new"] = @ - 1]
                    /\ Goto(p, "wait_cs", "write")
                    /\ UNCHANGED <<names, opened, memory, consumed, numOps, producer,
                                   consumer, starts, call>>

ProduceWrite(p) == /\ buf' = [buf EXCEPT !["new"][write_index["new"]] = <<p, numOps[p]>>]
                   /\ Goto(p, "write", "advance")
                   /\ UNCHANGED <<names, sem, opened, read_index, write_index, consumed,
                                  numOps, producer, consumer, starts, call>>

\* Mutation: the index does not wrap.
ProduceAdvanceNoWrap(p) ==
  /\ write_index' = [write_index EXCEPT !["new"] = @ + 1]
  /\ Goto(p, "advance", "post_cs")
  /\ UNCHANGED <<names, sem, opened, buf, read_index, consumed, numOps, call, producer,
                 consumer, starts>>

ProduceAdvance(p) ==
  /\ write_index' = [write_index EXCEPT !["new"] = (@ + 1) % BUFFER_SIZE]
  /\ Goto(p, "advance", "post_cs")
  /\ UNCHANGED <<names, sem, opened, buf, read_index, consumed, numOps, producer, consumer,
                 starts, call>>

ProducePostCs(p) == /\ sem' = [sem EXCEPT ![CS_PROD]["new"] = @ + 1]
                    /\ Goto(p, "post_cs", "post")
                    /\ UNCHANGED <<names, opened, memory, consumed, numOps, producer,
                                   consumer, starts, call>>

ProducePostFilled(p) == /\ sem' = [sem EXCEPT ![FILLED]["new"] = @ + 1]
                        /\ numOps' = [numOps EXCEPT ![p] = @ - 1]
                        /\ Goto(p, "post", "loop")
                        /\ UNCHANGED <<names, opened, memory, consumed, producer, consumer,
                                       starts, call>>

-----------------------------------------------------------------------------
(* consumer.c: main *)

\* A start that found something missing may be repeated by hand.
ConsumerStart == /\ consumer \in {"off", "failed"}
                 /\ \A c \in Consumers : pc[c] = "unborn"
                 /\ starts < ConsumerStarts
                 /\ consumer' = FILLED
                 /\ starts' = starts + 1
                 /\ opened' = [m \in Names |-> "none"]
                 /\ UNCHANGED <<names, sem, memory, consumed, workers, producer, call>>

\* sem_open or shm_open of a name that must exist.
OpenStep(m, next) ==
  /\ consumer = m
  /\ \/ /\ names[m] # "none"
        /\ opened' = [opened EXCEPT ![m] = names[m]]
        /\ consumer' = next
     \/ /\ names[m] = "none"
        /\ consumer' = "failed"
        /\ UNCHANGED opened
  /\ UNCHANGED <<names, sem, memory, consumed, workers, producer, starts, call>>

\* sem_open(SEMNAME_CS_CONS, O_CREAT | O_EXCL, 0600, 1), with no unlink before.
CreateCsCons ==
  /\ consumer = CS_CONS
  /\ \/ /\ names[CS_CONS] = "none"
        /\ names' = [names EXCEPT ![CS_CONS] = "new"]
        /\ sem' = [sem EXCEPT ![CS_CONS]["new"] = 1]
        /\ opened' = [opened EXCEPT ![CS_CONS] = "new"]
        /\ consumer' = MEM
     \/ /\ names[CS_CONS] # "none"
        /\ consumer' = "failed"
        /\ UNCHANGED <<names, sem, opened>>
  /\ UNCHANGED <<memory, consumed, workers, producer, starts, call>>

OpenSemaphores == OpenStep(FILLED, EMPTY) \/ OpenStep(EMPTY, CS_CONS) \/ CreateCsCons

OpenMemory == OpenStep(MEM, "fork")

ConsumerFork(c) == /\ consumer = "fork"
                   /\ Goto(c, "unborn", "loop")
                   /\ UNCHANGED <<names, sem, opened, memory, consumed, numOps, producer,
                                  consumer, starts, call>>

ConsumerWaitAll == /\ consumer = "fork"
                   /\ \A c \in Consumers : pc[c] = "done"
                   /\ consumer' = "close"
                   /\ UNCHANGED <<names, sem, opened, memory, consumed, workers, producer,
                                  starts, call>>

\* A sem_unlink of closeAndDestroySemaphores: if it fails the program ends.
UnlinkSem(m, from, to) ==
  /\ consumer = from
  /\ consumer' = IF names[m] = "none" THEN "failed" ELSE to
  /\ names' = [names EXCEPT ![m] = "none"]
  /\ UNCHANGED <<sem, opened, memory, consumed, workers, producer, starts, call>>

\* Mutation: a name is forgotten.
CloseButCsProd == \/ UnlinkSem(FILLED, "close", "close_empty")
                  \/ UnlinkSem(EMPTY, "close_empty", "close_cs_cons")
                  \/ UnlinkSem(CS_CONS, "close_cs_cons", "ended")

CloseAndDestroySemaphores == \/ UnlinkSem(FILLED, "close", "close_empty")
                             \/ UnlinkSem(EMPTY, "close_empty", "close_cs_prod")
                             \/ UnlinkSem(CS_PROD, "close_cs_prod", "close_cs_cons")
                             \/ UnlinkSem(CS_CONS, "close_cs_cons", "ended")

-----------------------------------------------------------------------------
(* consumer.c: consume *)

ConsumeWaitFilled(c) ==
  /\ Goto(c, "loop", "wait_cs")
  /\ numOps[c] > 0
  /\ sem[FILLED][opened[FILLED]] > 0
  /\ sem' = [sem EXCEPT ![FILLED][opened[FILLED]] = @ - 1]
  /\ UNCHANGED <<names, opened, memory, consumed, numOps, producer, consumer, starts, call>>

ConsumeWaitCs(c) == /\ sem[CS_CONS]["new"] > 0
                    /\ sem' = [sem EXCEPT ![CS_CONS]["new"] = @ - 1]
                    /\ Goto(c, "wait_cs", "read")
                    /\ UNCHANGED <<names, opened, memory, consumed, numOps, producer,
                                   consumer, starts, call>>

ConsumeRead(c) ==
  LET g == opened[MEM] IN
  /\ Goto(c, "read", "advance")
  /\ consumed' = [consumed EXCEPT ![buf[g][read_index[g]]] = @ + 1]
  /\ UNCHANGED <<names, sem, opened, memory, numOps, producer, consumer, starts, call>>

ConsumeAdvance(c) ==
  /\ Goto(c, "advance", "post_cs")
  /\ read_index' = [read_index EXCEPT ![opened[MEM]] = (@ + 1) % BUFFER_SIZE]
  /\ UNCHANGED <<names, sem, opened, buf, write_index, consumed, numOps, producer, consumer,
                 starts, call>>

ConsumePostCs(c) == /\ sem' = [sem EXCEPT ![CS_CONS]["new"] = @ + 1]
                    /\ Goto(c, "post_cs", "post")
                    /\ UNCHANGED <<names, opened, memory, consumed, numOps, producer,
                                   consumer, starts, call>>

\* Mutation: the empty slot is not announced.
ConsumeNoPost(c) == /\ numOps' = [numOps EXCEPT ![c] = @ - 1]
                    /\ Goto(c, "post", "loop")
                    /\ UNCHANGED <<names, sem, opened, memory, consumed, producer, consumer,
                                   starts, call>>

ConsumePostEmpty(c) == /\ Goto(c, "post", "loop")
                       /\ sem' = [sem EXCEPT ![EMPTY][opened[EMPTY]] = @ + 1]
                       /\ numOps' = [numOps EXCEPT ![c] = @ - 1]
                       /\ UNCHANGED <<names, opened, memory, consumed, producer, consumer,
                                      starts, call>>

WorkerExit(t) == /\ numOps[t] = 0
                 /\ Goto(t, "loop", "done")
                 /\ UNCHANGED <<names, sem, opened, memory, consumed, numOps, producer,
                                consumer, starts, call>>

-----------------------------------------------------------------------------
ProducerMain == \/ ProducerSetup \/ ProducerWaitAll \/ ProducerClose
                \/ \E p \in Producers : ProducerFork(p)
ConsumerMain == \/ OpenSemaphores \/ OpenMemory \/ ConsumerWaitAll
                \/ CloseAndDestroySemaphores
                \/ \E c \in Consumers : ConsumerFork(c)
Produce(p) == \/ ProduceWaitEmpty(p) \/ ProduceWaitCs(p) \/ ProduceWrite(p)
              \/ ProduceAdvance(p) \/ ProducePostCs(p) \/ ProducePostFilled(p)
Consume(c) == \/ ConsumeWaitFilled(c) \/ ConsumeWaitCs(c) \/ ConsumeRead(c)
              \/ ConsumeAdvance(c) \/ ConsumePostCs(c) \/ ConsumePostEmpty(c)

Next == \/ ProducerMain \/ ConsumerMain \/ ConsumerStart
        \/ \E p \in Producers : Produce(p)
        \/ \E c \in Consumers : Consume(c)
        \/ \E t \in Threads : WorkerExit(t)

\* Programs and workers that can run do run; nobody has to start consumer.c.
Fairness == /\ WF_vars(ProducerMain) /\ WF_vars(ConsumerMain)
            /\ \A p \in Producers : WF_vars(Produce(p))
            /\ \A c \in Consumers : WF_vars(Consume(c))
            /\ \A t \in Threads : WF_vars(WorkerExit(t))

Spec == Init /\ [][Next]_vars /\ Fairness

-----------------------------------------------------------------------------
At(T, labels) == {t \in T : pc[t] \in labels}

TypeOK ==
  /\ names \in [Names -> Generations \cup {"none"}]
  /\ sem \in [SemNames -> [Generations -> Nat]]
  /\ opened \in [Names -> Generations \cup {"none"}]
  /\ buf \in [Generations -> [Slots -> Items \cup {NoItem}]]
  /\ read_index \in [Generations -> Slots] /\ write_index \in [Generations -> Slots]
  /\ consumed \in [Items \cup {NoItem} -> Nat]
  /\ numOps \in [Threads -> Nat]
  /\ pc \in [Threads -> {"unborn", "loop", "wait_cs", "write", "read", "advance", "post_cs",
                         "post", "done"}]
  /\ call \in 1..Len(Setup) + 1
  /\ producer \in {"setup", "fork", "close", "ended", "failed"}
  /\ consumer \in {"off", FILLED, EMPTY, CS_CONS, MEM, "fork", "close", "close_empty",
                   "close_cs_prod", "close_cs_cons", "ended", "failed"}
  /\ starts \in 0..ConsumerStarts

(***************************************************************************)
(* As soon as the producer has set up, every slot is counted once: by      *)
(* sem_empty, by sem_filled, or by one worker between its sem_wait and its *)
(* sem_post, in whichever of the two programs it runs - unless consumer.c  *)
(* was so early that it found the sem_filled of a crashed run.             *)
(***************************************************************************)
TokenConservation ==
  producer \in {"fork", "close", "ended"} /\ opened[FILLED] # "old" =>
    sem[EMPTY]["new"] + sem[FILLED]["new"]
      + Cardinality(At(Threads, {"wait_cs", "write", "read", "advance", "post_cs", "post"}))
      = BUFFER_SIZE

(***************************************************************************)
(* "delete state semaphores from a previous crash": whatever names a crash *)
(* left, and whenever consumer.c is started, the producer sets up.         *)
(***************************************************************************)
ProducerSetsUp == producer # "failed"

(***************************************************************************)
(* Once consumer.c has found this run's sem_filled and then all the other  *)
(* objects, both programs run to their end and leave no name behind for    *)
(* the next run to trip over.                                              *)
(***************************************************************************)
ForkedEndsClean ==
  (consumer = "fork" /\ opened[FILLED] = "new") ~>
     /\ producer = "ended" /\ consumer = "ended"
     /\ \A m \in Names : names[m] = "none"

(***************************************************************************)
(* "Initialize the shared memory to 0": both ends start at slot 0, so a    *)
(* consumer that shares this run's objects reads only values a producer    *)
(* wrote, and each at most once.  The code starts read_index at            *)
(* BUFFER_SIZE - 1 instead.                                                *)
(***************************************************************************)
ConsumesWhatWasProduced ==
  opened[FILLED] = "new" /\ opened[MEM] = "new" =>
     consumed[NoItem] = 0 /\ \A x \in Items : consumed[x] <= 1
=============================================================================
