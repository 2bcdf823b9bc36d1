--------------------------- MODULE ShmSpinBuffer ---------------------------
(***************************************************************************)
(* Lab05/src/03: one producer and one consumer share a ring buffer in      *)
(* shared memory without any semaphore.  The producer drops a value when   *)
(* the ring is full; the consumer spins while write_index < read_index.    *)
(***************************************************************************)
EXTENDS Naturals

CONSTANTS BUFFER_SIZE, NUM_OPERATIONS

Slots == 0..(BUFFER_SIZE - 1)

VARIABLES memory,      \* "none", "created" (its size still 0), "sized", "ready", "unlinked"
          read_index, write_index,   \* the ring; the values in it are left out
          producer, produced,   \* where produce stands, values generated so far
          consumer, consumed    \* where consume stands, values read so far

shared == <<memory, read_index, write_index>>
vars == <<shared, producer, produced, consumer, consumed>>

Init == /\ memory = "none"
        /\ read_index = 0 /\ write_index = 0
        /\ producer = "open" /\ produced = 0
        /\ consumer = "open" /\ consumed = 0

After(i) == (i + 1) % BUFFER_SIZE

-----------------------------------------------------------------------------
(* producer.c.  shm_unlink takes the name of an earlier run away first. *)

\* shm_open, ftruncate, and mmap with the assignments: three visible steps.
InitMemory ==
  /\ producer = "open"
  /\ \/ memory = "none" /\ memory' = "created" /\ UNCHANGED producer
     \/ memory = "created" /\ memory' = "sized" /\ UNCHANGED producer
     \/ memory = "sized" /\ memory' = "ready" /\ producer' = "check"
  /\ UNCHANGED <<produced, consumer, consumed>>
  /\ IF memory = "sized"
     THEN /\ read_index' = 0 /\ write_index' = 0
     ELSE UNCHANGED <<read_index, write_index>>

\* A value for which there is no room counts as an operation and is lost.
ProduceCheck ==
  /\ producer = "check" /\ produced < NUM_OPERATIONS
  /\ IF After(write_index) # read_index
     THEN producer' = "write" /\ UNCHANGED produced
     ELSE produced' = produced + 1 /\ UNCHANGED producer
  /\ UNCHANGED <<shared, consumer, consumed>>

\* buf[write_index] = value
ProduceWrite == /\ producer = "write"
                /\ producer' = "advance"
                /\ UNCHANGED <<shared, produced, consumer, consumed>>

ProduceAdvance == /\ producer = "advance"
                  /\ write_index' = After(write_index)
                  /\ produced' = produced + 1
                  /\ producer' = "check"
                  /\ UNCHANGED <<memory, read_index, consumer, consumed>>

CloseMemory == /\ producer = "check" /\ produced = NUM_OPERATIONS
               /\ memory' = "unlinked"
               /\ producer' = "ended"
               /\ UNCHANGED <<read_index, write_index, produced, consumer, consumed>>

-----------------------------------------------------------------------------
(* consumer.c *)

OpenMemory == /\ consumer = "open"
              /\ consumer' = IF memory \in {"none", "unlinked"} THEN "failed" ELSE "spin"
              /\ UNCHANGED <<shared, producer, produced, consumed>>

\* while (write_index < read_index); an access to memory that has no size yet
\* kills the program.
ConsumeSpin == /\ consumer = "spin" /\ consumed < NUM_OPERATIONS
               /\ memory = "created" \/ write_index >= read_index
               /\ consumer' = IF memory = "created" THEN "killed" ELSE "read"
               /\ UNCHANGED <<shared, producer, produced, consumed>>

\* value = buf[read_index]
ConsumeRead == /\ consumer = "read"
               /\ consumer' = "advance"
               /\ UNCHANGED <<shared, producer, produced, consumed>>

ConsumeAdvance == /\ consumer = "advance"
                  /\ read_index' = After(read_index)
                  /\ consumed' = consumed + 1
                  /\ consumer' = "spin"
                  /\ UNCHANGED <<memory, write_index, producer, produced>>

ConsumerClose == /\ consumer = "spin" /\ consumed = NUM_OPERATIONS
                 /\ consumer' = "ended"
                 /\ UNCHANGED <<shared, producer, produced, consumed>>

-----------------------------------------------------------------------------
Producer == InitMemory \/ ProduceCheck \/ ProduceWrite \/ ProduceAdvance \/ CloseMemory
Consumer == OpenMemory \/ ConsumeSpin \/ ConsumeRead \/ ConsumeAdvance \/ ConsumerClose

Next == Producer \/ Consumer

Fairness == WF_vars(Producer) /\ WF_vars(Consumer)

Spec == Init /\ [][Next]_vars /\ Fairness

-----------------------------------------------------------------------------
TypeOK == /\ memory \in {"none", "created", "sized", "ready", "unlinked"}
          /\ read_index \in Slots /\ write_index \in Slots
          /\ producer \in {"open", "check", "write", "advance", "ended"}
          /\ produced \in 0..NUM_OPERATIONS
          /\ consumer \in {"open", "spin", "read", "advance", "ended", "failed", "killed"}
          /\ consumed \in 0..NUM_OPERATIONS

(***************************************************************************)
(* "wait that there is something to read": a consumer that opened the      *)
(* memory in time waits for what will come, and ends.                      *)
(***************************************************************************)
ConsumerFinishes == consumer = "read" ~> consumer = "ended"
=============================================================================
