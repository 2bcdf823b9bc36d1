---------------------------- MODULE FifoProdCons ----------------------------
(***************************************************************************)
(* Lab07/src/01 prod_cons: the producers of one program hand values to the *)
(* consumers of another through a named FIFO.  producer.c unlinks a FIFO   *)
(* left by an earlier run and makes a new one; consumer.c opens the one it *)
(* finds.                                                                  *)
(*                                                                         *)
(* The FIFO is a stream of bytes, without a mutex on either side.  A step  *)
(* of a child process is one turn of the loop of writeValue or readValue:  *)
(* one write() or read(), that the kernel carries out in one piece and     *)
(* that may do less than it is asked for.  (No signal handler is installed,*)
(* so that EINTR does not occur.)                                          *)
(***************************************************************************)
EXTENDS Naturals, Sequences, FiniteSets

CONSTANTS Producers, Consumers, OPS_PER_PRODUCER, OPS_PER_CONSUMER,
          SIZEOF_INT,       \* bytes of an int
          FIFO_SIZE,        \* external: bytes the kernel's FIFO holds
          PIPE_BUF,         \* external: bytes the kernel never splits in a write
          CONSUMER_STARTS   \* bound: how often consumer.c is started

Threads == Producers \cup Consumers
Items   == Producers \X (1..OPS_PER_PRODUCER)
Bytes   == Items \X (1..SIZEOF_INT)

\* The bytes of value x from the first one to the last one given.
Part(x, first, last) == [b \in 1..(last - first + 1) |-> <<x, first + b - 1>>]
IntOf(x) == Part(x, 1, SIZEOF_INT)

ASSUME SizesAssumption ==
  /\ IsFiniteSet(Producers) /\ IsFiniteSet(Consumers) /\ Producers \cap Consumers = {}
  /\ OPS_PER_PRODUCER \in Nat /\ OPS_PER_CONSUMER \in Nat
  /\ SIZEOF_INT \in Nat \ {0} /\ FIFO_SIZE \in Nat /\ CONSUMER_STARTS \in Nat

\* POSIX asks for 512 bytes at least, which the FIFO also has room for.
ASSUME PipeBufAssumption ==
  PIPE_BUF \in Nat /\ SIZEOF_INT <= PIPE_BUF /\ PIPE_BUF <= FIFO_SIZE

\* The test the preprocessor makes at compile time.
ASSUME OperationsMatch ==
  OPS_PER_CONSUMER * Cardinality(Consumers) = OPS_PER_PRODUCER * Cardinality(Producers)

VARIABLES name,        \* what FIFO_NAME names: "none", an "old" FIFO, or the "new" one
          fifo,        \* the bytes in the new FIFO
          producer, consumer,   \* where the two main programs stand
          found,       \* the FIFO consumer.c has found
          numOps,      \* operations each child process still has to do
          value,       \* the bytes of its int that a child has written or read so far
          created,     \* the child processes that exist
          crashed,     \* those that have ended with an error
          consumed,    \* how often each value was read
          starts

children == <<numOps, value, created, crashed>>
vars == <<name, fifo, producer, consumer, found, children, consumed, starts>>

Init == /\ name \in {"none", "old"}
        /\ fifo = <<>>
        /\ producer = "unlink" /\ consumer = "off"
        /\ found = "none"
        /\ numOps = [t \in Threads |-> IF t \in Producers THEN OPS_PER_PRODUCER
                                                          ELSE OPS_PER_CONSUMER]
        /\ value = [t \in Threads |-> <<>>]
        /\ created = {} /\ crashed = {}
        /\ consumed = [x \in Items |-> 0]
        /\ starts = 0

\* The loop of writeValue or readValue stands at these bytes: thread t goes on
\* with them, or with its next operation.
Turn(t, bytes) ==
  LET complete == Len(bytes) = SIZEOF_INT IN
  /\ value' = [value EXCEPT ![t] = IF complete THEN <<>> ELSE bytes]
  /\ numOps' = [numOps EXCEPT ![t] = IF complete THEN @ - 1 ELSE @]

-----------------------------------------------------------------------------
(* producer.c *)

Unlink == /\ producer = "unlink"
          /\ name' = "none"
          /\ producer' = "mkfifo"
          /\ UNCHANGED <<fifo, consumer, found, children, consumed, starts>>

Mkfifo == /\ producer = "mkfifo"
          /\ name' = "new"
          /\ producer' = "open"
          /\ UNCHANGED <<fifo, consumer, found, children, consumed, starts>>

\* open(O_WRONLY) and open(O_RDONLY) wait for one another.
ProducerOpen == /\ producer = "open"
                /\ consumer \in {"open", "fork"} /\ found = "new"
                /\ producer' = "fork"
                /\ UNCHANGED <<name, fifo, consumer, found, children, consumed, starts>>

ProducerFork(p) == /\ producer = "fork" /\ p \notin created
                   /\ created' = created \cup {p}
                   /\ UNCHANGED <<name, fifo, producer, consumer, found, numOps, value,
                                  crashed, consumed, starts>>

\* What a write() of n bytes returns once there is room: up to PIPE_BUF bytes go
\* together, more may be split.
Written(n) == IF n <= PIPE_BUF THEN {n} ELSE 1..n

\* Mutation: the value is lost if the FIFO is full.
ProduceNonBlocking(p) ==
  /\ p \in created /\ numOps[p] > 0
  /\ LET int == IntOf(<<p, numOps[p]>>) IN
     /\ fifo' = IF Len(fifo) + SIZEOF_INT <= FIFO_SIZE THEN fifo \o int ELSE fifo
     /\ Turn(p, int)
  /\ UNCHANGED <<name, producer, consumer, found, created, crashed, consumed, starts>>

\* Mutation: the loop runs once too often.
ProduceOneMore(p) ==
  /\ p \in created /\ numOps[p] >= 0
  /\ Len(fifo) + SIZEOF_INT <= FIFO_SIZE
  /\ LET int == IntOf(<<p, numOps[p]>>) IN fifo' = fifo \o int /\ Turn(p, int)
  /\ UNCHANGED <<name, producer, consumer, found, created, crashed, consumed, starts>>

Produce(p) ==
  /\ p \in created /\ numOps[p] > 0
  /\ \E n \in Written(SIZEOF_INT - Len(value[p])) :
       LET bytes == Part(<<p, numOps[p]>>, Len(value[p]) + 1, Len(value[p]) + n) IN
       /\ Len(fifo) + n <= FIFO_SIZE
       /\ fifo' = fifo \o bytes
       /\ Turn(p, value[p] \o bytes)
  /\ UNCHANGED <<name, producer, consumer, found, created, crashed, consumed, starts>>

\* Mutation: the FIFO is closed but not unlinked.
CloseNoUnlink == /\ producer = "fork"
                 /\ created \cap Producers = Producers
                 /\ \A p \in Producers : numOps[p] = 0
                 /\ producer' = "ended"
                 /\ UNCHANGED <<name, fifo, consumer, found, children, consumed, starts>>

\* main has waited for all the children: close and unlink.
CloseProducer == /\ producer = "fork"
                 /\ created \cap Producers = Producers
                 /\ \A p \in Producers : numOps[p] = 0
                 /\ name' = "none"
                 /\ producer' = "ended"
                 /\ UNCHANGED <<fifo, consumer, found, children, consumed, starts>>

-----------------------------------------------------------------------------
(* consumer.c *)

\* openFIFO: no FIFO is an error; an old one is waited for in vain.
ConsumerStart == /\ consumer \in {"off", "failed"} /\ starts < CONSUMER_STARTS
                 /\ found' = name
                 /\ consumer' = IF name = "none" THEN "failed" ELSE "open"
                 /\ starts' = starts + 1
                 /\ UNCHANGED <<name, fifo, producer, children, consumed>>

ConsumerOpen == /\ consumer = "open" /\ found = "new"
                /\ producer \in {"open", "fork"}
                /\ consumer' = "fork"
                /\ UNCHANGED <<name, fifo, producer, found, children, consumed, starts>>

ConsumerFork(c) == /\ consumer = "fork" /\ c \notin created
                   /\ created' = created \cup {c}
                   /\ UNCHANGED <<name, fifo, producer, consumer, found, numOps, value,
                                  crashed, consumed, starts>>

\* A read() by c, at most asked of the bytes in the FIFO: a value whose bytes are
\* complete has been consumed, one put together from two has not.  At the end of
\* file (the FIFO is empty, and the producers have gone before their main
\* program closes it) c ends with an error.
ReadValue(c, asked) ==
  /\ c \in created \ crashed /\ numOps[c] > 0
  /\ IF fifo # <<>>
     THEN LET n     == IF asked < Len(fifo) THEN asked ELSE Len(fifo)
              bytes == value[c] \o SubSeq(fifo, 1, n)
          IN  /\ fifo' = SubSeq(fifo, n + 1, Len(fifo))
              /\ consumed' = [x \in Items |-> consumed[x] + (IF bytes = IntOf(x) THEN 1 ELSE 0)]
              /\ Turn(c, bytes)
              /\ UNCHANGED crashed
     ELSE /\ producer = "ended"
          /\ crashed' = crashed \cup {c}
          /\ UNCHANGED <<fifo, consumed, numOps, value>>
  /\ UNCHANGED <<name, producer, consumer, found, created, starts>>

\* Mutation: the int is read byte by byte, as readOneByOne of Lab06 does.
ConsumeOneByOne(c) == ReadValue(c, 1)

Consume(c) == ReadValue(c, SIZEOF_INT - Len(value[c]))

\* main has waited for all the children, or for one that has crashed.
CloseConsumer == /\ consumer = "fork"
                 /\ created \cap Consumers = Consumers
                 /\ crashed # {} \/ \A c \in Consumers : numOps[c] = 0
                 /\ consumer' = IF crashed = {} THEN "ended" ELSE "child crashed"
                 /\ UNCHANGED <<name, fifo, producer, found, children, consumed, starts>>

-----------------------------------------------------------------------------
ProducerMain == \/ Unlink \/ Mkfifo \/ ProducerOpen \/ CloseProducer
                \/ \E p \in Producers : ProducerFork(p)
ConsumerMain == \/ ConsumerOpen \/ CloseConsumer
                \/ \E c \in Consumers : ConsumerFork(c)

Next == \/ ProducerMain \/ ConsumerMain \/ ConsumerStart
        \/ \E p \in Producers : Produce(p)
        \/ \E c \in Consumers : Consume(c)

\* Started programs and their children run; nobody has to start consumer.c.
Fairness == /\ WF_vars(ProducerMain) /\ WF_vars(ConsumerMain)
            /\ \A p \in Producers : WF_vars(Produce(p))
            /\ \A c \in Consumers : WF_vars(Consume(c))

Spec == Init /\ [][Next]_vars /\ Fairness

-----------------------------------------------------------------------------
TypeOK ==
  /\ name \in {"none", "old", "new"} /\ found \in {"none", "old", "new"}
  /\ fifo \in Seq(Bytes) /\ Len(fifo) <= FIFO_SIZE
  /\ producer \in {"unlink", "mkfifo", "open", "fork", "ended"}
  /\ consumer \in {"off", "open", "fork", "ended", "failed", "child crashed"}
  /\ numOps \in [Threads -> Nat]
  /\ value \in [Threads -> Seq(Bytes)]
  /\ created \subseteq Threads /\ crashed \subseteq Consumers
  /\ consumed \in [Items -> Nat]
  /\ starts \in 0..CONSUMER_STARTS

(***************************************************************************)
(* No consumer ever meets the end of file: "the other process has closed   *)
(* the FIFO unexpectedly" never comes true, in whatever order the children *)
(* run and the programs end.                                               *)
(***************************************************************************)
NeverStarved == crashed = {}

\* The ints that a stream ends with, oldest first: an int is there from the
\* arrival of its first byte until its last byte is read.
IntsIn(bytes) == LET n == (Len(bytes) + SIZEOF_INT - 1) \div SIZEOF_INT IN
                 [i \in 1..n |-> bytes[Len(bytes) - (n - i) * SIZEOF_INT][1]]

Queue == IntsIn(fifo)

(***************************************************************************)
(* The stream of bytes and the loops at its ends are a bounded buffer of   *)
(* ints that loses, repeats, reorders and tears nothing, although neither  *)
(* the producers nor the consumers exclude one another.                    *)
(***************************************************************************)
Buffer == INSTANCE BoundedBuffer WITH
            Capacity <- FIFO_SIZE \div SIZEOF_INT, queue <- Queue, delivered <- consumed

ImplementsBuffer == Buffer!Spec

(***************************************************************************)
(* Once consumer.c has found the new FIFO, whenever that is, both programs *)
(* run to their end and the name is gone.                                  *)
(***************************************************************************)
FoundEndsWell ==
  (consumer = "open" /\ found = "new") ~>
     (producer = "ended" /\ consumer = "ended" /\ name = "none")
=============================================================================
