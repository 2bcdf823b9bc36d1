# Verification of *Esercitazioni di Sistemi di Calcolo 2*

The repository is a collection of laboratory exercises on concurrency: small C
programs of threads, processes, semaphores, shared memory, FIFOs, pipes and
sockets (`Lab01` … `Lab09`), and two mutual-exclusion algorithms
(`Esercizi_Personali`). There is no common core. What the programs share are
their *patterns* — the bounded buffer, the counting semaphore as a pool, the
"all ready, all start, all stop" protocol, the rendezvous by name — and those
patterns, in the exact form each program gives them, are what is modelled,
checked and proved here.

Modules are written in TLA+; TLC checks them on small instances, TLAPS proves
the theorems listed below for every instance. Paths are relative to the
repository's root (`src/` is left out).

## 1. Inventory

| Component | State | Operations | Interaction | What is hard | What makes it correct |
|---|---|---|---|---|---|
| `Lab03/code/es1` producer/consumer threads (`_n_m`, `_n_1`, `_1_m`) | ring `transactions`, two indexes, `deposit`, semaphores `e`, `n`, one or two mutexes | `performTransactions`, `processTransactions`, `main` (create, join, destroy) | threads of one process | a producer and a consumer in the ring together; `deposit +=` is two steps; end of the semaphores | FIFO buffer, each transaction credited once, termination |
| `Lab05/src/02` producer/consumer programs | the same ring in shared memory, four named semaphores | set-up, workers, clean-up in `producer.c`; open, workers, clean-up in `consumer.c` | two programs that find each other by name | crash leftovers, any start order, two programs removing names | slots conserved, producer always sets up, no name left |
| `Lab05/src/03` producer/consumer without semaphores | ring in shared memory | drop when full; spin | two programs | unsynchronised indexes, memory seen before it is initialised | the consumer reads only what was written, and ends |
| `Lab05/src/00`, `Lab07/src/02 riepilogo` | flag in shared memory, three named semaphores, log file | fork, ready, start, notify, wait, parse | main, children, threads of children | start barrier, shutdown, a child that dies in the critical section | one writer, start together, complete log, clean end |
| `Lab04/code/riepilogo.c` | three polled named semaphores, private thread semaphore, log | the same protocol by polling | main, children, threads | no `wait()`; uninitialised variable; unlink under running children | nobody left behind, no record lost |
| `Lab02/code/scheduler.c` | resource semaphore on the heap, `sem_exit`, `ACTIVE_THREADS` | burst, work, exit, shutdown | main and detached threads | lost decrement, free while in use | resource bound, threads finish, quit |
| `Lab06/src/02 Pipe` | a pipe, two mutexes | `write_to_pipe`, `read_from_pipe`, `main` | readers, writers, parent | partial reads, messages larger than the pipe, failing readers | whole messages, main ends |
| `Lab06/src/03 EchoFIFO` | two FIFOs | open, greet, echo, quit | two programs | opening order, restarts, the QUIT test | both open, every line but QUIT is sure of an answer, and an answer is the line it answers |
| `Lab07/src/01 prod_cons` | one FIFO | make, open, produce, consume, close | two programs with child processes | partial reads of one stream by several processes, end of file, FIFO of an earlier run | whole ints in order, no starved consumer, clean end |
| `Esercizi_Personali/dekker.c`, `dijkstra.c` | shared flags and turn | entry, critical section, exit | two / N processes | the memory model; the scanning loop | mutual exclusion, progress |
| `Lab01`, `Lab02` `concurrent_threads.c` | a shared total, a semaphore / a cell per thread | add; create, join, sum, print | threads of one process | `+=` is two steps; `int` added to `unsigned long`, both wrap | the printed total is exact |
| `Lab03/code/es2` named-semaphore server | one name, one semaphore per start of the server | create, clean up; client opens, takes, gives back | servers, clients with detached threads, found by name | a server replaced under clients; a thread's error ends its process | no resource granted twice, no name left, waiting threads served |
| `Lab03/code/es1` starter and `_1_1` | the ring | as above | threads | no synchronisation; `e` is `NULL` | — |
| `Lab03/code/es3` buffer file | skeletons, semaphores `NULL` | — | — | — | — |
| `Lab05/src/01` request/worker | array in shared memory, two semaphores, three names | set up, `request`, `work`, clean up | two processes | who owns the array; crash leftovers | hand-over and back, squares printed, no name left |
| `Lab06/src/01 copy` | two files, a block, offsets | read loop, write loop | — | partial reads and writes, an old destination | destination is a prefix of the source at any time |
| `Lab07/src/03` time server | one connection served at a time, buffers | accept, receive, answer; send, receive, print | TCP peers | pieces of a message, a peer that leaves | a client prints the reply and is served |
| `Lab08/src/01` echo server | socket | — | TCP peers | `accept` always fails | — |
| `Lab08/src/02`, `Lab09` | skeletons with open TODOs | — | — | — | — |
| timers (`reactivity-*`, `performance.*`) | none | measurement | — | — | — |

`PROJECT.json` lists the components with their status, and under `hazards` each
place in the code where something of the fifth column bites, with the property
that would catch it, or the reason why none does.

## 2. Modules

One module per program (or family of programs with the same structure). An
operation that is one C statement touching shared state is one action: a
`sem_wait`, a `sem_post`, the write of a slot, the move of an index, a load and a
store where the code has `+=` or `--` on shared data. Statements that touch only
local state are joined to a neighbouring action. Where a thread stands is `pc`, and
where a `main` stands is a variable of its own.

| Module | Program | State and actions |
|---|---|---|
| `BoundedBuffer` | — | Abstract specification: a FIFO queue of bounded capacity that delivers each item once. |
| `ProducerConsumer` | `Lab03/code/es1/producer_consumer_{n_m,n_1,1_m}.c` | The ring, `e`, `n`, `mutex`; `write_s` and `read_s` are two mutexes for `n_m` and one and the same for the other two programs. Implements `BoundedBuffer`. |
| `ProducerConsumerProofs` | — | Theorems about it. |
| `ShmProducerConsumer` | `Lab05/src/02` | `names` tells for each name whether it refers to an object of this run, to one a crashed run left, or to nothing, so that a program can hold an unlinked object; set-up and clean-up are executed one library call at a time. |
| `ShmSpinBuffer` | `Lab05/src/03` | The two indexes, without the values. The stages of the shared memory (created, sized, initialised, unlinked) are visible to a consumer that starts early. |
| `Riepilogo` | `Lab05/src/00`, `Lab07/src/02 riepilogo` | `by_name`, chosen in `Init`, tells the two apart. `ThreadFail` is the failing `open` of the log. |
| `RiepilogoLab04` | `Lab04/code/riepilogo.c` | The first test of `check` is nondeterministic: the variable is not initialised. |
| `Scheduler` | `Lab02/code/scheduler.c` | `ACTIVE_THREADS--` is `LoadActive` and `StoreActive`; a thread that uses the freed semaphore is `lost`. |
| `PipeMessages` | `Lab06/src/02 Pipe/main.c` | `Read` takes any part of what the pipe holds; `got` is what arrived, in order; `Target` is where in the array the code puts it, which decides only whether the read may fail. |
| `EchoFifo` | `Lab06/src/03 EchoFIFO` | Opening a FIFO is a rendezvous (`opening`, `open`); programs can be started again. `echo.c`'s buffer is the message it begins with (`line`) and its length up to the terminator (`strlen`): what is sent back is `strlen` bytes, the line and what lies behind it. |
| `FifoProdCons` | `Lab07/src/01 prod_cons` | The FIFO is a stream of bytes; a step of a child is one turn of the loop of `writeValue` or `readValue`, with the bytes one `write()` or `read()` moves (`Produce`, `Consume`), and a read of 0 bytes ends it with an error (`crashed`). `Queue`, the ints the stream consists of, implements `BoundedBuffer`. |
| `Counter`, `CounterProofs` | `Lab01`, `Lab02` `concurrent_threads.c` | `cells`, chosen in `Init`, tells the two apart. Lab02's `+=` is `Load` and `Store`; an `int` and an `unsigned long` keep their widths (`INT_MAX`, `LONG`). |
| `NamedSemServer` | `Lab03/code/es2/{server,client,util}.c` | A semaphore is named after the server that made it; `name` says whose the name refers to, `sem` whose a thread has opened. `Die` is the end of a process with all its threads. |
| `ReqWrk` | `Lab05/src/01/req_wrk.c` | Set-up and clean-up go one library call at a time (`SetupCalls`, `CleanUpCalls`); an element of the array is a number, its square, or zero. |
| `Copy` | `Lab06/src/01 copy/copy.c` | `Read` and `Write` move any number of bytes up to what is left; a byte is its place in its file. |
| `TimeServer` | `Lab07/src/03 time_server/{server,client}.c` | Messages are counted in bytes; `Recv` and `PeerRecv` take any piece of what has arrived, and `short` remembers that a piece was less than its message. |
| `Dekker`, `DekkerProofs` | `Esercizi_Personali/dekker.c` | One action per shared access; stores go through a store buffer. |
| `Dijkstra` | `Esercizi_Personali/dijkstra.c` | One action per shared access; `interested[k]` is two, the reads of `k` (`ReadK`) and of the flag (`Look`). |
| `ShmProducerConsumerProofs`, `RiepilogoProofs`, `SemaphoresProofs`, `StreamsProofs`, `FifosProofs` | — | Theorems about the modules above: the first extends `ShmProducerConsumer`, the others the MC modules whose name they carry, so that a theorem is about the very formula TLC checks. |

`MCProducerConsumer` adds a symmetry set. The other MC modules put programs that
have nothing in common into one instance: a behaviour is one of a single program,
as a variable fixed in the initial state says, while the variables of the others
keep their initial values, so every property is about one program (or, as
`ResourceBound` and `ProgramsEnd`, a conjunction of one for each).

| Module | Programs |
|---|---|
| `MCRiepilogo` | `Riepilogo` (Lab05/00, Lab07/02), `RiepilogoLab04` |
| `MCSemaphores` | `Counter`, `Scheduler`, `NamedSemServer`, `ReqWrk` |
| `MCStreams` | `PipeMessages`, `Copy`, `TimeServer` |
| `MCAlgorithms` | `Dekker`, `Dijkstra` |
| `MCFifos` | `FifoProdCons`, `EchoFifo` |

In the modules, operators announced by a comment `Mutation:` are *not* part of a
specification: each is a plausible bug of one operation, kept beside it to show
which property would notice it (`mutants` in `PROJECT.json`).

### Abstractions common to the modules

* An amount or a value is named by who produced it and in which turn, so that two
  are never confused; `deposit` and the sums are bags of such items.
* System calls that the code treats as fatal (`handle_error`) do not fail, except
  where the failure is the point: exclusive creation and opening by name
  (`ShmProducerConsumer`, `ShmSpinBuffer`, `EchoFifo`, `FifoProdCons`,
  `RiepilogoLab04`, `NamedSemServer`, `ReqWrk`), the log's `open` (`Riepilogo`),
  `read` beyond the array (`PipeMessages`) and everything a peer's end makes fail
  (`TimeServer`). `EINTR` never happens: only `Lab03/code/es2/server.c` installs a
  handler, and it does not return.
* The makefiles compile with `gcc -Wall -g`, without optimisation, so a statement
  reads and writes memory where it stands. Programs other than `dekker.c` run
  under a memory that all threads see alike; where they use semaphores these are
  full barriers. `ShmSpinBuffer` is the exception that uses none; it relies on
  x86 keeping the order of stores and of loads, which is all its two loops need.
* A `printf`, an argument structure, an exit code nobody reads are left out.

## 3. Runs

Every run has its own `.cfg`. *S* is the number of distinct states TLC finds.

| Run | Instance | Shows | S |
|---|---|---|---|
| `ProducerConsumer_n_m` | 2 producers × 3, 3 consumers × 2, 2 slots, two mutexes | slots conserved (`TokenConservation`), `MutualExclusion`, a writing producer and a reading consumer never at one slot (`NoSlotRace`), the last line's deposit is exact and nobody is left to use the destroyed semaphores (`FinalDeposit`), the ring refines `BoundedBuffer` | 20307 |
| `ProducerConsumer_one_mutex` | 1 × 4, 2 consumers × 2, 3 slots, one mutex | `Termination` | 2816 |
| `ShmProducerConsumer` | 2 × 2, 1 consumer × 4, 2 slots; any set of names left over; `consumer.c` at any time, twice | the producer always gets its objects (`ProducerSetsUp`); slots conserved across the two programs; both end and leave no name (`ForkedEndsClean`) | 124410 |
| `Riepiloghi` | 3 children × 2 threads, two rounds, Lab05 or Lab07, one failing `open`; Lab04's with 2 × 2, two rounds | `OneWriterAtATime`, `StartsTogether`, `LogsComplete`, `EndsWellOrFails` | 245447 |
| `Semaphores` | counters of 3 threads × 2 additions of −1 or 3, in numbers of 3 bits; `scheduler.c` with up to 2 bursts of 2 for 1 resource; Lab03/es2 with 2 starts of the server, 2 clients, 3 threads, 1 CTRL+C in a client, 1 resource; `req_wrk.c` with 3 cells, killed up to twice | `ExactTotal`; `ResourceBound`, `SingleBurstSafe`; `NameRemoved`; `HandOver`; every one of them ends or serves its waiters (`ProgramsEnd`) | 264484 |
| `Streams` | pipe: 2 writers, 2 readers, 4 messages of 3 ints, pipe of 2; copy: 0, 3 or 4 bytes over a file of 0 or 5, blocks of 1 to 3; time server: 3 clients, 2 starts | `ReadsWholeMessages`; `CopiesInOrder`; `PrintsReply`, `EveryoneServed`; pipe and copy end (`ProgramsEnd`) | 82094 |
| `Algorithms` | Dekker with store buffers of 2, sequentially consistent; Dijkstra with 3 processes | Dekker's `MutualExclusion` and `StarvationFree`; Dijkstra's `DeadlockFree` | 83882 |
| `Fifos` | Lab07: 2 × 2, ints of 2 bytes, FIFO of 5, `PIPE_BUF` 3, `consumer.c` twice; Lab06: 3 lines, each program started up to twice | Lab07 refines `BoundedBuffer`, `NeverStarved`, `FoundEndsWell`; Lab06 `OpensMeet`, `LinesAnswered`, `RepliesMatch` | 2594 |

Each of them but `ProducerConsumer_one_mutex` also checks the types.

Four runs check one property each, a sentence of the repository that the code
does not keep, and end with a counterexample:

| Run | The text | What the code does |
|---|---|---|
| `ShmProducerConsumer_sums` | "Initialize the shared memory to 0." (`Lab05/src/02/producer.c:34`) | `read_index` starts at `BUFFER_SIZE-1` (line 50): the first value consumed was never produced. |
| `ShmSpinBuffer` | "wait that there is something to read" (`Lab05/src/03/consumer.c:64`) | line 67 lets equal indexes, an empty ring, pass: the consumer overtakes the producer, which drops values it finds no room for (`producer.c:95`), and spins for ever when the producer is gone. |
| `Scheduler_quit` | "Press CTRL+D to quit!" (`Lab02/code/scheduler.c:130`) | a lost decrement at line 92 leaves main spinning at line 178. |
| `NamedSem_leak` | "Waiting for any running thread to complete and then exiting..." (`Lab03/code/es2/client.c:120`) | a thread that finds no name ends its whole process (line 40); a sibling's resource is lost with it, and the threads of another client wait for it for ever. |

Other places where code and text part were met while modelling. The models follow
the code, and no run is spent on them:

* `Lab04/code/riepilogo.c:145` reads `check` uninitialised, against "Wait for all the
  children to start correctly" (line 143); `parseOutput()` at line 322 is called
  without a `wait()`, against "waits for their termination" (line 137).
* `Lab02/code/scheduler.c:183` frees the semaphore that threads of a second burst
  still use, against "destroy the semaphore once you're done" (line 180); CTRL+D
  before any ENTER makes main spin for ever; the loop "Per i rimanenti Work item"
  (line 61) repeats all items.
* `Esercizi_Personali/dekker.c`, compiled for x86, lets the read of line 11 overtake
  the store of line 10 (`Dekker` with `SEQUENTIAL = FALSE` violates
  `MutualExclusion`). The file says it is pseudocode, and as such it is right.
* `Esercizi_Personali/dijkstra.c:20` ends its loop at the process itself instead of
  skipping it, so that two processes may be in the critical section; what is
  left of the algorithm is that somebody always gets in. (`#define N 10;` keeps
  the file from compiling; `i` is read as the process's number, as its comment says.)
* `Lab06/src/02 Pipe/main.c:69` adds a byte count to an `int` pointer, against
  "leggere … e memorizzarli in 'data'" (line 57).
* QUIT stops neither program of `Lab06/src/03 EchoFIFO`. `echo.c:83` compares a length
  that counts the newline, against "I will stop and exit when you send me QUIT"
  (line 46); `client.c:81` compares `bytes_sent`, which is still 0, against "After a
  quit command we won't receive data from the server anymore" (line 79). So QUIT is
  sent back like any other line. `LinesAnswered` does not count on that: it speaks of
  the other lines, and would hold as well if both tests were put right.
* `Lab06/src/01 copy/copy.c:109` opens an existing destination without `O_TRUNC`,
  against "I will overwrite it!": what the old file had beyond the source's
  length stays. `CopiesInOrder` states exactly that.
* `Lab07/src/03 time_server/server.c:37` ends the server when a client closes its
  connection before a command, and with it every queued connection; a client then
  prints its empty buffer as an answer. A piece of one byte, too, ends either
  program (the test for an error compares with 1), and a command that arrives in
  two longer pieces is never recognised as complete. `PrintsReply` and
  `EveryoneServed` hold in all other cases, and name these; they say nothing of what
  a message in pieces does.
* `Lab03/code/es2/server.c:61` and line 34 unlink the name whoever made it: with two
  servers at once the first to end removes the other's name. The other then fails
  in its own clean-up.

### Why the bounds are enough

Two actors on each side make every interleaving of like and of unlike threads;
a third consumer (`ProducerConsumer_n_m`), child (`Riepilogo`) or process (`Dijkstra`)
lets one overtake while two are in the middle of an operation. Rings have two
or three slots and more items than slots, so that they fill, empty and wrap.
Messages are longer than the pipe, so that every one is split. The FIFO of
Lab07 is not a multiple of an int, so that it can have room for a part of one, and
`PIPE_BUF` is longer than an int, as POSIX has it: a write of more may be split, one
of an int may not (`Written`). One resource for two
threads of a burst makes the bound of `Scheduler` bite, and a second burst reaches
the freed semaphore. In Lab03/es2 the two servers may run one after the other or
at once; three threads put two in one process, so that one can die with the
other, and one in the process that suffers. The numbers of `Counter` have three bits,
so that a total of 3 × 2 additions wraps around below zero and above the
width, and one thread's total of 6 does not fit in its `int`. A block of `copy.c` may be
as long as, shorter than and longer than what is left of the source, and the old
destination longer than it. A command of 4 bytes and a reply of 3 are enough to
tell one byte, a part and the whole apart. The bounds that do
not come from the code are named in the modules: `MAX_ROUNDS`, `MAX_FAILURES`,
`MAX_BURSTS`, `MAX_THREADS`, `MAX_KILLS`, `MAX_CRASHES`, `SERVER_STARTS`, `MAX_LINES`, `ECHO_STARTS`, `CLIENT_STARTS`, `CONSUMER_STARTS`,
`ConsumerStarts`. `MAX_ROUNDS` cuts a child's loop off while main has not yet
notified it (a child that reaches it waits for the notification), which keeps
liveness meaningful: main's progress does not depend on the children's rounds.
Symmetry is used only in runs without liveness properties (`ImplementsBuffer` is a
safety property: `BoundedBuffer` states no fairness).

Deadlock is checked where a program has no legitimate end without a stuttering
step (`ProducerConsumer`, with `Terminating`; `Dekker`; `Dijkstra`). The other
programs end, or may be left waiting for a partner that never comes; their
configurations switch the check off and say why.

### Fairness

Weak fairness for every started thread and process: the kernel schedules each.
Nothing is assumed of the outside: nobody has to press a key (`Scheduler`,
`NamedSemServer`), type a line (`EchoFifo`), start a program (`FifoProdCons`,
`ShmProducerConsumer`, `Counter`, `ReqWrk`, `Copy`, `NamedSemServer`, `TimeServer`) or
call a mutual-exclusion entry (`Dekker`, `Dijkstra`). Waiting at a semaphore is
weakly fair only: a waiter is not promised its turn if others keep taking it, and
no liveness property here needs more, because every loop is finite. In `Dekker`
a buffered store eventually reaches memory.

Programs that the outside may start, kill and start again have no single end.
Their liveness is stated as `[]<>`: again and again the program is at rest — not
started, or ended the way it should. Since a kill is never forced and always
bounded, this says that whatever is started comes to its end. In the composed
instances each program keeps its own fairness. For a program that is running from
its initial state it is restricted to the behaviours of that program; for the
others nothing is enabled before they are started.

## 4. Proofs

Every invariant that a passing run checks is also a theorem, and so are both
refinements of `BoundedBuffer`. The theorems hold for every value of the constants
that satisfies the named `ASSUME`s (finite disjoint sets of threads, natural or
positive sizes, and the equations between operations that the headers enforce); the
bounds that only keep TLC's state spaces finite (`MAX_ROUNDS`, `MAX_CRASHES`,
`SERVER_STARTS` …) are constants like the others, so nothing depends on their being
small. Where a component is part of a composed instance, the theorem is about that
instance, and the invariant of each program is kept by the steps of the others because
these leave its variables alone.

None of the invariants the runs check is inductive by itself. What has to be added is
told here module by module; TLC checked each strengthening before it was proved.

| Module | Theorems (property) |
|---|---|
| `ProducerConsumerProofs` | `Typing` (`TypeOK`), `MutualExclusionHolds` (`MutualExclusion`), `SlotsConserved` (`TokenConservation`), `SlotsNeverRace` (`NoSlotRace`), `DepositIsExact` (`FinalDeposit`), `Refinement` (`ImplementsBuffer`) |
| `ShmProducerConsumerProofs` | `Typing` (`TypeOK`), `SetUpSucceeds` (`ProducerSetsUp`), `SlotsConserved` (`TokenConservation`) |
| `RiepilogoProofs` | `Typing` (`TypesOK`), `WritersExclude` (`OneWriterAtATime`), `NobodyStartsEarly` (`StartsTogether`), `NothingLost` (`LogsComplete`) |
| `CounterProofs` | `Typing` (`Counter!TypeOK`), `TotalIsExact` (`ExactTotal`) |
| `SemaphoresProofs` | `ProgramsTyping` (`TypesOK`), `ResourcesAreBounded` (`ResourceBound`), `FreedAfterLastUse` (`SingleBurstSafe`), `NamesAreRemoved` (`NameRemoved`), `ArrayIsHandedOver` (`HandOver`), `TotalsAreExact` (`ExactTotal`) |
| `StreamsProofs` | `Typing` (`TypesOK`), `MessagesStayWhole` (`ReadsWholeMessages`), `CopyIsFaithful` (`CopiesInOrder`), `RepliesArePrinted` (`PrintsReply`) |
| `FifosProofs` | `Typing` (`TypesOK`), `NobodyStarves` (`NeverStarved`), `RepliesAreEchoes` (`RepliesMatch`), `Refinement` (`ImplementsBuffer`) |
| `DekkerProofs` | `Typing` (`Dekker!TypeOK`), `AlgorithmsTyping` (`TypesOK`), `MutualExclusionHolds` (`MutualExclusion`) |

### `ProducerConsumerProofs`

`write_s` and `read_s` may be one semaphore or two.

* The invariant `Inv` has four parts. `Places` restricts the labels a producer and
  a consumer can stand at, and says a thread in the middle of an operation has
  `numOps > 0`. `Locks` is mutual exclusion together with "a mutex somebody holds
  is 0" — without which mutual exclusion is not inductive. `TokenConservation`
  counts the slots. `Indexes` says that `write_index` is ahead of `read_index` by
  the number of items announced and not yet passed, or by that minus
  `BUFFER_SIZE`; it is what ties the counting semaphores to the ring.
* `Typing`, `MutualExclusionHolds` and `SlotsConserved` are parts of `Inv`.
* `SlotsNeverRace` follows: when a producer is at its write and a consumer at its
  read, both own a token, so the distance is between 1 and `BUFFER_SIZE - 1` and
  the indexes differ.
* `Refinement` needs, besides, the history of the transactions (`BufferInv`). The
  refinement mapping reads the queue off the slots between the two indexes;
  `History` says that the queue holds transactions that were produced and not
  credited, without repetition, and `Loads` that what a consumer is about to store
  is still the present deposit and the oldest item. Every step is then a `Put`, a
  `Get` or a stutter.
* `DepositIsExact`: there are as many transactions credited (`Delivered`) as consumers'
  operations that have credited one (`Credits`). Both are sets that a store extends
  by one element, so when all consumers are done the two cardinalities say that every
  transaction has been credited; nothing is proved by induction over the data.
* The lemmas `CountMove`, `ProducerMoves` and `ConsumerMoves` say how the number of
  threads at a set of labels changes when one thread moves; `NextSlot` says what
  the step of an index modulo `BUFFER_SIZE` is.

### `ShmProducerConsumerProofs`

For any names an earlier run left, any moment of starting `consumer.c` and any number
of starts.

* `SettingUp` ties every name to `call`, the producer's next library call: a
  name refers to a crashed run's object only before its `unlink`, to this run's only
  after its creation. So at each exclusive creation the name is free
  (`SetUpSucceeds`). This needs `Forked` and the closing actions too: nothing
  but the producer creates the names it is about to create.
* `Found` says that whoever holds this run's `sem_filled` finds, if it finds one,
  this run's `sem_empty`: the old name is gone before `sem_filled` is created. That is
  what makes `SlotsConserved` true for a consumer that starts in the middle of the
  set-up.
* `Tokens` is the conservation from the creation of `sem_empty` on (before the
  set-up ends), excepting workers that live on the old `sem_filled`. `NoneHeld` is the
  start: when `sem_empty` is created, no worker holds a slot.

### `RiepilogoProofs`

* The counting semaphores of Lab05 and Lab07 are related to *sets of children*
  (`Announced`, `Begun`, `Reaped`) and to how far main's three loops are (`Heard`,
  `Posted`, `Waited`), in `Counts`. `StartsTogether` is the arithmetic of that:
  main posts `children_wait_for_main` after it has heard `N` announcements.
* `Mutex` is exclusion with "`critical_section = 1` means nobody is inside". A thread
  whose `open` fails takes its unit of the semaphore with it: exclusion survives,
  progress does not, which is why `EndsWellOrFails` names the failure.
* `Logged` counts a child's records as `M * rounds` plus the threads of its present
  round that have written (`Written`). `LogsComplete` is that for children that were
  reaped, so it needs `Counts` again: main parses after `N` of them.
* Lab04 has the same parts with `<=` for `=`, since its children poll and main does not
  wait for them.

### `CounterProofs` and `SemaphoresProofs`

`CounterProofs` proves `Typing` and `TotalIsExact` for every number of threads and of
additions, every set of values and every width of the two integer types. The
invariant `Inv` has four parts besides the types:

* `Places` says at which labels the threads of either program, and main, can stand.
* `Exclusion` is mutual exclusion of Lab02's threads, with "while one is inside,
  `my_sem` is 0".
* `Additions` says that `shared_variable` is `v` times the *number of additions
  stored*, modulo `LONG`, and that what a thread is about to store is one more
  `v` than that. The additions stored are a set of pairs (thread, turn), so that
  each store adds one element (`AddsOneMore`) and the set of all of them has
  `N * M` (`AddsAll`). No induction over the threads is needed.
* `Sums` says the same of Lab01's main: `j` cells summed give `j` times a cell, and
  a cell is `M * v` as an `int`, which is `M * v` itself if that fits (`ToIntFits`).

`ModAdd` and `ModUnique` are the arithmetic modulo `LONG` that both use. Without
`Exclusion` the second half of `Additions` breaks at the first interleaved store.

`SemaphoresProofs` adds the other three programs and restates `ExactTotal` for the
composed instance:

* `scheduler.c`: `SemaphoreValues` counts the holders of both semaphores.
  `SingleBurstSafe` is a bound in the *safe* direction on a racy counter: while there
  was one burst only, `ACTIVE_THREADS`, and whatever a thread has loaded of it, is at
  least the number of threads that have not yet stored their decrement (`Pending`). A
  lost update makes the counter too large, never too small, so main may spin for ever
  (`Scheduler_quit`) but frees nothing that is in use. `Spawned` says
  which threads exist after a number of bursts.
* Lab03/es2: `Taken(s)` are the threads that have a resource of server `s` or had it
  when their process died; with the value of the semaphore they make
  `NUM_RESOURCES` (`Conserved`). `Lifetimes` says that a dead process has no live thread.
* `req_wrk.c`: an element of the array tells by its kind how often it was worked on.
  The invariant says which cells are filled, squared and printed at every place of the
  two programs, and that at most one of `sem_req` and `sem_wrk` is up. Its set-up unlinks
  each name before creating it, so what a killed run left does not matter.

### `StreamsProofs`

For pieces of any size, wherever a `read`, `write` or `recv` may stop.

* Copy: `Offsets` ties the two offsets to the block: what lies between them is what
  has been read and not written, and the block holds just those bytes.
* Pipe: the invariant looks at what the reader that holds the mutex has read *followed
  by* what is in the pipe. That sequence is a stream of whole messages
  (`Good`, `Whole`), but for the last, of which the writer that holds the other mutex
  has written a part (`Partial`, `Complete`). A write extends the stream by what
  comes next in the message (`StreamGrows`), a read moves a piece from one part of it to
  the other and leaves it as it is (`StreamSplits`). Once a reader has failed in the
  middle of a message nothing is claimed of the stream: the reader keeps its mutex, so
  nobody reads on.
* Time server: `Received` says that no more is received than was sent,
  `Answered` that a connection closed without a reply can be blamed on
  somebody (`Blamed`): a client whose message was split, or one that was killed.

### `FifosProofs`

* Lab07: the stream of bytes consists of whole ints (`Stream`, which compares it
  byte by byte with `Queue`), and nobody stands in the middle of one (`Whole`). That is
  what keeps ints from being torn, and it holds because of three things together:
  a `write` of an int is not split (`PipeBufAssumption`), every `read` asks for an
  int, and whatever is in the FIFO is a multiple of an int, so that a read gets all it
  asks for (`OneRead`). A read of any other length breaks it at once
  (`ConsumeOneByOne`). `Balanced` is the count behind `NeverStarved`: ints in the FIFO
  and ints still to be written are as many as those still to be read (`Remaining`, sets
  of pairs of which each operation removes one), and `AllWritten` says that the FIFO is
  closed only when nothing is left to be written. `History` says that a value is in
  the FIFO, or was read, only after it was written; with it the processes implement
  `BoundedBuffer` (`ProduceKeeps` and `ConsumeKeeps` say what a turn does to `Queue`).
* Lab06: `OnePending` says where the line the client waits for is — in one FIFO, in
  echo's buffer, which ends where the line does, or in the other — and `NothingPending` that otherwise both FIFOs are
  empty but for the welcome. `BeforeWelcome` and `Made` cover the opening, and the
  programs that are started again.

### `DekkerProofs`

`Typing` on either memory, and `MutualExclusionHolds` under `SEQUENTIAL`, for store
buffers of every length. The invariant: a process that claims entry has *announced*
itself — its latest store to its own flag, buffered or in memory, is TRUE — and a
process inside has an empty buffer. Hence its flag is up in memory when the other
looks. `AlgorithmsTyping` adds the types of `Dijkstra` for every number of
processes: its loop never indexes beyond the array. (That algorithm, as coded, does
not exclude; there is no more safety to prove of it.)

### Model-checked only

* Every liveness property: `Termination`, `ForkedEndsClean`, `EndsWellOrFails`,
  `ProgramsEnd`, `EveryoneServed`, `OpensMeet`, `LinesAnswered`, `FoundEndsWell`,
  `StarvationFree`, `DeadlockFree`. They need fairness and `ENABLED`, which are beyond the
  prover.
* The four runs that end with a counterexample, and with them all of
  `ShmSpinBuffer`: there is nothing to prove there.

## 5. Limits

* `PipeMessages`: what a `read` beyond the array overwrites is not followed
  further; the model lets the reader go on or fail, nothing else.
  `write_to_pipe` has the same arithmetic, but a blocking `write` to a pipe
  completes in one call when no signal interrupts it, so its second turn does
  not happen.
* `Scheduler`: `sem_destroy(&sem_exit)` at the end of main has no effect in glibc
  and its memory is static; it has no action.
* `RiepilogoLab04`: the three `sem_unlink` calls of main are one step. Main removes
  the names in the order in which each child opens them, and children do not touch
  one another's, so a child that fails at its first, second or third open between
  two removals also fails there with the removals together; what it has opened it
  keeps.
* `EchoFifo`: a line is written and read as a whole, since it is at most 1023 bytes and
  written in one `write`, and there is one reader; its bytes count only where the code
  counts them (`Bytes`). A line other than QUIT is one as long as the command with its
  newline, the only kind the test of the length lets through. The code after the
  two loops, being unreachable, has no action.
* `ShmProducerConsumer`: `consumer.c` may map the memory between the producer's
  `shm_open` and `ftruncate`. Its workers touch it only after a
  `sem_wait(sem_filled)`, and the producer posts that only after its set-up, so the
  stages of the memory need no states of their own. With names of a crashed run a
  consumer may hold the old `sem_filled` or the old memory beside new objects: it
  then consumes on its own, which the model contains and the properties except (they
  speak of a consumer that has opened this run's objects).
* `Counter`: the number of threads is at most 1000 in Lab01, the length of its array
  of cells; the model has no such limit.
* `NamedSemServer`: a client is given one burst (a second burst is more threads of the
  same client, which `MAX_THREADS` bounds), and the line with the semaphore's value
  that the server prints every second is left out.
* `ReqWrk`: CTRL+C kills both processes at once, as the terminal's signal does.
* `TimeServer`: `send` always takes the whole message, as both programs assume. A
  reset connection and a closed one are told apart only where a program does.

### Not modelled

* `Lab08/src/01`, echo server: `server.c:201` passes the *address* `sockaddr_len` where
  `accept` wants a pointer to the length, so `accept` fails and the server ends at the
  first connection. Its handler would, besides, take a complete send of the welcome
  message for an error (`server.c:42` compares with the size of the buffer). There is no
  conversation to model.
* `Lab03/code/es1/producer_consumer.c` is the exercise before its solution, without
  synchronisation; `producer_consumer_1_1.c` assigns the result of `sem_init` to
  the pointer `e` (line 148), so that its producer crashes at its first `sem_wait`.
* `Lab03/code/es3`, `Lab08/src/02` and `Lab09` are skeletons: semaphores that are `NULL`,
  calls that are open TODOs.
* `reactivity-*.c` and `performance.*` measure times; there is no state to relate.

## 6. Plan

Done: the modules above. What runs is modelled; what is left of the code does not
run (see *Not modelled*). Still to do, by what it adds:

1. What a `read` beyond the array of `PipeMessages` leaves in the array.
2. Several bursts of one client in `NamedSemServer`.

Proofs: every invariant and both refinements the runs check are proved. What is
left is to state and prove what the present invariants contain and no property
says: which slots of the ring of `Lab05/src/02` hold values that were written and not
yet read (it needs a run of its own, since the code's `read_index` starts at the
wrong slot), and the counting of `Lab04`'s polled semaphores.
