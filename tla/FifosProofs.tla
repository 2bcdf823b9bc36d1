---------------------------- MODULE FifosProofs ----------------------------
(***************************************************************************)
(* Safety of the two pairs of programs that meet at named FIFOs, for any   *)
(* number of producers, consumers and operations and any size of the FIFO  *)
(* (Lab07/src/01), and for any number of lines and of starts (Lab06/src/03).*)
(***************************************************************************)
EXTENDS MCFifos, FiniteSetTheorems, SequenceTheorems, TLAPS

\* s holds the bytes of the values of q, and nothing else.
Stream(s, q) ==
  /\ Len(s) = Len(q) * SIZEOF_INT
  /\ \A i \in 1..Len(q), b \in 1..SIZEOF_INT :
       s[(i - 1) * SIZEOF_INT + b] = <<q[i], b>>

\* No process stands in the middle of an int, and the FIFO holds entire ones.
Whole == /\ \A t \in Threads : value[t] = << >>
         /\ Queue \in Seq(Items) /\ Stream(fifo, Queue)

\* The values written to the FIFO.
Produced == {x \in Items : x[2] > numOps[x[1]]}

\* Each value is written once, and read after it has been written.
History == /\ \A x \in Items : consumed[x] # 0 => x \in Produced
           /\ \A i \in 1..Len(Queue) : Queue[i] \in Produced

Bounded == /\ \A p \in Producers : numOps[p] <= OPS_PER_PRODUCER
           /\ \A c \in Consumers : numOps[c] <= OPS_PER_CONSUMER

\* The operations that processes of T still have to do, each named by its
\* process and the value of numOps it finds.
Operations == Items \cup (Consumers \X (1..OPS_PER_CONSUMER))
Remaining(T) == {o \in Operations : o[1] \in T /\ o[2] <= numOps[o[1]]}

\* What is in the FIFO or still to be written is what is still to be read ...
Balanced == Len(Queue) + Cardinality(Remaining(Producers)) = Cardinality(Remaining(Consumers))

\* ... and the producers have written everything before their end closes it.
AllWritten == producer = "ended" => \A p \in Producers : numOps[p] = 0

ProdConsInv ==
  TypeOK /\ Bounded /\ Whole /\ Balanced /\ AllWritten /\ NeverStarved /\ History

CLNT == EchoFifo!CLNT_FIFO
ECHO == EchoFifo!ECHO_FIFO

\* Until echo.c has greeted the client, and if it never does, nothing has been
\* written and the client has no reply to wait for.
NotGreeted == \/ exists # EchoFifo!Fifos
              \/ echo \in {"mkfifo_clnt", "open_clnt", "open_echo", "welcome"}

BeforeWelcome ==
  NotGreeted => /\ client \notin {"input", "read"} /\ echo \notin {"read", "write"}
                /\ chan[CLNT] = << >> /\ chan[ECHO] = << >>

\* Past each mkfifo its FIFO is there.
Made == /\ echo = "mkfifo_clnt" => ECHO \in exists
        /\ echo \in {"open_clnt", "open_echo", "welcome"} => exists = EchoFifo!Fifos

\* While no reply is awaited nothing is under way but the welcome message.
NothingPending ==
  client # "read" => /\ chan[CLNT] = << >> /\ echo # "write"
                     /\ chan[ECHO] \in {<< >>, <<EchoFifo!Welcome>>}
                     /\ client = "input" => chan[ECHO] = << >> /\ reply = sent

\* The line the client waits for is on its way there, in echo's buffer, or on
\* its way back: in one of these places only.
OnePending ==
  client = "read" => /\ sent \in EchoFifo!Lines
                     /\ chan[CLNT] \in {<< >>, <<sent>>}
                     /\ chan[ECHO] \in {<< >>, <<sent>>}
                     /\ echo = "write" => /\ line = sent /\ strlen = EchoFifo!Bytes(line)
                                        /\ chan[CLNT] = << >>
                     /\ echo = "write" \/ chan[CLNT] # << >> => chan[ECHO] = << >>

EchoInv == EchoFifo!TypeOK /\ Made /\ BeforeWelcome /\ NothingPending /\ OnePending

-----------------------------------------------------------------------------
(* Streams of ints *)

\* Ints follow one another in the bytes of a stream.
LEMMA Products ==
  /\ 0 * SIZEOF_INT = 0
  /\ \A i \in Nat : i * SIZEOF_INT \in Nat /\ (i + 1) * SIZEOF_INT = i * SIZEOF_INT + SIZEOF_INT
  /\ \A i, n \in Nat : i < n => i * SIZEOF_INT + SIZEOF_INT <= n * SIZEOF_INT
<1> DEFINE S == SIZEOF_INT
<1>0. S \in Nat \ {0}
  BY SizesAssumption
<1> HIDE DEF S
<1>1. 0 * S = 0 /\ \A i \in Nat : i * S \in Nat /\ (i + 1) * S = i * S + S
  BY <1>0
<1>2. ASSUME NEW i \in Nat, NEW n \in Nat, i < n PROVE i * S + S <= n * S
  <2>1. PICK d \in Nat : n = (i + 1) + d
    <3>1. n - (i + 1) \in Nat /\ n = (i + 1) + (n - (i + 1))
      BY <1>2
    <3> QED BY <3>1
  <2>2. n * S = (i + 1) * S + d * S
    BY <1>0, <2>1
  <2>3. d * S \in Nat /\ i * S \in Nat /\ (i + 1) * S = i * S + S
    BY <1>1
  <2> QED BY <2>2, <2>3, <1>0
<1> QED BY <1>1, <1>2 DEF S

\* How many ints there are in so many bytes, the last of them entire or not.
LEMMA Quotients ==
  /\ \A n \in Nat : (n * SIZEOF_INT + SIZEOF_INT - 1) \div SIZEOF_INT = n
  /\ \A n, m \in Nat : n * SIZEOF_INT <= m => n <= m \div SIZEOF_INT
<1> DEFINE S == SIZEOF_INT
<1>0. S \in Nat \ {0}
  BY SizesAssumption
<1>1. \A i, n \in Nat : i * S \in Nat /\ (i < n => i * S + S <= n * S)
  BY Products
<1> HIDE DEF S
<1>2. \A m \in Nat : m \div S \in Nat /\ m = (m \div S) * S + (m % S) /\ m % S \in Nat /\ m % S < S
  BY <1>0
<1>3. ASSUME NEW n \in Nat, NEW m \in Nat, n * S <= m PROVE n <= m \div S
  <2>1. ~(m \div S < n)
    <3> SUFFICES ASSUME m \div S < n PROVE FALSE
      OBVIOUS
    <3>1. (m \div S) * S + S <= n * S
      BY <1>1, <1>2
    <3> QED BY <1>0, <1>1, <1>2, <1>3, <3>1
  <2> QED BY <1>2, <2>1
<1>4. ASSUME NEW n \in Nat PROVE (n * S + S - 1) \div S = n
  <2> DEFINE m == n * S + S - 1
  <2>1. m \in Nat /\ n * S \in Nat /\ n * S <= m /\ m < n * S + S
    BY <1>0, <1>1
  <2>2. n <= m \div S
    BY <1>3, <2>1
  <2>3. ~(n < m \div S)
    <3> SUFFICES ASSUME n < m \div S PROVE FALSE
      OBVIOUS
    <3>1. n * S + S <= (m \div S) * S
      BY <1>1, <1>2, <2>1
    <3> HIDE DEF m
    <3> QED BY <1>0, <1>1, <1>2, <2>1, <3>1
  <2> QED BY <1>2, <2>1, <2>2, <2>3
<1> QED BY <1>3, <1>4 DEF S

\* The bytes of one value.
LEMMA Ints ==
  \A x : /\ IntOf(x) = [b \in 1..SIZEOF_INT |-> <<x, b>>] /\ Len(IntOf(x)) = SIZEOF_INT
         /\ x \in Items => IntOf(x) \in Seq(Bytes)
         /\ \A y : IntOf(x) = IntOf(y) => x = y
<1>1. \A x : IntOf(x) = [b \in 1..SIZEOF_INT |-> <<x, b>>]
  BY SizesAssumption DEF IntOf, Part
<1>2. \A x, y : IntOf(x) = IntOf(y) => x = y
  <2> SUFFICES ASSUME NEW x, NEW y, IntOf(x) = IntOf(y) PROVE x = y
    OBVIOUS
  <2>1. IntOf(x)[1] = <<x, 1>> /\ IntOf(y)[1] = <<y, 1>>
    BY <1>1, SizesAssumption
  <2> QED BY <2>1
<1>3. \A x : Len(IntOf(x)) = SIZEOF_INT
  BY <1>1, SizesAssumption
<1>4. ASSUME NEW x \in Items PROVE IntOf(x) \in Seq(Bytes)
  <2>1. IntOf(x) \in [1..SIZEOF_INT -> Bytes]
    BY <1>1 DEF Bytes
  <2> QED BY <2>1, SizesAssumption
<1> QED BY <1>1, <1>2, <1>3, <1>4

\* A value written goes behind the others ...
LEMMA StreamGrows ==
  ASSUME NEW s \in Seq(Bytes), NEW q \in Seq(Items), NEW x \in Items, Stream(s, q)
  PROVE  Stream(s \o IntOf(x), Append(q, x))
<1> DEFINE S == SIZEOF_INT
           n == Len(q)
           t == s \o IntOf(x)
           r == Append(q, x)
<1>0. S \in Nat \ {0} /\ n \in Nat
  BY SizesAssumption
<1>1. /\ IntOf(x) \in Seq(Bytes) /\ Len(IntOf(x)) = S
      /\ \A b \in 1..S : IntOf(x)[b] = <<x, b>>
  BY Ints
<1>2. /\ Len(t) = Len(s) + S
      /\ \A k \in 1..Len(s) : t[k] = s[k]
      /\ \A b \in 1..S : t[Len(s) + b] = <<x, b>>
  <2> DEFINE u == IntOf(x)
  <2>1. /\ Len(s \o u) = Len(s) + S
        /\ \A k \in 1..Len(s) : (s \o u)[k] = s[k]
        /\ \A b \in 1..S : (s \o u)[Len(s) + b] = u[b]
    <3>1. Len(s) \in Nat /\ u \in Seq(Bytes) /\ Len(u) = S
      BY <1>1
    <3> HIDE DEF u
    <3>2. /\ Len(s \o u) = Len(s) + Len(u)
          /\ \A k \in 1..(Len(s) + Len(u)) :
               (s \o u)[k] = IF k <= Len(s) THEN s[k] ELSE u[k - Len(s)]
      BY <3>1, ConcatProperties
    <3>3. ASSUME NEW b \in 1..S PROVE (s \o u)[Len(s) + b] = u[b]
      <4>1. /\ Len(s) + b \in 1..(Len(s) + Len(u)) /\ ~(Len(s) + b <= Len(s))
            /\ (Len(s) + b) - Len(s) = b
        BY <1>0, <3>1
      <4> QED BY <3>2, <4>1
    <3> QED BY <1>0, <3>1, <3>2, <3>3
  <2> QED BY <2>1, <1>1
<1>3. Len(r) = n + 1 /\ r[n + 1] = x /\ \A i \in 1..n : r[i] = q[i]
  OBVIOUS
<1>4. Len(s) = n * S /\ n * S \in Nat /\ (n + 1) * S = n * S + S
  BY <1>0, Products DEF Stream
<1>5. ASSUME NEW i \in 1..(n + 1), NEW b \in 1..S PROVE t[(i - 1) * S + b] = <<r[i], b>>
  <2>1. CASE i = n + 1
    <3>1. i - 1 = n
      BY <2>1, <1>0
    <3>2. t[Len(s) + b] = <<x, b>>
      BY <1>2
    <3>3. (i - 1) * S + b = Len(s) + b
      BY <3>1, <1>4
    <3> QED BY <3>2, <3>3, <2>1, <1>3
  <2>2. CASE i # n + 1
    <3>1. i \in 1..n /\ i - 1 \in Nat /\ i - 1 < n
      BY <2>2, <1>0
    <3>2. (i - 1) * S \in Nat /\ (i - 1) * S + S <= n * S
      BY <3>1, <1>0, Products
    <3>3. (i - 1) * S + b \in 1..Len(s)
      BY <3>2, <1>0, <1>4
    <3>4. s[(i - 1) * S + b] = <<q[i], b>>
      BY <3>1 DEF Stream
    <3> QED BY <3>1, <3>3, <3>4, <1>2, <1>3
  <2> QED BY <2>1, <2>2
<1>6. Len(t) = Len(r) * S
  BY <1>2, <1>3, <1>4
<1> QED BY <1>3, <1>5, <1>6 DEF Stream

\* ... and the first bytes are those of the oldest.
LEMMA StreamShrinks ==
  ASSUME NEW s \in Seq(Bytes), NEW q \in Seq(Items), s # << >>, Stream(s, q)
  PROVE  /\ q # << >> /\ SIZEOF_INT <= Len(s)
         /\ SubSeq(s, 1, SIZEOF_INT) = IntOf(Head(q))
         /\ Stream(SubSeq(s, SIZEOF_INT + 1, Len(s)), Tail(q))
<1> DEFINE S == SIZEOF_INT
           n == Len(q)
           t == SubSeq(s, S + 1, Len(s))
           r == Tail(q)
<1>0. S \in Nat \ {0} /\ n \in Nat /\ Len(s) \in Nat
  BY SizesAssumption
<1>1. Len(s) = n * S
  BY DEF Stream
<1>2. n # 0
  BY <1>1, Products
<1>3. /\ n - 1 \in Nat /\ (n - 1) * S \in Nat /\ n * S = (n - 1) * S + S
  <2>1. n - 1 \in Nat /\ (n - 1) + 1 = n
    BY <1>0, <1>2
  <2> QED BY <2>1, Products
<1>4. S <= Len(s) /\ Len(s) - S = (n - 1) * S
  BY <1>0, <1>1, <1>3
<1>5. q # << >> /\ Head(q) = q[1] /\ Len(r) = n - 1 /\ \A i \in 1..(n - 1) : r[i] = q[i + 1]
  BY <1>0, <1>2
<1>6. /\ Len(SubSeq(s, 1, S)) = S /\ \A b \in 1..S : SubSeq(s, 1, S)[b] = s[b]
      /\ SubSeq(s, 1, S) \in Seq(Bytes)
  BY <1>0, <1>4
<1>7. Len(t) = (n - 1) * S /\ \A b \in 1..((n - 1) * S) : t[b] = s[S + b]
  BY <1>0, <1>3, <1>4
<1>8. ASSUME NEW b \in 1..S PROVE SubSeq(s, 1, S)[b] = IntOf(Head(q))[b]
  <2>1. 1 \in 1..n /\ 1 - 1 = 0 /\ 0 * S + b = b
    BY <1>0, <1>2, Products
  <2>2. s[(1 - 1) * S + b] = <<q[1], b>>
    BY <2>1 DEF Stream
  <2> QED BY <2>1, <2>2, <1>5, <1>6, Ints
<1>9. SubSeq(s, 1, S) = IntOf(Head(q))
  <2>1. SubSeq(s, 1, S) = [b \in 1..S |-> SubSeq(s, 1, S)[b]]
    BY <1>6
  <2>2. IntOf(Head(q)) = [b \in 1..S |-> IntOf(Head(q))[b]]
    BY Ints
  <2> QED BY <2>1, <2>2, <1>8
<1>10. ASSUME NEW i \in 1..(n - 1), NEW b \in 1..S PROVE t[(i - 1) * S + b] = <<r[i], b>>
  <2>1. i - 1 \in Nat /\ i - 1 < n - 1 /\ i + 1 \in 1..n /\ (i + 1) - 1 = i /\ (i - 1) + 1 = i
    BY <1>0, <1>3
  <2>2. (i - 1) * S \in Nat /\ (i - 1) * S + S <= (n - 1) * S /\ i * S = (i - 1) * S + S
    BY <2>1, <1>3, Products
  <2>3. (i - 1) * S + b \in 1..((n - 1) * S) /\ S + ((i - 1) * S + b) = i * S + b
    BY <2>2, <1>0, <1>3
  <2>4. s[((i + 1) - 1) * S + b] = <<q[i + 1], b>>
    BY <2>1 DEF Stream
  <2> QED BY <2>1, <2>3, <2>4, <1>5, <1>7
<1> QED BY <1>4, <1>5, <1>7, <1>9, <1>10 DEF Stream

\* A stream holds just one queue of values.
LEMMA QueueIs ==
  \A s \in Seq(Bytes), q \in Seq(Items) : Stream(s, q) => IntsIn(s) = q
<1> SUFFICES ASSUME NEW s \in Seq(Bytes), NEW q \in Seq(Items), Stream(s, q)
             PROVE  IntsIn(s) = q
  OBVIOUS
<1> DEFINE S == SIZEOF_INT
           n == Len(q)
<1>0. S \in Nat \ {0} /\ n \in Nat
  BY SizesAssumption
<1>1. Len(s) = n * S
  BY DEF Stream
<1>2. (Len(s) + S - 1) \div S = n
  BY <1>0, <1>1, Quotients
<1>3. IntsIn(s) = [i \in 1..n |-> s[Len(s) - (n - i) * S][1]]
  BY <1>2 DEF IntsIn
<1>4. ASSUME NEW i \in 1..n PROVE s[Len(s) - (n - i) * S][1] = q[i]
  <2>1. i - 1 \in Nat /\ (i - 1) + 1 = i /\ i \in Nat /\ S \in 1..S
    BY <1>0
  <2>2. Len(s) - (n - i) * S = (i - 1) * S + S
    <3>1. n * S = i * S + (n - i) * S
      BY <1>0
    <3>2. i * S = (i - 1) * S + S /\ i * S \in Nat /\ n * S \in Nat
      BY <1>0, <2>1, Products
    <3>3. (n - i) * S \in Int
      BY <1>0
    <3> QED BY <1>1, <3>1, <3>2, <3>3
  <2>3. s[(i - 1) * S + S] = <<q[i], S>>
    BY <2>1 DEF Stream
  <2> QED BY <2>2, <2>3
<1>5. IntsIn(s) = [i \in 1..n |-> q[i]]
  BY <1>3, <1>4
<1> QED BY <1>5

-----------------------------------------------------------------------------
(* Producers and consumers *)

\* The operations left to T are finitely many, and an operation done is one less.
LEMMA RemainingFinite ==
  \A T : IsFiniteSet(Remaining(T)) /\ Cardinality(Remaining(T)) \in Nat
<1>1. IsFiniteSet(Operations)
  <2>1. IsFiniteSet(1..OPS_PER_PRODUCER) /\ IsFiniteSet(1..OPS_PER_CONSUMER)
    BY FS_Interval, SizesAssumption
  <2>2. IsFiniteSet(Items) /\ IsFiniteSet(Consumers \X (1..OPS_PER_CONSUMER))
    BY <2>1, FS_Product, SizesAssumption DEF Items
  <2> QED BY <2>2, FS_Union DEF Operations
<1> QED BY <1>1, FS_Subset, FS_CardinalityType DEF Remaining

\* A thread's operation is taken off what is left to its kind, and off nothing else.
LEMMA OneLess ==
  ASSUME TypeOK, Bounded, NEW T \in {Producers, Consumers}, NEW t \in T,
         numOps[t] > 0, numOps' = [numOps EXCEPT ![t] = @ - 1]
  PROVE  /\ Cardinality(Remaining(T))' = Cardinality(Remaining(T)) - 1
         /\ \A S \in {Producers, Consumers} : S # T => Remaining(S)' = Remaining(S)
<1> DEFINE o == <<t, numOps[t]>>
<1>0. /\ numOps \in [Threads -> Nat] /\ t \in Threads
      /\ \A u \in Threads : u # t => numOps'[u] = numOps[u]
      /\ numOps[t] \in Nat /\ numOps'[t] = numOps[t] - 1
  BY DEF TypeOK, Threads
<1>1. o \in Operations
  BY <1>0, SizesAssumption DEF Bounded, Operations, Items
<1>2. \A a \in Operations : /\ a = <<a[1], a[2]>> /\ a[1] \in Threads /\ a[2] \in Nat
  BY SizesAssumption DEF Operations, Items, Threads
<1>3. \A a \in Operations : a # o => (a[2] <= numOps[a[1]] <=> a[2] <= numOps'[a[1]])
  <2> SUFFICES ASSUME NEW a \in Operations, a # o
               PROVE  a[2] <= numOps[a[1]] <=> a[2] <= numOps'[a[1]]
    OBVIOUS
  <2>1. CASE a[1] = t
    <3>1. a[2] # numOps[t]
      BY <1>2, <2>1
    <3> QED BY <1>0, <1>2, <2>1, <3>1
  <2>2. CASE a[1] # t
    BY <1>0, <1>2, <2>2
  <2> QED BY <2>1, <2>2
<1>4. o \in Remaining(T) /\ o \notin Remaining(T)'
  BY <1>0, <1>1 DEF Remaining
<1>5. Remaining(T) = Remaining(T)' \cup {o}
  BY <1>3, <1>4 DEF Remaining
<1>6. Cardinality(Remaining(T)) = Cardinality(Remaining(T)') + 1
  <2>1. Remaining(T)' \subseteq Remaining(T)
    BY <1>5
  <2>2. IsFiniteSet(Remaining(T)')
    BY <2>1, RemainingFinite, FS_Subset
  <2> QED BY <1>4, <1>5, <2>2, FS_AddElement
<1>7. Cardinality(Remaining(T)') \in Nat
  BY <1>5, RemainingFinite, FS_Subset, FS_CardinalityType
<1>8. ASSUME NEW S \in {Producers, Consumers}, S # T PROVE Remaining(S)' = Remaining(S)
  <2>1. t \notin S
    BY <1>8, SizesAssumption
  <2> QED BY <1>3, <2>1 DEF Remaining
<1> QED BY <1>6, <1>7, <1>8, RemainingFinite

\* A step that leaves the FIFO, the loops and what was consumed alone keeps what
\* is said of them.
LEMMA MainsKeep ==
  ASSUME Bounded, Whole, Balanced, History, UNCHANGED <<fifo, numOps, value, consumed>>
  PROVE  Bounded' /\ Whole' /\ Balanced' /\ History'
BY DEF Bounded, Whole, Stream, Balanced, Queue, IntsIn, Remaining, History, Produced

\* What is left to the producers is initially what the consumers will take.
LEMMA ProdConsInit == Init => ProdConsInv
<1> SUFFICES ASSUME Init PROVE ProdConsInv
  OBVIOUS
<1>1. TypeOK /\ Bounded /\ AllWritten /\ NeverStarved
  <2>1. TypeOK
    BY SizesAssumption DEF Init, TypeOK, Threads
  <2>2. Bounded
    BY SizesAssumption DEF Init, Bounded, Threads
  <2> QED BY <2>1, <2>2 DEF Init, AllWritten, NeverStarved
<1>2. Whole /\ Queue = << >>
  <2>1. << >> \in Seq(Items) /\ Stream(fifo, << >>)
    BY Products DEF Init, Stream
  <2>2. Queue = << >>
    BY <2>1, <1>1, QueueIs DEF TypeOK, Queue
  <2> QED BY <2>1, <2>2 DEF Init, Whole
<1>3. History
  BY <1>2 DEF Init, History
<1>4. /\ Remaining(Producers) = Items
      /\ Remaining(Consumers) = Consumers \X (1..OPS_PER_CONSUMER)
  BY SizesAssumption DEF Init, Remaining, Operations, Items, Threads
<1>5. /\ Cardinality(1..OPS_PER_PRODUCER) = OPS_PER_PRODUCER /\ IsFiniteSet(1..OPS_PER_PRODUCER)
      /\ Cardinality(1..OPS_PER_CONSUMER) = OPS_PER_CONSUMER /\ IsFiniteSet(1..OPS_PER_CONSUMER)
  BY FS_Interval, SizesAssumption
<1>6. /\ Cardinality(Items) = Cardinality(Producers) * OPS_PER_PRODUCER
      /\ Cardinality(Consumers \X (1..OPS_PER_CONSUMER)) =
           Cardinality(Consumers) * OPS_PER_CONSUMER
  BY <1>5, FS_Product, SizesAssumption DEF Items
<1>7. Cardinality(Producers) \in Nat /\ Cardinality(Consumers) \in Nat
  BY FS_CardinalityType, SizesAssumption
<1>8. Cardinality(Remaining(Producers)) = Cardinality(Remaining(Consumers))
  BY <1>4, <1>6, <1>7, OperationsMatch, SizesAssumption
<1>9. Balanced
  BY <1>2, <1>8, RemainingFinite DEF Balanced
<1> QED BY <1>1, <1>2, <1>3, <1>9 DEF ProdConsInv

\* A turn with all the bytes of an int is a whole operation.
LEMMA WholeTurn ==
  ASSUME TypeOK, Whole, NEW t \in Threads, NEW int, Len(int) = SIZEOF_INT, Turn(t, int)
  PROVE  value' = value /\ numOps' = [numOps EXCEPT ![t] = @ - 1]
<1>1. /\ value' = [value EXCEPT ![t] = << >>] /\ value[t] = << >>
      /\ value \in [Threads -> Seq(Bytes)]
  BY DEF Turn, Whole, TypeOK
<1> QED BY <1>1 DEF Turn

\* One write() writes the whole int: it is no longer than PIPE_BUF.
LEMMA OneWrite ==
  ASSUME ProdConsInv, NEW p \in Producers, Produce(p)
  PROVE  /\ fifo' = fifo \o IntOf(<<p, numOps[p]>>) /\ Len(fifo) + SIZEOF_INT <= FIFO_SIZE
         /\ value' = value /\ numOps' = [numOps EXCEPT ![p] = @ - 1]
<1> DEFINE x == <<p, numOps[p]>>
<1>1. value[p] = << >> /\ p \in Threads
  BY DEF ProdConsInv, Whole, Threads
<1>2. Len(value[p]) = 0 /\ SIZEOF_INT - Len(value[p]) = SIZEOF_INT /\ 0 + 1 = 1
      /\ 0 + SIZEOF_INT = SIZEOF_INT
  BY <1>1, SizesAssumption
<1>3. Written(SIZEOF_INT) = {SIZEOF_INT}
  BY PipeBufAssumption DEF Written
<1>4. /\ Len(fifo) + SIZEOF_INT <= FIFO_SIZE /\ fifo' = fifo \o IntOf(x)
      /\ Turn(p, value[p] \o IntOf(x))
  BY <1>2, <1>3 DEF Produce, IntOf
<1>5. /\ p \in Producers /\ numOps[p] \in Nat /\ numOps[p] > 0 /\ numOps[p] <= OPS_PER_PRODUCER
  BY <1>1 DEF ProdConsInv, TypeOK, Bounded, Produce
<1>6. x \in Items
  BY <1>5, SizesAssumption DEF Items
<1>7. << >> \o IntOf(x) = IntOf(x) /\ Len(IntOf(x)) = SIZEOF_INT
  BY <1>6, Ints, ConcatEmptySeq
<1> QED BY <1>1, <1>4, <1>7, WholeTurn DEF ProdConsInv

\* A value written is new: it goes behind the others and will be read once.
LEMMA ProduceKeeps ==
  ASSUME ProdConsInv, NEW p \in Producers, Produce(p)
  PROVE  /\ <<p, numOps[p]>> \in Items \ Produced
         /\ Queue' = Append(Queue, <<p, numOps[p]>>)
         /\ Len(Queue) < FIFO_SIZE \div SIZEOF_INT
         /\ ProdConsInv'
<1> DEFINE x == <<p, numOps[p]>>
<1>0. /\ numOps \in [Threads -> Nat] /\ fifo \in Seq(Bytes) /\ p \in Threads
      /\ numOps[p] > 0 /\ numOps[p] \in Nat /\ numOps[p] <= OPS_PER_PRODUCER
      /\ numOps' = [numOps EXCEPT ![p] = @ - 1] /\ value' = value
      /\ Len(fifo) + SIZEOF_INT <= FIFO_SIZE /\ fifo' = fifo \o IntOf(x) /\ consumed' = consumed
  BY OneWrite DEF ProdConsInv, TypeOK, Bounded, Produce, Threads
<1>1. x \in Items /\ x \notin Produced
  BY <1>0, SizesAssumption DEF Items, Produced
<1>2. Queue \in Seq(Items) /\ Stream(fifo, Queue)
  BY DEF ProdConsInv, Whole
<1>3. /\ fifo' \in Seq(Bytes) /\ Len(fifo') <= FIFO_SIZE
      /\ Stream(fifo', Append(Queue, x)) /\ Append(Queue, x) \in Seq(Items)
  <2>1. IntOf(x) \in Seq(Bytes) /\ Len(IntOf(x)) = SIZEOF_INT
    BY <1>1, Ints
  <2>2. fifo \o IntOf(x) \in Seq(Bytes) /\ Len(fifo \o IntOf(x)) = Len(fifo) + SIZEOF_INT
    BY <1>0, <2>1, ConcatProperties
  <2>3. Append(Queue, x) \in Seq(Items)
    BY <1>1, <1>2
  <2>4. Stream(fifo \o IntOf(x), Append(Queue, x))
    BY <1>0, <1>1, <1>2, StreamGrows
  <2> QED BY <1>0, <2>2, <2>3, <2>4
<1>4. Queue' = Append(Queue, x)
  BY <1>3, QueueIs DEF Queue
<1>5. Len(Queue) < FIFO_SIZE \div SIZEOF_INT
  <2> DEFINE n == Len(Queue)
  <2>1. n \in Nat /\ Len(fifo) = n * SIZEOF_INT
    BY <1>2 DEF Stream
  <2>2. (n + 1) * SIZEOF_INT <= FIFO_SIZE
    <3>1. (n + 1) * SIZEOF_INT = n * SIZEOF_INT + SIZEOF_INT
      BY <2>1, Products
    <3> QED BY <1>0, <2>1, <3>1
  <2> HIDE DEF n
  <2>3. n + 1 <= FIFO_SIZE \div SIZEOF_INT
    BY <2>1, <2>2, Quotients, SizesAssumption
  <2>4. FIFO_SIZE \div SIZEOF_INT \in Nat
    BY SizesAssumption
  <2>5. n < FIFO_SIZE \div SIZEOF_INT
    BY <2>1, <2>3, <2>4
  <2> QED BY <2>5 DEF n
<1>6. TypeOK'
  <2>1. numOps' \in [Threads -> Nat]
    BY <1>0
  <2> QED BY <1>0, <1>3, <2>1 DEF ProdConsInv, TypeOK, Produce
<1>7. Bounded' /\ AllWritten' /\ NeverStarved'
  <2>1. Bounded'
    BY <1>0, SizesAssumption DEF ProdConsInv, Bounded, Threads
  <2>2. AllWritten'
    <3>1. producer # "ended" /\ producer' = producer
      BY <1>0 DEF ProdConsInv, AllWritten, Produce
    <3> QED BY <3>1 DEF AllWritten
  <2>3. NeverStarved'
    BY DEF ProdConsInv, NeverStarved, Produce
  <2> QED BY <2>1, <2>2, <2>3
<1>8. Whole'
  BY <1>0, <1>3, <1>4 DEF ProdConsInv, Whole
<1>9. /\ Len(Queue') = Len(Queue) + 1 /\ Len(Queue) \in Nat
      /\ Queue'[Len(Queue) + 1] = x
      /\ \A i \in 1..Len(Queue) : Queue'[i] = Queue[i]
  BY <1>1, <1>2, <1>4
<1>10. Balanced'
  <2>1. Cardinality(Remaining(Producers))' = Cardinality(Remaining(Producers)) - 1
    BY <1>0, OneLess DEF ProdConsInv
  <2>2. Remaining(Consumers)' = Remaining(Consumers)
    BY <1>0, OneLess, SizesAssumption DEF ProdConsInv
  <2> QED BY <1>9, <2>1, <2>2, RemainingFinite DEF ProdConsInv, Balanced
<1>11. History'
  <2>1. Produced \subseteq Produced' /\ x \in Produced'
    BY <1>0, <1>1 DEF Produced, Items, Threads
  <2>2. \A i \in 1..Len(Queue') : Queue'[i] \in Produced'
    BY <1>9, <2>1 DEF ProdConsInv, History
  <2> QED BY <1>0, <2>1, <2>2 DEF ProdConsInv, History
<1> QED BY <1>1, <1>4, <1>5, <1>6, <1>7, <1>8, <1>10, <1>11 DEF ProdConsInv

\* A consumer that has an operation left does not find the FIFO empty and closed.
LEMMA NoEndOfFile ==
  ASSUME ProdConsInv, NEW c \in Consumers, numOps[c] > 0, fifo = << >>
  PROVE  producer # "ended"
<1> SUFFICES ASSUME producer = "ended" PROVE FALSE
  OBVIOUS
<1>1. Queue = << >>
  <2>1. << >> \in Seq(Items) /\ Stream(fifo, << >>)
    BY Products DEF Stream
  <2> QED BY <2>1, QueueIs DEF ProdConsInv, TypeOK, Queue
<1>2. Cardinality(Remaining(Producers)) = 0
  <2>1. \A p \in Producers : numOps[p] = 0
    BY DEF ProdConsInv, AllWritten
  <2>2. Remaining(Producers) = {}
    BY <2>1, SizesAssumption DEF Remaining, Operations, Items
  <2> QED BY <2>2, FS_EmptySet
<1>3. Cardinality(Remaining(Consumers)) = 0
  BY <1>1, <1>2 DEF ProdConsInv, Balanced
<1>4. <<c, numOps[c]>> \in Remaining(Consumers)
  <2>1. c \in Threads /\ numOps[c] \in Nat /\ numOps[c] <= OPS_PER_CONSUMER
    BY DEF ProdConsInv, TypeOK, Bounded, Threads
  <2>2. numOps[c] \in 1..OPS_PER_CONSUMER
    BY <2>1, SizesAssumption
  <2> QED BY <2>1, <2>2 DEF Remaining, Operations
<1> QED BY <1>3, <1>4, RemainingFinite, FS_EmptySet

\* One read() reads the whole int: all of its bytes are there.
LEMMA OneRead ==
  ASSUME ProdConsInv, NEW c \in Consumers, Consume(c)
  PROVE  /\ Queue # << >> /\ Head(Queue) \in Items
         /\ fifo' = SubSeq(fifo, SIZEOF_INT + 1, Len(fifo)) /\ Stream(fifo', Tail(Queue))
         /\ consumed' = [consumed EXCEPT ![Head(Queue)] = @ + 1]
         /\ value' = value /\ numOps' = [numOps EXCEPT ![c] = @ - 1] /\ crashed' = crashed
<1> DEFINE x == Head(Queue)
<1>1. value[c] = << >> /\ c \in Threads
  BY DEF ProdConsInv, Whole, Threads
<1>2. Len(value[c]) = 0 /\ SIZEOF_INT - Len(value[c]) = SIZEOF_INT
  BY <1>1, SizesAssumption
<1>3. ReadValue(c, SIZEOF_INT)
  BY <1>2 DEF Consume
<1>4. fifo # << >>
  BY <1>3, NoEndOfFile DEF ReadValue
<1>5. Queue \in Seq(Items) /\ Stream(fifo, Queue) /\ fifo \in Seq(Bytes)
  BY DEF ProdConsInv, Whole, TypeOK
<1>6. /\ Queue # << >> /\ SIZEOF_INT <= Len(fifo)
      /\ SubSeq(fifo, 1, SIZEOF_INT) = IntOf(x)
      /\ Stream(SubSeq(fifo, SIZEOF_INT + 1, Len(fifo)), Tail(Queue))
  BY <1>4, <1>5, StreamShrinks
<1>7. x \in Items
  BY <1>5, <1>6
<1>8. << >> \o IntOf(x) = IntOf(x) /\ Len(IntOf(x)) = SIZEOF_INT
  BY <1>7, Ints, ConcatEmptySeq
<1>9. (IF SIZEOF_INT < Len(fifo) THEN SIZEOF_INT ELSE Len(fifo)) = SIZEOF_INT
  BY <1>5, <1>6, SizesAssumption
<1>10. /\ fifo' = SubSeq(fifo, SIZEOF_INT + 1, Len(fifo))
       /\ consumed' = [y \in Items |-> consumed[y] + (IF IntOf(x) = IntOf(y) THEN 1 ELSE 0)]
       /\ Turn(c, IntOf(x)) /\ crashed' = crashed
  BY <1>1, <1>3, <1>4, <1>6, <1>8, <1>9 DEF ReadValue
<1>11. consumed' = [consumed EXCEPT ![x] = @ + 1]
  <2>1. \A y \in Items : IntOf(x) = IntOf(y) <=> y = x
    BY Ints
  <2>2. consumed \in [Items -> Nat]
    BY DEF ProdConsInv, TypeOK
  <2> HIDE DEF x
  <2>3. consumed' = [y \in Items |-> consumed[y] + (IF y = x THEN 1 ELSE 0)]
    BY <1>10, <2>1
  <2>4. \A y \in Items : consumed'[y] = [consumed EXCEPT ![x] = @ + 1][y]
    BY <1>7, <2>2, <2>3
  <2> QED BY <2>2, <2>3, <2>4
<1> QED BY <1>1, <1>6, <1>7, <1>8, <1>10, <1>11, WholeTurn DEF ProdConsInv

\* A value read leaves the FIFO.
LEMMA ConsumeKeeps ==
  ASSUME ProdConsInv, NEW c \in Consumers, Consume(c)
  PROVE  Queue' = Tail(Queue) /\ ProdConsInv'
<1> DEFINE x == Head(Queue)
<1>0. /\ numOps \in [Threads -> Nat] /\ c \in Threads
      /\ numOps[c] > 0 /\ numOps[c] \in Nat
      /\ numOps' = [numOps EXCEPT ![c] = @ - 1] /\ value' = value /\ crashed' = crashed
      /\ consumed \in [Items -> Nat] /\ consumed' = [consumed EXCEPT ![x] = @ + 1]
      /\ UNCHANGED <<name, producer, consumer, found, created, starts>>
  BY OneRead DEF ProdConsInv, TypeOK, Consume, ReadValue, Threads
<1>1. Queue \in Seq(Items) /\ fifo \in Seq(Bytes) /\ Len(fifo) <= FIFO_SIZE
  BY DEF ProdConsInv, Whole, TypeOK
<1>2. /\ Queue # << >> /\ x \in Items /\ fifo' = SubSeq(fifo, SIZEOF_INT + 1, Len(fifo))
      /\ Stream(fifo', Tail(Queue))
  BY OneRead
<1>3. /\ fifo' \in Seq(Bytes) /\ Len(fifo') <= FIFO_SIZE
  BY <1>1, <1>2, SizesAssumption
<1>4. /\ Tail(Queue) \in Seq(Items) /\ Len(Tail(Queue)) = Len(Queue) - 1
      /\ Len(Queue) \in Nat \ {0} /\ x = Queue[1]
      /\ \A i \in 1..(Len(Queue) - 1) : Tail(Queue)[i] = Queue[i + 1] /\ i + 1 \in 1..Len(Queue)
  BY <1>1, <1>2
<1>5. Queue' = Tail(Queue)
  BY <1>2, <1>3, <1>4, QueueIs DEF Queue
<1>6. TypeOK'
  <2>1. numOps' \in [Threads -> Nat] /\ consumed' \in [Items -> Nat]
    BY <1>0, <1>2
  <2>2. TypeOK
    BY DEF ProdConsInv
  <2> HIDE DEF x
  <2> QED BY <1>0, <1>3, <2>1, <2>2 DEF TypeOK
<1>7. Bounded' /\ AllWritten' /\ NeverStarved'
  BY <1>0, SizesAssumption DEF ProdConsInv, Bounded, AllWritten, NeverStarved, Threads
<1>8. Whole'
  BY <1>0, <1>2, <1>4, <1>5 DEF ProdConsInv, Whole
<1>9. Balanced'
  <2>1. Cardinality(Remaining(Consumers))' = Cardinality(Remaining(Consumers)) - 1
    BY <1>0, OneLess DEF ProdConsInv
  <2>2. Remaining(Producers)' = Remaining(Producers)
    BY <1>0, OneLess, SizesAssumption DEF ProdConsInv
  <2> QED BY <1>4, <1>5, <2>1, <2>2, RemainingFinite DEF ProdConsInv, Balanced
<1>10. History'
  <2>1. Produced' = Produced
    BY <1>0, SizesAssumption DEF Produced, Items, Threads
  <2>2. x \in Produced
    BY <1>4 DEF ProdConsInv, History
  <2>3. \A y \in Items : y # x => consumed'[y] = consumed[y]
    BY <1>0
  <2>4. \A i \in 1..Len(Queue') : Queue'[i] \in Produced
    BY <1>4, <1>5 DEF ProdConsInv, History
  <2> QED BY <2>1, <2>2, <2>3, <2>4 DEF ProdConsInv, History
<1> QED BY <1>5, <1>6, <1>7, <1>8, <1>9, <1>10 DEF ProdConsInv

\* Every step of the two programs and their children keeps the invariant.
LEMMA ProdConsNext == ProdConsInv /\ [Next]_vars => ProdConsInv'
<1> SUFFICES ASSUME ProdConsInv, [Next]_vars PROVE ProdConsInv'
  OBVIOUS
<1>1. ASSUME ProducerMain \/ ConsumerMain \/ ConsumerStart \/ UNCHANGED vars PROVE ProdConsInv'
  <2>1. UNCHANGED <<fifo, numOps, value, crashed, consumed>>
    BY <1>1 DEF ProducerMain, Unlink, Mkfifo, ProducerOpen, CloseProducer, ProducerFork,
                ConsumerMain, ConsumerOpen, CloseConsumer, ConsumerFork, ConsumerStart, vars,
                children
  <2>2. TypeOK'
    <3> DEFINE Mains == /\ name \in {"none", "old", "new"} /\ found \in {"none", "old", "new"}
                        /\ producer \in {"unlink", "mkfifo", "open", "fork", "ended"}
                        /\ consumer \in {"off", "open", "fork", "ended", "failed",
                                         "child crashed"}
                        /\ created \subseteq Threads /\ starts \in 0..CONSUMER_STARTS
    <3>0. Mains
      BY DEF ProdConsInv, TypeOK
    <3>1. ASSUME ProducerMain PROVE Mains'
      BY <3>0, <3>1
      DEF ProducerMain, Unlink, Mkfifo, ProducerOpen, CloseProducer, ProducerFork, children,
          Threads
    <3>2. ASSUME ConsumerMain PROVE Mains'
      <4>1. ASSUME CloseConsumer PROVE Mains'
        <5>1. consumer' \in {"ended", "child crashed"}
          BY <4>1 DEF CloseConsumer
        <5>2. UNCHANGED <<name, found, producer, created, starts>>
          BY <4>1 DEF CloseConsumer, children
        <5> QED BY <3>0, <5>1, <5>2
      <4>2. ASSUME ConsumerOpen PROVE Mains'
        BY <3>0, <4>2 DEF ConsumerOpen, children
      <4>3. ASSUME NEW c \in Consumers, ConsumerFork(c) PROVE Mains'
        BY <3>0, <4>3 DEF ConsumerFork, Threads
      <4> QED BY <3>2, <4>1, <4>2, <4>3 DEF ConsumerMain
    <3>3. ASSUME ConsumerStart PROVE Mains'
      <4>1. /\ consumer' \in {"failed", "open"} /\ found' = name
            /\ starts < CONSUMER_STARTS /\ starts' = starts + 1
            /\ UNCHANGED <<name, producer, created>>
        BY <3>3 DEF ConsumerStart, children
      <4>2. starts' \in 0..CONSUMER_STARTS
        <5>1. starts \in 0..CONSUMER_STARTS
          BY <3>0
        <5> HIDE DEF Mains
        <5>2. CONSUMER_STARTS \in Nat
          BY SizesAssumption
        <5> QED BY <4>1, <5>1, <5>2
      <4> QED BY <3>0, <4>1, <4>2
    <3>4. ASSUME UNCHANGED vars PROVE Mains'
      BY <3>0, <3>4 DEF vars, children
    <3>5. Mains'
      BY <1>1, <3>1, <3>2, <3>3, <3>4
    <3> QED BY <2>1, <3>5 DEF ProdConsInv, TypeOK
  <2>3. AllWritten'
    BY <1>1, <2>1
    DEF ProdConsInv, AllWritten, ProducerMain, Unlink, Mkfifo, ProducerOpen, CloseProducer,
        ProducerFork, ConsumerMain, ConsumerOpen, CloseConsumer, ConsumerFork, ConsumerStart,
        vars
  <2>4. NeverStarved'
    BY <2>1 DEF ProdConsInv, NeverStarved
  <2> QED BY <2>1, <2>2, <2>3, <2>4, MainsKeep DEF ProdConsInv
<1> QED BY <1>1, ProduceKeeps, ConsumeKeeps DEF Next

-----------------------------------------------------------------------------
(* Echo and client *)

\* Nothing is there but what earlier runs have left.
LEMMA EchoInit == EchoFifo!Init => EchoInv
<1> SUFFICES ASSUME EchoFifo!Init PROVE EchoInv
  OBVIOUS
<1> USE DEF EchoFifo!Init, EchoFifo!Fifos, EchoFifo!CLNT_FIFO, EchoFifo!ECHO_FIFO, CLNT, ECHO
<1>1. EchoFifo!TypeOK
  BY BoundsAssumption DEF EchoFifo!TypeOK
<1>2. Made /\ BeforeWelcome /\ NothingPending /\ OnePending
  BY DEF Made, BeforeWelcome, NotGreeted, NothingPending, OnePending
<1> QED BY <1>1, <1>2 DEF EchoInv

\* A message written to an empty FIFO is alone there.
LEMMA ChanPut ==
  ASSUME EchoFifo!TypeOK, NEW f \in EchoFifo!Fifos, chan[f] = << >>,
         NEW x \in EchoFifo!Messages,
         chan' = [chan EXCEPT ![f] = Append(@, x)] \/ chan' = [chan EXCEPT ![f] = @ \o <<x>>]
  PROVE  /\ chan' \in [EchoFifo!Fifos -> Seq(EchoFifo!Messages)]
         /\ \A g \in EchoFifo!Fifos : Len(chan'[g]) <= 1
         /\ chan'[f] = <<x>> /\ \A g \in EchoFifo!Fifos : g # f => chan'[g] = chan[g]
<1>1. Append(<< >>, x) = <<x>> /\ << >> \o <<x>> = <<x>> /\ <<x>> \in Seq(EchoFifo!Messages)
      /\ Len(<<x>>) = 1
  OBVIOUS
<1>2. chan' = [chan EXCEPT ![f] = <<x>>]
  BY <1>1
<1>3. /\ chan \in [EchoFifo!Fifos -> Seq(EchoFifo!Messages)]
      /\ \A g \in EchoFifo!Fifos : Len(chan[g]) <= 1
  BY DEF EchoFifo!TypeOK
<1> QED BY <1>1, <1>2, <1>3

\* The only message of a FIFO leaves it empty.
LEMMA ChanTake ==
  ASSUME EchoFifo!TypeOK, NEW f \in EchoFifo!Fifos, NEW x, chan[f] = <<x>>,
         chan' = [chan EXCEPT ![f] = Tail(@)]
  PROVE  /\ chan' \in [EchoFifo!Fifos -> Seq(EchoFifo!Messages)]
         /\ \A g \in EchoFifo!Fifos : Len(chan'[g]) <= 1
         /\ Head(chan[f]) = x /\ x \in EchoFifo!Messages
         /\ chan'[f] = << >> /\ \A g \in EchoFifo!Fifos : g # f => chan'[g] = chan[g]
<1>1. Tail(<<x>>) = << >> /\ Head(<<x>>) = x /\ Len(<<x>>) = 1 /\ Len(<< >>) = 0
      /\ << >> \in Seq(EchoFifo!Messages)
  OBVIOUS
<1>2. <<x>> \in Seq(EchoFifo!Messages)
  BY DEF EchoFifo!TypeOK
<1>3. x \in EchoFifo!Messages
  <2>1. 1 \in 1..Len(<<x>>) /\ <<x>>[1] = x
    OBVIOUS
  <2> QED BY <1>2, <2>1
<1> QED BY <1>1, <1>3 DEF EchoFifo!TypeOK

\* Every step of the two programs keeps the invariant.
LEMMA EchoNext == EchoInv /\ [EchoFifo!Next]_(EchoFifo!vars) => EchoInv'
<1> SUFFICES ASSUME EchoInv, [EchoFifo!Next]_(EchoFifo!vars) PROVE EchoInv'
  OBVIOUS
<1> USE BoundsAssumption
    DEF EchoFifo!Fifos, EchoFifo!CLNT_FIFO, EchoFifo!ECHO_FIFO, CLNT, ECHO, EchoInv,
        EchoFifo!TypeOK, Made, BeforeWelcome, NotGreeted, NothingPending,
        OnePending, EchoFifo!ends, EchoFifo!counts, EchoFifo!Lines, EchoFifo!Messages,
        EchoFifo!Welcome, EchoFifo!Rest, EchoFifo!buf, EchoFifo!QUIT
<1>1. CASE EchoFifo!EchoStart
  BY <1>1 DEF EchoFifo!EchoStart
<1>2. CASE EchoFifo!EchoMkfifo
  <2>1. CASE EchoFifo!Mkfifo(ECHO, "mkfifo_echo", "mkfifo_clnt")
    <3>1. CASE ECHO \in exists
      <4>1. exists' = exists /\ echo' = "failed"
        BY <2>1, <3>1 DEF EchoFifo!Mkfifo
      <4> QED BY <2>1, <4>1 DEF EchoFifo!Mkfifo
    <3>2. CASE ECHO \notin exists
      <4>1. NotGreeted /\ NotGreeted' /\ ECHO \in exists' /\ echo' = "mkfifo_clnt"
        BY <2>1, <3>2 DEF EchoFifo!Mkfifo
      <4> QED BY <2>1, <4>1 DEF EchoFifo!Mkfifo
    <3> QED BY <3>1, <3>2
  <2>2. CASE EchoFifo!Mkfifo(CLNT, "mkfifo_clnt", "open_clnt")
    <3>1. exists' = EchoFifo!Fifos
      BY <2>2 DEF EchoFifo!Mkfifo
    <3> QED BY <2>2, <3>1 DEF EchoFifo!Mkfifo
  <2> QED BY <1>2, <2>1, <2>2 DEF EchoFifo!EchoMkfifo
<1>3. CASE EchoFifo!EchoOpen
  BY <1>3 DEF EchoFifo!EchoOpen
<1>4. CASE EchoFifo!EchoWelcome
  <2>1. /\ chan[ECHO] = << >> /\ client \notin {"input", "read"} /\ chan[CLNT] = << >>
        /\ exists' = EchoFifo!Fifos
    BY <1>4 DEF EchoFifo!EchoWelcome
  <2>2. /\ chan' \in [EchoFifo!Fifos -> Seq(EchoFifo!Messages)]
        /\ \A g \in EchoFifo!Fifos : Len(chan'[g]) <= 1
        /\ chan'[ECHO] = <<EchoFifo!Welcome>> /\ chan'[CLNT] = << >>
    BY <1>4, <2>1, ChanPut DEF EchoFifo!EchoWelcome
  <2>3. EchoFifo!Bytes(EchoFifo!Welcome) \in Nat
    BY DEF EchoFifo!Bytes, EchoFifo!WELCOME_LEN
  <2> QED BY <1>4, <2>1, <2>2, <2>3 DEF EchoFifo!EchoWelcome
<1>5. CASE EchoFifo!EchoRead
  <2>0. /\ echo = "read" /\ chan[CLNT] # << >>
        /\ line' = Head(chan[CLNT]) /\ strlen' = EchoFifo!Bytes(Head(chan[CLNT]))
        /\ chan' = [chan EXCEPT ![CLNT] = Tail(@)]
        /\ echo' = IF EchoFifo!EchoQuits(line') THEN "ended" ELSE "write"
        /\ UNCHANGED <<exists, reader, writer, client, sent, reply, lines, echoes, clients>>
    BY <1>5 DEF EchoFifo!EchoRead, EchoFifo!ReadLine
  <2>1. /\ client = "read" /\ chan[CLNT] = <<sent>> /\ chan[ECHO] = << >>
        /\ exists = EchoFifo!Fifos /\ sent \in EchoFifo!Lines
    BY <2>0
  <2>2. /\ chan' \in [EchoFifo!Fifos -> Seq(EchoFifo!Messages)]
        /\ \A g \in EchoFifo!Fifos : Len(chan'[g]) <= 1
        /\ chan'[ECHO] = << >> /\ chan'[CLNT] = << >> /\ Head(chan[CLNT]) = sent
    BY <2>0, <2>1, ChanTake
  <2>3. /\ echo' = "write" /\ line' = sent /\ strlen' = EchoFifo!Bytes(sent)
    <3>1. ~EchoFifo!EchoQuits(sent)
      BY <2>1 DEF EchoFifo!EchoQuits, EchoFifo!Bytes, EchoFifo!QUIT_LEN
    <3> HIDE DEF EchoFifo!QUIT
    <3> QED BY <2>0, <2>2, <3>1
  <2>4. EchoFifo!Bytes(sent) \in Nat
    BY <2>1 DEF EchoFifo!Bytes, EchoFifo!QUIT_LEN
  <2>5. EchoFifo!TypeOK'
    BY <2>0, <2>1, <2>2, <2>3, <2>4
  <2> HIDE DEF EchoFifo!TypeOK
  <2>6. Made' /\ BeforeWelcome'
    BY <2>0, <2>1, <2>3
  <2>7. NothingPending' /\ OnePending'
    BY <2>0, <2>1, <2>2, <2>3
  <2> HIDE DEF EchoInv, Made, BeforeWelcome, NothingPending, OnePending
  <2> QED BY <2>5, <2>6, <2>7 DEF EchoInv
<1>6. CASE EchoFifo!EchoEof
  BY <1>6 DEF EchoFifo!EchoEof, EchoFifo!Close
<1>7. CASE EchoFifo!EchoWrite
  <2>1. /\ client = "read" /\ chan[CLNT] = << >> /\ chan[ECHO] = << >> /\ line = sent
        /\ exists' = EchoFifo!Fifos /\ sent \in EchoFifo!Lines
    BY <1>7 DEF EchoFifo!EchoWrite
  <2>2. /\ chan' \in [EchoFifo!Fifos -> Seq(EchoFifo!Messages)]
        /\ \A g \in EchoFifo!Fifos : Len(chan'[g]) <= 1
        /\ chan'[ECHO] = <<sent>> /\ chan'[CLNT] = << >>
    BY <1>7, <2>1, ChanPut DEF EchoFifo!EchoWrite
  <2> QED BY <1>7, <2>1, <2>2 DEF EchoFifo!EchoWrite
<1>8. CASE EchoFifo!ClientStart
  BY <1>8 DEF EchoFifo!ClientStart
<1>9. CASE EchoFifo!ClientOpen
  BY <1>9 DEF EchoFifo!ClientOpen
<1>10. CASE EchoFifo!ClientOpenFails
  BY <1>10 DEF EchoFifo!ClientOpenFails
<1>11. CASE EchoFifo!ClientRead
  BY <1>11 DEF EchoFifo!ClientRead
<1>12. CASE EchoFifo!ClientSend
  <2>1. /\ client = "input" /\ chan[CLNT] = << >> /\ chan[ECHO] = << >> /\ echo # "write"
        /\ ~NotGreeted
    BY <1>12 DEF EchoFifo!ClientSend
  <2>2. PICK l \in EchoFifo!Lines :
          sent' = l /\ chan' = [chan EXCEPT ![CLNT] = Append(@, l)]
    BY <1>12 DEF EchoFifo!ClientSend
  <2>3. /\ chan' \in [EchoFifo!Fifos -> Seq(EchoFifo!Messages)]
        /\ \A g \in EchoFifo!Fifos : Len(chan'[g]) <= 1
        /\ chan'[CLNT] = <<sent'>> /\ chan'[ECHO] = << >> /\ sent' \in EchoFifo!Lines
    BY <2>1, <2>2, ChanPut
  <2> QED BY <1>12, <2>1, <2>3 DEF EchoFifo!ClientSend
<1>13. CASE EchoFifo!ClientEof
  BY <1>13 DEF EchoFifo!ClientEof, EchoFifo!Close
<1>14. CASE UNCHANGED EchoFifo!vars
  BY <1>14 DEF EchoFifo!vars
<1> QED
  BY <1>1, <1>2, <1>3, <1>4, <1>5, <1>6, <1>7, <1>8, <1>9, <1>10, <1>11, <1>12, <1>13, <1>14
  DEF EchoFifo!Next, EchoFifo!Echo, EchoFifo!Client

-----------------------------------------------------------------------------
(* The theorems *)

\* Each pair keeps its invariant, also while the other runs.
LEMMA FifosInvariant == FifosSpec => [](ProdConsInv /\ EchoInv)
<1>1. FifosInit => ProdConsInv /\ EchoInv
  BY ProdConsInit, EchoInit DEF FifosInit
<1>2. ProdConsInv /\ EchoInv /\ [FifosNext]_<<programs, vars, echoVars>>
        => (ProdConsInv /\ EchoInv)'
  <2>1. [FifosNext]_<<programs, vars, echoVars>>
          => [Next]_vars /\ [EchoFifo!Next]_(EchoFifo!vars)
    BY DEF FifosNext, echoVars, EchoFifo!vars, EchoFifo!ends, EchoFifo!counts, EchoFifo!buf
  <2> QED BY <2>1, ProdConsNext, EchoNext
<1> QED BY <1>1, <1>2, PTL DEF FifosSpec

\* The variables of both pairs of programs keep their types: the FIFO never
\* holds more than its size, nor an echo FIFO more than one line.
THEOREM Typing == FifosSpec => []TypesOK
<1>1. ProdConsInv /\ EchoInv => TypesOK
  BY DEF ProdConsInv, EchoInv, TypesOK
<1> QED BY <1>1, FifosInvariant, PTL

(***************************************************************************)
(* What is in the FIFO and still to be produced is always as much as what  *)
(* is still to be consumed, so no consumer ever meets the end of file that *)
(* it would take for a failure.                                            *)
(***************************************************************************)
THEOREM NobodyStarves == FifosSpec => []NeverStarved
<1>1. ProdConsInv => NeverStarved
  BY DEF ProdConsInv
<1> QED BY <1>1, FifosInvariant, PTL

\* Every reply is the line the client has sent, whatever clients were there before.
THEOREM RepliesAreEchoes == FifosSpec => []RepliesMatch
<1>1. EchoInv => RepliesMatch
  BY DEF EchoInv, NothingPending, RepliesMatch, EchoFifo!RepliesMatch
<1> QED BY <1>1, FifosInvariant, PTL

(***************************************************************************)
(* Whatever order the kernel gives their reads and writes, the processes   *)
(* that share the FIFO without excluding one another hand on whole ints,   *)
(* each once and in order: an int is never split between two writes or two *)
(* reads, since all writes are as long as all reads and fit in PIPE_BUF.   *)
(***************************************************************************)
THEOREM Refinement == FifosSpec => ImplementsBuffer
<1>1. FifosInit => Buffer!Init
  <2> SUFFICES ASSUME FifosInit PROVE Buffer!Init
    OBVIOUS
  <2>1. Stream(fifo, << >>) /\ fifo \in Seq(Bytes) /\ << >> \in Seq(Items)
    BY Products DEF FifosInit, Init, Stream
  <2>2. Queue = << >>
    BY <2>1, QueueIs DEF Queue
  <2> QED BY <2>2 DEF FifosInit, Init, Buffer!Init
<1>2. ProdConsInv /\ [FifosNext]_<<programs, vars, echoVars>> => [Buffer!Next]_(Buffer!bvars)
  <2> SUFFICES ASSUME ProdConsInv, [FifosNext]_<<programs, vars, echoVars>>
               PROVE  Buffer!Next \/ UNCHANGED <<Queue, consumed>>
    BY DEF Buffer!bvars
  <2>1. ASSUME NEW p \in Producers, Produce(p) PROVE Buffer!Next
    <3> DEFINE x == <<p, numOps[p]>>
    <3>1. /\ x \in Items \ Produced /\ Queue' = Append(Queue, x)
          /\ Len(Queue) < FIFO_SIZE \div SIZEOF_INT /\ consumed' = consumed
      BY <2>1, ProduceKeeps DEF Produce
    <3>2. consumed[x] = 0 /\ \A i \in 1..Len(Queue) : Queue[i] # x
      BY <3>1 DEF ProdConsInv, History
    <3>3. DOMAIN Queue = 1..Len(Queue)
      BY DEF ProdConsInv, Whole
    <3>4. Buffer!Put(x)
      BY <3>1, <3>2, <3>3 DEF Buffer!Put, Buffer!Fresh
    <3> QED BY <3>1, <3>4 DEF Buffer!Next
  <2>2. ASSUME NEW c \in Consumers, Consume(c) PROVE Buffer!Next
    <3>1. /\ Queue # << >> /\ consumed' = [consumed EXCEPT ![Head(Queue)] = @ + 1]
          /\ Queue' = Tail(Queue)
      BY <2>2, OneRead, ConsumeKeeps
    <3> QED BY <3>1 DEF Buffer!Next, Buffer!Get
  <2>3. ASSUME ProducerMain \/ ConsumerMain \/ ConsumerStart \/ UNCHANGED vars
        PROVE  UNCHANGED <<Queue, consumed>>
    <3>1. UNCHANGED <<fifo, consumed>>
      BY <2>3
      DEF ProducerMain, Unlink, Mkfifo, ProducerOpen, CloseProducer, ProducerFork, ConsumerMain,
          ConsumerOpen, CloseConsumer, ConsumerFork, ConsumerStart, vars
    <3> QED BY <3>1 DEF Queue
  <2>4. Next \/ UNCHANGED vars
    BY DEF FifosNext
  <2> QED BY <2>1, <2>2, <2>3, <2>4 DEF Next
<1> QED
  BY <1>1, <1>2, FifosInvariant, PTL DEF FifosSpec, ImplementsBuffer, Buffer!Spec
=============================================================================
