--------------------------- MODULE StreamsProofs ---------------------------
(***************************************************************************)
(* Safety of the programs that move data through a descriptor in pieces    *)
(* whose size they do not choose: Lab06's pipe and copy and Lab07's time   *)
(* server, for any number of processes and clients, any size of the pipe,  *)
(* the messages, the files and the block, and any way the pieces fall.     *)
(***************************************************************************)
EXTENDS MCStreams, FiniteSetTheorems, SequenceTheorems, TLAPS

-----------------------------------------------------------------------------
(* copy.c *)

\* The offsets differ by what is in the block and not yet written, and the
\* block holds what lies before the source's offset.
Offsets ==
  /\ source \in Seq(Int) /\ old \in Seq(Int) /\ written_bytes <= block_size
  /\ copier # "write" => dest_offset = src_offset - read_bytes
  /\ copier = "write" => /\ dest_offset = src_offset - read_bytes + written_bytes
                         /\ written_bytes <= read_bytes
  /\ copier = "ended" => src_offset = Len(source) /\ read_bytes = 0
  /\ \A k \in 1..read_bytes : buf[k] = source[src_offset - read_bytes + k]

CopyInv == Copy!TypeOK /\ Copy!CopiesInOrder /\ Offsets

-----------------------------------------------------------------------------
(* time_server *)

Blamed == \E d \in Clients : short[d] \/ peer[d] = "killed"

\* The server has not received more than the command it was sent.
Received ==
  /\ \A c \in Clients : peer[c] \in {"off", "send"} => to_server[c] = 0
  /\ server = "recv" =>
       /\ client_desc \in Clients
       /\ recv_bytes + to_server[client_desc] <= COMMAND_LEN
       /\ peer[client_desc] \in {"off", "send"} => recv_bytes = 0

\* A connection was closed after the reply, or somebody is to blame.
Answered ==
  \A c \in Clients :
     /\ peer[c] \in {"off", "send"} => answer[c] = "nothing"
     /\ answer[c] = "garbage" /\ peer[c] = "recv" => short[c]
     /\ connection[c] = "closed" /\ to_client[c] = 0 /\ answer[c] = "nothing" => Blamed
     /\ peer[c] = "printed" /\ answer[c] # "reply" => Blamed

TimeInv == Time!TypeOK /\ Received /\ Answered

-----------------------------------------------------------------------------
(* Pipe/main.c *)

\* The ints of S follow one another as in messages written one by one.
Whole(S) ==
  \A q \in Nat, p \in Places :
     q * MSG_ELEMS + p < Len(S) =>
        S[q * MSG_ELEMS + p + 1] = <<S[q * MSG_ELEMS + 1][1], p>>

\* S ends with a message, or with the first n ints of message m.
Complete(S) == \E q \in Nat : Len(S) = q * MSG_ELEMS

Partial(S, m, n) ==
  \E q \in Nat : /\ Len(S) = q * MSG_ELEMS + n
                 /\ n > 0 => S[q * MSG_ELEMS + 1][1] = m

\* What the writers have written since a message began, when they stand as
\* told by place, done and part (pc, i and sent).
Good(S, place, done, part) ==
  /\ Whole(S)
  /\ \A w \in Writers : place[w] = "write" => Partial(S, <<w, done[w]>>, part[w])
  /\ (\A w \in Writers : place[w] # "write") => Complete(S)

\* One process at a time behind each mutex.  Nothing is said of the reader's
\* side once a reader has failed: nobody gets its mutex any more.
Behind(P, at) == {p \in P : pc[p] \in {at, "post"}}

Locked ==
  /\ \A v, w \in Behind(Writers, "write") : v = w
  /\ \A q, r \in Behind(Readers, "read") : q = r
  /\ Behind(Writers, "write") # {} => write_mutex = 0
  /\ Behind(Readers, "read") # {} => read_mutex = 0

Placed ==
  /\ got \in [Readers -> Seq(Units)]
  /\ \A w \in Writers : /\ pc[w] \in {"write", "post"} => i[w] < PerWriter
                        /\ pc[w] # "write" => sent[w] = 0
  /\ \A r \in Readers : /\ pc[r] \in {"read", "post", "check"} => i[r] < PerReader
                        /\ pc[r] \in {"none", "loop"} => got[r] = <<>>

\* What a reader has read of its message and the pipe make up the stream.
Stream ==
  /\ read_mutex = 1 \/ (\E r \in Readers : pc[r] = "post") => Good(pipe, pc, i, sent)
  /\ \A r \in Readers : pc[r] = "read" => Good(got[r] \o pipe, pc, i, sent)

PipeInv == TypeOK /\ ReadsWholeMessages /\ Locked /\ Placed /\ Stream

-----------------------------------------------------------------------------
(* Sequences *)

\* SubSeq of a sequence of a set, within its bounds.
LEMMA PartOf ==
  ASSUME NEW S, NEW s \in Seq(S), NEW m \in Nat, NEW n \in Nat, m + n <= Len(s)
  PROVE  /\ SubSeq(s, m + 1, m + n) \in Seq(S) /\ Len(SubSeq(s, m + 1, m + n)) = n
         /\ \A k \in 1..n : SubSeq(s, m + 1, m + n)[k] = s[m + k]
<1>1. \A k \in (m + 1)..(m + n) : s[k] \in S
  BY LenProperties
<1> DEFINE p == m + 1
           q == m + n
           t == SubSeq(s, p, q)
<1>2. p \in Int /\ q \in Int /\ \A k \in p..q : s[k] \in S
  BY <1>1
<1>3. /\ t \in Seq(S) /\ Len(t) = (IF p <= q THEN q - p + 1 ELSE 0)
      /\ \A k \in 1..(q - p + 1) : t[k] = s[p + k - 1]
  <2> HIDE DEF p, q
  <2> QED BY <1>2, SubSeqProperties
<1>4. q - p + 1 = n
  OBVIOUS
<1>5. Len(t) = n
  BY <1>3, <1>4
<1>6. \A k \in 1..n : t[k] = s[m + k]
  BY <1>3, <1>4
<1> QED BY <1>3, <1>5, <1>6

-----------------------------------------------------------------------------
(* copy.c *)

LEMMA OverwriteIs ==
  ASSUME NEW f \in Seq(Int), NEW b \in Seq(Int), NEW o \in 0..Len(f)
  PROVE  /\ Copy!Overwrite(f, o, b) \in Seq(Int)
         /\ Len(Copy!Overwrite(f, o, b)) = IF o + Len(b) > Len(f) THEN o + Len(b) ELSE Len(f)
         /\ \A k \in 1..Len(Copy!Overwrite(f, o, b)) :
              Copy!Overwrite(f, o, b)[k] = IF o < k /\ k <= o + Len(b) THEN b[k - o] ELSE f[k]
<1> DEFINE n == IF o + Len(b) > Len(f) THEN o + Len(b) ELSE Len(f)
           g == [k \in 1..n |-> IF o < k /\ k <= o + Len(b) THEN b[k - o] ELSE f[k]]
<1>1. n \in Nat
  BY LenProperties
<1>2. ASSUME NEW k \in 1..n
      PROVE  (IF o < k /\ k <= o + Len(b) THEN b[k - o] ELSE f[k]) \in Int
  <2>1. CASE o < k /\ k <= o + Len(b)
    <3>1. k - o \in 1..Len(b)
      BY <2>1, <1>1, LenProperties
    <3> QED BY <2>1, <3>1, ElementOfSeq
  <2>2. CASE ~(o < k /\ k <= o + Len(b))
    <3>1. k \in 1..Len(f)
      BY <2>2, <1>1, LenProperties
    <3> QED BY <2>2, <3>1, ElementOfSeq
  <2> QED BY <2>1, <2>2
<1>3. g \in [1..n -> Int]
  BY <1>2
<1>4. g \in Seq(Int)
  <2> HIDE DEF g, n
  <2>1. \E m \in Nat : g \in [1..m -> Int]
    BY <1>1, <1>3
  <2> QED BY <2>1, SeqDef
<1>5. Len(g) = n
  <2>1. DOMAIN g = 1..n
    OBVIOUS
  <2> HIDE DEF g, n
  <2> QED BY <2>1, <1>1, <1>4, LenProperties
<1>6. Copy!Overwrite(f, o, b) = g
  BY DEF Copy!Overwrite
<1>7. \A k \in 1..Len(g) : g[k] = IF o < k /\ k <= o + Len(b) THEN b[k - o] ELSE f[k]
  BY <1>5
<1> HIDE DEF g
<1> QED BY <1>4, <1>5, <1>6, <1>7

\* What is written next to the first d bytes makes them d + r.
LEMMA CopyGrows ==
  ASSUME NEW f \in Seq(Int), NEW s \in Seq(Int), NEW b \in Seq(Int), NEW d \in Nat,
         d + Len(b) <= Len(s), \A k \in 1..Len(b) : b[k] = s[d + k]
  PROVE  Copy!Overwrite(Copy!Overwrite(f, 0, SubSeq(s, 1, d)), d, b)
           = Copy!Overwrite(f, 0, SubSeq(s, 1, d + Len(b)))
<1> DEFINE r == Len(b)
           s1 == SubSeq(s, 1, d)
           s2 == SubSeq(s, 1, d + r)
           g == Copy!Overwrite(f, 0, s1)
           h == Copy!Overwrite(f, 0, s2)
           e == Copy!Overwrite(g, d, b)
<1>1. Len(f) \in Nat /\ Len(s) \in Nat /\ r \in Nat /\ 0 \in 0..Len(f)
  BY LenProperties
<1>2. s1 \in Seq(Int) /\ Len(s1) = d /\ \A k \in 1..d : s1[k] = s[k]
  <2>1. /\ SubSeq(s, 0 + 1, 0 + d) \in Seq(Int) /\ Len(SubSeq(s, 0 + 1, 0 + d)) = d
        /\ \A k \in 1..d : SubSeq(s, 0 + 1, 0 + d)[k] = s[0 + k]
    BY <1>1, PartOf
  <2> QED BY <2>1
<1>3. s2 \in Seq(Int) /\ Len(s2) = d + r /\ \A k \in 1..(d + r) : s2[k] = s[k]
  <2>1. d + r \in Nat /\ 0 + (d + r) <= Len(s)
    BY <1>1
  <2>2. /\ SubSeq(s, 0 + 1, 0 + (d + r)) \in Seq(Int)
        /\ Len(SubSeq(s, 0 + 1, 0 + (d + r))) = d + r
        /\ \A k \in 1..(d + r) : SubSeq(s, 0 + 1, 0 + (d + r))[k] = s[0 + k]
    BY <2>1, PartOf
  <2> QED BY <2>1, <2>2
<1> HIDE DEF s1, s2
<1>4. /\ g \in Seq(Int) /\ Len(g) = IF d > Len(f) THEN d ELSE Len(f)
      /\ \A k \in 1..Len(g) : g[k] = IF k <= d THEN s[k] ELSE f[k]
  <2>1. /\ g \in Seq(Int) /\ Len(g) = IF 0 + Len(s1) > Len(f) THEN 0 + Len(s1) ELSE Len(f)
        /\ \A k \in 1..Len(g) : g[k] = IF 0 < k /\ k <= 0 + Len(s1) THEN s1[k - 0] ELSE f[k]
    BY <1>1, <1>2, OverwriteIs
  <2> HIDE DEF g
  <2> QED BY <2>1, <1>1, <1>2
<1>5. /\ h \in Seq(Int) /\ Len(h) = IF d + r > Len(f) THEN d + r ELSE Len(f)
      /\ \A k \in 1..Len(h) : h[k] = IF k <= d + r THEN s[k] ELSE f[k]
  <2>1. /\ h \in Seq(Int) /\ Len(h) = IF 0 + Len(s2) > Len(f) THEN 0 + Len(s2) ELSE Len(f)
        /\ \A k \in 1..Len(h) : h[k] = IF 0 < k /\ k <= 0 + Len(s2) THEN s2[k - 0] ELSE f[k]
    BY <1>1, <1>3, OverwriteIs
  <2> HIDE DEF h
  <2> QED BY <2>1, <1>1, <1>3
<1> HIDE DEF g, h
<1>6. /\ e \in Seq(Int) /\ Len(e) = IF d + r > Len(g) THEN d + r ELSE Len(g)
      /\ \A k \in 1..Len(e) : e[k] = IF d < k /\ k <= d + r THEN b[k - d] ELSE g[k]
  <2>1. d \in 0..Len(g)
    BY <1>1, <1>4
  <2> QED BY <2>1, <1>4, OverwriteIs
<1> HIDE DEF e, r
<1>7. Len(e) = Len(h)
  <2>1. Len(e) \in Nat /\ Len(h) \in Nat /\ Len(g) \in Nat
    BY <1>4, <1>5, <1>6, LenProperties
  <2>4. d + r \in Nat
    BY <1>1
  <2>2. CASE d + r > Len(f)
    <3>1. Len(g) \in {d, Len(f)} /\ Len(g) <= d + r
      BY <2>2, <2>4, <1>1, <1>4
    <3>2. Len(e) = d + r
      BY <3>1, <2>1, <2>4, <1>6
    <3> QED BY <3>2, <2>2, <1>5
  <2>3. CASE d + r <= Len(f)
    <3>1. ~(d > Len(f)) /\ ~(d + r > Len(f))
      BY <2>3, <2>4, <1>1
    <3>2. Len(g) = Len(f) /\ Len(h) = Len(f)
      BY <3>1, <1>4, <1>5
    <3> QED BY <3>1, <3>2, <1>6
  <2> QED BY <2>2, <2>3, <2>4, <1>1
<1>8. ASSUME NEW k \in 1..Len(e)  PROVE e[k] = h[k]
  <2>1. CASE d < k /\ k <= d + r
    <3>1. k - d \in 1..r /\ d + (k - d) = k
      BY <2>1, <1>1, <1>6, <1>4
    <3>2. e[k] = b[k - d]
      BY <2>1, <1>6
    <3>3. b[k - d] = s[k]
      BY <3>1, <1>1 DEF r
    <3> QED BY <2>1, <3>2, <3>3, <1>5, <1>7
  <2>2. CASE k <= d
    <3>1. k \in 1..Len(g)
      BY <2>2, <1>1, <1>4, <1>6
    <3>2. e[k] = g[k] /\ g[k] = s[k]
      BY <2>2, <3>1, <1>1, <1>4, <1>6
    <3> QED BY <2>2, <3>2, <1>1, <1>5, <1>6, <1>7
  <2>3. CASE k > d + r
    <3>1. k \in 1..Len(g)
      BY <2>3, <1>1, <1>4, <1>6
    <3>2. e[k] = g[k] /\ g[k] = f[k]
      BY <2>3, <3>1, <1>1, <1>4, <1>6
    <3> QED BY <2>3, <3>2, <1>1, <1>5, <1>6, <1>7
  <2>4. (d < k /\ k <= d + r) \/ k <= d \/ k > d + r
    <3>1. k \in Int /\ d \in Int /\ d + r \in Int
      BY <1>1
    <3> QED BY <3>1
  <2> QED BY <2>1, <2>2, <2>3, <2>4, <1>1
<1>9. e = h
  BY <1>5, <1>6, <1>7, <1>8, SeqEqual
<1> QED BY <1>9 DEF e, h, g, s1, s2, r

LEMMA CopyStarts == Copy!Init => CopyInv
<1> SUFFICES ASSUME Copy!Init PROVE CopyInv
  OBVIOUS
<1>1. /\ SOURCE_SIZES \subseteq Nat /\ OLD_SIZES \subseteq Nat
      /\ BLOCK_SIZES \subseteq Nat \ {0}
  BY ProgramsAssumption DEF ProgramsAssumption, Copy!FilesAssumption
<1>2. PICK n \in Nat, o \in Nat : source = [k \in 1..n |-> k] /\ old = [k \in 1..o |-> -k]
  BY <1>1 DEF Copy!Init
<1>3. source \in Seq(Int) /\ old \in Seq(Int)
  <2>1. source \in [1..n -> Int] /\ old \in [1..o -> Int]
    BY <1>2
  <2> QED BY <2>1, SeqDef
<1>4. block_size \in Nat \ {0} /\ block_size \in BLOCK_SIZES
  BY <1>1 DEF Copy!Init
<1>5. buf \in Seq(Int) /\ Len(buf) = block_size
  <2>1. buf \in [1..block_size -> Int]
    BY <1>4 DEF Copy!Init, Copy!Nothing
  <2>2. buf \in Seq(Int)
    BY <2>1, <1>4, SeqDef
  <2> QED BY <2>1, <2>2, <1>4, LenProperties
<1>6. dest = old /\ src_offset = 0 /\ dest_offset = 0 /\ read_bytes = 0 /\ written_bytes = 0
      /\ copier = "off"
  BY DEF Copy!Init
<1>7. Len(source) \in Nat /\ Len(old) \in Nat
  BY <1>3, LenProperties
<1>8. Copy!TypeOK
  BY <1>3, <1>4, <1>5, <1>6, <1>7 DEF Copy!TypeOK
<1>9. dest = Copy!Overwrite(old, 0, SubSeq(source, 1, 0))
  <2> DEFINE e == SubSeq(source, 1, 0)
             g == Copy!Overwrite(old, 0, e)
  <2>1. e \in Seq(Int) /\ Len(e) = 0
    <3>1. e = << >>
      BY SubSeqEmpty
    <3> QED BY <3>1, EmptySeq
  <2> HIDE DEF e
  <2>2. /\ g \in Seq(Int)
        /\ Len(g) = IF 0 + Len(e) > Len(old) THEN 0 + Len(e) ELSE Len(old)
        /\ \A k \in 1..Len(g) : g[k] = IF 0 < k /\ k <= 0 + Len(e) THEN e[k - 0] ELSE old[k]
    <3>1. 0 \in 0..Len(old)
      BY <1>7
    <3> QED BY <2>1, <3>1, <1>3, OverwriteIs
  <2> HIDE DEF g
  <2>3. Len(g) = Len(old) /\ \A k \in 1..Len(g) : g[k] = old[k]
    BY <2>1, <2>2, <1>7
  <2>4. g = old
    BY <2>2, <2>3, <1>3, SeqEqual
  <2> QED BY <2>4, <1>6 DEF g, e
<1>10. Copy!CopiesInOrder
  BY <1>6, <1>9 DEF Copy!CopiesInOrder
<1>11. Offsets
  BY <1>3, <1>4, <1>6 DEF Offsets
<1> QED BY <1>8, <1>10, <1>11 DEF CopyInv

LEMMA ReadNext ==
  ASSUME CopyInv, Copy!Read
  PROVE  CopyInv'
<1>1. /\ copier = "read" /\ read_bytes < block_size
      /\ UNCHANGED <<source, old, block_size, dest, dest_offset, written_bytes, copier>>
  BY DEF Copy!Read, Copy!inputs
<1>2. PICK ret \in 1..(block_size - read_bytes) :
        /\ src_offset + ret <= Len(source)
        /\ buf' = Copy!Overwrite(buf, read_bytes,
                                SubSeq(source, src_offset + 1, src_offset + ret))
        /\ read_bytes' = read_bytes + ret
        /\ src_offset' = src_offset + ret
  BY DEF Copy!Read
<1>3. /\ source \in Seq(Int) /\ buf \in Seq(Int) /\ Len(buf) = block_size
      /\ src_offset \in Nat /\ read_bytes \in Nat /\ block_size \in Nat /\ dest_offset \in Nat
      /\ dest_offset = src_offset - read_bytes /\ Len(source) \in Nat
      /\ \A k \in 1..read_bytes : buf[k] = source[src_offset - read_bytes + k]
  <2>1. source \in Seq(Int) /\ buf \in Seq(Int)
    BY DEF CopyInv, Copy!TypeOK, Offsets
  <2>2. Len(source) \in Nat /\ Len(buf) \in Nat
    BY <2>1, LenProperties
  <2> QED BY <2>1, <2>2, <1>1 DEF CopyInv, Copy!TypeOK, Offsets
<1>4. ret \in Nat /\ read_bytes + ret <= block_size
  BY <1>2, <1>3
<1> DEFINE b == SubSeq(source, src_offset + 1, src_offset + ret)
<1>5. b \in Seq(Int) /\ Len(b) = ret /\ \A k \in 1..ret : b[k] = source[src_offset + k]
  BY <1>2, <1>3, <1>4, PartOf
<1> HIDE DEF b
<1>6. buf' = Copy!Overwrite(buf, read_bytes, b) /\ read_bytes \in 0..Len(buf)
  BY <1>1, <1>2, <1>3 DEF b
<1>7. /\ buf' \in Seq(Int)
      /\ Len(buf') = IF read_bytes + ret > block_size THEN read_bytes + ret ELSE block_size
      /\ \A k \in 1..Len(buf') : buf'[k] = IF read_bytes < k /\ k <= read_bytes + ret
                                        THEN b[k - read_bytes] ELSE buf[k]
  <2>1. /\ Copy!Overwrite(buf, read_bytes, b) \in Seq(Int)
        /\ Len(Copy!Overwrite(buf, read_bytes, b))
              = IF read_bytes + Len(b) > Len(buf) THEN read_bytes + Len(b) ELSE Len(buf)
        /\ \A k \in 1..Len(Copy!Overwrite(buf, read_bytes, b)) :
              Copy!Overwrite(buf, read_bytes, b)[k]
                = IF read_bytes < k /\ k <= read_bytes + Len(b) THEN b[k - read_bytes] ELSE buf[k]
    BY <1>3, <1>5, <1>6, OverwriteIs
  <2> QED BY <2>1, <1>3, <1>5, <1>6
<1>8. Len(buf') = block_size
  BY <1>3, <1>4, <1>7
<1>9. ASSUME NEW k \in 1..read_bytes'
      PROVE  buf'[k] = source'[src_offset' - read_bytes' + k]
  <2>1. k \in 1..(read_bytes + ret) /\ k \in 1..Len(buf')
    BY <1>2, <1>3, <1>4, <1>8
  <2>2. source' = source /\ src_offset' - read_bytes' + k = src_offset - read_bytes + k
    BY <2>1, <1>1, <1>2, <1>3, <1>4
  <2>3. CASE k <= read_bytes
    <3>1. buf'[k] = buf[k] /\ k \in 1..read_bytes
      BY <2>1, <2>3, <1>3, <1>7
    <3> QED BY <3>1, <2>2, <1>3
  <2>4. CASE read_bytes < k
    <3>1. k - read_bytes \in 1..ret /\ buf'[k] = b[k - read_bytes]
      BY <2>1, <2>4, <1>3, <1>4, <1>7
    <3>2. src_offset + (k - read_bytes) = src_offset - read_bytes + k
      BY <2>1, <1>3
    <3>3. b[k - read_bytes] = source[src_offset + (k - read_bytes)]
      BY <3>1, <1>5
    <3> QED BY <3>1, <3>2, <3>3, <2>2
  <2>5. k \in Int /\ read_bytes \in Int
    BY <2>1, <1>3
  <2> QED BY <2>3, <2>4, <2>5
<1>10. Copy!TypeOK'
  <2>1. src_offset' \in 0..Len(source) /\ read_bytes' \in 0..block_size
    BY <1>2, <1>3, <1>4
  <2> QED BY <2>1, <1>1, <1>7, <1>8 DEF CopyInv, Copy!TypeOK
<1>11. Copy!CopiesInOrder'
  BY <1>1 DEF CopyInv, Copy!CopiesInOrder
<1>12. dest_offset' = src_offset' - read_bytes'
  BY <1>1, <1>2, <1>3, <1>4
<1>13. Offsets'
  BY <1>1, <1>9, <1>12 DEF CopyInv, Offsets
<1> QED BY <1>10, <1>11, <1>13 DEF CopyInv

LEMMA WriteNext ==
  ASSUME CopyInv, Copy!Write
  PROVE  CopyInv'
<1>1. /\ copier = "write" /\ written_bytes < read_bytes
      /\ UNCHANGED <<source, old, block_size, buf, src_offset, read_bytes, copier>>
  BY DEF Copy!Write, Copy!inputs
<1>2. PICK ret2 \in 1..(read_bytes - written_bytes) :
        /\ dest' = Copy!Overwrite(dest, dest_offset,
                                 SubSeq(buf, written_bytes + 1, written_bytes + ret2))
        /\ dest_offset' = dest_offset + ret2
        /\ written_bytes' = written_bytes + ret2
  BY DEF Copy!Write
<1>3. /\ source \in Seq(Int) /\ old \in Seq(Int) /\ buf \in Seq(Int)
      /\ src_offset \in Nat /\ read_bytes \in Nat /\ written_bytes \in Nat
      /\ block_size \in Nat /\ dest_offset \in Nat /\ Len(source) \in Nat
      /\ Len(buf) = block_size /\ src_offset <= Len(source) /\ read_bytes <= block_size
  <2>1. source \in Seq(Int) /\ buf \in Seq(Int) /\ old \in Seq(Int)
    BY DEF CopyInv, Copy!TypeOK, Offsets
  <2>2. Len(source) \in Nat /\ Len(buf) \in Nat
    BY <2>1, LenProperties
  <2> QED BY <2>1, <2>2 DEF CopyInv, Copy!TypeOK
<1>4. /\ dest_offset = src_offset - read_bytes + written_bytes
      /\ \A k \in 1..read_bytes : buf[k] = source[src_offset - read_bytes + k]
      /\ dest = Copy!Overwrite(old, 0, SubSeq(source, 1, dest_offset))
  BY <1>1 DEF CopyInv, Offsets, Copy!CopiesInOrder
<1>5. /\ ret2 \in Nat /\ written_bytes + ret2 <= read_bytes
      /\ dest_offset + ret2 <= Len(source)
  <2>1. ret2 \in 1..(read_bytes - written_bytes)
    BY <1>2
  <2>2. ret2 \in Nat /\ written_bytes + ret2 <= read_bytes
    BY <2>1, <1>3
  <2>3. dest_offset = src_offset - read_bytes + written_bytes
    BY <1>4
  <2> QED BY <2>2, <2>3, <1>3
<1> DEFINE b == SubSeq(buf, written_bytes + 1, written_bytes + ret2)
<1>6. b \in Seq(Int) /\ Len(b) = ret2 /\ \A k \in 1..ret2 : b[k] = buf[written_bytes + k]
  <2>1. written_bytes + ret2 <= Len(buf)
    BY <1>3, <1>5
  <2> QED BY <2>1, <1>3, <1>5, PartOf
<1>7. dest' = Copy!Overwrite(dest, dest_offset, b)
  BY <1>2
<1> HIDE DEF b
<1>8. ASSUME NEW k \in 1..Len(b)  PROVE b[k] = source[dest_offset + k]
  <2>1. written_bytes + k \in 1..read_bytes /\ b[k] = buf[written_bytes + k]
    <3>1. k \in 1..ret2
      BY <1>6
    <3>2. written_bytes + k \in 1..read_bytes
      BY <3>1, <1>3, <1>5
    <3> QED BY <3>1, <3>2, <1>6
  <2>2. src_offset - read_bytes + (written_bytes + k) = dest_offset + k
    BY <1>3, <1>4, <1>5, <1>6
  <2>3. buf[written_bytes + k] = source[src_offset - read_bytes + (written_bytes + k)]
    BY <2>1, <1>4
  <2> QED BY <2>1, <2>2, <2>3
<1>9. dest' = Copy!Overwrite(old, 0, SubSeq(source, 1, dest_offset + ret2))
  <2>1. dest_offset + Len(b) <= Len(source) /\ Len(b) = ret2
    BY <1>5, <1>6
  <2>2. Copy!Overwrite(Copy!Overwrite(old, 0, SubSeq(source, 1, dest_offset)), dest_offset, b)
          = Copy!Overwrite(old, 0, SubSeq(source, 1, dest_offset + Len(b)))
    <3>1. \A k \in 1..Len(b) : b[k] = source[dest_offset + k]
      BY <1>8
    <3>2. /\ old \in Seq(Int) /\ source \in Seq(Int) /\ b \in Seq(Int)
          /\ dest_offset \in Nat /\ dest_offset + Len(b) <= Len(source)
      BY <2>1, <1>3, <1>6
    <3> QED BY <3>1, <3>2, CopyGrows
  <2> QED BY <2>1, <2>2, <1>4, <1>7
<1>10. dest_offset \in 0..Len(dest) /\ dest \in Seq(Int)
  <2> DEFINE e == SubSeq(source, 1, dest_offset)
  <2>1. e \in Seq(Int) /\ Len(e) = dest_offset
    <3>1. /\ SubSeq(source, 0 + 1, 0 + dest_offset) \in Seq(Int)
          /\ Len(SubSeq(source, 0 + 1, 0 + dest_offset)) = dest_offset
      <4>1. 0 + dest_offset <= Len(source) /\ 0 \in Nat
        BY <1>3, <1>5
      <4> QED BY <4>1, <1>3, PartOf
    <3> QED BY <3>1, <1>3
  <2>2. dest = Copy!Overwrite(old, 0, e) /\ Len(old) \in Nat
    BY <1>3, <1>4, LenProperties
  <2> HIDE DEF e
  <2>3. Len(dest) = IF 0 + dest_offset > Len(old) THEN 0 + dest_offset ELSE Len(old)
    BY <2>1, <2>2, <1>3, OverwriteIs
  <2> QED BY <2>2, <2>3, <1>3 DEF CopyInv, Copy!TypeOK
<1>11. dest' \in Seq(Int)
  BY <1>6, <1>7, <1>10, OverwriteIs
<1>12. Copy!TypeOK'
  <2>1. dest_offset' \in 0..Len(source) /\ written_bytes' \in 0..block_size
    BY <1>2, <1>3, <1>5
  <2> QED BY <2>1, <1>1, <1>11 DEF CopyInv, Copy!TypeOK
<1>13. Copy!CopiesInOrder'
  BY <1>1, <1>2, <1>9 DEF Copy!CopiesInOrder
<1>14. /\ dest_offset' = src_offset' - read_bytes' + written_bytes'
       /\ written_bytes' <= read_bytes' /\ written_bytes' <= block_size
  BY <1>1, <1>2, <1>3, <1>4, <1>5
<1>15. Offsets'
  BY <1>1, <1>14 DEF CopyInv, Offsets
<1> QED BY <1>12, <1>13, <1>15 DEF CopyInv

\* Every step of copy.c keeps its invariant.
LEMMA CopyNext == CopyInv /\ Copy!Next => CopyInv'
<1> SUFFICES ASSUME CopyInv, Copy!Next PROVE CopyInv'
  OBVIOUS
<1>t. /\ src_offset \in Nat /\ read_bytes \in Nat /\ written_bytes \in Nat
      /\ block_size \in Nat \ {0} /\ dest_offset \in Nat /\ Len(source) \in Nat
  <2>1. source \in Seq(Int)
    BY DEF CopyInv, Offsets
  <2>2. Len(source) \in Nat /\ block_size \in Nat \ {0}
    BY <2>1, LenProperties, ProgramsAssumption
    DEF CopyInv, Copy!TypeOK, ProgramsAssumption, Copy!FilesAssumption
  <2> QED BY <2>2 DEF CopyInv, Copy!TypeOK
<1>1. CASE Copy!Open
  <2>1. /\ copier = "off" /\ copier' = "read"
        /\ UNCHANGED <<source, old, block_size, dest, buf, src_offset, dest_offset, read_bytes,
                       written_bytes>>
    BY <1>1 DEF Copy!Open, Copy!inputs
  <2> QED BY <2>1 DEF CopyInv, Copy!TypeOK, Copy!CopiesInOrder, Offsets
<1>2. CASE Copy!ReadEnds
  <2>1. /\ copier = "read" /\ copier' = (IF read_bytes = 0 THEN "ended" ELSE "write")
        /\ read_bytes = block_size \/ src_offset = Len(source)
        /\ written_bytes' = 0
        /\ UNCHANGED <<source, old, block_size, dest, buf, src_offset, dest_offset, read_bytes>>
    BY <1>2 DEF Copy!ReadEnds, Copy!inputs
  <2>2. dest_offset = src_offset - read_bytes
    BY <2>1 DEF CopyInv, Offsets
  <2>3. CASE read_bytes = 0
    <3>1. copier' = "ended" /\ src_offset = Len(source) /\ dest_offset = Len(source)
      BY <2>1, <2>2, <2>3, <1>t
    <3>2. Copy!TypeOK' /\ Copy!CopiesInOrder'
      BY <3>1, <2>1, <1>t DEF CopyInv, Copy!TypeOK, Copy!CopiesInOrder
    <3>3. Offsets'
      BY <3>1, <2>1, <2>2, <2>3, <1>t DEF CopyInv, Offsets
    <3> QED BY <3>2, <3>3 DEF CopyInv
  <2>4. CASE read_bytes # 0
    <3>1. copier' = "write" /\ dest_offset = src_offset - read_bytes + 0
      BY <2>1, <2>2, <2>4, <1>t
    <3>2. Copy!TypeOK' /\ Copy!CopiesInOrder'
      BY <3>1, <2>1, <1>t DEF CopyInv, Copy!TypeOK, Copy!CopiesInOrder
    <3>3. Offsets'
      BY <3>1, <2>1, <2>4, <1>t DEF CopyInv, Offsets
    <3> QED BY <3>2, <3>3 DEF CopyInv
  <2> QED BY <2>3, <2>4
<1>3. CASE Copy!WriteEnds
  <2>1. /\ copier = "write" /\ written_bytes = read_bytes /\ copier' = "read"
        /\ read_bytes' = 0
        /\ UNCHANGED <<source, old, block_size, dest, buf, src_offset, dest_offset,
                       written_bytes>>
    BY <1>3 DEF Copy!WriteEnds, Copy!inputs
  <2>2. dest_offset = src_offset - 0
    BY <2>1, <1>t DEF CopyInv, Offsets
  <2> QED BY <2>1, <2>2, <1>t DEF CopyInv, Copy!TypeOK, Copy!CopiesInOrder, Offsets
<1> QED BY <1>1, <1>2, <1>3, ReadNext, WriteNext DEF Copy!Next, Copy!PerformCopy

-----------------------------------------------------------------------------
(* time_server *)

LEMMA Lengths ==
  NoClient \notin Clients /\ COMMAND_LEN \in Nat \ {0, 1} /\ REPLY_LEN \in Nat \ {0, 1}
  /\ SERVER_STARTS \in Nat
BY ProgramsAssumption DEF ProgramsAssumption, Time!LengthsAssumption

\* The variables of each client, one by one.
LEMMA TimeTypes ==
  ASSUME Time!TypeOK
  PROVE  \A c \in Clients : /\ to_server[c] \in Nat /\ to_server[c] <= COMMAND_LEN
                            /\ to_client[c] \in Nat /\ to_client[c] <= REPLY_LEN
BY Lengths DEF Time!TypeOK

LEMMA TimeTypesNext ==
  ASSUME TimeInv, Time!Next
  PROVE  Time!TypeOK'
<1> USE DEF TimeInv
<1>t. COMMAND_LEN \in Nat \ {0, 1} /\ REPLY_LEN \in Nat \ {0, 1} /\ SERVER_STARTS \in Nat
  BY Lengths
<1>1. ASSUME NEW c \in Clients, Time!Accept(c)  PROVE Time!TypeOK'
  BY <1>1, <1>t DEF Time!Accept, Time!TypeOK
<1>2. ASSUME NEW c \in Clients, Time!Recv(c)  PROVE Time!TypeOK'
  <2>1. PICK ret \in 1..to_server[c] :
          /\ to_server' = [to_server EXCEPT ![c] = @ - ret]
          /\ short' = [short EXCEPT ![c] = @ \/ ret < COMMAND_LEN]
          /\ recv_bytes' = recv_bytes + ret
          /\ \/ Time!ServerExits
             \/ server' \in {"reply", "recv"} /\ UNCHANGED <<client_desc, connection>>
    BY <1>2 DEF Time!Recv
  <2>2. /\ server = "recv" /\ client_desc = c /\ UNCHANGED <<to_client, peer, answer, starts>>
    BY <1>2 DEF Time!Recv
  <2>3. ret \in Nat /\ to_server[c] \in Nat /\ recv_bytes \in Nat /\ ret <= to_server[c]
        /\ to_server[c] <= COMMAND_LEN /\ recv_bytes + to_server[c] <= COMMAND_LEN
    BY <2>2, <1>t, TimeTypes DEF Time!TypeOK, Received
  <2>4. to_server' \in [Clients -> 0..COMMAND_LEN]
    <3>1. to_server[c] - ret \in 0..COMMAND_LEN
      BY <2>3, <1>t
    <3> QED BY <3>1, <2>1 DEF Time!TypeOK
  <2>5. recv_bytes' \in 0..COMMAND_LEN
    BY <2>1, <2>3, <1>t
  <2>6. short' \in [Clients -> BOOLEAN]
    BY <2>1 DEF Time!TypeOK
  <2>7. /\ server' \in {"off", "accept", "recv", "reply", "exited"}
        /\ client_desc' \in Clients \cup {NoClient}
        /\ connection' \in [Clients -> {"none", "queued", "accepted", "closed"}]
    BY <2>1 DEF Time!ServerExits, Time!TypeOK
  <2> QED BY <2>2, <2>4, <2>5, <2>6, <2>7 DEF Time!TypeOK
<1>3. ASSUME NEW c \in Clients, Time!RecvEof(c)  PROVE Time!TypeOK'
  BY <1>3 DEF Time!RecvEof, Time!ServerExits, Time!TypeOK
<1>4. ASSUME NEW c \in Clients, Time!Reply(c)  PROVE Time!TypeOK'
  BY <1>4, <1>t DEF Time!Reply, Time!TypeOK
<1>5. CASE Time!ServerStart
  BY <1>5, <1>t DEF Time!ServerStart, Time!TypeOK
<1>6. ASSUME NEW c \in Clients, Time!Send(c) \/ Time!Connect(c)  PROVE Time!TypeOK'
  <2>1. /\ peer' \in [Clients -> {"off", "send", "recv", "printed", "failed", "killed"}]
        /\ connection' \in [Clients -> {"none", "queued", "accepted", "closed"}]
    BY <1>6 DEF Time!Send, Time!Connect, Time!PeerMoves, Time!TypeOK
  <2>2. to_server' \in [Clients -> 0..COMMAND_LEN]
    BY <1>6, <1>t DEF Time!Send, Time!Connect, Time!TypeOK
  <2> QED BY <2>1, <2>2, <1>6 DEF Time!Send, Time!Connect, Time!serverVars, Time!TypeOK
<1>7. ASSUME NEW c \in Clients, Time!PeerRecv(c)  PROVE Time!TypeOK'
  <2>1. PICK ret \in 1..to_client[c] :
          /\ to_client' = [to_client EXCEPT ![c] = @ - ret]
          /\ answer' = [answer EXCEPT ![c] = IF ret = REPLY_LEN THEN "reply" ELSE "garbage"]
          /\ short' = [short EXCEPT ![c] = @ \/ ret < REPLY_LEN]
          /\ peer' = [peer EXCEPT ![c] = IF ret = 1 THEN "failed" ELSE "recv"]
    BY <1>7 DEF Time!PeerRecv
  <2>2. to_client[c] - ret \in 0..REPLY_LEN
    BY <1>7, <1>t, TimeTypes
  <2>3. to_client' \in [Clients -> 0..REPLY_LEN]
    BY <2>1, <2>2 DEF Time!TypeOK
  <2>4. answer' \in [Clients -> {"nothing", "reply", "garbage"}]
    BY <2>1 DEF Time!TypeOK
  <2>5. short' \in [Clients -> BOOLEAN]
    BY <2>1 DEF Time!TypeOK
  <2>6. peer' \in [Clients -> {"off", "send", "recv", "printed", "failed", "killed"}]
    BY <2>1 DEF Time!TypeOK
  <2> QED BY <2>3, <2>4, <2>5, <2>6, <1>7 DEF Time!PeerRecv, Time!serverVars, Time!TypeOK
<1>8. ASSUME NEW c \in Clients, Time!PrintAnswer(c) \/ Time!Kill(c)  PROVE Time!TypeOK'
  <2>1. peer' \in [Clients -> {"off", "send", "recv", "printed", "failed", "killed"}]
    BY <1>8 DEF Time!PrintAnswer, Time!Kill, Time!PeerMoves, Time!TypeOK
  <2>2. answer' \in [Clients -> {"nothing", "reply", "garbage"}]
    BY <1>8 DEF Time!PrintAnswer, Time!Kill, Time!TypeOK
  <2> QED BY <2>1, <2>2, <1>8 DEF Time!PrintAnswer, Time!Kill, Time!serverVars, Time!TypeOK
<1> QED BY <1>1, <1>2, <1>3, <1>4, <1>5, <1>6, <1>7, <1>8
    DEF Time!Next, Time!Server, Time!Client

\* Nobody is forgiven.
LEMMA BlameRemains ==
  ASSUME Time!TypeOK, Time!Next
  PROVE  /\ \A c \in Clients : short[c] => short'[c]
         /\ Blamed => Blamed'
<1> DEFINE P == /\ \A c \in Clients : short[c] => short'[c]
                /\ \A c \in Clients : peer[c] = "killed" => peer'[c] = "killed"
<1>t. short \in [Clients -> BOOLEAN]
      /\ peer \in [Clients -> {"off", "send", "recv", "printed", "failed", "killed"}]
  BY DEF Time!TypeOK
<1>1. ASSUME UNCHANGED <<short, peer>>  PROVE P
  BY <1>1
<1>2. ASSUME NEW c \in Clients, Time!Recv(c)  PROVE P
  BY <1>2, <1>t DEF Time!Recv
<1>3. ASSUME NEW c \in Clients, Time!PeerRecv(c)  PROVE P
  <2>1. PICK ret \in 1..to_client[c] :
          /\ short' = [short EXCEPT ![c] = @ \/ ret < REPLY_LEN]
          /\ peer' = [peer EXCEPT ![c] = IF ret = 1 THEN "failed" ELSE "recv"]
    BY <1>3 DEF Time!PeerRecv
  <2>2. peer[c] = "recv"
    BY <1>3 DEF Time!PeerRecv
  <2>3. \A d \in Clients : short[d] => short'[d]
    BY <2>1, <1>t
  <2>4. \A d \in Clients : peer[d] = "killed" => peer'[d] = "killed"
    BY <2>1, <2>2, <1>t
  <2> QED BY <2>3, <2>4
<1>4. ASSUME NEW c \in Clients,
             Time!Send(c) \/ Time!PrintAnswer(c) \/ Time!Connect(c) \/ Time!Kill(c)
      PROVE  P
  <2>1. /\ peer[c] # "killed" /\ UNCHANGED short
        /\ \E to \in {"send", "recv", "printed", "failed", "killed"} :
             peer' = [peer EXCEPT ![c] = to]
    BY <1>4
    DEF Time!Send, Time!PrintAnswer, Time!Connect, Time!Kill, Time!PeerMoves
  <2> QED BY <2>1, <1>t
<1>5. P
  BY <1>1, <1>2, <1>3, <1>4
  DEF Time!Next, Time!Server, Time!Client, Time!Accept, Time!RecvEof, Time!Reply,
      Time!ServerStart
<1> QED BY <1>5 DEF Blamed

\* A step that changes the streams of one client at most.
LEMMA ReceivedNext ==
  ASSUME TimeInv, Time!Next
  PROVE  Received'
<1> DEFINE P == Received'
<1>t. /\ to_server \in [Clients -> 0..COMMAND_LEN]
      /\ peer \in [Clients -> {"off", "send", "recv", "printed", "failed", "killed"}]
      /\ COMMAND_LEN \in Nat \ {0, 1} /\ recv_bytes \in Nat
      /\ \A c \in Clients : to_server[c] \in Nat /\ to_server[c] <= COMMAND_LEN
      /\ \A c \in Clients : peer[c] \in {"off", "send"} => to_server[c] = 0
      /\ server = "recv" => /\ client_desc \in Clients
                            /\ recv_bytes + to_server[client_desc] <= COMMAND_LEN
                            /\ peer[client_desc] \in {"off", "send"} => recv_bytes = 0
  BY Lengths, TimeTypes DEF TimeInv, Time!TypeOK, Received
<1>1. ASSUME NEW c \in Clients, Time!Accept(c)  PROVE P
  BY <1>1, <1>t DEF Time!Accept, Received
<1>2. ASSUME NEW c \in Clients, Time!Recv(c)  PROVE P
  <2>1. PICK ret \in 1..to_server[c] :
          /\ to_server' = [to_server EXCEPT ![c] = @ - ret]
          /\ recv_bytes' = recv_bytes + ret
          /\ server' = "recv" => UNCHANGED client_desc
    BY <1>2 DEF Time!Recv, Time!ServerExits
  <2>2. server = "recv" /\ client_desc = c /\ UNCHANGED peer
    BY <1>2 DEF Time!Recv
  <2>3. /\ ret \in Nat \ {0} /\ ret <= to_server[c] /\ to_server[c] \in Nat
        /\ recv_bytes + to_server[c] <= COMMAND_LEN /\ peer[c] \notin {"off", "send"}
    BY <2>2, <1>2, <1>t
  <2>4. /\ to_server'[c] = to_server[c] - ret
        /\ \A d \in Clients : d # c => to_server'[d] = to_server[d]
    BY <2>1, <1>2, <1>t
  <2>5. recv_bytes' + to_server'[c] <= COMMAND_LEN
    BY <2>1, <2>3, <2>4, <1>t
  <2>6. \A d \in Clients : peer'[d] \in {"off", "send"} => to_server'[d] = 0
    BY <2>2, <2>3, <2>4, <1>t
  <2>7. (server' = "recv" => client_desc' = c) /\ peer' = peer
    BY <2>1, <2>2
  <2> QED BY <2>3, <2>5, <2>6, <2>7, <1>2 DEF Received
<1>3. ASSUME server' # "recv", UNCHANGED <<to_server, peer>>  PROVE P
  BY <1>3, <1>t DEF Received
<1>4. ASSUME NEW c \in Clients, Time!RecvEof(c) \/ Time!Reply(c)  PROVE P
  BY <1>4, <1>3 DEF Time!RecvEof, Time!Reply, Time!ServerExits
<1>8. CASE Time!ServerStart
  BY <1>8, <1>3 DEF Time!ServerStart
<1>5. ASSUME NEW c \in Clients, Time!Send(c)  PROVE P
  <2>1. /\ peer[c] = "send" /\ to_server' = [to_server EXCEPT ![c] = COMMAND_LEN]
        /\ \/ peer' = [peer EXCEPT ![c] = "failed"]
           \/ peer' = [peer EXCEPT ![c] = "recv"]
        /\ UNCHANGED <<server, client_desc, recv_bytes>>
    BY <1>5 DEF Time!Send, Time!PeerMoves, Time!serverVars
  <2>2. /\ to_server'[c] = COMMAND_LEN /\ peer'[c] \in {"failed", "recv"}
        /\ \A d \in Clients : d # c => to_server'[d] = to_server[d] /\ peer'[d] = peer[d]
    BY <2>1, <1>5, <1>t
  <2>3. UNCHANGED <<server, client_desc, recv_bytes>> /\ peer[c] = "send"
    BY <2>1
  <2>4. \A d \in Clients : peer'[d] \in {"off", "send"} => to_server'[d] = 0
    BY <2>2, <1>5, <1>t
  <2>5. ASSUME server = "recv"
        PROVE  /\ recv_bytes + to_server'[client_desc] <= COMMAND_LEN
               /\ peer'[client_desc] \in {"off", "send"} => recv_bytes = 0
    <3>1. CASE client_desc = c
      BY <3>1, <2>2, <2>3, <2>5, <1>t
    <3>2. CASE client_desc # c
      BY <3>2, <2>2, <2>5, <1>t
    <3> QED BY <3>1, <3>2
  <2> QED BY <2>3, <2>4, <2>5, <1>t DEF Received
<1>6. ASSUME NEW c \in Clients, UNCHANGED <<server, client_desc, recv_bytes, to_server>>,
             \A d \in Clients : d # c => peer'[d] = peer[d],
             peer'[c] \in {"off", "send"} => peer[c] \in {"off", "send"}
      PROVE  P
  BY <1>6, <1>t DEF Received
<1>7. ASSUME NEW c \in Clients,
             Time!PeerRecv(c) \/ Time!PrintAnswer(c) \/ Time!Kill(c) \/ Time!Connect(c)
      PROVE  P
  <2>1. /\ UNCHANGED <<server, client_desc, recv_bytes, to_server>>
        /\ \E to \in {"recv", "failed", "printed", "killed", "send"} :
             /\ peer' = [peer EXCEPT ![c] = to]
             /\ to = "send" => peer[c] = "off"
    BY <1>7 DEF Time!PeerRecv, Time!PrintAnswer, Time!Kill, Time!Connect, Time!PeerMoves,
                Time!serverVars
  <2>2. /\ \A d \in Clients : d # c => peer'[d] = peer[d]
        /\ peer'[c] \in {"off", "send"} => peer[c] \in {"off", "send"}
    BY <2>1, <1>7, <1>t
  <2> QED BY <2>1, <2>2, <1>6, <1>7
<1> QED BY <1>1, <1>2, <1>4, <1>5, <1>7, <1>8 DEF Time!Next, Time!Server, Time!Client

\* A server that ends early has somebody to blame: a command that came in
\* pieces, or a client that left.
LEMMA ExitIsBlamed ==
  ASSUME TimeInv, NEW c \in Clients, Time!Recv(c) \/ Time!RecvEof(c)
  PROVE  /\ Time!ServerExits => Blamed'
         /\ ~Time!ServerExits => UNCHANGED connection
         /\ UNCHANGED <<to_client, peer, answer>>
<1>t. COMMAND_LEN \in Nat \ {0, 1} /\ short \in [Clients -> BOOLEAN]
  BY Lengths DEF TimeInv, Time!TypeOK
<1>1. CASE Time!Recv(c)
  <2>1. PICK ret \in 1..to_server[c] :
          /\ short' = [short EXCEPT ![c] = @ \/ ret < COMMAND_LEN]
          /\ IF ret = 1 THEN Time!ServerExits
             ELSE /\ server' = IF ret = COMMAND_LEN THEN "reply" ELSE "recv"
                  /\ UNCHANGED <<client_desc, connection>>
    BY <1>1 DEF Time!Recv
  <2>2. CASE ret = 1
    <3>1. ret < COMMAND_LEN
      BY <2>2, <1>t
    <3>2. short'[c]
      BY <2>1, <3>1, <1>t, Zenon
    <3> QED BY <2>1, <2>2, <3>2, <1>1 DEF Blamed, Time!Recv
  <2>3. CASE ret # 1
    <3>1. UNCHANGED connection /\ ~Time!ServerExits
      BY <2>1, <2>3 DEF Time!ServerExits
    <3> QED BY <3>1, <1>1 DEF Time!Recv
  <2> QED BY <2>2, <2>3
<1>2. CASE Time!RecvEof(c)
  <2>1. peer'[c] = "killed" /\ Time!ServerExits /\ UNCHANGED <<to_client, peer, answer>>
    BY <1>2 DEF Time!RecvEof
  <2> QED BY <2>1 DEF Blamed
<1> QED BY <1>1, <1>2

\* Who has printed something else than the reply, or is going to, has somebody
\* to blame.
LEMMA AnsweredNext ==
  ASSUME TimeInv, Time!Next
  PROVE  Answered'
<1>t. /\ to_client \in [Clients -> 0..REPLY_LEN]
      /\ answer \in [Clients -> {"nothing", "reply", "garbage"}]
      /\ peer \in [Clients -> {"off", "send", "recv", "printed", "failed", "killed"}]
      /\ connection \in [Clients -> {"none", "queued", "accepted", "closed"}]
      /\ short \in [Clients -> BOOLEAN]
      /\ REPLY_LEN \in Nat \ {0, 1}
      /\ \A c \in Clients : to_client[c] \in Nat /\ to_client[c] <= REPLY_LEN
  BY Lengths, TimeTypes DEF TimeInv, Time!TypeOK
<1>a. \A c \in Clients :
         /\ peer[c] \in {"off", "send"} => answer[c] = "nothing"
         /\ answer[c] = "garbage" /\ peer[c] = "recv" => short[c]
         /\ connection[c] = "closed" /\ to_client[c] = 0 /\ answer[c] = "nothing" => Blamed
         /\ peer[c] = "printed" /\ answer[c] # "reply" => Blamed
  BY DEF TimeInv, Answered
<1>b. (Blamed => Blamed') /\ \A c \in Clients : short[c] => short'[c]
  BY BlameRemains DEF TimeInv
<1>1. ASSUME NEW c \in Clients, UNCHANGED <<answer, peer, to_client>>, connection'[c] # "closed",
             \A d \in Clients : d # c => connection'[d] = connection[d]
      PROVE  Answered'
  BY <1>1, <1>a, <1>b DEF Answered
<1>2. ASSUME UNCHANGED <<answer, peer, to_client, connection>>  PROVE Answered'
  BY <1>2, <1>a, <1>b DEF Answered
<1>3. ASSUME NEW c \in Clients, Time!Recv(c) \/ Time!RecvEof(c)  PROVE Answered'
  <2>1. UNCHANGED <<to_client, peer, answer>>
    BY <1>3, ExitIsBlamed
  <2>2. CASE Time!ServerExits
    <3>1. Blamed'
      BY <1>3, <2>2, ExitIsBlamed
    <3> QED BY <3>1, <2>1, <1>a, <1>b DEF Answered
  <2>3. CASE ~Time!ServerExits
    BY <2>1, <2>3, <1>3, <1>2, ExitIsBlamed
  <2> QED BY <2>2, <2>3
<1>4. ASSUME NEW c \in Clients, Time!Accept(c)  PROVE Answered'
  <2>1. /\ UNCHANGED <<answer, peer, to_client>>
        /\ connection' = [connection EXCEPT ![c] = "accepted"]
    BY <1>4 DEF Time!Accept
  <2> QED BY <2>1, <1>1, <1>4, <1>t
<1>5. ASSUME NEW c \in Clients, Time!Reply(c)  PROVE Answered'
  <2>1. /\ to_client' = [to_client EXCEPT ![c] = REPLY_LEN]
        /\ connection' = [connection EXCEPT ![c] = "closed"]
        /\ UNCHANGED <<peer, answer>>
    BY <1>5 DEF Time!Reply
  <2>2. /\ to_client'[c] # 0
        /\ \A d \in Clients : d # c => /\ to_client'[d] = to_client[d]
                                       /\ connection'[d] = connection[d]
    BY <2>1, <1>5, <1>t
  <2>3. UNCHANGED <<peer, answer>>
    BY <2>1
  <2> QED BY <2>2, <2>3, <1>a, <1>b DEF Answered
<1>6. CASE Time!ServerStart
  BY <1>6, <1>2 DEF Time!ServerStart
<1>7. ASSUME NEW c \in Clients, Time!Connect(c)  PROVE Answered'
  <2>1. /\ peer'[c] \in {"send", "failed"}
        /\ \A d \in Clients : d # c => peer'[d] = peer[d]
        /\ \A d \in Clients : connection'[d] = "closed" => connection[d] = "closed"
        /\ UNCHANGED <<to_client, answer>>
    BY <1>7, <1>t DEF Time!Connect, Time!PeerMoves
  <2>2. answer[c] = "nothing"
    BY <1>7, <1>a DEF Time!Connect, Time!PeerMoves
  <2> QED BY <2>1, <2>2, <1>a, <1>b DEF Answered
<1>8. ASSUME NEW c \in Clients, Time!Send(c)  PROVE Answered'
  <2>1. /\ peer[c] = "send" /\ UNCHANGED <<connection, to_client, answer>>
        /\ peer'[c] \in {"recv", "failed"}
        /\ \A d \in Clients : d # c => peer'[d] = peer[d]
    BY <1>8, <1>t DEF Time!Send, Time!PeerMoves
  <2>2. answer[c] = "nothing"
    BY <2>1, <1>8, <1>a
  <2>3. UNCHANGED <<connection, to_client, answer>>
    BY <2>1
  <2> QED BY <2>1, <2>2, <2>3, <1>a, <1>b DEF Answered
<1>9. ASSUME NEW c \in Clients, Time!PeerRecv(c)  PROVE Answered'
  <2>1. PICK ret \in 1..to_client[c] :
          /\ to_client' = [to_client EXCEPT ![c] = @ - ret]
          /\ answer' = [answer EXCEPT ![c] = IF ret = REPLY_LEN THEN "reply" ELSE "garbage"]
          /\ short' = [short EXCEPT ![c] = @ \/ ret < REPLY_LEN]
          /\ peer' = [peer EXCEPT ![c] = IF ret = 1 THEN "failed" ELSE "recv"]
          /\ UNCHANGED connection
    BY <1>9 DEF Time!PeerRecv
  <2>2. /\ answer'[c] = IF ret = REPLY_LEN THEN "reply" ELSE "garbage"
        /\ peer'[c] \in {"failed", "recv"}
        /\ \A d \in Clients : d # c => /\ answer'[d] = answer[d] /\ peer'[d] = peer[d]
                                       /\ to_client'[d] = to_client[d]
    BY <2>1, <1>9, <1>t
  <2>3. short'[c] = (short[c] \/ ret < REPLY_LEN)
    BY <2>1, <1>9, <1>t, Zenon
  <2>4. answer'[c] = "garbage" => ret < REPLY_LEN
    BY <2>2, <1>9, <1>t
  <2>5. answer'[c] # "nothing" /\ (answer'[c] = "garbage" => short'[c])
    BY <2>2, <2>3, <2>4
  <2>6. UNCHANGED connection
    BY <2>1
  <2> QED BY <2>2, <2>5, <2>6, <1>a, <1>b DEF Answered
<1>10. ASSUME NEW c \in Clients, Time!PrintAnswer(c)  PROVE Answered'
  <2>1. /\ to_client[c] = 0 /\ connection[c] = "closed" /\ peer[c] = "recv"
        /\ peer'[c] = "printed"
        /\ answer'[c] = IF answer[c] = "nothing" THEN "garbage" ELSE answer[c]
        /\ \A d \in Clients : d # c => answer'[d] = answer[d] /\ peer'[d] = peer[d]
        /\ UNCHANGED <<connection, to_client>>
    BY <1>10, <1>t DEF Time!PrintAnswer, Time!PeerMoves
  <2>2. answer[c] \in {"nothing", "reply", "garbage"}
    BY <1>10, <1>t
  <2>3. answer'[c] # "nothing"
    BY <2>1
  <2>4. answer'[c] # "reply" => Blamed
    <3>1. CASE answer[c] = "nothing"
      BY <3>1, <2>1, <1>10, <1>a
    <3>2. CASE answer[c] = "garbage"
      BY <3>2, <2>1, <1>10, <1>a DEF Blamed
    <3> QED BY <3>1, <3>2, <2>1, <2>2
  <2> QED BY <2>1, <2>3, <2>4, <1>a, <1>b DEF Answered
<1>11. ASSUME NEW c \in Clients, Time!Kill(c)  PROVE Answered'
  <2>1. /\ peer'[c] = "killed" /\ UNCHANGED <<connection, to_client, answer>>
        /\ \A d \in Clients : d # c => peer'[d] = peer[d]
    BY <1>11, <1>t DEF Time!Kill
  <2>2. Blamed'
    BY <2>1, <1>11 DEF Blamed
  <2> QED BY <2>1, <2>2, <1>a, <1>b DEF Answered
<1> QED BY <1>3, <1>4, <1>5, <1>6, <1>7, <1>8, <1>9, <1>10, <1>11
    DEF Time!Next, Time!Server, Time!Client

\* Every step of the time server keeps its invariant.
LEMMA TimeNext == TimeInv /\ Time!Next => TimeInv'
BY TimeTypesNext, ReceivedNext, AnsweredNext DEF TimeInv

LEMMA TimeStarts == Time!Init => TimeInv
BY Lengths DEF Time!Init, TimeInv, Time!TypeOK, Received, Answered

\* A client that prints something else has itself to blame for its pieces, and
\* is not killed; the rest of the blame lies with others.
LEMMA TimeSafe == TimeInv => Time!PrintsReply
<1> SUFFICES ASSUME TimeInv, NEW c \in Clients, peer[c] = "printed", answer[c] # "reply"
             PROVE  short[c] \/ \E d \in Clients \ {c} : short[d] \/ peer[d] = "killed"
  BY DEF Time!PrintsReply
<1>1. PICK d \in Clients : short[d] \/ peer[d] = "killed"
  BY DEF TimeInv, Answered, Blamed
<1> QED BY <1>1

-----------------------------------------------------------------------------
(* Pipe/main.c: streams of messages *)

LEMMA Joined ==
  ASSUME NEW s \in Seq(Units), NEW t \in Seq(Units), NEW u \in Seq(Units)
  PROVE  (s \o t) \o u = s \o (t \o u)
BY ConcatAssociative

\* A place in a message after some messages is a place after no others.
LEMMA OnePlace ==
  ASSUME NEW E \in Nat \ {0}, NEW q \in Nat, NEW u \in Nat, NEW n \in Nat, NEW p \in Nat,
         n < E, p < E, q * E + n = u * E + p
  PROVE  q = u /\ n = p
<1>1. ASSUME NEW x \in Nat, NEW y \in Nat, x < y  PROVE x * E + E <= y * E
  <2>1. PICK z \in Nat : y = x + 1 + z
    <3>1. y - x - 1 \in Nat /\ y = x + 1 + (y - x - 1)
      BY <1>1
    <3> QED BY <3>1
  <2>2. y * E = x * E + E + z * E /\ z * E \in Nat /\ x * E \in Nat
    BY <2>1
  <2> QED BY <2>2
<1>2. q * E \in Nat /\ u * E \in Nat
  OBVIOUS
<1>3. CASE q < u
  <2>1. q * E + E <= u * E
    BY <1>3, <1>1
  <2> QED BY <2>1, <1>2
<1>4. CASE u < q
  <2>1. u * E + E <= q * E
    BY <1>4, <1>1
  <2> QED BY <2>1, <1>2
<1>5. CASE q = u
  BY <1>5, <1>2
<1> QED BY <1>3, <1>4, <1>5

\* The places in a message.
LEMMA Sizes == MSG_ELEMS \in Nat \ {0} /\ Places = {p \in Nat : p < MSG_ELEMS}
BY SizesAssumption DEF SizesAssumption, Places

\* The next int of the message that was begun makes the stream one longer.
LEMMA StreamGrows ==
  ASSUME NEW S \in Seq(Units), NEW m \in Messages, NEW n \in Places, Whole(S),
         Partial(S, m, n)
  PROVE  LET T == Append(S, <<m, n>>)
         IN  /\ Whole(T)
             /\ n + 1 # MSG_ELEMS => Partial(T, m, n + 1)
             /\ n + 1 = MSG_ELEMS => Complete(T)
<1> DEFINE E == MSG_ELEMS
           T == Append(S, <<m, n>>)
<1>t. /\ E \in Nat \ {0} /\ n \in Nat /\ n < E /\ Len(S) \in Nat
      /\ \A x \in Nat : x * E \in Nat
  BY Sizes, LenProperties
<1>1. /\ Len(T) = Len(S) + 1 /\ T[Len(S) + 1] = <<m, n>>
      /\ \A k \in 1..Len(S) : T[k] = S[k]
  <2>1. <<m, n>> \in Units
    BY DEF Units
  <2> QED BY <2>1, AppendProperties
<1>2. PICK q \in Nat : /\ Len(S) = q * E + n
                       /\ n > 0 => S[q * E + 1][1] = m
  BY DEF Partial
<1> HIDE DEF E, T
<1>3. T[q * E + 1][1] = m
  <2>1. CASE n = 0
    BY <2>1, <1>1, <1>2, <1>t
  <2>2. CASE n # 0
    <3>1. q * E + 1 \in 1..Len(S)
      BY <2>2, <1>2, <1>t
    <3> QED BY <3>1, <2>2, <1>1, <1>2, <1>t
  <2> QED BY <2>1, <2>2
<1>4. Whole(T)
  <2> SUFFICES ASSUME NEW u \in Nat, NEW p \in Places, u * E + p < Len(T)
               PROVE  T[u * E + p + 1] = <<T[u * E + 1][1], p>>
    BY DEF Whole, E
  <2>1. p \in Nat /\ p < E /\ u * E \in Nat
    BY <1>t, Sizes DEF E
  <2>2. CASE u * E + p < Len(S)
    <3>1. S[u * E + p + 1] = <<S[u * E + 1][1], p>>
      BY <2>2 DEF Whole, E
    <3>2. u * E + p + 1 \in 1..Len(S) /\ u * E + 1 \in 1..Len(S)
      BY <2>1, <2>2, <1>t
    <3> QED BY <3>1, <3>2, <1>1
  <2>3. CASE ~(u * E + p < Len(S))
    <3>1. u * E + p = q * E + n
      BY <2>3, <2>1, <1>1, <1>2, <1>t
    <3>2. u = q /\ p = n
      BY <3>1, <2>1, <1>t, OnePlace
    <3>3. T[u * E + p + 1] = <<m, n>>
      BY <3>1, <1>1, <1>2
    <3> QED BY <3>2, <3>3, <1>3
  <2> QED BY <2>2, <2>3
<1>5. n + 1 # E => Partial(T, m, n + 1)
  <2>1. Len(T) = q * E + (n + 1)
    BY <1>1, <1>2, <1>t
  <2> QED BY <2>1, <1>3 DEF Partial, E
<1>6. n + 1 = E => Complete(T)
  <2>1. ASSUME n + 1 = E  PROVE Len(T) = (q + 1) * E /\ q + 1 \in Nat
    BY <2>1, <1>1, <1>2, <1>t
  <2> QED BY <2>1 DEF Complete, E
<1> QED BY <1>4, <1>5, <1>6 DEF E, T

\* The first MSG_ELEMS ints of a stream are a message, and the rest is a stream.
LEMMA StreamSplits ==
  ASSUME NEW G \in Seq(Units), NEW P \in Seq(Units), Len(G) = MSG_ELEMS, Whole(G \o P)
  PROVE  /\ \E m \in Messages : G = Message(m)
         /\ Whole(P)
         /\ Complete(G \o P) => Complete(P)
         /\ \A m : \A n \in Places : Partial(G \o P, m, n) => Partial(P, m, n)
<1> DEFINE E == MSG_ELEMS
           S == G \o P
<1>t. /\ E \in Nat \ {0} /\ Len(P) \in Nat /\ Len(G) = E
      /\ \A x \in Nat : x * E \in Nat
  BY Sizes, LenProperties
<1>1. /\ S \in Seq(Units) /\ Len(S) = E + Len(P)
      /\ \A k \in 1..E : S[k] = G[k]
      /\ \A k \in 1..Len(P) : S[E + k] = P[k]
  <2>1. /\ S \in Seq(Units) /\ Len(S) = E + Len(P)
        /\ \A k \in 1..(E + Len(P)) : S[k] = IF k <= E THEN G[k] ELSE P[k - E]
    <3>1. /\ S \in Seq(Units) /\ Len(S) = Len(G) + Len(P)
          /\ \A k \in 1..Len(G) + Len(P) : S[k] = IF k <= Len(G) THEN G[k] ELSE P[k - Len(G)]
      BY ConcatProperties
    <3> HIDE DEF S
    <3> QED BY <3>1
  <2>2. \A k \in 1..E : S[k] = G[k]
    BY <2>1, <1>t
  <2>3. ASSUME NEW k \in 1..Len(P)  PROVE S[E + k] = P[k]
    <3>1. E + k \in 1..(E + Len(P)) /\ ~(E + k <= E) /\ (E + k) - E = k
      BY <1>t
    <3> QED BY <3>1, <2>1
  <2> QED BY <2>1, <2>2, <2>3
<1>w. \A q \in Nat, p \in Places :
         q * E + p < Len(S) => S[q * E + p + 1] = <<S[q * E + 1][1], p>>
  BY DEF Whole
<1>p. Places = {p \in Nat : p < E}
  BY Sizes
<1> HIDE DEF E, S
<1>2. \E m \in Messages : G = Message(m)
  <2> DEFINE m == G[1][1]
  <2>1. G[1] \in Units
    BY <1>t, ElementOfSeq
  <2>2. m \in Messages
    BY <2>1 DEF Units
  <2>3. ASSUME NEW k \in 1..E  PROVE G[k] = <<m, k - 1>>
    <3>1. k - 1 \in Places /\ 0 * E + (k - 1) < Len(S) /\ 0 * E + (k - 1) + 1 = k
          /\ 0 * E + 1 = 1 /\ 1 \in 1..E
      BY <1>t, <1>p, <1>1
    <3>2. S[k] = <<S[1][1], k - 1>>
      BY <3>1, <1>w
    <3> QED BY <3>1, <3>2, <1>1
  <2>4. G = [x \in 1..E |-> <<m, x - 1>>]
    <3>1. G \in [1..E -> Units]
      BY <1>t, LenProperties
    <3> QED BY <3>1, <2>3
  <2> QED BY <2>2, <2>4 DEF Message, E
<1>3. Whole(P)
  <2> SUFFICES ASSUME NEW q \in Nat, NEW p \in Places, q * E + p < Len(P)
               PROVE  P[q * E + p + 1] = <<P[q * E + 1][1], p>>
    BY DEF Whole, E
  <2> DEFINE a == q * E
             b == (q + 1) * E
  <2>1. p \in Nat /\ a \in Nat /\ b = E + a /\ a + p < Len(P)
    BY <1>t, <1>p
  <2> HIDE DEF a, b
  <2>2. /\ b + p < Len(S)
        /\ b + p + 1 = E + (a + p + 1) /\ b + 1 = E + (a + 1)
        /\ a + p + 1 \in 1..Len(P) /\ a + 1 \in 1..Len(P)
    <3>1. E \in Nat /\ Len(P) \in Nat /\ Len(S) = E + Len(P)
      BY <1>t, <1>1
    <3> QED BY <2>1, <3>1
  <2>3. S[b + p + 1] = <<S[b + 1][1], p>>
    <3>1. q + 1 \in Nat
      OBVIOUS
    <3> QED BY <2>2, <3>1, <1>w DEF b
  <2>4. P[a + p + 1] = <<P[a + 1][1], p>>
    BY <2>2, <2>3, <1>1
  <2> QED BY <2>4 DEF a
<1>4. ASSUME NEW q \in Nat, NEW n \in Places, Len(S) = q * E + n
      PROVE  q - 1 \in Nat /\ Len(P) = (q - 1) * E + n /\ q * E + 1 = E + ((q - 1) * E + 1)
  <2>1. q # 0
    <3>1. ASSUME q = 0  PROVE q * E = 0
      BY <3>1, <1>t
    <3> QED BY <3>1, <1>4, <1>1, <1>t, <1>p
  <2> DEFINE a == (q - 1) * E
             b == q * E
  <2>2. q - 1 \in Nat /\ a \in Nat /\ b = E + a /\ Len(S) = b + n
    BY <2>1, <1>4, <1>t
  <2> HIDE DEF a, b
  <2>3. Len(P) = a + n /\ b + 1 = E + (a + 1)
    BY <2>2, <1>1, <1>t, <1>p
  <2> QED BY <2>2, <2>3 DEF a, b
<1>5. ASSUME Complete(S)  PROVE Complete(P)
  <2>1. PICK q \in Nat : Len(S) = q * E
    BY <1>5 DEF Complete, E
  <2>2. 0 \in Places /\ Len(S) = q * E + 0
    BY <2>1, <1>t, <1>p
  <2>3. q - 1 \in Nat /\ Len(P) = (q - 1) * E + 0
    BY <2>2, <1>4
  <2>4. Len(P) = (q - 1) * E
    BY <2>3, <1>t
  <2> QED BY <2>3, <2>4 DEF Complete, E
<1>6. ASSUME NEW m, NEW n \in Places, Partial(S, m, n)  PROVE Partial(P, m, n)
  <2>1. PICK q \in Nat : Len(S) = q * E + n /\ (n > 0 => S[q * E + 1][1] = m)
    BY <1>6 DEF Partial, E
  <2>2. q - 1 \in Nat /\ Len(P) = (q - 1) * E + n /\ q * E + 1 = E + ((q - 1) * E + 1)
    BY <2>1, <1>4
  <2>3. ASSUME n > 0  PROVE P[(q - 1) * E + 1][1] = m
    <3>1. (q - 1) * E + 1 \in 1..Len(P)
      BY <2>2, <2>3, <1>t, <1>p
    <3> QED BY <3>1, <2>1, <2>2, <2>3, <1>1
  <2> QED BY <2>2, <2>3 DEF Partial, E
<1> QED BY <1>2, <1>3, <1>5, <1>6 DEF S

-----------------------------------------------------------------------------
(* Pipe/main.c: the processes *)

LEMMA TwoKinds ==
  /\ Writers \subseteq Processes /\ Readers \subseteq Processes
  /\ \A w \in Writers, r \in Readers : w # r
  /\ \A p \in Processes : p \in Writers \/ p \in Readers
BY SizesAssumption DEF SizesAssumption, Processes

\* Nobody's share is more than all the messages.
LEMMA Shares ==
  /\ \A w \in Writers : PerWriter \in Nat /\ PerWriter <= MSG_COUNT
  /\ \A r \in Readers : PerReader \in Nat /\ PerReader <= MSG_COUNT
<1>1. ASSUME NEW n \in Nat, NEW d \in Nat \ {0}  PROVE n \div d \in Nat /\ n \div d <= n
  OBVIOUS
<1>2. ASSUME NEW P, IsFiniteSet(P), NEW p \in P  PROVE Cardinality(P) \in Nat \ {0}
  BY <1>2, FS_EmptySet, FS_CardinalityType
<1> QED BY <1>1, <1>2, SizesAssumption DEF SizesAssumption, PerWriter, PerReader

LEMMA Moves ==
  ASSUME TypeOK, NEW p \in Processes, NEW to, pc' = [pc EXCEPT ![p] = to]
  PROVE  pc'[p] = to /\ \A x \in Processes : x # p => pc'[x] = pc[x]
BY DEF TypeOK

\* A step that moves nobody to or from a write does not change what is good.
LEMMA GoodKept ==
  ASSUME NEW S, NEW place, NEW done, NEW part, NEW place2, NEW done2, NEW part2,
         Good(S, place, done, part),
         \A w \in Writers : /\ place2[w] = "write" <=> place[w] = "write"
                            /\ place[w] = "write" => done2[w] = done[w] /\ part2[w] = part[w]
  PROVE  Good(S, place2, done2, part2)
BY DEF Good

LEMMA StreamKept ==
  ASSUME Stream, UNCHANGED <<pipe, read_mutex, got>>,
         \A r \in Readers : /\ pc'[r] = "read" => pc[r] = "read"
                            /\ pc'[r] = "post" => pc[r] = "post",
         \A S : Good(S, pc, i, sent) => Good(S, pc', i', sent')
  PROVE  Stream'
BY DEF Stream

\* Forks, ends and waits.
LEMMA QuietNext ==
  ASSUME PipeInv, NEW p \in Processes, NEW to,
         pc' = [pc EXCEPT ![p] = to],
         \/ pc[p] = "none" /\ to = "loop"
         \/ pc[p] \in {"loop", "ended", "failed"} /\ to \in {"ended", "reaped"},
         main' \in {"readers", "writers", "wait", "ended", "failed"},
         UNCHANGED <<pipe, read_mutex, write_mutex, i, sent, got>>
  PROVE  PipeInv'
<1> USE DEF PipeInv
<1>1. /\ pc'[p] = to /\ \A x \in Processes : x # p => pc'[x] = pc[x]
      /\ to \in {"loop", "ended", "reaped"}
      /\ pc[p] \notin {"write", "read", "post", "check"}
      /\ to = "loop" => pc[p] = "none"
  BY Moves
<1>2. TypeOK'
  BY DEF TypeOK
<1>3. /\ \A x \in Processes : \A at \in {"write", "read", "post", "check"} :
           pc'[x] = at <=> pc[x] = at
      /\ \A x \in Processes : pc'[x] \in {"none", "loop"} => pc[x] \in {"none", "loop"}
  BY <1>1
<1>4. ReadsWholeMessages'
  BY <1>3, TwoKinds DEF ReadsWholeMessages
<1>5. Behind(Writers, "write")' = Behind(Writers, "write")
      /\ Behind(Readers, "read")' = Behind(Readers, "read")
  BY <1>3, TwoKinds DEF Behind
<1>6. Locked'
  BY <1>5 DEF Locked
<1>7. Placed'
  BY <1>3, TwoKinds DEF Placed
<1>8. ASSUME NEW S, Good(S, pc, i, sent)  PROVE Good(S, pc', i', sent')
  BY <1>8, <1>3, TwoKinds, GoodKept
<1>9. Stream'
  BY <1>3, <1>8, TwoKinds, StreamKept
<1> QED BY <1>2, <1>4, <1>6, <1>7, <1>9

\* A writer begins a message where the last one ended.
LEMMA WriterWaitNext ==
  ASSUME PipeInv, NEW w \in Writers, WriterWait(w)
  PROVE  PipeInv'
<1> USE DEF PipeInv
<1>1. /\ i[w] < PerWriter /\ write_mutex > 0 /\ write_mutex' = write_mutex - 1
      /\ pc[w] = "loop" /\ pc' = [pc EXCEPT ![w] = "write"]
      /\ UNCHANGED <<pipe, read_mutex, main, i, sent, got>>
  BY DEF WriterWait, Goto
<1>2. pc'[w] = "write" /\ \A x \in Processes : x # w => pc'[x] = pc[x]
  BY <1>1, TwoKinds, Moves
<1>3. write_mutex = 1 /\ write_mutex' = 0
  BY <1>1 DEF TypeOK
<1>4. \A v \in Writers : pc[v] # "write" /\ pc[v] # "post"
  BY <1>3 DEF Locked, Behind
<1>5. TypeOK'
  BY <1>1, <1>3 DEF TypeOK
<1>6. \A r \in Readers : pc'[r] = pc[r]
  BY <1>2, TwoKinds
<1>7. ReadsWholeMessages'
  BY <1>1, <1>6 DEF ReadsWholeMessages
<1>8. Behind(Writers, "write")' = {w} /\ Behind(Readers, "read")' = Behind(Readers, "read")
  BY <1>2, <1>4, <1>6, TwoKinds DEF Behind
<1>9. Locked'
  BY <1>1, <1>3, <1>8 DEF Locked
<1>10. Placed'
  <2>1. \A v \in Writers : /\ pc'[v] \in {"write", "post"} => i[v] < PerWriter
                           /\ pc'[v] # "write" => sent[v] = 0
    BY <1>1, <1>2, <1>4, TwoKinds DEF Placed
  <2> QED BY <1>1, <1>6, <2>1 DEF Placed
<1>11. ASSUME NEW S, Good(S, pc, i, sent)  PROVE Good(S, pc', i', sent')
  <2>1. Whole(S) /\ Complete(S)
    BY <1>4, <1>11 DEF Good
  <2>2. sent[w] = 0
    BY <1>4 DEF Placed
  <2>3. Partial(S, <<w, i[w]>>, 0)
    <3>1. PICK q \in Nat : Len(S) = q * MSG_ELEMS
      BY <2>1 DEF Complete
    <3>2. q * MSG_ELEMS + 0 = q * MSG_ELEMS
      BY Sizes
    <3> QED BY <3>1, <3>2 DEF Partial
  <2>4. \A v \in Writers : pc'[v] = "write" => v = w
    BY <1>2, <1>4, TwoKinds
  <2>5. Partial(S, <<w, i'[w]>>, sent'[w])
    BY <2>2, <2>3, <1>1
  <2> QED BY <2>1, <2>4, <2>5, <1>2 DEF Good
<1>12. Stream'
  BY <1>1, <1>6, <1>11, StreamKept
<1> QED BY <1>5, <1>7, <1>9, <1>10, <1>12

\* A writer's int follows the one before it.
LEMMA WriteIntNext ==
  ASSUME PipeInv, NEW w \in Writers, WriteInt(w)
  PROVE  PipeInv'
<1> USE DEF PipeInv
<1> DEFINE m == <<w, i[w]>>
           x == <<m, sent[w]>>
<1>1. /\ Len(pipe) < PIPE_SIZE /\ pipe' = Append(pipe, x)
      /\ sent' = [sent EXCEPT ![w] = (sent[w] + 1) % MSG_ELEMS]
      /\ pc[w] = "write"
      /\ pc' = [pc EXCEPT ![w] = IF sent[w] + 1 = MSG_ELEMS THEN "post" ELSE "write"]
      /\ UNCHANGED <<read_mutex, write_mutex, main, i, got>>
  BY DEF WriteInt, Goto
<1>2. /\ pc'[w] = IF sent[w] + 1 = MSG_ELEMS THEN "post" ELSE "write"
      /\ \A y \in Processes : y # w => pc'[y] = pc[y]
  BY <1>1, TwoKinds, Moves
<1>3. /\ sent[w] \in Places /\ sent[w] \in Nat /\ sent[w] < MSG_ELEMS
      /\ sent \in [Writers -> Places]
  BY Sizes DEF TypeOK
<1>4. /\ sent[w] + 1 = MSG_ELEMS => (sent[w] + 1) % MSG_ELEMS = 0
      /\ sent[w] + 1 # MSG_ELEMS => (sent[w] + 1) % MSG_ELEMS = sent[w] + 1
      /\ (sent[w] + 1) % MSG_ELEMS \in Places
  <2>1. ASSUME NEW n \in Nat, NEW E \in Nat \ {0}, n < E
        PROVE  (n = 0 => E % E = n) /\ n % E = n
    BY <2>1
  <2> QED BY <2>1, <1>3, Sizes
<1>5. /\ sent'[w] = (sent[w] + 1) % MSG_ELEMS /\ sent' \in [Writers -> Places]
      /\ \A v \in Writers : v # w => sent'[v] = sent[v]
  BY <1>1, <1>3, <1>4
<1>6. m \in Messages /\ x \in Units /\ i[w] < PerWriter
  <2>1. i[w] < PerWriter
    BY <1>1 DEF Placed
  <2>2. i[w] \in 0..(PerWriter - 1)
    BY <2>1, Shares, TwoKinds DEF TypeOK
  <2> QED BY <2>1, <2>2, <1>3 DEF Messages, Units
<1>7. \A v \in Writers : v # w => pc[v] # "write"
  BY <1>1 DEF Locked, Behind
<1>8. TypeOK'
  <2>1. pipe' \in Seq(Units) /\ Len(pipe') = Len(pipe) + 1 /\ Len(pipe) \in Nat
    BY <1>1, <1>6, AppendProperties, LenProperties DEF TypeOK
  <2>2. Len(pipe') <= PIPE_SIZE
    BY <2>1, <1>1, SizesAssumption DEF SizesAssumption
  <2>3. pc' \in [Processes -> {"none", "loop", "write", "read", "post", "check", "ended",
                               "failed", "reaped"}]
    BY <1>1 DEF TypeOK
  <2> QED BY <2>1, <2>2, <2>3, <1>1, <1>5 DEF TypeOK
<1>9. \A r \in Readers : pc'[r] = pc[r]
  BY <1>2, TwoKinds
<1>10. ReadsWholeMessages'
  BY <1>1, <1>9 DEF ReadsWholeMessages
<1>11. /\ Behind(Writers, "write")' = Behind(Writers, "write")
       /\ Behind(Readers, "read")' = Behind(Readers, "read")
  BY <1>1, <1>2, <1>9, TwoKinds DEF Behind
<1>12. Locked'
  BY <1>1, <1>11 DEF Locked
<1>13. Placed'
  <2>1. ASSUME NEW v \in Writers
        PROVE  (pc'[v] \in {"write", "post"} => i[v] < PerWriter)
               /\ (pc'[v] # "write" => sent'[v] = 0)
    <3>1. CASE v = w
      BY <3>1, <1>2, <1>4, <1>5, <1>6
    <3>2. CASE v # w
      BY <3>2, <1>2, <1>5, TwoKinds DEF Placed
    <3> QED BY <3>1, <3>2
  <2> QED BY <1>1, <1>9, <2>1 DEF Placed
<1>14. ASSUME NEW S \in Seq(Units), Good(S, pc, i, sent)
       PROVE  Good(Append(S, x), pc', i', sent')
  <2>1. Whole(S) /\ Partial(S, m, sent[w])
    BY <1>1, <1>14 DEF Good
  <2>2. /\ Whole(Append(S, x))
        /\ sent[w] + 1 # MSG_ELEMS => Partial(Append(S, x), m, sent[w] + 1)
        /\ sent[w] + 1 = MSG_ELEMS => Complete(Append(S, x))
    BY <2>1, <1>3, <1>6, StreamGrows
  <2>3. \A v \in Writers : pc'[v] = "write" => v = w /\ sent[w] + 1 # MSG_ELEMS
    BY <1>2, <1>7, TwoKinds
  <2>4. sent[w] + 1 # MSG_ELEMS => pc'[w] = "write" /\ sent'[w] = sent[w] + 1
    BY <1>2, <1>4, <1>5
  <2>5. i' = i
    BY <1>1
  <2> QED BY <2>2, <2>3, <2>4, <2>5 DEF Good
<1>15. Stream'
  <2>1. pipe \in Seq(Units)
    BY DEF TypeOK
  <2>2. ASSUME NEW r \in Readers  PROVE got[r] \o pipe' = Append(got[r] \o pipe, x)
                                        /\ got[r] \o pipe \in Seq(Units)
    <3>1. got[r] \in Seq(Units) /\ <<x>> \in Seq(Units)
      BY <1>6 DEF TypeOK
    <3>2. got[r] \o pipe \in Seq(Units)
      BY <3>1, <2>1, ConcatProperties
    <3>3. pipe' = pipe \o <<x>> /\ Append(got[r] \o pipe, x) = (got[r] \o pipe) \o <<x>>
      BY <3>2, <2>1, <1>1, <1>6, AppendIsConcat
    <3>4. (got[r] \o pipe) \o <<x>> = got[r] \o (pipe \o <<x>>)
      BY <3>1, <2>1, Joined
    <3> QED BY <3>2, <3>3, <3>4
  <2> HIDE DEF x
  <2>3. UNCHANGED <<read_mutex, got>> /\ pipe' = Append(pipe, x)
    BY <1>1
  <2>4. read_mutex' = 1 \/ (\E r \in Readers : pc'[r] = "post") => Good(pipe', pc', i', sent')
    BY <2>1, <2>3, <1>9, <1>14 DEF Stream
  <2>5. \A r \in Readers : pc'[r] = "read" => Good(got'[r] \o pipe', pc', i', sent')
    BY <2>2, <2>3, <1>9, <1>14 DEF Stream
  <2> QED BY <2>4, <2>5 DEF Stream
<1> QED BY <1>8, <1>10, <1>12, <1>13, <1>15

LEMMA WriterPostNext ==
  ASSUME PipeInv, NEW w \in Writers, WriterPost(w)
  PROVE  PipeInv'
<1> USE DEF PipeInv
<1>1. /\ write_mutex' = write_mutex + 1 /\ i' = [i EXCEPT ![w] = i[w] + 1]
      /\ pc[w] = "post" /\ pc' = [pc EXCEPT ![w] = "loop"]
      /\ UNCHANGED <<pipe, read_mutex, main, sent, got>>
  BY DEF WriterPost, Goto
<1>2. pc'[w] = "loop" /\ \A y \in Processes : y # w => pc'[y] = pc[y]
  BY <1>1, TwoKinds, Moves
<1>3. write_mutex = 0 /\ write_mutex' = 1
      /\ \A v \in Writers : v # w => pc[v] # "write" /\ pc[v] # "post"
  BY <1>1 DEF Locked, Behind
<1>4. i[w] + 1 \in 0..MSG_COUNT
  <2>1. i[w] < PerWriter /\ i[w] \in Nat
    BY <1>1, TwoKinds DEF Placed, TypeOK
  <2> QED BY <2>1, Shares, SizesAssumption DEF SizesAssumption
<1>5. i' \in [Processes -> 0..MSG_COUNT] /\ \A y \in Processes : y # w => i'[y] = i[y]
  BY <1>1, <1>4 DEF TypeOK
<1>6. TypeOK'
  BY <1>1, <1>3, <1>5 DEF TypeOK
<1>7. \A r \in Readers : pc'[r] = pc[r] /\ i'[r] = i[r]
  BY <1>2, <1>5, TwoKinds
<1>8. ReadsWholeMessages'
  BY <1>1, <1>7 DEF ReadsWholeMessages
<1>9. /\ Behind(Writers, "write")' = {} /\ Behind(Readers, "read")' = Behind(Readers, "read")
  BY <1>2, <1>3, <1>7, TwoKinds DEF Behind
<1>10. Locked'
  BY <1>1, <1>9 DEF Locked
<1>11. Placed'
  <2>1. \A v \in Writers : pc'[v] # "write" /\ pc'[v] # "post" /\ sent[v] = 0
    BY <1>1, <1>2, <1>3, TwoKinds DEF Placed
  <2> QED BY <1>1, <1>7, <2>1 DEF Placed
<1>12. ASSUME NEW S, Good(S, pc, i, sent)  PROVE Good(S, pc', i', sent')
  <2>1. \A v \in Writers : pc[v] # "write" /\ pc'[v] # "write"
    BY <1>1, <1>2, <1>3, TwoKinds
  <2> QED BY <2>1, <1>12, GoodKept
<1>13. Stream'
  BY <1>1, <1>7, <1>12, StreamKept
<1> QED BY <1>6, <1>8, <1>10, <1>11, <1>13

\* A reader begins with the first int of a message.
LEMMA ReaderWaitNext ==
  ASSUME PipeInv, NEW r \in Readers, ReaderWait(r)
  PROVE  PipeInv'
<1> USE DEF PipeInv
<1>1. /\ i[r] < PerReader /\ read_mutex > 0 /\ read_mutex' = read_mutex - 1
      /\ pc[r] = "loop" /\ pc' = [pc EXCEPT ![r] = "read"]
      /\ UNCHANGED <<pipe, write_mutex, main, i, sent, got>>
  BY DEF ReaderWait, Goto
<1>2. pc'[r] = "read" /\ \A x \in Processes : x # r => pc'[x] = pc[x]
  BY <1>1, TwoKinds, Moves
<1>3. read_mutex = 1 /\ read_mutex' = 0
  BY <1>1 DEF TypeOK
<1>4. \A q \in Readers : pc[q] # "read" /\ pc[q] # "post"
  BY <1>3 DEF Locked, Behind
<1>5. TypeOK'
  BY <1>1, <1>3 DEF TypeOK
<1>6. \A w \in Writers : pc'[w] = pc[w]
  BY <1>2, TwoKinds
<1>7. ReadsWholeMessages'
  <2>1. \A q \in Readers : pc'[q] \in {"post", "check"} => pc[q] \in {"post", "check"}
    BY <1>2, TwoKinds
  <2> QED BY <1>1, <2>1 DEF ReadsWholeMessages
<1>8. Behind(Readers, "read")' = {r} /\ Behind(Writers, "write")' = Behind(Writers, "write")
  BY <1>2, <1>4, <1>6, TwoKinds DEF Behind
<1>9. Locked'
  BY <1>1, <1>3, <1>8 DEF Locked
<1>10. Placed'
  <2>1. ASSUME NEW q \in Readers
        PROVE  /\ pc'[q] \in {"read", "post", "check"} => i[q] < PerReader
               /\ pc'[q] \in {"none", "loop"} => got[q] = <<>>
    BY <1>1, <1>2, TwoKinds DEF Placed
  <2> QED BY <1>1, <1>6, <2>1 DEF Placed
<1>11. Good(pipe, pc', i', sent')
  <2>1. Good(pipe, pc, i, sent)
    BY <1>3 DEF Stream
  <2>2. i' = i /\ sent' = sent
    BY <1>1
  <2> QED BY <2>1, <2>2, <1>6, GoodKept
<1>12. Stream'
  <2>1. got[r] \o pipe = pipe
    <3>1. got[r] = <<>> /\ pipe \in Seq(Units)
      BY <1>1 DEF Placed, TypeOK
    <3> QED BY <3>1, ConcatEmptySeq
  <2>2. \A q \in Readers : /\ pc'[q] # "post"
                           /\ pc'[q] = "read" => q = r
    BY <1>2, <1>4, TwoKinds
  <2>3. UNCHANGED <<pipe, got>>
    BY <1>1
  <2> QED BY <2>1, <2>2, <2>3, <1>3, <1>11 DEF Stream
<1> QED BY <1>5, <1>7, <1>9, <1>10, <1>12

\* What is read leaves the pipe for the reader's part of the stream, and the
\* read that fills the array takes the last int of the message.
LEMMA PipeReadNext ==
  ASSUME PipeInv, NEW r \in Readers, Read(r)
  PROVE  PipeInv'
<1> USE DEF PipeInv
<1>1. PICK c \in 1..Len(pipe) :
        /\ Len(got[r]) + c <= MSG_ELEMS
        /\ \/ /\ Fetch(r, c)
              /\ Goto(r, "read", IF Len(got[r]) + c = MSG_ELEMS THEN "post" ELSE "read")
           \/ /\ Goto(r, "read", "failed")
              /\ UNCHANGED <<pipe, got>>
  BY DEF Read
<1>2. pc[r] = "read" /\ UNCHANGED <<read_mutex, write_mutex, main, i, sent>>
  BY <1>1 DEF Goto, Read
<1>3. /\ \A q \in Readers : q # r => pc[q] # "read" /\ pc[q] # "post"
      /\ read_mutex = 0 /\ i[r] < PerReader
      /\ Good(got[r] \o pipe, pc, i, sent)
  BY <1>2 DEF Locked, Behind, Placed, Stream
<1>4. pipe \in Seq(Units) /\ got[r] \in Seq(Units) /\ Len(pipe) \in Nat /\ Len(got[r]) \in Nat
      /\ Len(pipe) <= PIPE_SIZE
  BY LenProperties DEF TypeOK
<1>5. ASSUME NEW to \in {"read", "post", "failed"}, pc' = [pc EXCEPT ![r] = to]
      PROVE  /\ pc'[r] = to /\ \A x \in Processes : x # r => pc'[x] = pc[x]
             /\ Locked'
             /\ \A S : Good(S, pc, i, sent) => Good(S, pc', i', sent')
             /\ pc' \in [Processes -> {"none", "loop", "write", "read", "post", "check",
                                       "ended", "failed", "reaped"}]
  <2>1. pc'[r] = to /\ \A x \in Processes : x # r => pc'[x] = pc[x]
    BY <1>5, TwoKinds, Moves
  <2>2. \A w \in Writers : pc'[w] = pc[w]
    BY <2>1, TwoKinds
  <2>3. /\ Behind(Readers, "read")' \subseteq {r}
        /\ Behind(Writers, "write")' = Behind(Writers, "write")
    BY <2>1, <2>2, <1>3, TwoKinds DEF Behind
  <2>4. Locked'
    BY <2>3, <1>2, <1>3 DEF Locked
  <2>5. \A S : Good(S, pc, i, sent) => Good(S, pc', i', sent')
    BY <2>2, <1>2, GoodKept
  <2>6. pc' \in [Processes -> {"none", "loop", "write", "read", "post", "check",
                                       "ended", "failed", "reaped"}]
    BY <1>5 DEF TypeOK
  <2> QED BY <2>1, <2>4, <2>5, <2>6
<1>6. CASE Goto(r, "read", "failed") /\ UNCHANGED <<pipe, got>>
  <2>1. /\ pc'[r] = "failed" /\ \A x \in Processes : x # r => pc'[x] = pc[x]
        /\ Locked'
        /\ \A S : Good(S, pc, i, sent) => Good(S, pc', i', sent')
        /\ pc' \in [Processes -> {"none", "loop", "write", "read", "post", "check", "ended",
                                  "failed", "reaped"}]
    BY <1>5, <1>6 DEF Goto
  <2>2. TypeOK'
    BY <2>1, <1>2, <1>6 DEF TypeOK
  <2>3. \A x \in Processes : pc'[x] # "failed" => pc'[x] = pc[x]
    BY <2>1
  <2>4. ReadsWholeMessages'
    BY <2>3, <1>6, TwoKinds DEF ReadsWholeMessages
  <2>5. Placed'
    <3>1. \A w \in Writers : pc'[w] = pc[w]
      BY <2>1, TwoKinds
    <3>2. ASSUME NEW q \in Readers
          PROVE  /\ pc'[q] \in {"read", "post", "check"} => i[q] < PerReader
                 /\ pc'[q] \in {"none", "loop"} => got[q] = <<>>
      BY <2>3, TwoKinds DEF Placed
    <3> QED BY <3>1, <3>2, <1>2, <1>6 DEF Placed
  <2>6. Stream'
    BY <2>1, <2>3, <1>2, <1>6, TwoKinds, StreamKept
  <2> QED BY <2>1, <2>2, <2>4, <2>5, <2>6
<1>7. CASE /\ Fetch(r, c)
           /\ Goto(r, "read", IF Len(got[r]) + c = MSG_ELEMS THEN "post" ELSE "read")
  <2> DEFINE to == IF Len(got[r]) + c = MSG_ELEMS THEN "post" ELSE "read"
             piece == SubSeq(pipe, 1, c)
             rest == SubSeq(pipe, c + 1, Len(pipe))
  <2>1. /\ pc' = [pc EXCEPT ![r] = to] /\ pipe' = rest
        /\ got' = [got EXCEPT ![r] = got[r] \o piece]
    BY <1>7 DEF Fetch, Goto
  <2>2. /\ pc'[r] = to /\ \A x \in Processes : x # r => pc'[x] = pc[x]
        /\ Locked'
        /\ \A S : Good(S, pc, i, sent) => Good(S, pc', i', sent')
        /\ pc' \in [Processes -> {"none", "loop", "write", "read", "post", "check", "ended",
                                  "failed", "reaped"}]
    BY <2>1, <1>5
  <2>3. piece \in Seq(Units) /\ Len(piece) = c
    <3>1. SubSeq(pipe, 0 + 1, 0 + c) \in Seq(Units) /\ Len(SubSeq(pipe, 0 + 1, 0 + c)) = c
      BY <1>4, PartOf
    <3> QED BY <3>1
  <2>4. rest \in Seq(Units) /\ Len(rest) = Len(pipe) - c
    <3> DEFINE n == Len(pipe) - c
    <3>1. n \in Nat /\ c \in Nat /\ c + n = Len(pipe)
      BY <1>4
    <3>2. SubSeq(pipe, c + 1, c + n) \in Seq(Units) /\ Len(SubSeq(pipe, c + 1, c + n)) = n
      BY <3>1, <1>4, PartOf
    <3> QED BY <3>1, <3>2
  <2>5. piece \o rest = pipe
    <3>1. SubSeq(pipe, 1, c) \o SubSeq(pipe, c + 1, Len(pipe)) = SubSeq(pipe, 1, Len(pipe))
      BY <1>4, ConcatAdjacentSubSeq
    <3> QED BY <3>1, <1>4, SubSeqFull
  <2> HIDE DEF piece, rest
  <2>6. /\ got[r] \o piece \in Seq(Units) /\ Len(got[r] \o piece) = Len(got[r]) + c
        /\ (got[r] \o piece) \o rest = got[r] \o pipe
    <3>1. got[r] \o piece \in Seq(Units) /\ Len(got[r] \o piece) = Len(got[r]) + c
      BY <2>3, <1>4, ConcatProperties
    <3>2. (got[r] \o piece) \o rest = got[r] \o (piece \o rest)
      BY <2>3, <2>4, <1>4, Joined
    <3> QED BY <3>1, <3>2, <2>5
  <2>7. /\ got'[r] = got[r] \o piece /\ got' \in [Readers -> Seq(Units)]
        /\ \A q \in Readers : q # r => got'[q] = got[q]
    BY <2>1, <2>6 DEF Placed
  <2>8. Good(got'[r] \o pipe', pc', i', sent')
    <3>1. got'[r] \o pipe' = got[r] \o pipe
      BY <2>1, <2>6, <2>7
    <3> QED BY <3>1, <2>2, <1>3
  <2>9. TypeOK'
    <3>1. \A q \in Readers : got'[q] \in Seq(Units) /\ Len(got'[q]) <= MSG_ELEMS
      BY <2>6, <2>7, <1>1 DEF TypeOK
    <3>2. pipe' \in Seq(Units) /\ Len(pipe') <= PIPE_SIZE
      <4>1. PIPE_SIZE \in Nat
        BY SizesAssumption DEF SizesAssumption
      <4> QED BY <4>1, <2>1, <2>4, <1>4
    <3> QED BY <3>1, <3>2, <2>2, <1>2 DEF TypeOK
  <2>10. ASSUME Len(got[r]) + c = MSG_ELEMS
         PROVE  /\ \E m \in Messages : got'[r] = Message(m)
                /\ Good(pipe', pc', i', sent')
    <3>1. /\ got'[r] \in Seq(Units) /\ pipe' \in Seq(Units) /\ Len(got'[r]) = MSG_ELEMS
          /\ Whole(got'[r] \o pipe')
      BY <2>1, <2>4, <2>6, <2>7, <2>8, <2>10 DEF Good
    <3>2. /\ \E m \in Messages : got'[r] = Message(m)
          /\ Whole(pipe')
          /\ Complete(got'[r] \o pipe') => Complete(pipe')
          /\ \A m : \A n \in Places : Partial(got'[r] \o pipe', m, n) => Partial(pipe', m, n)
      BY <3>1, StreamSplits
    <3>3. \A w \in Writers : sent'[w] \in Places
      BY <2>9 DEF TypeOK
    <3> QED BY <3>2, <3>3, <2>8 DEF Good
  <2>11. ReadsWholeMessages'
    <3>1. ASSUME NEW q \in Readers, pc'[q] \in {"post", "check"}
          PROVE  \E m \in Messages : got'[q] = Message(m)
      <4>1. CASE q = r
        BY <4>1, <3>1, <2>2, <2>10
      <4>2. CASE q # r
        BY <4>2, <3>1, <2>2, <2>7, TwoKinds DEF ReadsWholeMessages
      <4> QED BY <4>1, <4>2
    <3> QED BY <3>1 DEF ReadsWholeMessages
  <2>12. Placed'
    <3>1. \A w \in Writers : pc'[w] = pc[w]
      BY <2>2, TwoKinds
    <3>2. ASSUME NEW q \in Readers
          PROVE  /\ pc'[q] \in {"read", "post", "check"} => i[q] < PerReader
                 /\ pc'[q] \in {"none", "loop"} => got'[q] = <<>>
      <4>1. CASE q = r
        BY <4>1, <2>2, <1>3
      <4>2. CASE q # r
        BY <4>2, <2>2, <2>7, TwoKinds DEF Placed
      <4> QED BY <4>1, <4>2
    <3> QED BY <3>1, <3>2, <2>7, <1>2 DEF Placed
  <2>13. Stream'
    <3>1. \A q \in Readers : q # r => pc'[q] # "read" /\ pc'[q] # "post"
      BY <2>2, <1>3, TwoKinds
    <3>2. read_mutex' # 1
      BY <1>2, <1>3
    <3>3. pc'[r] = "post" => Good(pipe', pc', i', sent')
      BY <2>2, <2>10
    <3> QED BY <3>1, <3>2, <3>3, <2>8 DEF Stream
  <2> QED BY <2>2, <2>9, <2>11, <2>12, <2>13
<1> QED BY <1>1, <1>6, <1>7

\* The reader leaves the pipe to the next at the end of a message.
LEMMA ReaderPostNext ==
  ASSUME PipeInv, NEW r \in Readers, ReaderPost(r)
  PROVE  PipeInv'
<1> USE DEF PipeInv
<1>1. /\ read_mutex' = read_mutex + 1
      /\ pc[r] = "post" /\ pc' = [pc EXCEPT ![r] = "check"]
      /\ UNCHANGED <<pipe, write_mutex, main, i, sent, got>>
  BY DEF ReaderPost, Goto
<1>2. pc'[r] = "check" /\ \A x \in Processes : x # r => pc'[x] = pc[x]
  BY <1>1, TwoKinds, Moves
<1>3. read_mutex = 0 /\ read_mutex' = 1
      /\ \A q \in Readers : q # r => pc[q] # "read" /\ pc[q] # "post"
  BY <1>1 DEF Locked, Behind
<1>4. TypeOK'
  BY <1>1, <1>3 DEF TypeOK
<1>5. \A w \in Writers : pc'[w] = pc[w]
  BY <1>2, TwoKinds
<1>6. \A q \in Readers : /\ pc'[q] \in {"post", "check"} => pc[q] \in {"post", "check"}
                         /\ pc'[q] \notin {"read", "post"}
  BY <1>1, <1>2, <1>3, TwoKinds
<1>7. ReadsWholeMessages'
  BY <1>1, <1>6 DEF ReadsWholeMessages
<1>8. Behind(Readers, "read")' = {} /\ Behind(Writers, "write")' = Behind(Writers, "write")
  BY <1>5, <1>6 DEF Behind
<1>9. Locked'
  BY <1>1, <1>8 DEF Locked
<1>10. Placed'
  <2>1. ASSUME NEW q \in Readers
        PROVE  /\ pc'[q] \in {"read", "post", "check"} => i[q] < PerReader
               /\ pc'[q] \in {"none", "loop"} => got[q] = <<>>
    BY <1>1, <1>2, TwoKinds DEF Placed
  <2> QED BY <1>1, <1>5, <2>1 DEF Placed
<1>11. UNCHANGED <<pipe, i, sent>>
  BY <1>1
<1>12. Good(pipe, pc', i', sent')
  <2>1. Good(pipe, pc, i, sent)
    BY <1>1 DEF Stream
  <2> QED BY <2>1, <1>5, <1>11, GoodKept
<1>13. Stream'
  BY <1>6, <1>11, <1>12 DEF Stream
<1> QED BY <1>4, <1>7, <1>9, <1>10, <1>13

LEMMA CheckNext ==
  ASSUME PipeInv, NEW r \in Readers, Check(r)
  PROVE  PipeInv'
<1> USE DEF PipeInv
<1>1. /\ pc[r] = "check" /\ pc' = [pc EXCEPT ![r] = "loop"]
      /\ i' = [i EXCEPT ![r] = i[r] + 1] /\ got' = [got EXCEPT ![r] = <<>>]
      /\ UNCHANGED <<pipe, read_mutex, write_mutex, main, sent>>
  BY DEF Check, Goto
<1>2. pc'[r] = "loop" /\ \A x \in Processes : x # r => pc'[x] = pc[x]
  BY <1>1, TwoKinds, Moves
<1>3. i[r] + 1 \in 0..MSG_COUNT
  <2>1. i[r] < PerReader /\ i[r] \in Nat
    BY <1>1, TwoKinds DEF Placed, TypeOK
  <2> QED BY <2>1, Shares, SizesAssumption DEF SizesAssumption
<1>4. i' \in [Processes -> 0..MSG_COUNT] /\ \A x \in Processes : x # r => i'[x] = i[x]
  BY <1>1, <1>3 DEF TypeOK
<1>5. <<>> \in Seq(Units) /\ Len(<<>>) = 0
  BY EmptySeq
<1>6. /\ got'[r] = <<>> /\ got' \in [Readers -> Seq(Units)]
      /\ \A q \in Readers : q # r => got'[q] = got[q]
  BY <1>1, <1>5 DEF Placed
<1>7. TypeOK'
  <2>1. ASSUME NEW q \in Readers  PROVE got'[q] \in Seq(Units) /\ Len(got'[q]) <= MSG_ELEMS
    <3>1. CASE q = r
      <4>1. 0 <= MSG_ELEMS
        BY Sizes
      <4> QED BY <4>1, <3>1, <1>5, <1>6
    <3>2. CASE q # r
      BY <3>2, <1>6 DEF TypeOK
    <3> QED BY <3>1, <3>2
  <2>2. pc' \in [Processes -> {"none", "loop", "write", "read", "post", "check", "ended",
                               "failed", "reaped"}]
    BY <1>1 DEF TypeOK
  <2> QED BY <2>1, <2>2, <1>1, <1>4 DEF TypeOK
<1>8. UNCHANGED <<pipe, read_mutex, write_mutex, sent>>
  BY <1>1
<1>9. \A w \in Writers : pc'[w] = pc[w] /\ i'[w] = i[w]
  BY <1>2, <1>4, TwoKinds
<1>10. ASSUME NEW q \in Readers, pc'[q] \in {"read", "post", "check"}
       PROVE  pc'[q] = pc[q] /\ i'[q] = i[q] /\ got'[q] = got[q]
  BY <1>2, <1>4, <1>6, <1>10, TwoKinds
<1>11. ReadsWholeMessages'
  BY <1>10 DEF ReadsWholeMessages
<1>12. /\ Behind(Writers, "write")' = Behind(Writers, "write")
       /\ Behind(Readers, "read")' = Behind(Readers, "read")
  BY <1>1, <1>2, <1>9, TwoKinds DEF Behind
<1>13. Locked'
  BY <1>8, <1>12 DEF Locked
<1>14. Placed'
  <2>1. ASSUME NEW q \in Readers
        PROVE  /\ pc'[q] \in {"read", "post", "check"} => i'[q] < PerReader
               /\ pc'[q] \in {"none", "loop"} => got'[q] = <<>>
    BY <1>2, <1>6, <1>10, TwoKinds DEF Placed
  <2> QED BY <1>6, <1>8, <1>9, <2>1 DEF Placed
<1>15. ASSUME NEW S, Good(S, pc, i, sent)  PROVE Good(S, pc', i', sent')
  BY <1>8, <1>9, <1>15, GoodKept
<1>16. Stream'
  BY <1>8, <1>10, <1>15 DEF Stream
<1> QED BY <1>7, <1>11, <1>13, <1>14, <1>16

LEMMA PipeNext == PipeInv /\ Next => PipeInv'
<1> SUFFICES ASSUME PipeInv, Next PROVE PipeInv'
  OBVIOUS
<1>1. ASSUME NEW p \in Processes, Exit(p) \/ Wait(p)  PROVE PipeInv'
  <2>1. /\ \E to \in {"ended", "reaped"} : pc' = [pc EXCEPT ![p] = to]
        /\ pc[p] \in {"loop", "ended", "failed"}
        /\ main' \in {main, "failed", "wait"}
        /\ UNCHANGED <<pipe, read_mutex, write_mutex, i, sent, got>>
    BY <1>1 DEF Exit, Wait, Goto
  <2>2. main' \in {"readers", "writers", "wait", "ended", "failed"}
    BY <2>1 DEF PipeInv, TypeOK
  <2> QED BY <2>1, <2>2, QuietNext
<1>2. ASSUME NEW P \in {Readers, Writers}, NEW from \in {"readers", "writers"},
             NEW to \in {"writers", "wait"}, ForkAll(P, from, to)
      PROVE  PipeInv'
  <2>1. UNCHANGED <<pipe, read_mutex, write_mutex, i, sent, got>>
    BY <1>2 DEF ForkAll
  <2>2. ASSUME NEW p \in P, Goto(p, "none", "loop"), UNCHANGED main  PROVE PipeInv'
    <3>1. p \in Processes
      BY TwoKinds
    <3>2. main' \in {"readers", "writers", "wait", "ended", "failed"}
      BY <2>2 DEF PipeInv, TypeOK
    <3> QED BY <3>1, <3>2, <2>1, <2>2, QuietNext DEF Goto
  <2>3. ASSUME main' = to, UNCHANGED pc  PROVE PipeInv'
    BY <2>1, <2>3
    DEF PipeInv, TypeOK, ReadsWholeMessages, Locked, Behind, Placed, Stream
  <2> QED BY <1>2, <2>2, <2>3 DEF ForkAll
<1>3. CASE Unlink
  <2>1. /\ main' = "ended"
        /\ UNCHANGED <<pipe, read_mutex, write_mutex, pc, i, sent, got>>
    BY <1>3 DEF Unlink
  <2> QED BY <2>1 DEF PipeInv, TypeOK, ReadsWholeMessages, Locked, Behind, Placed, Stream
<1>4. ASSUME NEW w \in Writers, Writer(w)  PROVE PipeInv'
  BY <1>4, WriterWaitNext, WriteIntNext, WriterPostNext DEF Writer
<1>5. ASSUME NEW r \in Readers, Reader(r)  PROVE PipeInv'
  BY <1>5, ReaderWaitNext, PipeReadNext, ReaderPostNext, CheckNext DEF Reader
<1> QED BY <1>1, <1>2, <1>3, <1>4, <1>5 DEF Next, Main, ForkReaders, ForkWriters

LEMMA PipeStarts == Init => PipeInv
<1> SUFFICES ASSUME Init PROVE PipeInv
  OBVIOUS
<1>1. /\ pipe = <<>> /\ read_mutex = 1 /\ write_mutex = 1 /\ main = "readers"
      /\ \A p \in Processes : pc[p] = "none" /\ i[p] = 0
      /\ \A w \in Writers : sent[w] = 0 /\ pc[w] = "none"
      /\ \A r \in Readers : got[r] = <<>> /\ pc[r] = "none"
      /\ pc = [p \in Processes |-> "none"] /\ i = [p \in Processes |-> 0]
      /\ sent = [w \in Writers |-> 0] /\ got = [r \in Readers |-> <<>>]
  BY TwoKinds DEF Init
<1>2. <<>> \in Seq(Units) /\ Len(<<>>) = 0 /\ 0 \in Places /\ 0 \in 0..MSG_COUNT
  BY EmptySeq, Sizes, SizesAssumption DEF SizesAssumption
<1>3. TypeOK
  BY <1>1, <1>2, Sizes, SizesAssumption DEF TypeOK, SizesAssumption
<1>4. ReadsWholeMessages /\ Locked
  BY <1>1 DEF ReadsWholeMessages, Locked, Behind
<1>5. Placed
  BY <1>1, <1>2 DEF Placed
<1>6. Good(<<>>, pc, i, sent)
  <2>1. \A x \in Nat, p \in Places : ~(x * MSG_ELEMS + p < 0)
    BY Sizes
  <2>2. 0 * MSG_ELEMS = 0
    BY Sizes
  <2> QED BY <2>1, <2>2, <1>1, <1>2 DEF Good, Whole, Complete
<1>7. Stream
  BY <1>1, <1>6 DEF Stream
<1> QED BY <1>3, <1>4, <1>5, <1>7 DEF PipeInv

-----------------------------------------------------------------------------
(* The programs *)

StreamsInv == PipeInv /\ CopyInv /\ TimeInv

\* A program that does not run stays as it is.
LEMMA Unmoved ==
  /\ PipeInv /\ UNCHANGED vars => PipeInv'
  /\ CopyInv /\ UNCHANGED copyVars => CopyInv'
  /\ TimeInv /\ UNCHANGED timeVars => TimeInv'
<1>1. PipeInv /\ UNCHANGED vars => PipeInv'
  BY DEF PipeInv, vars, TypeOK, ReadsWholeMessages, Locked, Behind, Placed, Stream
<1>2. CopyInv /\ UNCHANGED copyVars => CopyInv'
  BY DEF CopyInv, copyVars, Copy!TypeOK, Copy!CopiesInOrder, Offsets
<1>3. TimeInv /\ UNCHANGED timeVars => TimeInv'
  BY DEF TimeInv, timeVars, Time!TypeOK, Received, Answered, Blamed
<1> QED BY <1>1, <1>2, <1>3

\* Each program's invariant, whichever of them runs.
LEMMA Invariance == ProgramsSpec => []StreamsInv
<1>1. ProgramsInit => StreamsInv
  BY PipeStarts, CopyStarts, TimeStarts DEF ProgramsInit, StreamsInv
<1>2. StreamsInv /\ [ProgramsNext]_allVars => StreamsInv'
  <2> SUFFICES ASSUME StreamsInv, [ProgramsNext]_allVars PROVE StreamsInv'
    OBVIOUS
  <2>1. CASE PipeRuns /\ Next
    BY <2>1, PipeNext, Unmoved DEF StreamsInv, PipeRuns
  <2>2. CASE CopyRuns /\ Copy!Next
    BY <2>2, CopyNext, Unmoved DEF StreamsInv, CopyRuns
  <2>3. CASE TimeRuns /\ Time!Next
    BY <2>3, TimeNext, Unmoved DEF StreamsInv, TimeRuns
  <2>4. CASE UNCHANGED allVars
    BY <2>4, Unmoved DEF StreamsInv, allVars
  <2> QED BY <2>1, <2>2, <2>3, <2>4 DEF ProgramsNext
<1> QED BY <1>1, <1>2, PTL DEF ProgramsSpec

\* Every variable keeps its type: the mutexes of the pipe are 0 or 1, the pipe
\* holds no more than its size, no buffer is counted beyond its end.
THEOREM Typing == ProgramsSpec => []TypesOK
<1>1. StreamsInv => TypesOK
  BY DEF StreamsInv, PipeInv, CopyInv, TimeInv, TypesOK
<1> QED BY <1>1, Invariance, PTL

\* What a reader of Pipe/main.c takes out of the pipe between sem_wait and
\* sem_post is one message, whole and in order, however many processes there
\* are and whatever the pipe holds; a reader that fails in the middle leaves
\* nobody a rest of its message.
THEOREM MessagesStayWhole == ProgramsSpec => []ReadsWholeMessages
<1>1. StreamsInv => ReadsWholeMessages
  BY DEF StreamsInv, PipeInv
<1> QED BY <1>1, Invariance, PTL

\* copy.c: the destination is a prefix of the source, then what the old file
\* had, and all of the source at the end, whatever the pieces that read and
\* write move.
THEOREM CopyIsFaithful == ProgramsSpec => []CopiesInOrder
<1>1. StreamsInv => CopiesInOrder
  BY DEF StreamsInv, CopyInv, CopiesInOrder
<1> QED BY <1>1, Invariance, PTL

\* A client of the time server prints the reply, unless one of its messages was
\* split or another client brought the server down.
THEOREM RepliesArePrinted == ProgramsSpec => []PrintsReply
<1>1. StreamsInv => PrintsReply
  BY TimeSafe DEF StreamsInv, PrintsReply
<1> QED BY <1>1, Invariance, PTL

=============================================================================
