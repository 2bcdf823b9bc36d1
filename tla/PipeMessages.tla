---------------------------- MODULE PipeMessages ----------------------------
(***************************************************************************)
(* Lab06/src/02 Pipe/main.c: writer and reader processes exchange messages *)
(* of MSG_ELEMS ints through one pipe that holds less than a message.  A   *)
(* writer writes a message, and a reader reads one, inside a mutex of its  *)
(* side.  A read returns what the pipe has, so that read_from_pipe loops;  *)
(* it counts bytes, but adds the count to a pointer to int, so that from   *)
(* the second read on the data go four times too far.  What lies in the    *)
(* array is not modelled; a read that reaches beyond it may fail (EFAULT,  *)
(* and the reader exits) or overwrite what is there and go on.             *)
(*                                                                         *)
(* An int is a member of Units: the message and the place in it that it    *)
(* was written at.                                                         *)
(***************************************************************************)
EXTENDS Naturals, Sequences, FiniteSets

CONSTANTS Writers, Readers, MSG_COUNT, MSG_ELEMS,
          PIPE_SIZE,     \* external: ints the kernel's pipe holds
          SIZEOF_INT

PerWriter == MSG_COUNT \div Cardinality(Writers)
PerReader == MSG_COUNT \div Cardinality(Readers)
Processes == Writers \cup Readers
Messages  == Writers \X (0..(PerWriter - 1))
Places    == 0..(MSG_ELEMS - 1)
Units     == Messages \X Places

ASSUME SizesAssumption ==
  /\ IsFiniteSet(Writers) /\ IsFiniteSet(Readers) /\ Writers \cap Readers = {}
  /\ MSG_ELEMS \in Nat \ {0} /\ PIPE_SIZE \in Nat \ {0} /\ SIZEOF_INT \in Nat \ {0}
  /\ MSG_COUNT \in Nat

VARIABLES pipe,
          read_mutex, write_mutex,
          main,        \* where main stands
          pc, i,       \* where each process stands, messages it is done with
          sent,        \* ints of its message a writer has written
          got          \* the ints read_from_pipe has read, in order

vars == <<pipe, read_mutex, write_mutex, main, pc, i, sent, got>>

Init == /\ pipe = <<>>
        /\ read_mutex = 1 /\ write_mutex = 1
        /\ main = "readers"
        /\ pc = [p \in Processes |-> "none"]
        /\ i = [p \in Processes |-> 0]
        /\ sent = [w \in Writers |-> 0]
        /\ got = [r \in Readers |-> <<>>]

Goto(p, from, to) == /\ pc[p] = from
                     /\ pc' = [pc EXCEPT ![p] = to]

-----------------------------------------------------------------------------
(* writer and write_to_pipe *)

\* Mutation: the message is written without the mutex.
WriterNoWait(w) == /\ i[w] < PerWriter
                   /\ Goto(w, "loop", "write")
                   /\ UNCHANGED <<pipe, read_mutex, write_mutex, main, i, sent, got>>

WriterWait(w) == /\ i[w] < PerWriter
                 /\ write_mutex > 0
                 /\ write_mutex' = write_mutex - 1
                 /\ Goto(w, "loop", "write")
                 /\ UNCHANGED <<pipe, read_mutex, main, i, sent, got>>

\* The kernel moves an int of the message whenever the pipe has room: the call
\* returns when all have been moved.
WriteInt(w) == /\ Len(pipe) < PIPE_SIZE
               /\ pipe' = Append(pipe, <<<<w, i[w]>>, sent[w]>>)
               /\ sent' = [sent EXCEPT ![w] = (@ + 1) % MSG_ELEMS]
               /\ Goto(w, "write", IF sent[w] + 1 = MSG_ELEMS THEN "post" ELSE "write")
               /\ UNCHANGED <<read_mutex, write_mutex, main, i, got>>

WriterPost(w) == /\ write_mutex' = write_mutex + 1
                 /\ i' = [i EXCEPT ![w] = @ + 1]
                 /\ Goto(w, "post", "loop")
                 /\ UNCHANGED <<pipe, read_mutex, main, sent, got>>

-----------------------------------------------------------------------------
(* reader and read_from_pipe *)

ReaderWait(r) == /\ i[r] < PerReader
                 /\ read_mutex > 0
                 /\ read_mutex' = read_mutex - 1
                 /\ Goto(r, "loop", "read")
                 /\ UNCHANGED <<pipe, write_mutex, main, i, sent, got>>

\* Where the c ints of a read are stored, after n have been read.
Target(n, c) == (n * SIZEOF_INT)..(n * SIZEOF_INT + c - 1)

\* A read() that returns c ints.
Fetch(r, c) == /\ pipe' = SubSeq(pipe, c + 1, Len(pipe))
               /\ got' = [got EXCEPT ![r] = @ \o SubSeq(pipe, 1, c)]

\* Mutation: a single read, whatever it returns.
ReadOnce(r) == /\ pipe # <<>>
               /\ \E c \in 1..Len(pipe) : c <= MSG_ELEMS /\ Fetch(r, c)
               /\ Goto(r, "read", "post")
               /\ UNCHANGED <<read_mutex, write_mutex, main, i, sent>>

Read(r) == /\ pipe # <<>>
           /\ \E c \in 1..Len(pipe) :
                /\ Len(got[r]) + c <= MSG_ELEMS
                /\ \/ /\ Fetch(r, c)
                      /\ Goto(r, "read", IF Len(got[r]) + c = MSG_ELEMS THEN "post" ELSE "read")
                   \/ /\ ~(Target(Len(got[r]), c) \subseteq Places)
                      /\ Goto(r, "read", "failed")
                      /\ UNCHANGED <<pipe, got>>
           /\ UNCHANGED <<read_mutex, write_mutex, main, i, sent>>

ReaderPost(r) == /\ read_mutex' = read_mutex + 1
                 /\ Goto(r, "post", "check")
                 /\ UNCHANGED <<pipe, write_mutex, main, i, sent, got>>

\* is_msg_ok only decides what is printed.
Check(r) == /\ Goto(r, "check", "loop")
            /\ i' = [i EXCEPT ![r] = @ + 1]
            /\ got' = [got EXCEPT ![r] = <<>>]
            /\ UNCHANGED <<pipe, read_mutex, write_mutex, main, sent>>

Exit(p) == /\ i[p] = IF p \in Writers THEN PerWriter ELSE PerReader
           /\ Goto(p, "loop", "ended")
           /\ UNCHANGED <<pipe, read_mutex, write_mutex, main, i, sent, got>>

-----------------------------------------------------------------------------
(* main *)

ForkAll(P, from, to) ==
  /\ main = from
  /\ \/ \E p \in P : Goto(p, "none", "loop") /\ UNCHANGED main
     \/ /\ \A p \in P : pc[p] # "none"
        /\ main' = to
        /\ UNCHANGED pc
  /\ UNCHANGED <<pipe, read_mutex, write_mutex, i, sent, got>>

ForkReaders == ForkAll(Readers, "readers", "writers")
ForkWriters == ForkAll(Writers, "writers", "wait")

\* Mutation: the status of a child is not looked at.
WaitAny(p) == /\ main = "wait"
              /\ pc[p] = "ended"
              /\ pc' = [pc EXCEPT ![p] = "reaped"]
              /\ UNCHANGED <<pipe, read_mutex, write_mutex, main, i, sent, got>>

\* wait() of a child; main exits at once if the child has failed.
Wait(p) == /\ main = "wait"
           /\ pc[p] \in {"ended", "failed"}
           /\ pc' = [pc EXCEPT ![p] = "reaped"]
           /\ main' = IF pc[p] = "failed" THEN "failed" ELSE "wait"
           /\ UNCHANGED <<pipe, read_mutex, write_mutex, i, sent, got>>

\* All are reaped: main unlinks the mutexes.
Unlink == /\ main = "wait"
          /\ \A p \in Processes : pc[p] = "reaped"
          /\ main' = "ended"
          /\ UNCHANGED <<pipe, read_mutex, write_mutex, pc, i, sent, got>>

-----------------------------------------------------------------------------
Main == ForkReaders \/ ForkWriters \/ Unlink \/ \E p \in Processes : Wait(p)
Writer(w) == WriterWait(w) \/ WriteInt(w) \/ WriterPost(w)
Reader(r) == ReaderWait(r) \/ Read(r) \/ ReaderPost(r) \/ Check(r)

Next == \/ Main
        \/ \E w \in Writers : Writer(w)
        \/ \E r \in Readers : Reader(r)
        \/ \E p \in Processes : Exit(p)

\* Every process that can run does.
Fairness == /\ WF_vars(Main)
            /\ \A w \in Writers : WF_vars(Writer(w))
            /\ \A r \in Readers : WF_vars(Reader(r))
            /\ \A p \in Processes : WF_vars(Exit(p))

Spec == Init /\ [][Next]_vars /\ Fairness

-----------------------------------------------------------------------------
TypeOK ==
  /\ pipe \in Seq(Units) /\ Len(pipe) <= PIPE_SIZE
  /\ read_mutex \in {0, 1} /\ write_mutex \in {0, 1}
  /\ main \in {"readers", "writers", "wait", "ended", "failed"}
  /\ pc \in [Processes -> {"none", "loop", "write", "read", "post", "check", "ended",
                           "failed", "reaped"}]
  /\ i \in [Processes -> 0..MSG_COUNT]
  /\ sent \in [Writers -> Places]
  /\ \A r \in Readers : got[r] \in Seq(Units) /\ Len(got[r]) <= MSG_ELEMS

\* The ints of message m, in order.
Message(m) == [x \in 1..MSG_ELEMS |-> <<m, x - 1>>]

(***************************************************************************)
(* What a reader reads between sem_wait and sem_post is one message, whole *)
(* and in order, although no read and no write is that long.               *)
(***************************************************************************)
ReadsWholeMessages ==
  \A r \in Readers : pc[r] \in {"post", "check"} => \E m \in Messages : got[r] = Message(m)

\* main always gets to its end: with an error if a reader fails, although that
\* leaves the reader's mutex locked and the other processes stuck behind it.
MainEnds == <>(main \in {"ended", "failed"})
=============================================================================
