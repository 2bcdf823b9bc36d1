------------------------------ MODULE EchoFifo ------------------------------
(***************************************************************************)
(* Lab06/src/03 EchoFIFO: echo.c makes two FIFOs, greets the client and    *)
(* sends every line back; client.c sends the lines of its standard input.  *)
(* Opening a FIFO waits for the other end, so both programs must open them *)
(* in the same order.                                                      *)
(*                                                                         *)
(* A line (at most 1023 bytes) is written in one piece, and readOneByOne   *)
(* collects its bytes up to the newline.  echo.c sends back strlen(buf)    *)
(* bytes, not as many as it has read.  The test for QUIT compares lengths  *)
(* that never match, in both programs: the code after the loops (close,    *)
(* and in echo.c unlink) is never reached.                                 *)
(***************************************************************************)
EXTENDS Naturals, Sequences

CONSTANTS MAX_LINES,       \* bound: lines of the standard input
          ECHO_STARTS, CLIENT_STARTS   \* bounds: how often each program is started

CLNT_FIFO == "fifo_client"
ECHO_FIFO == "fifo_echo"
Fifos     == {CLNT_FIFO, ECHO_FIFO}
Welcome   == "welcome"
QUIT      == "QUIT"
Lines     == {"text", QUIT}
Rest      == "rest"        \* what follows a line in a buffer, up to its terminator
Messages  == Lines \cup {Welcome, Rest}

QUIT_LEN    == 4
WELCOME_LEN == 169
\* The bytes of a message: its newline is one of them.
Bytes(m) == CASE m = QUIT    -> QUIT_LEN + 1
              [] m = Welcome -> WELCOME_LEN
              [] OTHER       -> QUIT_LEN

VARIABLES exists,           \* the FIFOs that are there
          chan,             \* what has been written to each and not read
          reader, writer,   \* each FIFO's ends: "closed", "opening" or "open"
          echo, client,     \* where the programs stand
          line, strlen,     \* the message echo's buffer begins with, and the buffer's
                            \* length: its terminator may lie behind the message
          sent, reply,      \* the line the client last sent, and what it last read
          lines, echoes, clients   \* lines read, programs started, so far

ends == <<reader, writer>>
counts == <<lines, echoes, clients>>
buf == <<line, strlen>>
vars == <<exists, chan, ends, echo, client, buf, sent, reply, counts>>

\* FIFOs of an earlier run may be there.
Init == /\ exists \in SUBSET Fifos
        /\ chan = [f \in Fifos |-> <<>>]
        /\ reader = [f \in Fifos |-> "closed"] /\ writer = [f \in Fifos |-> "closed"]
        /\ echo = "off" /\ client = "off"
        /\ line = "none" /\ strlen = 0 /\ sent = "none" /\ reply = "none"
        /\ lines = 0 /\ echoes = 0 /\ clients = 0

\* A program that ends closes its ends; an unused FIFO keeps nothing.
Close(rd, wr) ==
  /\ reader' = [reader EXCEPT ![rd] = "closed"]
  /\ writer' = [writer EXCEPT ![wr] = "closed"]
  /\ chan' = [f \in Fifos |-> IF reader'[f] = "closed" /\ writer'[f] = "closed" THEN <<>>
                                                                                ELSE chan[f]]

-----------------------------------------------------------------------------
(* echo.c *)

EchoStart == /\ echo \in {"off", "failed"} /\ echoes < ECHO_STARTS
             /\ echo' = "mkfifo_echo"
             /\ echoes' = echoes + 1
             /\ UNCHANGED <<exists, chan, ends, client, buf, sent, reply, lines, clients>>

Mkfifo(f, from, to) == /\ echo = from
                       /\ echo' = IF f \in exists THEN "failed" ELSE to
                       /\ exists' = exists \cup {f}
                       /\ UNCHANGED <<chan, ends, client, buf, sent, reply, counts>>

EchoMkfifo == \/ Mkfifo(ECHO_FIFO, "mkfifo_echo", "mkfifo_clnt")
              \/ Mkfifo(CLNT_FIFO, "mkfifo_clnt", "open_clnt")

\* open(CLNT_FIFO, O_RDONLY), then open(ECHO_FIFO, O_WRONLY): each call shows
\* its end and then waits for the other.
EchoOpen ==
  /\ \/ /\ echo = "open_clnt" /\ reader[CLNT_FIFO] = "closed"
        /\ reader' = [reader EXCEPT ![CLNT_FIFO] = "opening"] /\ UNCHANGED <<writer, echo>>
     \/ /\ echo = "open_clnt" /\ reader[CLNT_FIFO] = "opening" /\ writer[CLNT_FIFO] # "closed"
        /\ reader' = [reader EXCEPT ![CLNT_FIFO] = "open"] /\ UNCHANGED writer
        /\ echo' = "open_echo"
     \/ /\ echo = "open_echo" /\ writer[ECHO_FIFO] = "closed"
        /\ writer' = [writer EXCEPT ![ECHO_FIFO] = "opening"] /\ UNCHANGED <<reader, echo>>
     \/ /\ echo = "open_echo" /\ writer[ECHO_FIFO] = "opening" /\ reader[ECHO_FIFO] # "closed"
        /\ writer' = [writer EXCEPT ![ECHO_FIFO] = "open"] /\ UNCHANGED reader
        /\ echo' = "welcome"
  /\ UNCHANGED <<exists, chan, client, buf, sent, reply, counts>>

EchoWelcome == /\ echo = "welcome"
               /\ chan' = [chan EXCEPT ![ECHO_FIFO] = Append(@, Welcome)]
               /\ line' = Welcome /\ strlen' = Bytes(Welcome)
               /\ echo' = "read"
               /\ UNCHANGED <<exists, ends, client, sent, reply, counts>>

\* Mutation: memcmp's result is taken for equality.
EchoQuitsOnOther(l) == Bytes(l) = QUIT_LEN /\ l # QUIT

\* The line read is QUIT, by its length and its first bytes.
EchoQuits(l) == Bytes(l) = QUIT_LEN /\ l = QUIT

\* A line is read over what buf holds, which then ends at length.
ReadLine(length) ==
  /\ echo = "read" /\ chan[CLNT_FIFO] # <<>>
  /\ line' = Head(chan[CLNT_FIFO]) /\ strlen' = length
  /\ chan' = [chan EXCEPT ![CLNT_FIFO] = Tail(@)]
  /\ echo' = IF EchoQuits(line') THEN "ended" ELSE "write"
  /\ UNCHANGED <<exists, ends, client, sent, reply, counts>>

\* Mutation: without DEBUG nobody writes the terminator.
EchoReadUnterminated == ReadLine(strlen)

\* DEBUG is 1: buf[bytes_read] = '\0'.
EchoRead == ReadLine(Bytes(Head(chan[CLNT_FIFO])))

\* read() returns 0: the program ends with an error and leaves its FIFOs.
EchoEof == /\ echo = "read" /\ chan[CLNT_FIFO] = <<>> /\ writer[CLNT_FIFO] = "closed"
           /\ echo' = "failed"
           /\ Close(CLNT_FIFO, ECHO_FIFO)
           /\ UNCHANGED <<exists, client, buf, sent, reply, counts>>

\* strlen(buf) bytes are sent: the line, and what lies behind it.
EchoWrite ==
  /\ echo = "write"
  /\ chan' = [chan EXCEPT ![ECHO_FIFO] =
                @ \o (IF strlen > Bytes(line) THEN <<line, Rest>> ELSE <<line>>)]
  /\ echo' = "read"
  /\ UNCHANGED <<exists, ends, client, buf, sent, reply, counts>>

-----------------------------------------------------------------------------
(* client.c *)

ClientStart == /\ client \in {"off", "failed"} /\ clients < CLIENT_STARTS
               /\ client' = "open_clnt"
               /\ clients' = clients + 1
               /\ UNCHANGED <<exists, chan, ends, echo, buf, sent, reply, lines, echoes>>

\* Mutation: the two FIFOs are opened in the other order.
ClientOpenSwapped ==
  /\ client = "open_clnt" /\ exists = Fifos
  /\ \/ /\ reader[ECHO_FIFO] = "closed"
        /\ reader' = [reader EXCEPT ![ECHO_FIFO] = "opening"] /\ UNCHANGED <<writer, client>>
     \/ /\ reader[ECHO_FIFO] = "opening" /\ writer[ECHO_FIFO] # "closed"
        /\ reader' = [reader EXCEPT ![ECHO_FIFO] = "open"]
        /\ writer' = [writer EXCEPT ![CLNT_FIFO] = "open"]
        /\ client' = "read_welcome"
  /\ UNCHANGED <<exists, chan, echo, buf, sent, reply, counts>>

\* open(CLNT_FIFO, O_WRONLY), then open(ECHO_FIFO, O_RDONLY).
ClientOpen ==
  /\ \/ /\ client = "open_clnt" /\ CLNT_FIFO \in exists /\ writer[CLNT_FIFO] = "closed"
        /\ writer' = [writer EXCEPT ![CLNT_FIFO] = "opening"] /\ UNCHANGED <<reader, client>>
     \/ /\ client = "open_clnt" /\ writer[CLNT_FIFO] = "opening" /\ reader[CLNT_FIFO] # "closed"
        /\ writer' = [writer EXCEPT ![CLNT_FIFO] = "open"] /\ UNCHANGED reader
        /\ client' = "open_echo"
     \/ /\ client = "open_echo" /\ reader[ECHO_FIFO] = "closed"
        /\ reader' = [reader EXCEPT ![ECHO_FIFO] = "opening"] /\ UNCHANGED <<writer, client>>
     \/ /\ client = "open_echo" /\ reader[ECHO_FIFO] = "opening" /\ writer[ECHO_FIFO] # "closed"
        /\ reader' = [reader EXCEPT ![ECHO_FIFO] = "open"] /\ UNCHANGED writer
        /\ client' = "read_welcome"
  /\ UNCHANGED <<exists, chan, echo, buf, sent, reply, counts>>

\* The FIFO is not there.
ClientOpenFails == /\ client = "open_clnt" /\ CLNT_FIFO \notin exists
                   /\ client' = "failed"
                   /\ UNCHANGED <<exists, chan, ends, echo, buf, sent, reply, counts>>

ClientRead == /\ client \in {"read_welcome", "read"} /\ chan[ECHO_FIFO] # <<>>
              /\ reply' = Head(chan[ECHO_FIFO])
              /\ chan' = [chan EXCEPT ![ECHO_FIFO] = Tail(@)]
              /\ client' = "input"
              /\ sent' = IF client = "read_welcome" THEN Welcome ELSE sent
              /\ UNCHANGED <<exists, ends, echo, buf, counts>>

\* bytes_sent is still 0 when it is compared: the loop goes on after QUIT.
ClientSend == /\ client = "input" /\ lines < MAX_LINES
              /\ \E l \in Lines : /\ sent' = l
                                  /\ chan' = [chan EXCEPT ![CLNT_FIFO] = Append(@, l)]
              /\ lines' = lines + 1
              /\ client' = "read"
              /\ UNCHANGED <<exists, ends, echo, buf, reply, echoes, clients>>

\* The end of the standard input: an error exit.
ClientEof == /\ client = "input"
             /\ client' = "failed"
             /\ Close(ECHO_FIFO, CLNT_FIFO)
             /\ UNCHANGED <<exists, echo, buf, sent, reply, counts>>

-----------------------------------------------------------------------------
Echo == EchoMkfifo \/ EchoOpen \/ EchoWelcome \/ EchoRead \/ EchoEof \/ EchoWrite
Client == ClientOpen \/ ClientOpenFails \/ ClientRead

Next == Echo \/ Client \/ EchoStart \/ ClientStart \/ ClientSend \/ ClientEof

\* A started program runs; the user types when it pleases.
Fairness == WF_vars(Echo) /\ WF_vars(Client)

Spec == Init /\ [][Next]_vars /\ Fairness

-----------------------------------------------------------------------------
TypeOK ==
  /\ exists \subseteq Fifos
  /\ chan \in [Fifos -> Seq(Messages)] /\ \A f \in Fifos : Len(chan[f]) <= 1
  /\ reader \in [Fifos -> {"closed", "opening", "open"}]
  /\ writer \in [Fifos -> {"closed", "opening", "open"}]
  /\ echo \in {"off", "mkfifo_echo", "mkfifo_clnt", "open_clnt", "open_echo", "welcome",
               "read", "write", "ended", "failed"}
  /\ client \in {"off", "open_clnt", "open_echo", "read_welcome", "read", "input", "failed"}
  /\ line \in Lines \cup {"none", Welcome} /\ strlen \in Nat
  /\ sent \in Lines \cup {"none", Welcome} /\ reply \in Messages \cup {"none"}
  /\ lines \in 0..MAX_LINES /\ echoes \in 0..ECHO_STARTS /\ clients \in 0..CLIENT_STARTS

(***************************************************************************)
(* Each reply is the line it answers, for every client that uses the       *)
(* FIFOs, although echo.c sends strlen(buf) bytes of a buffer that held    *)
(* longer messages before: bytes behind the line would answer the next.    *)
(***************************************************************************)
RepliesMatch == client = "input" => reply = sent

(***************************************************************************)
(* "the two FIFOs should be opened in the same order in both the Echo and  *)
(* the Client programs to avoid deadlocks": a client and an echo that both *)
(* reach their first open get through, to the welcome message.             *)
(***************************************************************************)
OpensMeet ==
  (echo = "open_clnt" /\ client = "open_clnt") ~> client = "input"

(***************************************************************************)
(* Every line that is not the command to stop is answered: echo.c takes no *)
(* other line for QUIT.  (QUIT should have no answer, by echo.c:46 and     *)
(* client.c:79-80; that it has one all the same is not claimed here.)      *)
(***************************************************************************)
LinesAnswered == (client = "read" /\ sent # QUIT) ~> client = "input"
=============================================================================
