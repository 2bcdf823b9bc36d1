----------------------------- MODULE TimeServer -----------------------------
(***************************************************************************)
(* Lab07/src/03 time_server: the server answers one connection after the   *)
(* other; a client sends the command TIME, reads up to the end of the      *)
(* stream and prints what it has.                                          *)
(*                                                                         *)
(* A stream may deliver what was sent in several pieces.  Both programs    *)
(* put every piece at the start of their buffer, take a piece of one byte  *)
(* for an error, and the server goes on receiving unless one piece is as   *)
(* long as the command.  The variable short remembers on whose connection  *)
(* a piece was not all that had been sent.                                 *)
(***************************************************************************)
EXTENDS Naturals

CONSTANTS Clients, NoClient,
          COMMAND_LEN, REPLY_LEN,   \* the lengths of the two messages
          SERVER_STARTS             \* bound: how often the server is started

\* What the constants are (assumed where the module is instantiated).
LengthsAssumption ==
  /\ NoClient \notin Clients
  /\ COMMAND_LEN \in Nat \ {0, 1} /\ REPLY_LEN \in Nat \ {0, 1} /\ SERVER_STARTS \in Nat

VARIABLES server, client_desc,   \* where the server stands, whom it serves
          recv_bytes,            \* bytes of the command it has received
          connection,            \* "none", "queued", "accepted" or "closed" by the server
          to_server, to_client,  \* bytes of each connection that wait to be received
          peer,                  \* where each client stands
          answer,                \* what a client's buffer holds
          short, starts

serverVars == <<server, client_desc, recv_bytes, starts>>
vars == <<serverVars, connection, to_server, to_client, peer, answer, short>>

Init == /\ server = "off" /\ client_desc = NoClient /\ recv_bytes = 0 /\ starts = 0
        /\ connection = [c \in Clients |-> "none"]
        /\ to_server = [c \in Clients |-> 0] /\ to_client = [c \in Clients |-> 0]
        /\ peer = [c \in Clients |-> "off"]
        /\ answer = [c \in Clients |-> "nothing"]
        /\ short = [c \in Clients |-> FALSE]

-----------------------------------------------------------------------------
(* server.c *)

\* socket, bind and listen; SO_REUSEADDR allows it right after a crash.
ServerStart == /\ server \in {"off", "exited"} /\ starts < SERVER_STARTS
               /\ starts' = starts + 1
               /\ server' = "accept"
               /\ UNCHANGED <<client_desc, recv_bytes, connection, to_server, to_client, peer,
                              answer, short>>

Accept(c) == /\ server = "accept" /\ connection[c] = "queued"
             /\ server' = "recv" /\ client_desc' = c /\ recv_bytes' = 0
             /\ connection' = [connection EXCEPT ![c] = "accepted"]
             /\ UNCHANGED <<to_server, to_client, peer, answer, short, starts>>

\* handle_error ends the server, and every connection with it.
ServerExits == /\ server' = "exited" /\ client_desc' = NoClient
               /\ connection' = [c \in Clients |-> IF connection[c] = "none" THEN "none"
                                                                             ELSE "closed"]

\* ret bytes are received.  A single byte ends the server; a piece of the
\* length of the command ends the loop.
Recv(c) ==
  /\ server = "recv" /\ client_desc = c
  /\ \E ret \in 1..to_server[c] :
        /\ to_server' = [to_server EXCEPT ![c] = @ - ret]
        /\ short' = [short EXCEPT ![c] = @ \/ ret < COMMAND_LEN]
        /\ recv_bytes' = recv_bytes + ret
        /\ IF ret = 1 THEN ServerExits
           ELSE /\ server' = IF ret = COMMAND_LEN THEN "reply" ELSE "recv"
                /\ UNCHANGED <<client_desc, connection>>
  /\ UNCHANGED <<to_client, peer, answer, starts>>

\* recv returns 0: the client has closed, and the server ends.
RecvEof(c) == /\ server = "recv" /\ client_desc = c
              /\ to_server[c] = 0 /\ peer[c] = "killed"
              /\ ServerExits
              /\ UNCHANGED <<recv_bytes, to_server, to_client, peer, answer, short, starts>>

\* Mutation: the connection is left open.
ReplyNoClose(c) == /\ server = "reply" /\ client_desc = c
                   /\ to_client' = [to_client EXCEPT ![c] = REPLY_LEN]
                   /\ server' = "accept" /\ client_desc' = NoClient
                   /\ UNCHANGED <<connection, recv_bytes, to_server, peer, answer, short, starts>>

\* The reply is sent in one piece, and the connection closed.
Reply(c) == /\ server = "reply" /\ client_desc = c
            /\ to_client' = [to_client EXCEPT ![c] = REPLY_LEN]
            /\ connection' = [connection EXCEPT ![c] = "closed"]
            /\ server' = "accept" /\ client_desc' = NoClient
            /\ UNCHANGED <<recv_bytes, to_server, peer, answer, short, starts>>

-----------------------------------------------------------------------------
(* client.c *)

PeerMoves(c, from, to) == peer[c] = from /\ peer' = [peer EXCEPT ![c] = to]

\* Refused, if nobody listens.
Connect(c) ==
  /\ PeerMoves(c, "off", IF server \in {"off", "exited"} THEN "failed" ELSE "send")
  /\ connection' = IF server \in {"off", "exited"} THEN connection
                                                   ELSE [connection EXCEPT ![c] = "queued"]
  /\ UNCHANGED <<serverVars, to_server, to_client, answer, short>>

\* On a connection that was reset the second send() kills the client.
Send(c) == /\ PeerMoves(c, "send", IF connection[c] = "closed" THEN "failed" ELSE "recv")
           /\ to_server' = [to_server EXCEPT ![c] = COMMAND_LEN]
           /\ UNCHANGED <<serverVars, connection, to_client, answer, short>>

\* A piece of the reply: a single byte ends the client, what comes in two
\* pieces is garbage.
PeerRecv(c) ==
  /\ peer[c] = "recv"
  /\ \E ret \in 1..to_client[c] :
        /\ to_client' = [to_client EXCEPT ![c] = @ - ret]
        /\ answer' = [answer EXCEPT ![c] = IF ret = REPLY_LEN THEN "reply" ELSE "garbage"]
        /\ short' = [short EXCEPT ![c] = @ \/ ret < REPLY_LEN]
        /\ peer' = [peer EXCEPT ![c] = IF ret = 1 THEN "failed" ELSE "recv"]
  /\ UNCHANGED <<serverVars, connection, to_server>>

\* Mutation: the client does not wait for the end of the stream.
PrintEarly(c) == /\ to_client[c] = 0
                 /\ PeerMoves(c, "recv", "printed")
                 /\ answer' = [answer EXCEPT ![c] = IF @ = "nothing" THEN "garbage" ELSE @]
                 /\ UNCHANGED <<serverVars, connection, to_server, to_client, short>>

\* The end of the stream, or a reset connection, which the test of ret takes
\* for a piece: the client prints its buffer, received or not.
PrintAnswer(c) == /\ to_client[c] = 0 /\ connection[c] = "closed"
                  /\ PeerMoves(c, "recv", "printed")
                  /\ answer' = [answer EXCEPT ![c] = IF @ = "nothing" THEN "garbage" ELSE @]
                  /\ UNCHANGED <<serverVars, connection, to_server, to_client, short>>

\* CTRL+C.
Kill(c) == /\ peer[c] \in {"send", "recv"}
           /\ peer' = [peer EXCEPT ![c] = "killed"]
           /\ UNCHANGED <<serverVars, connection, to_server, to_client, answer, short>>

-----------------------------------------------------------------------------
Server == \E c \in Clients : Accept(c) \/ Recv(c) \/ RecvEof(c) \/ Reply(c)
Client(c) == Send(c) \/ PeerRecv(c) \/ PrintAnswer(c)

Next == \/ Server \/ ServerStart
        \/ \E c \in Clients : Client(c) \/ Connect(c) \/ Kill(c)

\* Running programs run.
Fairness == WF_vars(Server) /\ \A c \in Clients : WF_vars(Client(c))

Spec == Init /\ [][Next]_vars /\ Fairness

-----------------------------------------------------------------------------
TypeOK ==
  /\ server \in {"off", "accept", "recv", "reply", "exited"}
  /\ client_desc \in Clients \cup {NoClient}
  /\ recv_bytes \in 0..COMMAND_LEN
  /\ connection \in [Clients -> {"none", "queued", "accepted", "closed"}]
  /\ to_server \in [Clients -> 0..COMMAND_LEN] /\ to_client \in [Clients -> 0..REPLY_LEN]
  /\ peer \in [Clients -> {"off", "send", "recv", "printed", "failed", "killed"}]
  /\ answer \in [Clients -> {"nothing", "reply", "garbage"}]
  /\ short \in [Clients -> BOOLEAN]
  /\ starts \in 0..SERVER_STARTS

(***************************************************************************)
(* A client prints the server's reply, unless a message of its own was     *)
(* split or another client has brought the server down: by leaving early,  *)
(* or by a command that arrived in pieces.                                 *)
(***************************************************************************)
PrintsReply ==
  \A c \in Clients :
     peer[c] = "printed" /\ answer[c] # "reply" =>
        \/ short[c]
        \/ \E d \in Clients \ {c} : short[d] \/ peer[d] = "killed"

(***************************************************************************)
(* No client waits for ever, although the server serves one at a time and  *)
(* any of them may be killed: only a command that arrived in pieces leaves *)
(* server and clients waiting for one another.                             *)
(***************************************************************************)
EveryoneServed ==
  []<>(\A c \in Clients : peer[c] = "recv" => \E d \in Clients : short[d])
=============================================================================
