------------------------------ MODULE MCFifos ------------------------------
(***************************************************************************)
(* Instances for TLC of the two pairs of programs that meet at named       *)
(* FIFOs: a behaviour is one of Lab07's producer and consumer, or one of   *)
(* Lab06's echo and client, as programs says; the variables of the other   *)
(* pair keep their initial values.                                         *)
(***************************************************************************)
EXTENDS FifoProdCons

CONSTANTS MAX_LINES, ECHO_STARTS, CLIENT_STARTS
ASSUME BoundsAssumption == MAX_LINES \in Nat /\ ECHO_STARTS \in Nat /\ CLIENT_STARTS \in Nat

VARIABLES programs,
          exists, chan, reader, writer, echo, client, line, strlen, sent, reply,
          lines, echoes, clients

EchoFifo == INSTANCE EchoFifo

echoVars == <<exists, chan, reader, writer, echo, client, line, strlen, sent, reply, lines,
              echoes, clients>>

FifosInit == programs \in {"prod_cons", "echo"} /\ Init /\ EchoFifo!Init

FifosNext == \/ programs = "prod_cons" /\ Next /\ UNCHANGED <<programs, echoVars>>
             \/ programs = "echo" /\ EchoFifo!Next /\ UNCHANGED <<programs, vars>>

\* Nobody has to start echo.c or client.c; producer.c, once looked at, runs.
FifosSpec == /\ FifosInit
             /\ [][FifosNext]_<<programs, vars, echoVars>>
             /\ programs = "prod_cons" => Fairness
             /\ EchoFifo!Fairness

\* Both pairs keep the types of their variables.
TypesOK == TypeOK /\ EchoFifo!TypeOK

\* Echo and client get past the opening of the FIFOs.
OpensMeet == EchoFifo!OpensMeet

\* Every line but QUIT is answered ...
LinesAnswered == EchoFifo!LinesAnswered

\* ... and by itself.
RepliesMatch == EchoFifo!RepliesMatch
=============================================================================
