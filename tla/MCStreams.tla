----------------------------- MODULE MCStreams -----------------------------
(***************************************************************************)
(* Instances for TLC of the programs of Lab06 and Lab07 that move data     *)
(* through a descriptor in pieces whose size they do not choose: a pipe,   *)
(* files, connections.  A behaviour is one of the program that the         *)
(* variable program names; the others stay as they are before they start.  *)
(***************************************************************************)
EXTENDS PipeMessages

CONSTANTS SOURCE_SIZES, OLD_SIZES, BLOCK_SIZES,
          Clients, NoClient, COMMAND_LEN, REPLY_LEN, SERVER_STARTS

VARIABLES program,
          source, old, block_size, dest, buf, src_offset, dest_offset, read_bytes,
          written_bytes, copier,
          server, client_desc, recv_bytes, connection, to_server, to_client, peer, answer,
          short, starts

Copy == INSTANCE Copy
Time == INSTANCE TimeServer

ASSUME ProgramsAssumption == Copy!FilesAssumption /\ Time!LengthsAssumption

copyVars == <<source, old, block_size, dest, buf, src_offset, dest_offset, read_bytes,
              written_bytes, copier>>
timeVars == <<server, client_desc, recv_bytes, connection, to_server, to_client, peer, answer,
              short, starts>>
allVars == <<program, vars, copyVars, timeVars>>

\* The files of the copy are fixed when another program runs.
ProgramsInit == /\ program \in {"pipe", "copy", "time"}
                /\ Init
                /\ Copy!Init
                /\ program # "copy" => source = <<>> /\ old = <<>> /\ block_size = 1
                /\ Time!Init

PipeRuns == program = "pipe" /\ UNCHANGED <<program, copyVars, timeVars>>
CopyRuns == program = "copy" /\ UNCHANGED <<program, vars, timeVars>>
TimeRuns == program = "time" /\ UNCHANGED <<program, vars, copyVars>>

ProgramsNext == \/ PipeRuns /\ Next
                \/ CopyRuns /\ Copy!Next
                \/ TimeRuns /\ Time!Next

\* Each program's fairness.  The pipe's program is started from the first; the
\* others' fairness asks nothing of a program that has not started.
ProgramsFairness == /\ WF_allVars(PipeRuns /\ Main)
                    /\ \A w \in Writers : WF_allVars(PipeRuns /\ Writer(w))
                    /\ \A r \in Readers : WF_allVars(PipeRuns /\ Reader(r))
                    /\ \A p \in Processes : WF_allVars(PipeRuns /\ Exit(p))
                    /\ Copy!Fairness
                    /\ Time!Fairness

ProgramsSpec == ProgramsInit /\ [][ProgramsNext]_allVars /\ ProgramsFairness

\* Every program keeps the types of its variables.
TypesOK == TypeOK /\ Copy!TypeOK /\ Time!TypeOK

\* copy.c: the destination is at any time a prefix of the source, then what
\* the old file had, and at the end all of the source.
CopiesInOrder == Copy!CopiesInOrder

\* A client of the time server prints the reply, unless a message was split or
\* another client left early.
PrintsReply == Time!PrintsReply

\* The pipe's main and the copy come to their end.
ProgramsEnd == (program = "pipe" => MainEnds) /\ Copy!CopyEnds

\* No client of the time server waits for ever, unless a message was split.
EveryoneServed == Time!EveryoneServed
=============================================================================
