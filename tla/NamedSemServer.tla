--------------------------- MODULE NamedSemServer ---------------------------
(***************************************************************************)
(* Lab03/code/es2: server.c makes a named semaphore of NUM_RESOURCES, and  *)
(* removes the name when it is ended with CTRL+C; the detached threads of  *)
(* client.c open the semaphore by name, take a resource and give it back.  *)
(*                                                                         *)
(* A server replaces the name it finds, whoever made it, and its end       *)
(* removes the name, whoever made that.  A semaphore lives on without a    *)
(* name for those who have opened it: there is one per start of the        *)
(* server, and it is named after the server that made it.                  *)
(***************************************************************************)
EXTENDS Integers, FiniteSets

CONSTANTS Servers,         \* the starts of server.c, one after the other or at once
          Clients,         \* the client.c programs
          THREAD_BURST, NUM_RESOURCES, NoServer,
          MAX_THREADS,     \* bound: threads created by all the clients
          MAX_KILLS        \* bound: clients ended with CTRL+C

\* What the constants are (assumed where the module is instantiated).
ProgramsAssumption ==
  /\ IsFiniteSet(Servers) /\ IsFiniteSet(Clients) /\ NoServer \notin Servers
  /\ THREAD_BURST \in Nat \ {0} /\ NUM_RESOURCES \in Nat \ {0}
  /\ MAX_THREADS \in Nat /\ MAX_KILLS \in Nat

\* Each client is given one burst.
ClientThreads == Clients \X (1..THREAD_BURST)

VARIABLES name,          \* whose semaphore the name refers to, or NoServer
          value,         \* the value of each server's semaphore
          server,        \* where each server stands
          driver, ID,    \* where the main thread of a client stands, threads it has created
          thread,        \* where each thread stands
          sem,           \* the semaphore a thread has opened
          kills

serverVars == <<name, server>>
clientVars == <<driver, ID, thread, sem, kills>>
vars == <<serverVars, value, clientVars>>

Init == /\ name = NoServer
        /\ value = [s \in Servers |-> NUM_RESOURCES]
        /\ server = [s \in Servers |-> "off"]
        /\ driver = [c \in Clients |-> "off"]
        /\ ID = [c \in Clients |-> 0]
        /\ thread = [t \in ClientThreads |-> "none"]
        /\ sem = [t \in ClientThreads |-> NoServer]
        /\ kills = 0

-----------------------------------------------------------------------------
(* server.c *)

ServerMoves(s, from, to) == /\ server[s] = from
                            /\ server' = [server EXCEPT ![s] = to]

\* The first thing a server does is to unlink the name.
ServerStart(s) == /\ ServerMoves(s, "off", "create")
                  /\ name' = NoServer
                  /\ UNCHANGED <<value, clientVars>>

\* O_CREAT | O_EXCL: another server may have made the name in between.
ServerCreate(s) == /\ ServerMoves(s, "create", IF name = NoServer THEN "created" ELSE "failed")
                   /\ name' = IF name = NoServer THEN s ELSE name
                   /\ UNCHANGED <<value, clientVars>>

SetQuitHandler(s) == /\ ServerMoves(s, "created", "running")
                     /\ UNCHANGED <<name, value, clientVars>>

\* CTRL+C.  Before its handler is installed it kills the server.
Interrupt(s) == /\ \/ /\ server[s] \in {"create", "created"}
                      /\ server' = [server EXCEPT ![s] = "killed"]
                   \/ ServerMoves(s, "running", "cleanup")
                /\ UNCHANGED <<name, value, clientVars>>

\* Mutation: the semaphore is closed, and its name left.
CleanupCloseOnly(s) == /\ ServerMoves(s, "cleanup", "exited")
                       /\ UNCHANGED <<name, value, clientVars>>

\* sem_unlink fails if another server has removed the name.
Cleanup(s) == /\ ServerMoves(s, "cleanup", IF name = NoServer THEN "failed" ELSE "exited")
              /\ name' = NoServer
              /\ UNCHANGED <<value, clientVars>>

-----------------------------------------------------------------------------
(* client.c, main *)

DriverMoves(c, from, to) == /\ driver[c] = from
                            /\ driver' = [driver EXCEPT ![c] = to]

PressEnter(c) == /\ DriverMoves(c, "off", "spawn")
                 /\ UNCHANGED <<serverVars, value, ID, thread, sem, kills>>

Spawn(c) == /\ DriverMoves(c, "spawn", IF ID[c] + 1 = THREAD_BURST THEN "getchar" ELSE "spawn")
            /\ Cardinality({t \in ClientThreads : thread[t] # "none"}) < MAX_THREADS
            /\ ID' = [ID EXCEPT ![c] = @ + 1]
            /\ thread' = [thread EXCEPT ![<<c, ID[c] + 1>>] = "open"]
            /\ UNCHANGED <<serverVars, value, sem, kills>>

\* CTRL+D: pthread_exit leaves the threads running.
PressCtrlD(c) == /\ DriverMoves(c, "getchar", "exited")
                 /\ UNCHANGED <<serverVars, value, ID, thread, sem, kills>>

\* The process ends, and its threads wherever they are.  What a thread that
\* held a resource has opened is remembered, the resource is never given back.
Die(c) == /\ driver' = [driver EXCEPT ![c] = "dead"]
          /\ thread' = [t \in ClientThreads |->
                          IF t[1] # c \/ thread[t] \in {"none", "done"} THEN thread[t]
                          ELSE IF thread[t] = "work" THEN "dead with resource" ELSE "dead"]
          /\ sem' = [t \in ClientThreads |->
                       IF t[1] = c /\ thread[t] # "work" THEN NoServer ELSE sem[t]]

ClientKill(c) == /\ driver[c] \notin {"off", "dead"} /\ kills < MAX_KILLS
                 /\ Die(c)
                 /\ kills' = kills + 1
                 /\ UNCHANGED <<serverVars, value, ID>>

-----------------------------------------------------------------------------
(* client.c, client *)

ThreadMoves(t, from, to) == /\ thread[t] = from
                            /\ thread' = [thread EXCEPT ![t] = to]

Open(t) == /\ name # NoServer
           /\ ThreadMoves(t, "open", "wait")
           /\ sem' = [sem EXCEPT ![t] = name]
           /\ UNCHANGED <<serverVars, value, driver, ID, kills>>

\* There is no such name: handle_error_en ends the whole process.
OpenFails(t) == /\ name = NoServer /\ thread[t] = "open"
                /\ Die(t[1])
                /\ UNCHANGED <<serverVars, value, ID, kills>>

Acquire(t) == /\ ThreadMoves(t, "wait", "work")
              /\ value[sem[t]] > 0
              /\ value' = [value EXCEPT ![sem[t]] = @ - 1]
              /\ UNCHANGED <<serverVars, driver, ID, sem, kills>>

\* Mutation: the semaphore is opened again, and may be another one.
ReleaseReopened(t) == /\ ThreadMoves(t, "work", "done")
                      /\ value' = IF name = NoServer THEN value ELSE [value EXCEPT ![name] = @ + 1]
                      /\ sem' = [sem EXCEPT ![t] = NoServer]
                      /\ UNCHANGED <<serverVars, driver, ID, kills>>

\* sem_post and sem_close.
Release(t) == /\ ThreadMoves(t, "work", "done")
              /\ value' = [value EXCEPT ![sem[t]] = @ + 1]
              /\ sem' = [sem EXCEPT ![t] = NoServer]
              /\ UNCHANGED <<serverVars, driver, ID, kills>>

-----------------------------------------------------------------------------
Server(s) == ServerCreate(s) \/ SetQuitHandler(s) \/ Cleanup(s)
Client(t) == Open(t) \/ OpenFails(t) \/ Acquire(t) \/ Release(t)

Next == \/ \E s \in Servers : Server(s) \/ ServerStart(s) \/ Interrupt(s)
        \/ \E c \in Clients : Spawn(c) \/ PressEnter(c) \/ PressCtrlD(c) \/ ClientKill(c)
        \/ \E t \in ClientThreads : Client(t)

\* What has been started runs; nobody has to start a program or press a key.
Fairness == /\ \A s \in Servers : WF_vars(Server(s))
            /\ \A c \in Clients : WF_vars(Spawn(c))
            /\ \A t \in ClientThreads : WF_vars(Client(t))

Spec == Init /\ [][Next]_vars /\ Fairness

-----------------------------------------------------------------------------
TypeOK ==
  /\ name \in Servers \cup {NoServer}
  /\ value \in [Servers -> 0..NUM_RESOURCES]
  /\ server \in [Servers -> {"off", "create", "created", "running", "cleanup", "exited",
                             "failed", "killed"}]
  /\ driver \in [Clients -> {"off", "spawn", "getchar", "exited", "dead"}]
  /\ ID \in [Clients -> 0..THREAD_BURST]
  /\ thread \in [ClientThreads -> {"none", "open", "wait", "work", "done", "dead",
                                   "dead with resource"}]
  /\ sem \in [ClientThreads -> Servers \cup {NoServer}]
  /\ kills \in 0..MAX_KILLS

Holders(s) == {t \in ClientThreads : sem[t] = s /\ thread[t] = "work"}
Lost(s)    == {t \in ClientThreads : sem[t] = s /\ thread[t] = "dead with resource"}

(***************************************************************************)
(* A resource of a server is free, held by one thread, or lost with a      *)
(* client that died, also when the name is gone or belongs to another      *)
(* server: two servers together may have granted twice NUM_RESOURCES.      *)
(***************************************************************************)
ResourcesConserved ==
  \A s \in Servers : value[s] + Cardinality(Holders(s)) + Cardinality(Lost(s)) = NUM_RESOURCES

(***************************************************************************)
(* "the named semaphore cannot remain in the system after the server       *)
(* terminates": a server that has ended leaves its name only if it was     *)
(* killed before it could handle CTRL+C, however many servers there are.   *)
(***************************************************************************)
NameRemoved ==
  \A s \in Servers : name = s => server[s] \in {"created", "running", "cleanup", "killed"}

(***************************************************************************)
(* A thread that waits is served, even by a semaphore whose server has     *)
(* ended, unless a resource it waits for is lost: again and again there    *)
(* comes a time when nobody else waits.                                    *)
(***************************************************************************)
WaitersServed ==
  []<>(\A t \in ClientThreads : thread[t] = "wait" => Lost(sem[t]) # {})

(***************************************************************************)
(* "we let the other threads complete when we exit the main one": false,   *)
(* when another client has died with a resource.                           *)
(***************************************************************************)
ThreadsComplete ==
  \A c \in Clients :
     driver[c] = "exited" ~> \/ driver[c] = "dead"
                             \/ \A t \in ClientThreads : t[1] = c => thread[t] = "done"
=============================================================================
