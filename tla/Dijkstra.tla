----------------------------- MODULE Dijkstra -----------------------------
(***************************************************************************)
(* Esercizi_Personali/dijkstra.c: Dijkstra's mutual exclusion for N        *)
(* processes.  A process i calls dijkstra() any number of times.  Reads    *)
(* and writes of the shared variables are single steps and are seen by all *)
(* at once.                                                                *)
(***************************************************************************)
EXTENDS Naturals

CONSTANT N    \* at least 1

Procs == 0..(N - 1)

VARIABLES passed, interested, k,   \* shared
          j, kread, pc             \* of each process: its loop's index, the k it has read
                                   \* to index interested, where it stands

vars == <<passed, interested, k, j, kread, pc>>

\* "k can be one of the N".
Init == /\ passed = [i \in Procs |-> FALSE]
        /\ interested = [i \in Procs |-> FALSE]
        /\ k \in Procs
        /\ j = [i \in Procs |-> 0] /\ kread = [i \in Procs |-> 0]
        /\ pc = [i \in Procs |-> "out"]

Goto(i, from, to) == /\ pc[i] = from
                     /\ pc' = [pc EXCEPT ![i] = to]

-----------------------------------------------------------------------------
Interest(i) == /\ Goto(i, "out", "test_k")
               /\ interested' = [interested EXCEPT ![i] = TRUE]
               /\ UNCHANGED <<passed, k, j, kread>>

\* E: while (k != i)
TestK(i) == /\ Goto(i, "test_k", IF k = i THEN "pass" ELSE "retreat")
            /\ UNCHANGED <<passed, interested, k, j, kread>>

Retreat(i) == /\ Goto(i, "retreat", "read_k")
              /\ passed' = [passed EXCEPT ![i] = FALSE]
              /\ UNCHANGED <<interested, k, j, kread>>

\* if (!interested[k]): k may change between the two reads.
ReadK(i) == /\ Goto(i, "read_k", "look")
            /\ kread' = [kread EXCEPT ![i] = k]
            /\ UNCHANGED <<passed, interested, k, j>>

Look(i) == /\ Goto(i, "look", IF interested[kread[i]] THEN "test_k" ELSE "claim")
           /\ UNCHANGED <<passed, interested, k, j, kread>>

Claim(i) == /\ Goto(i, "claim", "test_k")
            /\ k' = i
            /\ UNCHANGED <<passed, interested, j, kread>>

Pass(i) == /\ Goto(i, "pass", "check")
           /\ passed' = [passed EXCEPT ![i] = TRUE]
           /\ j' = [j EXCEPT ![i] = 0]
           /\ UNCHANGED <<interested, k, kread>>

\* for (j = 0; j < N && j != i; j++) if (passed[j]) goto E: the loop ends when
\* j comes to i, and the ids above i are never looked at.
Check(i) == LET last == j[i] = N \/ j[i] = i IN
            /\ Goto(i, "check", IF last THEN "cs"
                                ELSE IF passed[j[i]] THEN "test_k" ELSE "check")
            /\ j' = IF last \/ passed[j[i]] THEN j ELSE [j EXCEPT ![i] = @ + 1]
            /\ UNCHANGED <<passed, interested, k, kread>>

\* Mutation: the process stays passed.
LeavePassed(i) == /\ Goto(i, "cs", "lose_interest")
                  /\ UNCHANGED <<passed, interested, k, j, kread>>

Leave(i) == /\ Goto(i, "cs", "lose_interest")
            /\ passed' = [passed EXCEPT ![i] = FALSE]
            /\ UNCHANGED <<interested, k, j, kread>>

LoseInterest(i) == /\ Goto(i, "lose_interest", "out")
                   /\ interested' = [interested EXCEPT ![i] = FALSE]
                   /\ UNCHANGED <<passed, k, j, kread>>

-----------------------------------------------------------------------------
Try(i) == \/ TestK(i) \/ Retreat(i) \/ ReadK(i) \/ Look(i) \/ Claim(i) \/ Pass(i) \/ Check(i)
          \/ Leave(i) \/ LoseInterest(i)

Next == \E i \in Procs : Interest(i) \/ Try(i)

\* A process inside dijkstra() keeps running; nobody has to call it.
Fairness == \A i \in Procs : WF_vars(Try(i))

Spec == Init /\ [][Next]_vars /\ Fairness

-----------------------------------------------------------------------------
TypeOK ==
  /\ passed \in [Procs -> BOOLEAN] /\ interested \in [Procs -> BOOLEAN]
  /\ k \in Procs
  /\ j \in [Procs -> 0..N] /\ kread \in [Procs -> Procs]
  /\ pc \in [Procs -> {"out", "test_k", "retreat", "read_k", "look", "claim", "pass", "check", "cs",
                       "lose_interest"}]

InCS(i) == pc[i] = "cs"

\* If somebody wants to get in, somebody gets in: the processes do not hold
\* one another up for ever.
DeadlockFree ==
  (\E i \in Procs : pc[i] = "test_k") ~> (\E i \in Procs : InCS(i))
=============================================================================
