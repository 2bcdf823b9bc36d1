---------------------------- MODULE MCAlgorithms ----------------------------
(***************************************************************************)
(* Instances for TLC of the two mutual exclusion algorithms of             *)
(* Esercizi_Personali: a behaviour is one of Dekker or one of Dijkstra, as *)
(* algorithm says; the variables of the other keep their initial values.   *)
(***************************************************************************)
EXTENDS Dekker

CONSTANT N
ASSUME ProcessesAssumption == N \in Nat \ {0}

VARIABLES algorithm, passed, interested, k, j, kread, pcs

Dijkstra == INSTANCE Dijkstra WITH pc <- pcs

dijkstraVars == <<passed, interested, k, j, kread, pcs>>

AlgorithmsInit == algorithm \in {"dekker", "dijkstra"} /\ Init /\ Dijkstra!Init

AlgorithmsNext ==
  \/ algorithm = "dekker" /\ Next /\ UNCHANGED <<algorithm, dijkstraVars>>
  \/ algorithm = "dijkstra" /\ Dijkstra!Next /\ UNCHANGED <<algorithm, vars>>

\* A process outside the algorithms is not bound to do anything, so the
\* fairness of the algorithm that is not looked at asks for nothing.
AlgorithmsSpec == /\ AlgorithmsInit
                  /\ [][AlgorithmsNext]_<<algorithm, vars, dijkstraVars>>
                  /\ Fairness /\ Dijkstra!Fairness

\* Both algorithms keep the types of their variables.
TypesOK == TypeOK /\ Dijkstra!TypeOK

\* Dijkstra's processes never block one another for ever.
DeadlockFree == Dijkstra!DeadlockFree
=============================================================================
