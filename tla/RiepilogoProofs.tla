-------------------------- MODULE RiepilogoProofs --------------------------
(***************************************************************************)
(* Safety of the three programs that log accesses, for any number of       *)
(* children, threads, rounds and failures.  A program's invariant speaks   *)
(* of the variables the programs share, so it is only asserted while that  *)
(* program runs.                                                           *)
(***************************************************************************)
EXTENDS MCRiepilogo, FiniteSetTheorems, TLAPS

\* The threads of a child, as thread[c] tells, that have appended in this round.
Written(threads) == {w \in Workers : threads[w] \in {"leave", "done"}}

-----------------------------------------------------------------------------
(* Lab05 and Lab07 *)

Announced == {c \in Children : child[c] \notin {"none", "ready"}}
Begun     == {c \in Children : child[c] \notin {"none", "ready", "wait_start"}}
Reaped    == {c \in Children : child[c] = "reaped"}

\* The turns that main's three loops have made.
Heard  == CASE main \in {"setup", "fork"} -> 0 [] main = "wait_ready" -> i [] OTHER -> N
Posted == CASE main \in {"setup", "fork", "wait_ready"} -> 0 [] main = "start" -> i
            [] OTHER -> N
Waited == CASE main = "wait" -> i [] main \in {"parse", "cleanup", "ended"} -> N
            [] OTHER -> 0

\* The semaphores count the children that are past a point and main is not, or
\* the other way round.
Counts == /\ main_waits_for_children + Heard = Cardinality(Announced)
          /\ children_wait_for_main + Cardinality(Begun) = Posted
          /\ main # "failed" => Cardinality(Reaped) = Waited
          /\ main \notin {"wait_ready", "start", "wait", "failed"} => i = 0

\* Only a child in a round has threads.
Places == /\ main = "setup" => \A c \in Children : child[c] = "none"
          /\ \A c \in Children :
               /\ child[c] \in {"none", "ready", "wait_start", "open"} => rounds[c] = 0
               /\ child[c] = "round" => rounds[c] < MAX_ROUNDS
               /\ child[c] # "round" => \A w \in Workers : thread[c][w] = "none"

Holding(c, w) == thread[c][w] \in {"append", "leave"}

\* Whoever holds critical_section has taken its only unit.
Mutex == /\ OneWriter
         /\ critical_section = 1 => \A c \in Children, w \in Workers : ~Holding(c, w)

\* What a child has in the log, as long as it has not died in the middle of it.
Logged == /\ main \notin {"setup", "failed"} =>
               \A c \in Children :
                 child[c] # "failed" =>
                   file[c] = M * rounds[c] + Cardinality(Written(thread[c]))
          /\ main \in {"cleanup", "ended"} => stats = file

FlagInv == TypeOK /\ Counts /\ Places /\ Mutex /\ Logged

-----------------------------------------------------------------------------
(* Lab04 *)

PolledAnnounced == {c \in PolledChildren : child[c] \notin {"none", "ready"}}

\* main's posts never exceed the number of children.
PolledCounts ==
  /\ ready_sem <= Cardinality(PolledAnnounced)
  /\ start_sem <= CASE main \in {"setup", "fork", "poll"} -> 0 [] main = "start" -> i
                    [] OTHER -> Lab04!N
  /\ halt_sem = CASE main \in {"setup", "fork", "poll", "start"} -> 0 [] main = "halt" -> i
                  [] OTHER -> Lab04!N
  /\ main \notin {"start", "halt"} => i = 0

PolledPlaces ==
  /\ main = "setup" => \A c \in PolledChildren : child[c] = "none"
  /\ \A c \in PolledChildren :
       /\ child[c] \in {"none", "ready", "open_start", "wait_start", "open_halt"} =>
            rounds[c] = 0
       /\ child[c] \in {"poll", "last_round"} => rounds[c] <= MAX_ROUNDS
       /\ child[c] = "round" => rounds[c] < MAX_ROUNDS
       /\ child[c] \notin {"round", "last_round"} =>
            \A w \in Workers : thread[c][w] = "none"

\* The semaphore of a process excludes its own threads.
PolledMutex ==
  /\ Lab04!OneThreadPerProcess
  /\ \A c \in PolledChildren :
       file_sem[c] = 1 => \A w \in Workers : ~Holding(c, w)

PolledLogged ==
  main # "setup" =>
    \A c \in PolledChildren : file[c] = M * rounds[c] + Cardinality(Written(thread[c]))

PolledInv == /\ Lab04!TypeOK
             /\ PolledCounts /\ PolledPlaces /\ PolledMutex /\ PolledLogged

Inv == /\ program \in {"flag", "polled"}
       /\ program = "flag" => FlagInv
       /\ program = "polled" => PolledInv

-----------------------------------------------------------------------------
(* The threads of a child *)

LEMMA ChildrenCount ==
  /\ IsFiniteSet(Children) /\ N \in Nat \ {0}
  /\ \A S \in SUBSET Children : /\ IsFiniteSet(S) /\ Cardinality(S) \in 0..N
                                /\ Cardinality(S) = N => S = Children
<1>1. IsFiniteSet(Children) /\ Cardinality(Children) \in Nat /\ Cardinality(Children) # 0
  BY ParametersAssumption, FS_EmptySet, FS_CardinalityType DEF ParametersAssumption
<1>2. ASSUME NEW S \in SUBSET Children
      PROVE  /\ IsFiniteSet(S) /\ Cardinality(S) \in 0..N
             /\ Cardinality(S) = N => S = Children
  BY <1>1, <1>2, FS_Subset, FS_CardinalityType DEF N
<1> QED BY <1>1, <1>2 DEF N

ThreadPlaces == {"none", "enter", "append", "leave", "done"}

\* A thread's move to leave is the one that counts.
LEMMA WrittenMoves ==
  ASSUME NEW t \in [Workers -> ThreadPlaces], NEW w \in Workers, NEW s \in ThreadPlaces
  PROVE  /\ (t[w] \in {"leave", "done"} <=> s \in {"leave", "done"}) =>
              Written([t EXCEPT ![w] = s]) = Written(t)
         /\ t[w] \notin {"leave", "done"} /\ s \in {"leave", "done"} =>
              Cardinality(Written([t EXCEPT ![w] = s])) = Cardinality(Written(t)) + 1
<1>1. IsFiniteSet(Workers)
  BY ParametersAssumption, FS_Interval DEF Workers, ParametersAssumption
<1>2. IsFiniteSet(Written(t))
  BY <1>1, FS_Subset DEF Written
<1>3. (t[w] \in {"leave", "done"} <=> s \in {"leave", "done"}) =>
        Written([t EXCEPT ![w] = s]) = Written(t)
  BY DEF Written
<1>4. ASSUME t[w] \notin {"leave", "done"}, s \in {"leave", "done"}
      PROVE  Cardinality(Written([t EXCEPT ![w] = s])) = Cardinality(Written(t)) + 1
  <2>1. Written([t EXCEPT ![w] = s]) = Written(t) \cup {w} /\ w \notin Written(t)
    BY <1>4 DEF Written
  <2> QED BY <2>1, <1>2, FS_AddElement
<1> QED BY <1>3, <1>4

\* All threads of a round append, none that has not begun.
LEMMA WrittenEnds ==
  ASSUME NEW t \in [Workers -> ThreadPlaces]
  PROVE  /\ (\A w \in Workers : t[w] = "none") => Cardinality(Written(t)) = 0
         /\ (\A w \in Workers : t[w] = "done") => Cardinality(Written(t)) = M
         /\ Cardinality(Written(t)) \in Nat
<1>1. Cardinality(1..M) = M /\ IsFiniteSet(1..M)
  BY ParametersAssumption, FS_Interval DEF ParametersAssumption
<1>2. ASSUME \A w \in Workers : t[w] = "none"  PROVE Cardinality(Written(t)) = 0
  <2>1. Written(t) = {}
    BY <1>2 DEF Written
  <2> QED BY <2>1, FS_EmptySet
<1>3. ASSUME \A w \in Workers : t[w] = "done"  PROVE Cardinality(Written(t)) = M
  <2>1. Written(t) = 1..M
    BY <1>3 DEF Written, Workers
  <2> QED BY <2>1, <1>1
<1>4. Cardinality(Written(t)) \in Nat
  BY <1>1, FS_Subset, FS_CardinalityType DEF Written, Workers
<1> QED BY <1>2, <1>3, <1>4

-----------------------------------------------------------------------------
(* Lab05 and Lab07: the semaphores that count *)

ChildPlaces == {"none", "ready", "wait_start", "open", "round", "check", "exited", "failed",
                "reaped"}

\* What a move of one child does to the three sets.
LEMMA ChildCounted ==
  ASSUME child \in [Children -> ChildPlaces], NEW c \in Children, NEW s \in ChildPlaces,
         child' = [child EXCEPT ![c] = s]
  PROVE  /\ (child[c] \in {"none", "ready"} <=> s \in {"none", "ready"}) =>
              Announced' = Announced
         /\ child[c] \in {"none", "ready"} /\ s \notin {"none", "ready"} =>
              Announced' = Announced \cup {c} /\ c \notin Announced
         /\ (child[c] \in {"none", "ready", "wait_start"}
               <=> s \in {"none", "ready", "wait_start"}) => Begun' = Begun
         /\ child[c] = "wait_start" /\ s \notin {"none", "ready", "wait_start"} =>
              Begun' = Begun \cup {c} /\ c \notin Begun
         /\ child[c] # "reaped" /\ s # "reaped" => Reaped' = Reaped
         /\ child[c] # "reaped" /\ s = "reaped" =>
              Reaped' = Reaped \cup {c} /\ c \notin Reaped
<1>1. /\ (child[c] \in {"none", "ready"} <=> s \in {"none", "ready"}) =>
           Announced' = Announced
      /\ child[c] \in {"none", "ready"} /\ s \notin {"none", "ready"} =>
           Announced' = Announced \cup {c} /\ c \notin Announced
  BY DEF Announced
<1>2. /\ (child[c] \in {"none", "ready", "wait_start"}
            <=> s \in {"none", "ready", "wait_start"}) => Begun' = Begun
      /\ child[c] = "wait_start" /\ s \notin {"none", "ready", "wait_start"} =>
           Begun' = Begun \cup {c} /\ c \notin Begun
  BY DEF Begun
<1>3. /\ child[c] # "reaped" /\ s # "reaped" => Reaped' = Reaped
      /\ child[c] # "reaped" /\ s = "reaped" => Reaped' = Reaped \cup {c} /\ c \notin Reaped
  BY DEF Reaped
<1> QED BY <1>1, <1>2, <1>3

\* A turn of a loop.
LEMMA TurnCounts ==
  ASSUME NEW n \in Nat \ {0}, NEW k \in 0..(n - 1)
  PROVE  (k + 1) % n = IF k + 1 = n THEN 0 ELSE k + 1
<1>1. CASE k + 1 = n
  <2>1. n % n = 0
    OBVIOUS
  <2> QED BY <1>1, <2>1
<1>2. CASE k + 1 # n
  BY <1>2
<1> QED BY <1>1, <1>2

LEMMA CountsNext ==
  ASSUME FlagInv, Next
  PROVE  Counts'
<1> USE DEF FlagInv
<1>t. /\ child \in [Children -> ChildPlaces] /\ i \in 0..(N - 1) /\ N \in Nat \ {0}
      /\ main_waits_for_children \in Nat /\ children_wait_for_main \in Nat
  BY ChildrenCount DEF TypeOK, ChildPlaces
<1>s. Announced \in SUBSET Children /\ Begun \in SUBSET Children /\ Reaped \in SUBSET Children
  BY DEF Announced, Begun, Reaped
<1>f. /\ IsFiniteSet(Announced) /\ IsFiniteSet(Begun) /\ IsFiniteSet(Reaped)
      /\ Cardinality(Announced) \in Nat /\ Cardinality(Begun) \in Nat
      /\ Cardinality(Reaped) \in Nat
  BY <1>s, ChildrenCount
<1>e. ASSUME Announced' = Announced, Begun' = Begun, Reaped' = Reaped
      PROVE  /\ Cardinality(Announced)' = Cardinality(Announced)
             /\ Cardinality(Begun)' = Cardinality(Begun)
             /\ Cardinality(Reaped)' = Cardinality(Reaped)
  BY <1>e
<1>u. UNCHANGED child => Announced' = Announced /\ Begun' = Begun /\ Reaped' = Reaped
  BY DEF Announced, Begun, Reaped
<1>1. CASE Setup
  <2>1. \A c \in Children : child[c] = "none"
    BY <1>1 DEF Setup, Places
  <2>2. Announced = {} /\ Begun = {} /\ Reaped = {}
    BY <2>1 DEF Announced, Begun, Reaped
  <2> QED BY <1>1, <1>u, <1>e, <2>2, FS_EmptySet
          DEF Setup, CreateObjects, Counts, Heard, Posted, Waited
<1>2. CASE Fork
  <2>1. Announced' = Announced /\ Begun' = Begun /\ Reaped' = Reaped
    <3>1. CASE UNCHANGED child
      BY <3>1, <1>u
    <3>2. ASSUME NEW c \in Children, child[c] = "none", child' = [child EXCEPT ![c] = "ready"]
          PROVE  Announced' = Announced /\ Begun' = Begun /\ Reaped' = Reaped
      BY <3>2, <1>t, ChildCounted DEF ChildPlaces
    <3> QED BY <1>2, <3>1, <3>2 DEF Fork
  <2> QED BY <1>2, <1>t, <1>e, <2>1 DEF Fork, sems, Counts, Heard, Posted, Waited
<1>3. CASE WaitReady
  BY <1>3, <1>t, <1>u, <1>e, <1>f, TurnCounts
  DEF WaitReady, Turn, Counts, Heard, Posted, Waited
<1>4. CASE Start
  BY <1>4, <1>t, <1>u, <1>e, <1>f, TurnCounts
  DEF Start, Turn, Counts, Heard, Posted, Waited
<1>5. CASE Notify \/ ParseOutput \/ CleanUp
  BY <1>5, <1>t, <1>u, <1>e, <1>f
  DEF Notify, ParseOutput, CleanUp, sems, Counts, Heard, Posted, Waited
<1>6. ASSUME NEW c \in Children, Wait(c)  PROVE Counts'
  <2>1. child[c] \in {"exited", "failed"} /\ child' = [child EXCEPT ![c] = "reaped"]
    BY <1>6 DEF Wait
  <2>2. /\ Announced' = Announced /\ Begun' = Begun
        /\ Reaped' = Reaped \cup {c} /\ c \notin Reaped
    BY <2>1, <1>t, ChildCounted DEF ChildPlaces
  <2>3. Cardinality(Reaped') = Cardinality(Reaped) + 1
    BY <2>1, <2>2, <1>f, FS_AddElement
  <2>4. Cardinality(Announced)' = Cardinality(Announced) /\ Cardinality(Begun)' = Cardinality(Begun)
    BY <2>2
  <2> QED BY <1>6, <2>3, <2>4, <1>t, <1>f, TurnCounts
          DEF Wait, Turn, sems, Counts, Heard, Posted, Waited
<1>7. ASSUME NEW c \in Children, ChildReady(c)  PROVE Counts'
  <2>1. child[c] = "ready" /\ child' = [child EXCEPT ![c] = "wait_start"]
    BY <1>7 DEF ChildReady, ChildMoves
  <2>2. /\ Announced' = Announced \cup {c} /\ c \notin Announced
        /\ Begun' = Begun /\ Reaped' = Reaped
    BY <2>1, <1>t, ChildCounted DEF ChildPlaces
  <2>3. Cardinality(Announced') = Cardinality(Announced) + 1
    BY <2>1, <2>2, <1>f, FS_AddElement
  <2>4. Cardinality(Reaped)' = Cardinality(Reaped) /\ Cardinality(Begun)' = Cardinality(Begun)
    BY <2>2
  <2> QED BY <1>7, <2>3, <2>4, <1>t, <1>f
          DEF ChildReady, Counts, Heard, Posted, Waited
<1>8. ASSUME NEW c \in Children, ChildStart(c)  PROVE Counts'
  <2>1. /\ child[c] = "wait_start"
        /\ \E s \in {"open", "round"} : child' = [child EXCEPT ![c] = s]
    BY <1>8 DEF ChildStart, ChildMoves
  <2>2. /\ Begun' = Begun \cup {c} /\ c \notin Begun
        /\ Announced' = Announced /\ Reaped' = Reaped
    BY <2>1, <1>t, ChildCounted DEF ChildPlaces
  <2>3. Cardinality(Begun') = Cardinality(Begun) + 1
    BY <2>1, <2>2, <1>f, FS_AddElement
  <2>4. /\ Cardinality(Reaped)' = Cardinality(Reaped)
        /\ Cardinality(Announced)' = Cardinality(Announced)
    BY <2>2
  <2> QED BY <1>8, <2>3, <2>4, <1>t, <1>f
          DEF ChildStart, Counts, Heard, Posted, Waited
<1>9. ASSUME NEW c \in Children, NEW s \in {"round", "check", "exited", "failed"},
             child[c] \in {"open", "round", "check"}, child' = [child EXCEPT ![c] = s],
             UNCHANGED <<sems, main, i>>
      PROVE  Counts'
  <2>1. Announced' = Announced /\ Begun' = Begun /\ Reaped' = Reaped
    BY <1>9, <1>t, ChildCounted DEF ChildPlaces
  <2> QED BY <1>9, <2>1, <1>e, <1>t DEF sems, Counts, Heard, Posted, Waited
<1>10. ASSUME NEW c \in Children, ChildOpen(c) \/ ChildJoin(c) \/ ChildCheck(c)
       PROVE  Counts'
  BY <1>9, <1>10 DEF ChildOpen, ChildJoin, ChildCheck, ChildMoves, sems
<1>11. ASSUME NEW c \in Children, NEW w \in Workers, ThreadFail(c, w)
       PROVE  Counts'
  <2>1. child[c] = "round"
    BY <1>11 DEF ThreadFail, Places
  <2> QED BY <1>9, <1>11, <2>1 DEF ThreadFail, sems
<1>12. CASE UNCHANGED <<main, i, child, main_waits_for_children, children_wait_for_main>>
  BY <1>12, <1>u, <1>e, <1>t DEF Counts, Heard, Posted, Waited
<1>13. ASSUME NEW c \in Children, NEW w \in Workers, ChildCreate(c, w) \/ ThreadStep(c, w)
       PROVE  Counts'
  BY <1>12, <1>13 DEF ChildCreate, ThreadStep, ThreadEnter, ThreadAppend, ThreadLeave, sems
<1> QED BY <1>1, <1>2, <1>3, <1>4, <1>5, <1>6, <1>7, <1>8, <1>10, <1>11, <1>13
        DEF Next, MainStep, ChildStep, ThreadDies

-----------------------------------------------------------------------------
(* Lab05 and Lab07: where the children are *)

LEMMA PlacesNext ==
  ASSUME FlagInv, Next
  PROVE  Places'
<1> USE DEF FlagInv
<1>t. /\ child \in [Children -> ChildPlaces] /\ thread \in [Children -> [Workers -> ThreadPlaces]]
      /\ rounds \in [Children -> Nat] /\ MAX_ROUNDS \in Nat \ {0}
  BY ParametersAssumption DEF TypeOK, ChildPlaces, ThreadPlaces, ParametersAssumption
<1>1. CASE Setup \/ Fork \/ WaitReady \/ Start \/ Notify \/ ParseOutput \/ CleanUp
  <2>1. /\ UNCHANGED <<thread, rounds>> /\ main' # "setup"
        /\ \/ UNCHANGED child
           \/ \E c \in Children : child[c] = "none" /\ child' = [child EXCEPT ![c] = "ready"]
    BY <1>1 DEF Setup, Fork, WaitReady, Start, Notify, ParseOutput, CleanUp, Turn
  <2> QED BY <2>1, <1>t DEF Places
<1>2. ASSUME NEW c \in Children, Wait(c)  PROVE Places'
  BY <1>2, <1>t DEF Wait, Turn, Places
<1>3. ASSUME NEW c \in Children, ChildReady(c) \/ ChildStart(c) \/ ChildOpen(c) \/ ChildCheck(c)
      PROVE  Places'
  <2>1. PICK s \in ChildPlaces \ {"none", "ready"} :
               child[c] # "none" /\ child' = [child EXCEPT ![c] = s]
    BY <1>3 DEF ChildReady, ChildStart, ChildOpen, ChildCheck, ChildMoves, ChildPlaces
  <2>2. child[c] # "round" /\ UNCHANGED <<thread, rounds, main>>
    BY <1>3 DEF ChildReady, ChildStart, ChildOpen, ChildCheck, ChildMoves
  <2>3. /\ s \in {"wait_start", "open"} => rounds[c] = 0
        /\ s = "round" => rounds[c] < MAX_ROUNDS
    BY <1>3, <2>1, <1>t
    DEF ChildReady, ChildStart, ChildOpen, ChildCheck, ChildMoves, Places
  <2> QED BY <2>1, <2>2, <2>3, <1>t DEF Places
<1>4. ASSUME NEW c \in Children, ChildJoin(c)  PROVE Places'
  BY <1>4, <1>t DEF ChildJoin, ChildMoves, Places
<1>5. ASSUME NEW c \in Children, NEW w \in Workers, ThreadFail(c, w)  PROVE Places'
  BY <1>5, <1>t DEF ThreadFail, Places
<1>6. ASSUME NEW c \in Children, NEW w \in Workers, ChildCreate(c, w) \/ ThreadStep(c, w)
      PROVE  Places'
  <2>1. /\ child[c] = "round" /\ UNCHANGED <<child, rounds, main>>
        /\ \E s \in ThreadPlaces : thread' = [thread EXCEPT ![c][w] = s]
    BY <1>6 DEF ChildCreate, ThreadStep, ThreadEnter, ThreadAppend, ThreadLeave, ThreadMoves,
                ThreadPlaces, Places
  <2> QED BY <2>1, <1>t DEF Places
<1> QED BY <1>1, <1>2, <1>3, <1>4, <1>5, <1>6 DEF Next, MainStep, ChildStep, ThreadDies

-----------------------------------------------------------------------------
(* Lab05 and Lab07: the critical section *)

\* Whoever dies with critical_section takes its unit along.
LEMMA MutexNext ==
  ASSUME FlagInv, Next
  PROVE  Mutex' /\ critical_section' \in {0, 1}
<1> USE DEF FlagInv
<1>t. /\ thread \in [Children -> [Workers -> ThreadPlaces]] /\ critical_section \in {0, 1}
  BY DEF TypeOK, ThreadPlaces
<1>1. CASE Setup
  BY <1>1, <1>t DEF Setup, CreateObjects, Mutex, OneWriter, Holding, Places
<1>2. ASSUME NEW c \in Children, NEW w \in Workers, ThreadEnter(c, w)
      PROVE  Mutex' /\ critical_section' \in {0, 1}
  BY <1>2, <1>t DEF ThreadEnter, ThreadMoves, Mutex, OneWriter, Holding
<1>3. ASSUME NEW c \in Children, NEW w \in Workers, ThreadLeave(c, w)
      PROVE  Mutex' /\ critical_section' \in {0, 1}
  <2>1. critical_section = 0 /\ \A d \in Children, v \in Workers : Holding(d, v) => d = c /\ v = w
    BY <1>3, <1>t DEF ThreadLeave, ThreadMoves, Mutex, OneWriter, Holding
  <2>2. \A d \in Children, v \in Workers : ~Holding(d, v)'
    BY <1>3, <1>t, <2>1 DEF ThreadLeave, ThreadMoves, Holding
  <2> QED BY <1>3, <2>1, <2>2 DEF ThreadLeave, Mutex, OneWriter, Holding
<1>4. ASSUME UNCHANGED critical_section,
             \A c \in Children, w \in Workers : Holding(c, w)' => Holding(c, w)
      PROVE  Mutex' /\ critical_section' \in {0, 1}
  BY <1>4, <1>t DEF Mutex, OneWriter, Holding
<1>5. CASE Fork \/ WaitReady \/ Start \/ Notify \/ ParseOutput \/ CleanUp
  BY <1>4, <1>5
  DEF Fork, WaitReady, Start, Notify, ParseOutput, CleanUp, sems, Holding
<1>6. ASSUME NEW c \in Children,
             \/ Wait(c) \/ ChildReady(c) \/ ChildStart(c) \/ ChildOpen(c) \/ ChildCheck(c)
      PROVE  Mutex' /\ critical_section' \in {0, 1}
  BY <1>4, <1>6 DEF Wait, ChildReady, ChildStart, ChildOpen, ChildCheck, sems, Holding
<1>7. ASSUME NEW c \in Children, ChildJoin(c)
      PROVE  Mutex' /\ critical_section' \in {0, 1}
  <2>1. \A d \in Children, v \in Workers : Holding(d, v)' => Holding(d, v)
    BY <1>7, <1>t DEF ChildJoin, Holding
  <2> QED BY <1>4, <1>7, <2>1 DEF ChildJoin, sems
<1>8. ASSUME NEW c \in Children, NEW w \in Workers,
             ChildCreate(c, w) \/ ThreadAppend(c, w) \/ ThreadFail(c, w)
      PROVE  Mutex' /\ critical_section' \in {0, 1}
  <2>1. \A d \in Children, v \in Workers : Holding(d, v)' => Holding(d, v)
    BY <1>8, <1>t DEF ChildCreate, ThreadAppend, ThreadFail, ThreadMoves, Holding
  <2> QED BY <1>4, <1>8, <2>1 DEF ChildCreate, ThreadAppend, ThreadFail, sems
<1> QED BY <1>1, <1>2, <1>3, <1>5, <1>6, <1>7, <1>8
        DEF Next, MainStep, ChildStep, ThreadStep, ThreadDies

-----------------------------------------------------------------------------
(* Lab05 and Lab07: the log *)

\* From the moment main parses no child is left.
LEMMA AllReaped ==
  ASSUME FlagInv, main \in {"parse", "cleanup", "ended"}
  PROVE  \A c \in Children : child[c] = "reaped"
<1>1. Reaped \in SUBSET Children /\ Cardinality(Reaped) = N
  BY DEF FlagInv, Counts, Waited, Reaped
<1> QED BY <1>1, ChildrenCount DEF Reaped

\* A record more for each thread that leaves, a round more for each M records.
LEMMA LoggedNext ==
  ASSUME FlagInv, Next
  PROVE  Logged'
<1> USE DEF FlagInv
<1>t. /\ child \in [Children -> ChildPlaces] /\ thread \in [Children -> [Workers -> ThreadPlaces]]
      /\ rounds \in [Children -> Nat] /\ file \in [Children -> Nat] /\ M \in Nat
  BY ParametersAssumption DEF TypeOK, ChildPlaces, ThreadPlaces, ParametersAssumption
<1>1. CASE Setup
  BY <1>1, <1>t, WrittenEnds, ParametersAssumption
  DEF Setup, InitFile, NoRecords, Places, Logged, ParametersAssumption
<1>2. CASE Fork
  BY <1>2, <1>t DEF Fork, Logged
<1>3. CASE WaitReady \/ Start \/ Notify \/ CleanUp
  BY <1>3 DEF WaitReady, Start, Notify, CleanUp, Turn, Logged
<1>4. CASE ParseOutput
  BY <1>4 DEF ParseOutput, Logged
<1>5. ASSUME NEW c \in Children, Wait(c)  PROVE Logged'
  BY <1>5, <1>t DEF Wait, Turn, Logged
<1>6. ASSUME NEW c \in Children, child[c] # "reaped"
      PROVE  main \notin {"parse", "cleanup", "ended"}
  BY <1>6, AllReaped
<1>7. ASSUME NEW c \in Children, ChildReady(c) \/ ChildStart(c) \/ ChildOpen(c) \/ ChildCheck(c)
      PROVE  Logged'
  <2>1. /\ UNCHANGED <<main, thread, rounds, file, stats>> /\ child[c] # "failed"
        /\ \E s \in ChildPlaces : child' = [child EXCEPT ![c] = s]
    BY <1>7 DEF ChildReady, ChildStart, ChildOpen, ChildCheck, ChildMoves, ChildPlaces
  <2> QED BY <2>1, <1>t DEF Logged
<1>8. ASSUME NEW c \in Children, ChildJoin(c)  PROVE Logged'
  <2>1. /\ UNCHANGED <<main, file, stats>> /\ child[c] = "round"
        /\ child' = [child EXCEPT ![c] = "check"]
        /\ thread' = [thread EXCEPT ![c] = [w \in Workers |-> "none"]]
        /\ rounds' = [rounds EXCEPT ![c] = @ + 1]
    BY <1>8 DEF ChildJoin, ChildMoves
  <2>2. Cardinality(Written(thread[c])) = M
    BY <1>8, <1>t, WrittenEnds DEF ChildJoin
  <2>3. Cardinality(Written(thread'[c])) = 0
    <3>1. thread'[c] = [w \in Workers |-> "none"]
      BY <2>1, <1>t
    <3> QED BY <3>1, <1>t, WrittenEnds DEF ThreadPlaces
  <2>4. M * (rounds[c] + 1) = M * rounds[c] + M
    BY <1>t
  <2>5. ASSUME NEW d \in Children, main \notin {"setup", "failed"}, child'[d] # "failed"
        PROVE  file[d] = M * rounds'[d] + Cardinality(Written(thread'[d]))
    BY <2>1, <2>2, <2>3, <2>4, <2>5, <1>t DEF Logged
  <2> QED BY <2>1, <2>5, <1>6 DEF Logged
<1>9. ASSUME NEW c \in Children, NEW w \in Workers, ThreadFail(c, w)  PROVE Logged'
  BY <1>9, <1>t DEF ThreadFail, Logged
<1>10. ASSUME NEW c \in Children, NEW w \in Workers, ThreadAppend(c, w)  PROVE Logged'
  <2>1. /\ UNCHANGED <<main, child, rounds, stats>>
        /\ thread[c][w] = "append" /\ file' = [file EXCEPT ![c] = @ + 1]
        /\ thread' = [thread EXCEPT ![c][w] = "leave"]
    BY <1>10 DEF ThreadAppend, ThreadMoves
  <2>2. Cardinality(Written([thread[c] EXCEPT ![w] = "leave"]))
          = Cardinality(Written(thread[c])) + 1
    BY <2>1, <1>t, WrittenMoves DEF ThreadPlaces
  <2>3. thread'[c] = [thread[c] EXCEPT ![w] = "leave"]
    BY <2>1, <1>t
  <2>4. ASSUME NEW d \in Children, main \notin {"setup", "failed"}, child[d] # "failed"
        PROVE  file'[d] = M * rounds[d] + Cardinality(Written(thread'[d]))
    <3>1. CASE d = c
      <4>1. Cardinality(Written(thread[c])) \in Nat /\ M * rounds[c] \in Nat
        BY <1>t, WrittenEnds
      <4> QED BY <2>1, <2>2, <2>3, <2>4, <3>1, <4>1, <1>t DEF Logged
    <3>2. CASE d # c
      BY <2>1, <2>4, <3>2, <1>t DEF Logged
    <3> QED BY <3>1, <3>2
  <2>5. child[c] # "reaped"
    BY <2>1 DEF Places
  <2> QED BY <2>1, <2>4, <2>5, <1>6 DEF Logged
<1>11. ASSUME NEW c \in Children, NEW w \in Workers,
              ChildCreate(c, w) \/ ThreadEnter(c, w) \/ ThreadLeave(c, w)
       PROVE  Logged'
  <2>1. UNCHANGED <<main, child, rounds, file, stats>>
    BY <1>11 DEF ChildCreate, ThreadEnter, ThreadLeave, sems
  <2>2. PICK s \in ThreadPlaces : /\ thread' = [thread EXCEPT ![c][w] = s]
                                  /\ thread[c][w] \in {"leave", "done"} <=> s \in {"leave", "done"}
    BY <1>11 DEF ChildCreate, ThreadEnter, ThreadLeave, ThreadMoves, ThreadPlaces
  <2>3. thread'[c] = [thread[c] EXCEPT ![w] = s]
    BY <2>2, <1>t
  <2>4. Written(thread'[c]) = Written(thread[c])
    BY <2>2, <2>3, <1>t, WrittenMoves
  <2>5. \A d \in Children : Written(thread'[d]) = Written(thread[d])
    <3>1. \A d \in Children : d # c => thread'[d] = thread[d]
      BY <2>2, <1>t
    <3> QED BY <2>4, <3>1
  <2> QED BY <2>1, <2>5 DEF Logged
<1> QED BY <1>1, <1>2, <1>3, <1>4, <1>5, <1>7, <1>8, <1>9, <1>10, <1>11
        DEF Next, MainStep, ChildStep, ThreadStep, ThreadDies

\* The types of main's variables, but for the bounds of the semaphores.
LEMMA MainTypes ==
  ASSUME TypeOK, Next
  PROVE  /\ main_waits_for_children' \in Nat /\ children_wait_for_main' \in Nat
         /\ i' \in 0..(N - 1)
         /\ main' \in {"setup", "fork", "wait_ready", "start", "sleep", "wait", "parse",
                       "cleanup", "ended", "failed"}
         /\ by_name' \in BOOLEAN /\ names' \subseteq Names /\ data' \in {0, 1}
         /\ stats' \in [Children -> Nat] /\ failures' \in 0..MAX_FAILURES
<1>1. MAX_FAILURES \in Nat /\ N \in Nat \ {0}
  BY ParametersAssumption, ChildrenCount DEF ParametersAssumption
<1>2. CASE MainStep
  BY <1>1, <1>2, TurnCounts
  DEF MainStep, Setup, CreateObjects, Fork, WaitReady, Start, Notify, ParseOutput, CleanUp,
      Wait, Turn, sems, TypeOK
<1>3. ASSUME NEW c \in Children, ChildStep(c)
      PROVE  /\ main_waits_for_children' \in Nat /\ children_wait_for_main' \in Nat
             /\ UNCHANGED <<i, main, by_name, names, data, stats, failures>>
  BY <1>3 DEF ChildStep, ChildReady, ChildStart, ChildOpen, ChildJoin, ChildCheck, ChildCreate,
              sems, TypeOK
<1>4. ASSUME NEW c \in Children, NEW w \in Workers, ThreadStep(c, w) \/ ThreadDies(c, w)
      PROVE  /\ UNCHANGED <<main_waits_for_children, children_wait_for_main>>
             /\ UNCHANGED <<i, main, by_name, names, data, stats>>
             /\ failures' \in 0..MAX_FAILURES
  BY <1>1, <1>4 DEF ThreadStep, ThreadDies, ThreadEnter, ThreadAppend, ThreadLeave, ThreadFail,
                    sems, TypeOK
<1> QED BY <1>2, <1>3, <1>4 DEF Next, TypeOK

\* The types of what the children and their threads have.
LEMMA ChildTypes ==
  ASSUME TypeOK, Places, Next
  PROVE  /\ child' \in [Children -> ChildPlaces]
         /\ thread' \in [Children -> [Workers -> ThreadPlaces]]
         /\ rounds' \in [Children -> 0..MAX_ROUNDS]
         /\ file' \in [Children -> Nat]
<1>t. /\ child \in [Children -> ChildPlaces] /\ thread \in [Children -> [Workers -> ThreadPlaces]]
      /\ rounds \in [Children -> 0..MAX_ROUNDS] /\ file \in [Children -> Nat]
      /\ MAX_ROUNDS \in Nat
  BY ParametersAssumption DEF TypeOK, ChildPlaces, ThreadPlaces, ParametersAssumption
<1>1. child' \in [Children -> ChildPlaces]
  <2>1. \/ UNCHANGED child
        \/ \E c \in Children, s \in ChildPlaces : child' = [child EXCEPT ![c] = s]
    BY DEF Next, MainStep, ChildStep, ThreadStep, ThreadDies, Setup, Fork, WaitReady, Start,
           Notify, ParseOutput, CleanUp, Wait, ChildReady, ChildStart, ChildOpen, ChildJoin,
           ChildCheck, ChildCreate, ChildMoves, ThreadEnter, ThreadAppend, ThreadLeave,
           ThreadFail, ChildPlaces
  <2> QED BY <2>1, <1>t
<1>2. thread' \in [Children -> [Workers -> ThreadPlaces]]
  <2>1. \/ UNCHANGED thread
        \/ \E c \in Children : thread' = [thread EXCEPT ![c] = [w \in Workers |-> "none"]]
        \/ \E c \in Children, w \in Workers, s \in ThreadPlaces :
              thread' = [thread EXCEPT ![c][w] = s]
    BY DEF Next, MainStep, ChildStep, ThreadStep, ThreadDies, Setup, Fork, WaitReady, Start,
           Notify, ParseOutput, CleanUp, Wait, ChildReady, ChildStart, ChildOpen, ChildJoin,
           ChildCheck, ChildCreate, ThreadMoves, ThreadEnter, ThreadAppend, ThreadLeave,
           ThreadFail, ThreadPlaces
  <2>2. [w \in Workers |-> "none"] \in [Workers -> ThreadPlaces]
    BY DEF ThreadPlaces
  <2> QED BY <2>1, <2>2, <1>t
<1>3. rounds' \in [Children -> 0..MAX_ROUNDS]
  <2>1. \/ UNCHANGED rounds
        \/ \E c \in Children : /\ rounds[c] < MAX_ROUNDS
                               /\ rounds' = [rounds EXCEPT ![c] = @ + 1]
    BY DEF Next, MainStep, ChildStep, ThreadStep, ThreadDies, Setup, Fork, WaitReady, Start,
           Notify, ParseOutput, CleanUp, Wait, ChildReady, ChildStart, ChildOpen, ChildJoin,
           ChildCheck, ChildCreate, ChildMoves, ThreadEnter, ThreadAppend, ThreadLeave,
           ThreadFail, Places
  <2> QED BY <2>1, <1>t
<1>4. file' \in [Children -> Nat]
  <2>1. \/ UNCHANGED file
        \/ file' = [c \in Children |-> 0]
        \/ \E c \in Children : file' = [file EXCEPT ![c] = @ + 1]
    BY DEF Next, MainStep, ChildStep, ThreadStep, ThreadDies, Setup, InitFile, NoRecords, Fork,
           WaitReady, Start, Notify, ParseOutput, CleanUp, Wait, ChildReady, ChildStart,
           ChildOpen, ChildJoin, ChildCheck, ChildCreate, ThreadEnter, ThreadAppend,
           ThreadLeave, ThreadFail
  <2> QED BY <2>1, <1>t
<1> QED BY <1>1, <1>2, <1>3, <1>4

\* The numbers of children bound the two semaphores, and so does the mutual
\* exclusion the third.
LEMMA FlagNext ==
  ASSUME FlagInv, Next
  PROVE  FlagInv'
<1>1. Counts' /\ Places' /\ Mutex' /\ critical_section' \in {0, 1} /\ Logged'
  BY CountsNext, PlacesNext, MutexNext, LoggedNext
<1>2. TypeOK /\ Places
  BY DEF FlagInv
<1>3. /\ Cardinality(Announced') \in 0..N /\ Cardinality(Begun') \in 0..N /\ N \in Nat \ {0}
  <2>1. Announced' \in SUBSET Children /\ Begun' \in SUBSET Children
    BY DEF Announced, Begun
  <2> QED BY <2>1, ChildrenCount
<1>4. /\ main_waits_for_children' \in Nat /\ children_wait_for_main' \in Nat
      /\ i' \in 0..(N - 1)
  BY <1>2, MainTypes
<1>5. Heard' \in 0..N /\ Posted' \in 0..N
  BY <1>3, <1>4 DEF Heard, Posted
<1>6. main_waits_for_children' \in 0..N /\ children_wait_for_main' \in 0..N
  BY <1>1, <1>3, <1>4, <1>5 DEF Counts
<1>7. TypeOK'
  BY <1>1, <1>2, <1>6, MainTypes, ChildTypes DEF TypeOK, ChildPlaces, ThreadPlaces
<1> QED BY <1>1, <1>7 DEF FlagInv

LEMMA FlagStarts ==
  ASSUME Init
  PROVE  FlagInv
<1>1. N \in Nat \ {0} /\ MAX_ROUNDS \in Nat \ {0} /\ MAX_FAILURES \in Nat
  BY ParametersAssumption, ChildrenCount DEF ParametersAssumption
<1>2. TypeOK
  BY <1>1 DEF Init, TypeOK, NoRecords
<1>3. Announced = {} /\ Begun = {} /\ Reaped = {}
  BY DEF Init, Announced, Begun, Reaped
<1>4. Counts
  BY <1>3, FS_EmptySet DEF Init, Counts, Heard, Posted, Waited
<1>5. Places /\ Mutex /\ Logged
  BY DEF Init, NoRecords, Places, Mutex, OneWriter, Holding, Logged
<1> QED BY <1>2, <1>4, <1>5 DEF FlagInv

\* A child that has begun has been posted for, and main posts once it has heard
\* from every one.
LEMMA FlagStartsTogether ==
  ASSUME FlagInv
  PROVE  StartTogether
<1> SUFFICES ASSUME NEW c \in Children, child[c] \notin {"none", "ready", "wait_start"}
             PROVE  \A d \in Children : child[d] \notin {"none", "ready"}
  BY DEF StartTogether
<1>1. Begun \in SUBSET Children /\ c \in Begun /\ Announced \in SUBSET Children
  BY DEF Begun, Announced
<1>2. Cardinality(Begun) \in Nat /\ Cardinality(Begun) # 0
  BY <1>1, ChildrenCount, FS_EmptySet
<1>3. main \notin {"setup", "fork", "wait_ready"}
  BY <1>2 DEF FlagInv, TypeOK, Counts, Posted
<1>4. Cardinality(Announced) \in 0..N /\ main_waits_for_children \in Nat /\ N \in Nat
  BY <1>1, ChildrenCount DEF FlagInv, TypeOK
<1>5. Cardinality(Announced) = N
  BY <1>3, <1>4 DEF FlagInv, Counts, Heard
<1> QED BY <1>1, <1>5, ChildrenCount DEF Announced

\* main parses when no child is left, and a child that is not in a round has
\* only whole rounds in the log.
LEMMA FlagParsesEverything ==
  ASSUME FlagInv
  PROVE  ParsesEverything
<1> SUFFICES ASSUME main \in {"cleanup", "ended"}, NEW c \in Children
             PROVE  child[c] = "reaped" /\ stats[c] = M * rounds[c]
  BY DEF ParsesEverything
<1>1. child[c] = "reaped"
  BY AllReaped
<1>2. Cardinality(Written(thread[c])) = 0
  BY <1>1, WrittenEnds DEF FlagInv, Places, TypeOK, ThreadPlaces
<1>3. M * rounds[c] \in Nat
  BY ParametersAssumption DEF FlagInv, TypeOK, ParametersAssumption
<1> QED BY <1>1, <1>2, <1>3 DEF FlagInv, Logged

-----------------------------------------------------------------------------
(* Lab04 *)

PolledChildPlaces == {"none", "ready", "open_start", "wait_start", "open_halt", "poll", "round",
                      "last_round", "exited", "failed"}

\* Sets are counted alike in both modules.
LEMMA SameCounting ==
  \A S : /\ Lab04!IsFiniteSet(S) <=> IsFiniteSet(S)
         /\ Lab04!Cardinality(S) = Cardinality(S)
<1>1. \A S : Lab04!IsFiniteSet(S) <=> IsFiniteSet(S)
  BY DEF Lab04!IsFiniteSet, IsFiniteSet
<1>2. \A S : Lab04!Cardinality(S) = Cardinality(S)
  BY DEF Lab04!Cardinality, Cardinality
<1> QED BY <1>1, <1>2

LEMMA PolledCount ==
  /\ Lab04!N \in Nat \ {0} /\ MAX_ROUNDS \in Nat \ {0} /\ M \in Nat \ {0}
  /\ \A S \in SUBSET PolledChildren : IsFiniteSet(S) /\ Cardinality(S) \in 0..Lab04!N
<1>1. IsFiniteSet(PolledChildren) /\ PolledChildren # {}
  BY Lab04Assumption, SameCounting DEF Lab04!ParametersAssumption
<1>2. Lab04!N = Cardinality(PolledChildren)
  BY SameCounting DEF Lab04!N
<1>3. Cardinality(PolledChildren) \in Nat \ {0}
  BY <1>1, FS_EmptySet, FS_CardinalityType
<1>4. ASSUME NEW S \in SUBSET PolledChildren
      PROVE  IsFiniteSet(S) /\ Cardinality(S) \in 0..Lab04!N
  BY <1>1, <1>2, <1>3, FS_Subset, FS_CardinalityType
<1> QED BY <1>2, <1>3, <1>4, ParametersAssumption DEF ParametersAssumption

\* The types of main's variables, but for the bounds of the semaphores.
LEMMA PolledMainTypes ==
  ASSUME Lab04!TypeOK, Lab04!Next
  PROVE  /\ linked' \in BOOLEAN
         /\ ready_sem' \in Nat /\ start_sem' \in Nat /\ halt_sem' \in Nat
         /\ i' \in 0..(Lab04!N - 1)
         /\ main' \in {"setup", "fork", "poll", "start", "halt", "unlink", "parse", "ended"}
         /\ stats' \in [PolledChildren -> Nat]
<1>1. CASE Lab04!MainStep
  <2>1. CASE Lab04!Start \/ Lab04!Halt
    <3>1. i' \in 0..(Lab04!N - 1)
      BY <2>1, TurnCounts, PolledCount DEF Lab04!Start, Lab04!Halt, Lab04!Turn, Lab04!TypeOK
    <3> QED BY <2>1, <3>1, PolledCount DEF Lab04!Start, Lab04!Halt, Lab04!Turn, Lab04!TypeOK
  <2>2. CASE \/ Lab04!Setup \/ Lab04!Fork \/ Lab04!PollReady \/ Lab04!Unlink
             \/ Lab04!ParseOutput
    <3>1. /\ UNCHANGED <<ready_sem, start_sem, halt_sem, i>> /\ stats' \in {stats, file}
          /\ main' \in {main, "fork", "poll", "start", "parse", "ended"}
      BY <2>2 DEF Lab04!Setup, Lab04!Fork, Lab04!PollReady, Lab04!Unlink, Lab04!ParseOutput,
                  Lab04!sems
    <3>2. linked' \in BOOLEAN
      BY <2>2 DEF Lab04!Setup, Lab04!Fork, Lab04!PollReady, Lab04!Unlink, Lab04!ParseOutput,
                  Lab04!TypeOK
    <3> QED BY <3>1, <3>2, PolledCount DEF Lab04!TypeOK
  <2> QED BY <1>1, <2>1, <2>2 DEF Lab04!MainStep
<1>2. ASSUME NEW c \in PolledChildren, Lab04!ChildStep(c)
      PROVE  /\ ready_sem' \in Nat /\ start_sem' \in Nat
             /\ UNCHANGED <<halt_sem, i, main, linked, stats>>
  BY <1>2, PolledCount
  DEF Lab04!ChildStep, Lab04!ChildReady, Lab04!ChildOpenStart, Lab04!ChildStart,
      Lab04!ChildOpenHalt, Lab04!ChildPoll, Lab04!ChildCreate, Lab04!ChildJoin, Lab04!sems,
      Lab04!TypeOK
<1>3. ASSUME NEW c \in PolledChildren, NEW w \in Lab04!Workers, Lab04!ThreadStep(c, w)
      PROVE  UNCHANGED <<ready_sem, start_sem, halt_sem, i, main, linked, stats>>
  BY <1>3 DEF Lab04!ThreadStep, Lab04!ThreadEnter, Lab04!ThreadAppend, Lab04!ThreadLeave,
              Lab04!sems
<1> QED BY <1>1, <1>2, <1>3, PolledCount DEF Lab04!Next, Lab04!TypeOK

\* The types of what the children and their threads have.
LEMMA PolledChildTypes ==
  ASSUME Lab04!TypeOK, PolledPlaces, Lab04!Next
  PROVE  /\ child' \in [PolledChildren -> PolledChildPlaces]
         /\ thread' \in [PolledChildren -> [Workers -> ThreadPlaces]]
         /\ rounds' \in [PolledChildren -> 0..MAX_ROUNDS + 1]
         /\ file' \in [PolledChildren -> Nat]
<1>t. /\ child \in [PolledChildren -> PolledChildPlaces]
      /\ thread \in [PolledChildren -> [Workers -> ThreadPlaces]]
      /\ rounds \in [PolledChildren -> 0..MAX_ROUNDS + 1] /\ file \in [PolledChildren -> Nat]
      /\ MAX_ROUNDS \in Nat /\ Lab04!Workers = Workers
  BY PolledCount DEF Lab04!TypeOK, PolledChildPlaces, ThreadPlaces, Lab04!Workers, Workers
<1>1. child' \in [PolledChildren -> PolledChildPlaces]
  <2>1. \/ UNCHANGED child
        \/ \E c \in PolledChildren, s \in PolledChildPlaces : child' = [child EXCEPT ![c] = s]
    BY DEF Lab04!Next, Lab04!MainStep, Lab04!ChildStep, Lab04!ThreadStep, Lab04!Setup,
           Lab04!Fork, Lab04!PollReady, Lab04!Start, Lab04!Halt, Lab04!Unlink,
           Lab04!ParseOutput, Lab04!ChildReady, Lab04!ChildOpenStart, Lab04!ChildStart,
           Lab04!ChildOpenHalt, Lab04!ChildPoll, Lab04!ChildCreate, Lab04!ChildJoin,
           Lab04!ChildMoves, Lab04!ThreadEnter, Lab04!ThreadAppend, Lab04!ThreadLeave,
           PolledChildPlaces
  <2> QED BY <2>1, <1>t
<1>2. thread' \in [PolledChildren -> [Workers -> ThreadPlaces]]
  <2>1. \/ UNCHANGED thread
        \/ \E c \in PolledChildren : thread' = [thread EXCEPT ![c] = [w \in Workers |-> "none"]]
        \/ \E c \in PolledChildren, w \in Workers, s \in ThreadPlaces :
              thread' = [thread EXCEPT ![c][w] = s]
    BY <1>t
       DEF Lab04!Next, Lab04!MainStep, Lab04!ChildStep, Lab04!ThreadStep, Lab04!Setup,
           Lab04!Fork, Lab04!PollReady, Lab04!Start, Lab04!Halt, Lab04!Unlink,
           Lab04!ParseOutput, Lab04!ChildReady, Lab04!ChildOpenStart, Lab04!ChildStart,
           Lab04!ChildOpenHalt, Lab04!ChildPoll, Lab04!ChildCreate, Lab04!ChildJoin,
           Lab04!ThreadMoves, Lab04!ThreadEnter, Lab04!ThreadAppend, Lab04!ThreadLeave,
           ThreadPlaces
  <2>2. [w \in Workers |-> "none"] \in [Workers -> ThreadPlaces]
    BY DEF ThreadPlaces
  <2>3. ASSUME NEW c \in PolledChildren, NEW w \in Workers, NEW s \in ThreadPlaces,
               thread' = [thread EXCEPT ![c][w] = s]
        PROVE  thread' \in [PolledChildren -> [Workers -> ThreadPlaces]]
    <3>1. [thread[c] EXCEPT ![w] = s] \in [Workers -> ThreadPlaces]
      BY <1>t
    <3>2. thread' = [thread EXCEPT ![c] = [thread[c] EXCEPT ![w] = s]]
      BY <2>3, <1>t
    <3> QED BY <3>1, <3>2, <1>t
  <2> QED BY <2>1, <2>2, <2>3, <1>t
<1>3. rounds' \in [PolledChildren -> 0..MAX_ROUNDS + 1]
  <2>1. \/ UNCHANGED rounds
        \/ \E c \in PolledChildren : /\ rounds[c] <= MAX_ROUNDS
                                     /\ rounds' = [rounds EXCEPT ![c] = @ + 1]
    BY <1>t
       DEF Lab04!Next, Lab04!MainStep, Lab04!ChildStep, Lab04!ThreadStep, Lab04!Setup,
           Lab04!Fork, Lab04!PollReady, Lab04!Start, Lab04!Halt, Lab04!Unlink,
           Lab04!ParseOutput, Lab04!ChildReady, Lab04!ChildOpenStart, Lab04!ChildStart,
           Lab04!ChildOpenHalt, Lab04!ChildPoll, Lab04!ChildCreate, Lab04!ChildJoin,
           Lab04!ChildMoves, Lab04!ThreadEnter, Lab04!ThreadAppend, Lab04!ThreadLeave,
           PolledPlaces
  <2> QED BY <2>1, <1>t
<1>4. file' \in [PolledChildren -> Nat]
  <2>1. \/ UNCHANGED file
        \/ file' = [c \in PolledChildren |-> 0]
        \/ \E c \in PolledChildren : file' = [file EXCEPT ![c] = @ + 1]
    BY DEF Lab04!Next, Lab04!MainStep, Lab04!ChildStep, Lab04!ThreadStep, Lab04!Setup,
           Lab04!NoRecords, Lab04!Fork, Lab04!PollReady, Lab04!Start, Lab04!Halt,
           Lab04!Unlink, Lab04!ParseOutput, Lab04!ChildReady, Lab04!ChildOpenStart,
           Lab04!ChildStart, Lab04!ChildOpenHalt, Lab04!ChildPoll, Lab04!ChildCreate,
           Lab04!ChildJoin, Lab04!ThreadEnter, Lab04!ThreadAppend, Lab04!ThreadLeave
  <2> QED BY <2>1, <1>t
<1> QED BY <1>1, <1>2, <1>3, <1>4

LEMMA PolledCountsNext ==
  ASSUME PolledInv, Lab04!Next
  PROVE  PolledCounts'
<1> USE DEF PolledInv
<1>t. /\ child \in [PolledChildren -> PolledChildPlaces] /\ i \in 0..(Lab04!N - 1)
      /\ Lab04!N \in Nat \ {0}
      /\ ready_sem \in Nat /\ start_sem \in Nat /\ halt_sem \in Nat
  BY PolledCount DEF Lab04!TypeOK, PolledChildPlaces
<1>f. /\ IsFiniteSet(PolledAnnounced) /\ IsFiniteSet(PolledAnnounced')
      /\ Cardinality(PolledAnnounced) \in Nat /\ Cardinality(PolledAnnounced') \in Nat
  <2>1. PolledAnnounced \in SUBSET PolledChildren /\ PolledAnnounced' \in SUBSET PolledChildren
    BY DEF PolledAnnounced
  <2> QED BY <2>1, PolledCount
<1>1. CASE Lab04!MainStep
  <2>1. ready_sem' = ready_sem /\ PolledAnnounced' = PolledAnnounced
    <3>1. \/ UNCHANGED child
          \/ \E c \in PolledChildren : child[c] = "none" /\ child' = [child EXCEPT ![c] = "ready"]
      BY <1>1 DEF Lab04!MainStep, Lab04!Setup, Lab04!Fork, Lab04!PollReady, Lab04!Start,
                  Lab04!Halt, Lab04!Unlink, Lab04!ParseOutput
    <3>2. PolledAnnounced' = PolledAnnounced
      BY <3>1, <1>t DEF PolledAnnounced
    <3> QED BY <1>1, <3>2
            DEF Lab04!MainStep, Lab04!Setup, Lab04!Fork, Lab04!PollReady, Lab04!Start,
                Lab04!Halt, Lab04!Unlink, Lab04!ParseOutput, Lab04!sems
  <2>2. Cardinality(PolledAnnounced)' = Cardinality(PolledAnnounced)
    BY <2>1
  <2>3. CASE Lab04!Start \/ Lab04!Halt
    BY <2>1, <2>2, <2>3, <1>t, <1>f, TurnCounts
    DEF Lab04!Start, Lab04!Halt, Lab04!Turn, PolledCounts
  <2>4. CASE \/ Lab04!Setup \/ Lab04!Fork \/ Lab04!PollReady \/ Lab04!Unlink
             \/ Lab04!ParseOutput
    BY <2>1, <2>2, <2>4, <1>t, <1>f
    DEF Lab04!Setup, Lab04!Fork, Lab04!PollReady, Lab04!Unlink, Lab04!ParseOutput,
        Lab04!sems, PolledCounts
  <2> QED BY <1>1, <2>3, <2>4 DEF Lab04!MainStep
<1>2. ASSUME NEW c \in PolledChildren, Lab04!ChildReady(c)  PROVE PolledCounts'
  <2>1. /\ c \notin PolledAnnounced /\ PolledAnnounced' = PolledAnnounced \cup {c}
    BY <1>2, <1>t DEF Lab04!ChildReady, Lab04!ChildMoves, PolledAnnounced
  <2>2. Cardinality(PolledAnnounced') = Cardinality(PolledAnnounced) + 1
    BY <2>1, <1>f, FS_AddElement
  <2> QED BY <1>2, <2>2, <1>t, <1>f DEF Lab04!ChildReady, PolledCounts
<1>3. ASSUME NEW c \in PolledChildren,
             \/ Lab04!ChildOpenStart(c) \/ Lab04!ChildStart(c) \/ Lab04!ChildOpenHalt(c)
             \/ Lab04!ChildPoll(c) \/ Lab04!ChildJoin(c)
      PROVE  PolledCounts'
  <2>1. PICK s \in PolledChildPlaces \ {"none", "ready"} :
               /\ child[c] \notin {"none", "ready"} /\ child' = [child EXCEPT ![c] = s]
    BY <1>3 DEF Lab04!ChildOpenStart, Lab04!ChildStart, Lab04!ChildOpenHalt, Lab04!ChildPoll,
                Lab04!ChildJoin, Lab04!ChildMoves, PolledChildPlaces
  <2>2. PolledAnnounced' = PolledAnnounced
    BY <2>1, <1>t DEF PolledAnnounced
  <2>3. Cardinality(PolledAnnounced)' = Cardinality(PolledAnnounced)
    BY <2>2
  <2>4. UNCHANGED <<ready_sem, halt_sem, main, i>> /\ start_sem' \in {start_sem, start_sem - 1}
    BY <1>3 DEF Lab04!ChildOpenStart, Lab04!ChildStart, Lab04!ChildOpenHalt, Lab04!ChildPoll,
                Lab04!ChildJoin, Lab04!sems
  <2> QED BY <2>3, <2>4, <1>t, <1>f DEF PolledCounts
<1>4. ASSUME NEW c \in PolledChildren, NEW w \in Lab04!Workers,
             Lab04!ChildCreate(c, w) \/ Lab04!ThreadStep(c, w)
      PROVE  PolledCounts'
  BY <1>4 DEF Lab04!ChildCreate, Lab04!ThreadStep, Lab04!ThreadEnter, Lab04!ThreadAppend,
              Lab04!ThreadLeave, Lab04!sems, PolledCounts, PolledAnnounced
<1> QED BY <1>1, <1>2, <1>3, <1>4 DEF Lab04!Next, Lab04!ChildStep

LEMMA PolledPlacesNext ==
  ASSUME PolledInv, Lab04!Next
  PROVE  PolledPlaces'
<1> USE DEF PolledInv
<1>t. /\ child \in [PolledChildren -> PolledChildPlaces]
      /\ thread \in [PolledChildren -> [Workers -> ThreadPlaces]]
      /\ rounds \in [PolledChildren -> Nat] /\ MAX_ROUNDS \in Nat \ {0}
      /\ Lab04!Workers = Workers
  BY PolledCount DEF Lab04!TypeOK, PolledChildPlaces, ThreadPlaces, Lab04!Workers, Workers
<1>1. CASE Lab04!MainStep
  <2>1. /\ UNCHANGED <<thread, rounds>> /\ main' # "setup"
        /\ \/ UNCHANGED child
           \/ \E c \in PolledChildren : child[c] = "none" /\ child' = [child EXCEPT ![c] = "ready"]
    BY <1>1 DEF Lab04!MainStep, Lab04!Setup, Lab04!Fork, Lab04!PollReady, Lab04!Start,
                Lab04!Halt, Lab04!Unlink, Lab04!ParseOutput, Lab04!Turn
  <2> QED BY <2>1, <1>t DEF PolledPlaces
<1>2. ASSUME NEW c \in PolledChildren,
             \/ Lab04!ChildReady(c) \/ Lab04!ChildOpenStart(c) \/ Lab04!ChildStart(c)
             \/ Lab04!ChildOpenHalt(c) \/ Lab04!ChildPoll(c)
      PROVE  PolledPlaces'
  <2>1. PICK s \in PolledChildPlaces \ {"none", "ready"} :
               /\ child[c] \notin {"none", "round", "last_round"}
               /\ child' = [child EXCEPT ![c] = s]
    BY <1>2 DEF Lab04!ChildReady, Lab04!ChildOpenStart, Lab04!ChildStart,
                Lab04!ChildOpenHalt, Lab04!ChildPoll, Lab04!ChildMoves, PolledChildPlaces
  <2>2. UNCHANGED <<thread, rounds, main>>
    BY <1>2 DEF Lab04!ChildReady, Lab04!ChildOpenStart, Lab04!ChildStart,
                Lab04!ChildOpenHalt, Lab04!ChildPoll
  <2>3. /\ s \in {"open_start", "wait_start", "open_halt"} => rounds[c] = 0
        /\ s \in {"poll", "last_round"} => rounds[c] <= MAX_ROUNDS
        /\ s = "round" => rounds[c] < MAX_ROUNDS
    BY <1>2, <2>1, <1>t DEF Lab04!ChildReady, Lab04!ChildOpenStart, Lab04!ChildStart,
       Lab04!ChildOpenHalt, Lab04!ChildPoll, Lab04!ChildMoves, PolledPlaces
  <2> QED BY <2>1, <2>2, <2>3, <1>t DEF PolledPlaces
<1>3. ASSUME NEW c \in PolledChildren, Lab04!ChildJoin(c)  PROVE PolledPlaces'
  BY <1>3, <1>t DEF Lab04!ChildJoin, Lab04!ChildMoves, PolledPlaces
<1>4. ASSUME NEW c \in PolledChildren, NEW w \in Workers,
             Lab04!ChildCreate(c, w) \/ Lab04!ThreadStep(c, w)
      PROVE  PolledPlaces'
  <2>1. /\ child[c] \in {"round", "last_round"} /\ UNCHANGED <<child, rounds, main>>
        /\ \E s \in ThreadPlaces : thread' = [thread EXCEPT ![c][w] = s]
    BY <1>4 DEF Lab04!ChildCreate, Lab04!ThreadStep, Lab04!ThreadEnter, Lab04!ThreadAppend,
                Lab04!ThreadLeave, Lab04!ThreadMoves, ThreadPlaces, PolledPlaces
  <2> QED BY <2>1, <1>t DEF PolledPlaces
<1> QED BY <1>1, <1>2, <1>3, <1>4, <1>t DEF Lab04!Next, Lab04!ChildStep

LEMMA PolledMutexNext ==
  ASSUME PolledInv, Lab04!Next
  PROVE  PolledMutex' /\ file_sem' \in [PolledChildren -> {0, 1}]
<1> USE DEF PolledInv
<1>t. /\ thread \in [PolledChildren -> [Workers -> ThreadPlaces]]
      /\ file_sem \in [PolledChildren -> {0, 1}] /\ Lab04!Workers = Workers
  BY DEF Lab04!TypeOK, ThreadPlaces, Lab04!Workers, Workers
<1>1. ASSUME NEW c \in PolledChildren, NEW w \in Workers, Lab04!ThreadEnter(c, w)
      PROVE  PolledMutex' /\ file_sem' \in [PolledChildren -> {0, 1}]
  <2>1. file_sem[c] = 1 /\ thread' = [thread EXCEPT ![c][w] = "append"]
    BY <1>1, <1>t DEF Lab04!ThreadEnter, Lab04!ThreadMoves
  <2>2. file_sem' = [file_sem EXCEPT ![c] = 0]
    BY <1>1, <1>t, <2>1 DEF Lab04!ThreadEnter
  <2> QED BY <2>1, <2>2, <1>t DEF PolledMutex, Lab04!OneThreadPerProcess, Holding
<1>2. ASSUME NEW c \in PolledChildren, NEW w \in Workers, Lab04!ThreadLeave(c, w)
      PROVE  PolledMutex' /\ file_sem' \in [PolledChildren -> {0, 1}]
  <2>1. thread[c][w] = "leave" /\ thread' = [thread EXCEPT ![c][w] = "done"]
    BY <1>2 DEF Lab04!ThreadLeave, Lab04!ThreadMoves
  <2>2. file_sem[c] = 0 /\ \A v \in Workers : Holding(c, v) => v = w
    BY <2>1, <1>t DEF PolledMutex, Lab04!OneThreadPerProcess, Holding
  <2>3. file_sem' = [file_sem EXCEPT ![c] = 1]
    BY <1>2, <1>t, <2>2 DEF Lab04!ThreadLeave
  <2>4. \A v \in Workers : ~Holding(c, v)'
    BY <1>t, <2>1, <2>2 DEF Holding
  <2>5. \A d \in PolledChildren : d # c => thread'[d] = thread[d] /\ file_sem'[d] = file_sem[d]
    BY <1>t, <2>1, <2>3
  <2> QED BY <2>3, <2>4, <2>5, <1>t DEF PolledMutex, Lab04!OneThreadPerProcess, Holding
<1>3. ASSUME UNCHANGED file_sem,
             \A c \in PolledChildren, w \in Workers : Holding(c, w)' => Holding(c, w)
      PROVE  PolledMutex' /\ file_sem' \in [PolledChildren -> {0, 1}]
  BY <1>3, <1>t DEF PolledMutex, Lab04!OneThreadPerProcess, Holding
<1>4. CASE Lab04!MainStep
  BY <1>3, <1>4
  DEF Lab04!MainStep, Lab04!Setup, Lab04!Fork, Lab04!PollReady, Lab04!Start, Lab04!Halt,
      Lab04!Unlink, Lab04!ParseOutput, Holding
<1>5. ASSUME NEW c \in PolledChildren,
             \/ Lab04!ChildReady(c) \/ Lab04!ChildOpenStart(c) \/ Lab04!ChildStart(c)
             \/ Lab04!ChildOpenHalt(c) \/ Lab04!ChildPoll(c)
      PROVE  PolledMutex' /\ file_sem' \in [PolledChildren -> {0, 1}]
  BY <1>3, <1>5 DEF Lab04!ChildReady, Lab04!ChildOpenStart, Lab04!ChildStart,
                    Lab04!ChildOpenHalt, Lab04!ChildPoll, Holding
<1>6. ASSUME NEW c \in PolledChildren, Lab04!ChildJoin(c)
      PROVE  PolledMutex' /\ file_sem' \in [PolledChildren -> {0, 1}]
  <2>1. \A d \in PolledChildren, v \in Workers : Holding(d, v)' => Holding(d, v)
    BY <1>6, <1>t DEF Lab04!ChildJoin, Holding
  <2> QED BY <1>3, <1>6, <2>1 DEF Lab04!ChildJoin
<1>7. ASSUME NEW c \in PolledChildren, NEW w \in Workers,
             Lab04!ChildCreate(c, w) \/ Lab04!ThreadAppend(c, w)
      PROVE  PolledMutex' /\ file_sem' \in [PolledChildren -> {0, 1}]
  <2>1. \A d \in PolledChildren, v \in Workers : Holding(d, v)' => Holding(d, v)
    BY <1>7, <1>t DEF Lab04!ChildCreate, Lab04!ThreadAppend, Lab04!ThreadMoves, Holding
  <2> QED BY <1>3, <1>7, <2>1 DEF Lab04!ChildCreate, Lab04!ThreadAppend
<1> QED BY <1>1, <1>2, <1>4, <1>5, <1>6, <1>7, <1>t
        DEF Lab04!Next, Lab04!ChildStep, Lab04!ThreadStep

LEMMA PolledLoggedNext ==
  ASSUME PolledInv, Lab04!Next
  PROVE  PolledLogged'
<1> USE DEF PolledInv
<1>t. /\ thread \in [PolledChildren -> [Workers -> ThreadPlaces]]
      /\ rounds \in [PolledChildren -> Nat] /\ file \in [PolledChildren -> Nat]
      /\ M \in Nat /\ Lab04!Workers = Workers
  BY PolledCount DEF Lab04!TypeOK, ThreadPlaces, Lab04!Workers, Workers
<1>1. CASE Lab04!Setup
  <2>1. \A c \in PolledChildren : Cardinality(Written(thread[c])) = 0 /\ rounds[c] = 0
    BY <1>1, <1>t, WrittenEnds DEF Lab04!Setup, PolledPlaces
  <2> QED BY <1>1, <1>t, <2>1 DEF Lab04!Setup, Lab04!NoRecords, PolledLogged
<1>2. CASE UNCHANGED <<file, rounds, thread>> /\ (main = "setup" => main' = "setup")
  BY <1>2 DEF PolledLogged
<1>3. CASE \/ Lab04!Fork \/ Lab04!PollReady \/ Lab04!Start \/ Lab04!Halt \/ Lab04!Unlink
           \/ Lab04!ParseOutput
  BY <1>2, <1>3
  DEF Lab04!Fork, Lab04!PollReady, Lab04!Start, Lab04!Halt, Lab04!Unlink, Lab04!ParseOutput
<1>4. ASSUME NEW c \in PolledChildren,
             \/ Lab04!ChildReady(c) \/ Lab04!ChildOpenStart(c) \/ Lab04!ChildStart(c)
             \/ Lab04!ChildOpenHalt(c) \/ Lab04!ChildPoll(c)
      PROVE  PolledLogged'
  BY <1>2, <1>4 DEF Lab04!ChildReady, Lab04!ChildOpenStart, Lab04!ChildStart,
                    Lab04!ChildOpenHalt, Lab04!ChildPoll
<1>5. ASSUME NEW c \in PolledChildren, Lab04!ChildJoin(c)  PROVE PolledLogged'
  <2>1. /\ UNCHANGED <<main, file>>
        /\ thread' = [thread EXCEPT ![c] = [w \in Workers |-> "none"]]
        /\ rounds' = [rounds EXCEPT ![c] = @ + 1]
    BY <1>5, <1>t DEF Lab04!ChildJoin
  <2>2. Cardinality(Written(thread[c])) = M
    BY <1>5, <1>t, WrittenEnds DEF Lab04!ChildJoin
  <2>3. Cardinality(Written(thread'[c])) = 0
    <3>1. thread'[c] = [w \in Workers |-> "none"]
      BY <2>1, <1>t
    <3> QED BY <3>1, <1>t, WrittenEnds DEF ThreadPlaces
  <2>4. M * (rounds[c] + 1) = M * rounds[c] + M
    BY <1>t
  <2>5. ASSUME NEW d \in PolledChildren, main # "setup"
        PROVE  file[d] = M * rounds'[d] + Cardinality(Written(thread'[d]))
    BY <2>1, <2>2, <2>3, <2>4, <2>5, <1>t DEF PolledLogged
  <2> QED BY <2>1, <2>5 DEF PolledLogged
<1>6. ASSUME NEW c \in PolledChildren, NEW w \in Workers, Lab04!ThreadAppend(c, w)
      PROVE  PolledLogged'
  <2>1. /\ UNCHANGED <<main, rounds>>
        /\ thread[c][w] = "append" /\ file' = [file EXCEPT ![c] = @ + 1]
        /\ thread' = [thread EXCEPT ![c][w] = "leave"]
    BY <1>6 DEF Lab04!ThreadAppend, Lab04!ThreadMoves
  <2>2. Cardinality(Written([thread[c] EXCEPT ![w] = "leave"]))
          = Cardinality(Written(thread[c])) + 1
    BY <2>1, <1>t, WrittenMoves DEF ThreadPlaces
  <2>3. thread'[c] = [thread[c] EXCEPT ![w] = "leave"]
    BY <2>1, <1>t
  <2>4. Cardinality(Written(thread[c])) \in Nat /\ M * rounds[c] \in Nat
    BY <1>t, WrittenEnds
  <2>5. ASSUME NEW d \in PolledChildren, main # "setup"
        PROVE  file'[d] = M * rounds[d] + Cardinality(Written(thread'[d]))
    <3>1. CASE d = c
      BY <2>1, <2>2, <2>3, <2>4, <2>5, <3>1, <1>t DEF PolledLogged
    <3>2. CASE d # c
      BY <2>1, <2>5, <3>2, <1>t DEF PolledLogged
    <3> QED BY <3>1, <3>2
  <2> QED BY <2>1, <2>5 DEF PolledLogged
<1>7. ASSUME NEW c \in PolledChildren, NEW w \in Workers,
             Lab04!ChildCreate(c, w) \/ Lab04!ThreadEnter(c, w) \/ Lab04!ThreadLeave(c, w)
      PROVE  PolledLogged'
  <2>1. UNCHANGED <<main, rounds, file>>
    BY <1>7 DEF Lab04!ChildCreate, Lab04!ThreadEnter, Lab04!ThreadLeave
  <2>2. PICK s \in ThreadPlaces : /\ thread' = [thread EXCEPT ![c][w] = s]
                                  /\ thread[c][w] \in {"leave", "done"} <=> s \in {"leave", "done"}
    BY <1>7 DEF Lab04!ChildCreate, Lab04!ThreadEnter, Lab04!ThreadLeave, Lab04!ThreadMoves,
                ThreadPlaces
  <2>3. thread'[c] = [thread[c] EXCEPT ![w] = s]
    BY <2>2, <1>t
  <2>4. Written(thread'[c]) = Written(thread[c])
    BY <2>2, <2>3, <1>t, WrittenMoves
  <2>5. \A d \in PolledChildren : Written(thread'[d]) = Written(thread[d])
    <3>1. \A d \in PolledChildren : d # c => thread'[d] = thread[d]
      BY <2>2, <1>t
    <3> QED BY <2>4, <3>1
  <2> QED BY <2>1, <2>5 DEF PolledLogged
<1> QED BY <1>1, <1>3, <1>4, <1>5, <1>6, <1>7, <1>t
        DEF Lab04!Next, Lab04!MainStep, Lab04!ChildStep, Lab04!ThreadStep

LEMMA PolledNext ==
  ASSUME PolledInv, Lab04!Next
  PROVE  PolledInv'
<1>1. /\ PolledCounts' /\ PolledPlaces' /\ PolledMutex' /\ PolledLogged'
      /\ file_sem' \in [PolledChildren -> {0, 1}]
  BY PolledCountsNext, PolledPlacesNext, PolledMutexNext, PolledLoggedNext
<1>2. Lab04!TypeOK /\ PolledPlaces
  BY DEF PolledInv
<1>3. Cardinality(PolledAnnounced') \in 0..Lab04!N /\ Lab04!N \in Nat \ {0}
  <2>1. PolledAnnounced' \in SUBSET PolledChildren
    BY DEF PolledAnnounced
  <2> QED BY <2>1, PolledCount
<1>4. /\ ready_sem' \in Nat /\ start_sem' \in Nat /\ halt_sem' \in Nat
      /\ i' \in 0..(Lab04!N - 1)
  BY <1>2, PolledMainTypes
<1>5. /\ ready_sem' \in 0..Lab04!N /\ start_sem' \in 0..Lab04!N
      /\ halt_sem' \in 0..Lab04!N
  BY <1>1, <1>3, <1>4 DEF PolledCounts
<1>6. Lab04!TypeOK'
  BY <1>1, <1>2, <1>5, PolledMainTypes, PolledChildTypes
  DEF Lab04!TypeOK, PolledChildPlaces, ThreadPlaces, Lab04!Workers, Workers
<1> QED BY <1>1, <1>6 DEF PolledInv

LEMMA PolledStarts ==
  ASSUME Lab04!Init
  PROVE  PolledInv
<1>1. Lab04!TypeOK
  BY PolledCount DEF Lab04!Init, Lab04!TypeOK, Lab04!NoRecords
<1>2. PolledAnnounced = {}
  BY DEF Lab04!Init, PolledAnnounced
<1>3. PolledCounts
  BY <1>2, FS_EmptySet DEF Lab04!Init, PolledCounts
<1>4. PolledPlaces /\ PolledMutex /\ PolledLogged
  BY PolledCount
  DEF Lab04!Init, Lab04!NoRecords, PolledPlaces, PolledMutex, Lab04!OneThreadPerProcess,
      Holding, PolledLogged, Lab04!Workers, Workers
<1> QED BY <1>1, <1>3, <1>4 DEF PolledInv

\* A child that has ended has only whole rounds in the log.
LEMMA PolledLogComplete ==
  ASSUME PolledInv
  PROVE  Lab04!LogComplete
<1> SUFFICES ASSUME NEW c \in PolledChildren, child[c] \in {"exited", "failed"}
             PROVE  file[c] = M * rounds[c]
  BY DEF Lab04!LogComplete, Lab04!Ended
<1>1. Cardinality(Written(thread[c])) = 0
  BY WrittenEnds
  DEF PolledInv, PolledPlaces, Lab04!TypeOK, ThreadPlaces, Lab04!Workers, Workers
<1>2. M * rounds[c] \in Nat
  BY PolledCount DEF PolledInv, Lab04!TypeOK
<1> QED BY <1>1, <1>2 DEF PolledInv, PolledPlaces, PolledLogged

-----------------------------------------------------------------------------
(* The three programs *)

\* The invariant of the program that runs.
LEMMA Invariance == ProgramsSpec => []Inv
<1>1. ProgramsInit => Inv
  BY FlagStarts, PolledStarts DEF ProgramsInit, FlagInit, PolledInit, Inv
<1>2. Inv /\ [ProgramsNext]_allVars => Inv'
  <2>1. ASSUME Inv, Flag /\ Next  PROVE Inv'
    BY <2>1, FlagNext DEF Inv, Flag
  <2>2. ASSUME Inv, Polled /\ Lab04!Next  PROVE Inv'
    BY <2>2, PolledNext DEF Inv, Polled
  <2>3. ASSUME Inv, UNCHANGED allVars  PROVE Inv'
    BY <2>3
    DEF allVars, vars, sems, polledVars, Inv, FlagInv, TypeOK, Counts, Announced, Begun, Reaped,
        Heard, Posted, Waited, Places, Mutex, OneWriter, Holding, Logged, Written, PolledInv,
        Lab04!TypeOK, PolledCounts, PolledAnnounced, PolledPlaces, PolledMutex,
        Lab04!OneThreadPerProcess, PolledLogged
  <2> QED BY <2>1, <2>2, <2>3 DEF ProgramsNext
<1> QED BY <1>1, <1>2, PTL DEF ProgramsSpec

\* Every variable keeps its type: no counting semaphore exceeds the number of
\* children, and those that exclude are 0 or 1.
THEOREM Typing == ProgramsSpec => []TypesOK
<1>1. Inv => TypesOK
  BY DEF Inv, FlagInv, PolledInv, TypesOK
<1> QED BY <1>1, Invariance, PTL

\* At most one thread of all the processes has the log open; in Lab04, of each
\* process.
THEOREM WritersExclude == ProgramsSpec => []OneWriterAtATime
<1>1. Inv => OneWriterAtATime
  BY DEF Inv, FlagInv, Mutex, PolledInv, PolledMutex, OneWriterAtATime
<1> QED BY <1>1, Invariance, PTL

\* No child of Lab05 or Lab07 begins before all have announced themselves.
THEOREM NobodyStartsEarly == ProgramsSpec => []StartsTogether
<1>1. Inv => StartsTogether
  BY FlagStartsTogether DEF Inv, StartsTogether
<1> QED BY <1>1, Invariance, PTL

\* main counts all that the children have logged, however many rounds they ran;
\* in Lab04 the log is complete for each child that has ended.
THEOREM NothingLost == ProgramsSpec => []LogsComplete
<1>1. Inv => LogsComplete
  BY FlagParsesEverything, PolledLogComplete DEF Inv, LogsComplete
<1> QED BY <1>1, Invariance, PTL
=============================================================================
