--------------------------- MODULE DekkerProofs ---------------------------
(***************************************************************************)
(* Mutual exclusion of dekker() for store buffers of every size, under the *)
(* sequential reading of the pseudocode, and the types of both algorithms  *)
(* of Esercizi_Personali.                                                  *)
(*                                                                         *)
(* The argument: a process that tests the other's flag has announced       *)
(* itself, that is its latest store to its own flag is TRUE, in memory or  *)
(* still buffered.  It reads only with an empty buffer, so when it gets in *)
(* its flag is up in memory, and nothing lowers it before it leaves.       *)
(***************************************************************************)
EXTENDS MCAlgorithms, TLAPS

\* No store in buffer b from position n on is to the flag.
NoFlagFrom(b, n) == \A l \in 1..Len(b) : l >= n => b[l][1] # "flag"

\* With b buffered and f in memory, the latest store to the flag is TRUE.
Up(b, f) == \/ f = TRUE /\ NoFlagFrom(b, 1)
            \/ \E n \in 1..Len(b) : b[n] = <<"flag", TRUE>> /\ NoFlagFrom(b, n + 1)

Claims == {"test", "test_turn", "lower", "cs", "leave"}

AnnouncedInv == \A p \in Procs : pc[p] \in Claims => Up(buffer[p], flag[p])

\* A process inside has nothing buffered: it has read the other's flag.
DrainedInv == \A p \in Procs : InCS(p) => buffer[p] = <<>>

Inv == TypeOK /\ AnnouncedInv /\ DrainedInv /\ MutualExclusion

-----------------------------------------------------------------------------
\* Raising the flag announces a process, whatever it had buffered.
LEMMA RaiseAnnounces ==
  ASSUME NEW b \in Seq(Stores), NEW f
  PROVE  Up(Append(b, <<"flag", TRUE>>), f)
<1>. DEFINE s == <<"flag", TRUE>>
            c == Append(b, s)
<1>1. s \in Stores
  BY DEF Stores
<1>. HIDE DEF s
<1>2. Len(c) = Len(b) + 1 /\ c[Len(b) + 1] = s /\ Len(b) \in Nat
  BY <1>1
<1>. HIDE DEF c
<1>3. Len(b) + 1 \in 1..Len(c) /\ NoFlagFrom(c, (Len(b) + 1) + 1)
  BY <1>2 DEF NoFlagFrom
<1>4. \E n \in 1..Len(c) : c[n] = s /\ NoFlagFrom(c, n + 1)
  BY <1>2, <1>3
<1>. QED
  BY <1>4 DEF Up, c, s

\* A store to turn leaves the announcement as it is.
LEMMA TurnKeepsAnnounced ==
  ASSUME NEW b \in Seq(Stores), NEW f, NEW v \in Procs, Up(b, f)
  PROVE  Up(Append(b, <<"turn", v>>), f)
<1>. DEFINE c == Append(b, <<"turn", v>>)
<1>1. <<"turn", v>> \in Stores
  BY DEF Stores
<1>2. /\ Len(c) = Len(b) + 1 /\ Len(b) \in Nat
      /\ c[Len(b) + 1][1] # "flag"
      /\ \A l \in 1..Len(b) : c[l] = b[l]
  BY <1>1
<1>. HIDE DEF c
<1>3. \A n \in Nat : NoFlagFrom(b, n) => NoFlagFrom(c, n)
  <2>1. SUFFICES ASSUME NEW n \in Nat, NoFlagFrom(b, n), NEW l \in 1..Len(c), l >= n
                 PROVE  c[l][1] # "flag"
    BY DEF NoFlagFrom
  <2>2. CASE l = Len(b) + 1
    BY <1>2, <2>2
  <2>3. CASE l # Len(b) + 1
    <3>1. l \in 1..Len(b)
      BY <1>2, <2>3
    <3>. QED
      BY <1>2, <2>1, <3>1 DEF NoFlagFrom
  <2>. QED
    BY <2>2, <2>3
<1>4. CASE f = TRUE /\ NoFlagFrom(b, 1)
  BY <1>3, <1>4 DEF Up, c
<1>5. ASSUME NEW n \in 1..Len(b), b[n] = <<"flag", TRUE>>, NoFlagFrom(b, n + 1)
      PROVE  Up(c, f)
  <2>1. n \in 1..Len(c) /\ n + 1 \in Nat
    BY <1>2
  <2>2. c[n] = <<"flag", TRUE>>
    BY <1>2, <1>5
  <2>3. NoFlagFrom(c, n + 1)
    BY <1>3, <1>5, <2>1
  <2>. QED
    BY <2>1, <2>2, <2>3 DEF Up
<1>. QED
  BY <1>4, <1>5 DEF Up, c

\* An announcement survives the flush of the oldest store into memory.
LEMMA FlushKeepsAnnounced ==
  ASSUME NEW b \in Seq(Stores), NEW f, b # <<>>, Up(b, f)
  PROVE  Up(Tail(b), IF Head(b)[1] = "turn" THEN f ELSE Head(b)[2])
<1>. DEFINE c == Tail(b)
            g == IF Head(b)[1] = "turn" THEN f ELSE Head(b)[2]
<1>1. /\ Len(b) \in Nat \ {0} /\ Len(c) = Len(b) - 1
      /\ \A l \in 1..Len(c) : c[l] = b[l + 1]
      /\ Head(b) = b[1] /\ b[1] \in Stores
  OBVIOUS
<1>2. b[1][1] # "flag" => g = f
  BY <1>1 DEF Stores
<1>3. b[1] = <<"flag", TRUE>> => g = TRUE
  <2>1. SUFFICES ASSUME b[1] = <<"flag", TRUE>> PROVE g = TRUE
    OBVIOUS
  <2>2. Head(b)[1] # "turn"
    BY <1>1, <2>1
  <2>3. Head(b) = <<"flag", TRUE>>
    BY <1>1, <2>1
  <2>4. g = Head(b)[2]
    BY <2>2
  <2>5. \A v : Head(b) = <<"flag", v>> => Head(b)[2] = v
    OBVIOUS
  <2>. QED
    BY <2>3, <2>4, <2>5, Zenon
<1>. HIDE DEF c, g
<1>4. \A n \in Nat : NoFlagFrom(b, n + 1) => NoFlagFrom(c, n)
  <2>1. SUFFICES ASSUME NEW n \in Nat, NoFlagFrom(b, n + 1), NEW l \in 1..Len(c), l >= n
                 PROVE  c[l][1] # "flag"
    BY DEF NoFlagFrom
  <2>2. l + 1 \in 1..Len(b) /\ l + 1 >= n + 1
    BY <1>1, <2>1
  <2>. QED
    BY <1>1, <2>1, <2>2 DEF NoFlagFrom
<1>5. CASE f = TRUE /\ NoFlagFrom(b, 1)
  <2>1. NoFlagFrom(b, 1 + 1) /\ b[1][1] # "flag"
    BY <1>1, <1>5 DEF NoFlagFrom
  <2>. QED
    BY <1>2, <1>4, <1>5, <2>1 DEF Up, c, g
<1>6. ASSUME NEW n \in 1..Len(b), b[n] = <<"flag", TRUE>>, NoFlagFrom(b, n + 1)
      PROVE  Up(c, g)
  <2>1. NoFlagFrom(c, n)
    BY <1>4, <1>6
  <2>2. CASE n = 1
    BY <1>3, <1>6, <2>1, <2>2 DEF Up
  <2>3. CASE n # 1
    <3>1. n - 1 \in 1..Len(c) /\ (n - 1) + 1 = n
      BY <1>1, <2>3
    <3>2. c[n - 1] = <<"flag", TRUE>>
      BY <1>1, <1>6, <3>1
    <3>. QED
      BY <2>1, <3>1, <3>2 DEF Up
  <2>. QED
    BY <2>2, <2>3
<1>. QED
  BY <1>5, <1>6 DEF Up, c, g

-----------------------------------------------------------------------------
\* A step that stores: the buffer of the process grows by one, no other and
\* nothing in memory changes.
LEMMA StoreAppends ==
  ASSUME TypeOK, NEW me \in Procs, NEW s \in Stores, Store(me, s)
  PROVE  /\ buffer' \in [Procs -> Seq(Stores)]
         /\ \A p \in Procs : Len(buffer'[p]) <= STORE_BUFFER
         /\ \A p \in Procs : p # me => buffer'[p] = buffer[p]
         /\ buffer'[me] = Append(buffer[me], s)
         /\ flag' = flag /\ turn' = turn
  BY MemoryAssumption DEF TypeOK, Store

\* What a flush does to memory and buffers.
LEMMA FlushShifts ==
  ASSUME TypeOK, NEW me \in Procs, Flush(me)
  PROVE  /\ buffer' \in [Procs -> Seq(Stores)]
         /\ \A p \in Procs : Len(buffer'[p]) <= STORE_BUFFER
         /\ \A p \in Procs : p # me => buffer'[p] = buffer[p] /\ flag'[p] = flag[p]
         /\ buffer[me] # <<>> /\ buffer'[me] = Tail(buffer[me])
         /\ flag'[me] = (IF Head(buffer[me])[1] = "turn" THEN flag[me] ELSE Head(buffer[me])[2])
         /\ flag' \in [Procs -> BOOLEAN] /\ turn' \in Procs /\ pc' = pc
<1>1. buffer[me] \in Seq(Stores) /\ buffer[me] # <<>>
  BY DEF TypeOK, Flush
<1>2. /\ Tail(buffer[me]) \in Seq(Stores)
      /\ Len(Tail(buffer[me])) <= Len(buffer[me])
      /\ Head(buffer[me]) \in Stores
  BY <1>1
<1>3. buffer' = [buffer EXCEPT ![me] = Tail(buffer[me])] /\ pc' = pc
  BY DEF Flush
<1>4. \A p \in Procs : Len(buffer'[p]) <= STORE_BUFFER
  BY <1>2, <1>3, MemoryAssumption DEF TypeOK
<1>5. CASE Head(buffer[me])[1] = "turn"
  <2>1. turn' = Head(buffer[me])[2] /\ flag' = flag
    BY <1>5 DEF Flush
  <2>2. Head(buffer[me])[2] \in Procs
    BY <1>2, <1>5 DEF Stores
  <2>. QED
    BY <1>1, <1>2, <1>3, <1>4, <1>5, <2>1, <2>2 DEF TypeOK
<1>6. CASE Head(buffer[me])[1] # "turn"
  <2>1. turn' = turn /\ flag' = [flag EXCEPT ![me] = Head(buffer[me])[2]]
    BY <1>6 DEF Flush
  <2>2. Head(buffer[me])[2] \in BOOLEAN
    BY <1>2, <1>6 DEF Stores
  <2>. QED
    BY <1>1, <1>2, <1>3, <1>4, <1>6, <2>1, <2>2 DEF TypeOK
<1>. QED
  BY <1>5, <1>6

\* Every step keeps the types.
LEMMA TypeNext ==
  ASSUME TypeOK, [Next]_vars
  PROVE  TypeOK'
<1>. USE DEF Procs
<1>1. ASSUME NEW me \in Procs, Enter(me) PROVE TypeOK'
  BY <1>1, StoreAppends DEF Enter, Goto, Stores, TypeOK
<1>2. ASSUME NEW me \in Procs, Test(me) PROVE TypeOK'
  BY <1>2 DEF Test, Goto, TypeOK
<1>3. ASSUME NEW me \in Procs, TestTurn(me) PROVE TypeOK'
  BY <1>3 DEF TestTurn, Goto, TypeOK
<1>4. ASSUME NEW me \in Procs, Lower(me) PROVE TypeOK'
  BY <1>4, StoreAppends DEF Lower, Goto, Stores, TypeOK
<1>5. ASSUME NEW me \in Procs, Wait(me) PROVE TypeOK'
  BY <1>5 DEF Wait, Goto, TypeOK
<1>6. ASSUME NEW me \in Procs, Raise(me) PROVE TypeOK'
  BY <1>6, StoreAppends DEF Raise, Goto, Stores, TypeOK
<1>7. ASSUME NEW me \in Procs, GiveTurn(me) PROVE TypeOK'
  <2>1. <<"turn", other(me)>> \in Stores
    BY DEF Stores, other
  <2>. QED
    BY <1>7, <2>1, StoreAppends DEF GiveTurn, Goto, TypeOK
<1>8. ASSUME NEW me \in Procs, Leave(me) PROVE TypeOK'
  BY <1>8, StoreAppends DEF Leave, Goto, Stores, TypeOK
<1>9. ASSUME NEW me \in Procs, Flush(me) PROVE TypeOK'
  BY <1>9, FlushShifts DEF TypeOK
<1>10. CASE UNCHANGED vars
  BY <1>10 DEF vars, TypeOK
<1>. QED
  BY <1>1, <1>2, <1>3, <1>4, <1>5, <1>6, <1>7, <1>8, <1>9, <1>10 DEF Next, Try

\* Every step keeps the announcements: a process stores FALSE to its flag only
\* as it stops claiming.
LEMMA AnnouncedNext ==
  ASSUME TypeOK, AnnouncedInv, [Next]_vars
  PROVE  AnnouncedInv'
<1>. SUFFICES ASSUME NEW p \in Procs, pc'[p] \in Claims
              PROVE  Up(buffer'[p], flag'[p])
  BY DEF AnnouncedInv
<1>0. buffer[p] \in Seq(Stores) /\ (pc[p] \in Claims => Up(buffer[p], flag[p]))
  BY DEF TypeOK, AnnouncedInv
<1>1. ASSUME NEW me \in Procs, Enter(me) \/ Raise(me) PROVE Up(buffer'[p], flag'[p])
  <2>1. <<"flag", TRUE>> \in Stores /\ Store(me, <<"flag", TRUE>>)
    BY <1>1 DEF Stores, Enter, Raise
  <2>2. CASE p = me
    <3>1. buffer'[p] = Append(buffer[p], <<"flag", TRUE>>)
      BY <2>1, <2>2, StoreAppends
    <3>. QED
      BY <3>1, <1>0, RaiseAnnounces
  <2>3. CASE p # me
    <3>1. buffer'[p] = buffer[p] /\ flag'[p] = flag[p]
      BY <2>1, <2>3, StoreAppends
    <3>2. pc'[p] = pc[p]
      BY <1>1, <2>3 DEF Enter, Raise, Goto, TypeOK
    <3>. QED
      BY <3>1, <3>2, <1>0
  <2>. QED
    BY <2>2, <2>3
<1>2. ASSUME NEW me \in Procs, Lower(me) \/ Leave(me) PROVE Up(buffer'[p], flag'[p])
  <2>1. <<"flag", FALSE>> \in Stores /\ Store(me, <<"flag", FALSE>>)
    BY <1>2 DEF Stores, Lower, Leave
  <2>2. p # me
    BY <1>2 DEF Lower, Leave, Goto, TypeOK, Claims
  <2>3. buffer'[p] = buffer[p] /\ flag'[p] = flag[p]
    BY <2>1, <2>2, StoreAppends
  <2>4. pc'[p] = pc[p]
    BY <1>2, <2>2 DEF Lower, Leave, Goto, TypeOK
  <2>. QED
    BY <2>3, <2>4, <1>0
<1>3. ASSUME NEW me \in Procs, GiveTurn(me) PROVE Up(buffer'[p], flag'[p])
  <2>1. /\ other(me) \in Procs /\ <<"turn", other(me)>> \in Stores
        /\ Store(me, <<"turn", other(me)>>)
    BY <1>3 DEF Stores, GiveTurn, other, Procs
  <2>2. pc[p] \in Claims
    BY <1>3 DEF GiveTurn, Goto, TypeOK, Claims
  <2>3. CASE p = me
    <3>1. buffer'[p] = Append(buffer[p], <<"turn", other(me)>>) /\ flag'[p] = flag[p]
      BY <2>1, <2>3, StoreAppends
    <3>. QED
      BY <3>1, <1>0, <2>1, <2>2, TurnKeepsAnnounced
  <2>4. CASE p # me
    <3>1. buffer'[p] = buffer[p] /\ flag'[p] = flag[p]
      BY <2>1, <2>4, StoreAppends
    <3>. QED
      BY <3>1, <2>2, <1>0
  <2>. QED
    BY <2>3, <2>4
<1>4. ASSUME NEW me \in Procs, Flush(me) PROVE Up(buffer'[p], flag'[p])
  <2>1. pc' = pc
    BY <1>4, FlushShifts
  <2>2. CASE p = me
    <3>1. /\ buffer[p] # <<>> /\ buffer'[p] = Tail(buffer[p])
          /\ flag'[p] = (IF Head(buffer[p])[1] = "turn" THEN flag[p] ELSE Head(buffer[p])[2])
      BY <1>4, <2>2, FlushShifts
    <3>. QED
      BY <3>1, <2>1, <1>0, FlushKeepsAnnounced
  <2>3. CASE p # me
    <3>1. buffer'[p] = buffer[p] /\ flag'[p] = flag[p]
      BY <1>4, <2>3, FlushShifts
    <3>. QED
      BY <3>1, <2>1, <1>0
  <2>. QED
    BY <2>2, <2>3
<1>5. ASSUME NEW me \in Procs, Test(me) \/ TestTurn(me) \/ Wait(me)
      PROVE  Up(buffer'[p], flag'[p])
  <2>1. buffer' = buffer /\ flag' = flag
    BY <1>5 DEF Test, TestTurn, Wait
  <2>2. pc[p] \in Claims
    BY <1>5 DEF Test, TestTurn, Wait, Goto, TypeOK, Claims
  <2>. QED
    BY <2>1, <2>2, <1>0
<1>6. CASE UNCHANGED vars
  BY <1>6, <1>0 DEF vars
<1>. QED
  BY <1>1, <1>2, <1>3, <1>4, <1>5, <1>6 DEF Next, Try

\* Read sequentially, a process that gets in has an empty buffer, and the
\* other, which has announced itself and has an empty buffer too, is not in.
LEMMA ExclusionNext ==
  ASSUME SEQUENTIAL, Inv, [Next]_vars
  PROVE  DrainedInv' /\ MutualExclusion'
<1>. USE DEF Inv
<1>1. \A p \in Procs : InCS(p) => flag[p] = TRUE
  <2>1. SUFFICES ASSUME NEW p \in Procs, InCS(p) PROVE flag[p] = TRUE
    OBVIOUS
  <2>2. buffer[p] = <<>> /\ Up(buffer[p], flag[p])
    BY <2>1 DEF DrainedInv, AnnouncedInv, InCS, Claims
  <2>. QED
    BY <2>2 DEF Up
<1>2. ASSUME NEW me \in Procs, Test(me) PROVE DrainedInv' /\ MutualExclusion'
  <2>1. buffer' = buffer /\ buffer[me] = <<>> /\ \A p \in Procs : p # me => pc'[p] = pc[p]
    BY <1>2 DEF Test, Reads, Goto, TypeOK
  <2>2. DrainedInv'
    BY <2>1 DEF DrainedInv, InCS
  <2>3. pc'[me] = "cs" => ~InCS(other(me))
    BY <1>1, <1>2 DEF Test, Goto, TypeOK, other, Procs
  <2>4. MutualExclusion'
    BY <2>1, <2>3 DEF MutualExclusion, InCS, other, Procs
  <2>. QED
    BY <2>2, <2>4
<1>3. ASSUME NEW me \in Procs, Flush(me) PROVE DrainedInv' /\ MutualExclusion'
  <2>1. /\ pc' = pc /\ buffer[me] # <<>>
        /\ \A p \in Procs : p # me => buffer'[p] = buffer[p]
    BY <1>3, FlushShifts
  <2>. QED
    BY <2>1 DEF DrainedInv, MutualExclusion, InCS
<1>4. ASSUME NEW me \in Procs,
             Enter(me) \/ Lower(me) \/ Raise(me) \/ GiveTurn(me) \/ Leave(me)
      PROVE  DrainedInv' /\ MutualExclusion'
  <2>1. pc'[me] # "cs" /\ \A p \in Procs : p # me => pc'[p] = pc[p]
    BY <1>4 DEF Enter, Lower, Raise, GiveTurn, Leave, Goto, TypeOK
  <2>2. \A p \in Procs : p # me => buffer'[p] = buffer[p]
    BY <1>4 DEF Enter, Lower, Raise, GiveTurn, Leave, Store, TypeOK
  <2>. QED
    BY <2>1, <2>2 DEF DrainedInv, MutualExclusion, InCS, Procs
<1>5. ASSUME NEW me \in Procs, TestTurn(me) \/ Wait(me)
      PROVE  DrainedInv' /\ MutualExclusion'
  <2>1. pc'[me] # "cs" /\ \A p \in Procs : p # me => pc'[p] = pc[p]
    BY <1>5 DEF TestTurn, Wait, Goto, TypeOK
  <2>2. buffer' = buffer
    BY <1>5 DEF TestTurn, Wait
  <2>. QED
    BY <2>1, <2>2 DEF DrainedInv, MutualExclusion, InCS, Procs
<1>6. CASE UNCHANGED vars
  BY <1>6 DEF vars, DrainedInv, MutualExclusion, InCS
<1>. QED
  BY <1>2, <1>3, <1>4, <1>5, <1>6 DEF Next, Try

\* The state of the variables, on every machine.
THEOREM Typing == Spec => []TypeOK
<1>1. Init => TypeOK
  BY MemoryAssumption DEF Init, TypeOK, Procs
<1>. QED
  BY <1>1, TypeNext, PTL DEF Spec

(***************************************************************************)
(* dekker() excludes: under the sequential reading the two processes are   *)
(* never both at the line marked CS, however long stores stay buffered.    *)
(***************************************************************************)
THEOREM MutualExclusionHolds ==
  ASSUME SEQUENTIAL
  PROVE  Spec => []MutualExclusion
<1>1. Init => Inv
  BY MemoryAssumption DEF Init, Inv, TypeOK, AnnouncedInv, DrainedInv, MutualExclusion, InCS,
                         Procs, Claims
<1>2. Inv /\ [Next]_vars => Inv'
  BY TypeNext, AnnouncedNext, ExclusionNext DEF Inv
<1>3. Inv => MutualExclusion
  BY DEF Inv
<1>. QED
  BY <1>1, <1>2, <1>3, PTL DEF Spec

-----------------------------------------------------------------------------
\* A step of dijkstra() keeps its types: k is a process's number, and the loop of
\* each process over j ends at N at the latest.
LEMMA DijkstraTypeNext ==
  ASSUME Dijkstra!TypeOK, Dijkstra!Next \/ UNCHANGED dijkstraVars
  PROVE  Dijkstra!TypeOK'
<1>1. ASSUME NEW i \in Dijkstra!Procs, Dijkstra!Interest(i) \/ Dijkstra!Retreat(i)
      PROVE  Dijkstra!TypeOK'
  BY <1>1 DEF Dijkstra!Interest, Dijkstra!Retreat, Dijkstra!Goto, Dijkstra!TypeOK
<1>2. ASSUME NEW i \in Dijkstra!Procs, Dijkstra!TestK(i) \/ Dijkstra!Look(i) \/ Dijkstra!ReadK(i)
      PROVE  Dijkstra!TypeOK'
  BY <1>2 DEF Dijkstra!TestK, Dijkstra!Look, Dijkstra!ReadK, Dijkstra!Goto, Dijkstra!TypeOK
<1>3. ASSUME NEW i \in Dijkstra!Procs, Dijkstra!Claim(i) PROVE Dijkstra!TypeOK'
  BY <1>3 DEF Dijkstra!Claim, Dijkstra!Goto, Dijkstra!TypeOK
<1>4. ASSUME NEW i \in Dijkstra!Procs, Dijkstra!Pass(i) PROVE Dijkstra!TypeOK'
  <2>1. 0 \in 0..N
    BY ProcessesAssumption DEF ProcessesAssumption
  <2> QED BY <1>4, <2>1 DEF Dijkstra!Pass, Dijkstra!Goto, Dijkstra!TypeOK
<1>5. ASSUME NEW i \in Dijkstra!Procs, Dijkstra!Check(i) PROVE Dijkstra!TypeOK'
  <2>1. j[i] \in 0..N /\ (j[i] # N => j[i] + 1 \in 0..N)
    BY ProcessesAssumption DEF ProcessesAssumption, Dijkstra!TypeOK
  <2>2. j' \in [Dijkstra!Procs -> 0..N]
    BY <1>5, <2>1 DEF Dijkstra!Check, Dijkstra!TypeOK
  <2>3. \E to \in {"cs", "test_k", "check"} : pcs' = [pcs EXCEPT ![i] = to]
    BY <1>5 DEF Dijkstra!Check, Dijkstra!Goto
  <2>4. UNCHANGED <<passed, interested, k, kread>>
    BY <1>5 DEF Dijkstra!Check
  <2> QED BY <2>2, <2>3, <2>4 DEF Dijkstra!TypeOK
<1>6. ASSUME NEW i \in Dijkstra!Procs, Dijkstra!Leave(i) \/ Dijkstra!LoseInterest(i)
      PROVE  Dijkstra!TypeOK'
  BY <1>6 DEF Dijkstra!Leave, Dijkstra!LoseInterest, Dijkstra!Goto, Dijkstra!TypeOK
<1>7. CASE UNCHANGED dijkstraVars
  BY <1>7 DEF dijkstraVars, Dijkstra!TypeOK
<1> QED BY <1>1, <1>2, <1>3, <1>4, <1>5, <1>6, <1>7 DEF Dijkstra!Next, Dijkstra!Try

\* Both algorithms, for any number of Dijkstra's processes: the flags are truth
\* values, turn and k name processes, and no array is indexed beyond its end.
THEOREM AlgorithmsTyping == AlgorithmsSpec => []TypesOK
<1>1. AlgorithmsInit => TypesOK
  <2> SUFFICES ASSUME AlgorithmsInit PROVE TypesOK
    OBVIOUS
  <2>1. TypeOK
    BY MemoryAssumption DEF AlgorithmsInit, Init, TypeOK, Procs
  <2>2. Dijkstra!TypeOK
    BY ProcessesAssumption
    DEF ProcessesAssumption, AlgorithmsInit, Dijkstra!Init, Dijkstra!TypeOK, Dijkstra!Procs
  <2> QED BY <2>1, <2>2 DEF TypesOK
<1>2. TypesOK /\ [AlgorithmsNext]_<<algorithm, vars, dijkstraVars>> => TypesOK'
  <2> SUFFICES ASSUME TypesOK, [AlgorithmsNext]_<<algorithm, vars, dijkstraVars>>
               PROVE  TypesOK'
    OBVIOUS
  <2>1. /\ Next \/ UNCHANGED vars
        /\ Dijkstra!Next \/ UNCHANGED dijkstraVars
    BY DEF AlgorithmsNext
  <2> QED BY <2>1, TypeNext, DijkstraTypeNext DEF TypesOK
<1> QED BY <1>1, <1>2, PTL DEF AlgorithmsSpec
=============================================================================
