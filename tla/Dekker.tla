------------------------------ MODULE Dekker ------------------------------
(***************************************************************************)
(* Esercizi_Personali/dekker.c: Dekker's algorithm on plain shared         *)
(* variables, run by P0 and, with me and other swapped, by P1.  A process  *)
(* calls dekker() any number of times.                                     *)
(*                                                                         *)
(* A store waits in the store buffer of its processor (STORE_BUFFER long)  *)
(* until it reaches the memory.  SEQUENTIAL is the pseudocode's reading: a *)
(* process reads only after its own stores have reached the memory.        *)
(* Compiled as it stands (plain variables, x86) the code is not so: a read *)
(* may overtake the stores before it (SEQUENTIAL = FALSE).                 *)
(***************************************************************************)
EXTENDS Integers, Sequences

CONSTANTS STORE_BUFFER, SEQUENTIAL

ASSUME MemoryAssumption == STORE_BUFFER \in Nat \ {0} /\ SEQUENTIAL \in BOOLEAN

Procs == {0, 1}
other(me) == 1 - me

VARIABLES flag, turn,
          buffer,     \* the stores of each process not yet in memory
          pc

vars == <<flag, turn, buffer, pc>>

Init == /\ flag = [p \in Procs |-> FALSE]
        /\ turn = 0
        /\ buffer = [p \in Procs |-> <<>>]
        /\ pc = [p \in Procs |-> "out"]

Goto(me, from, to) == /\ pc[me] = from
                      /\ pc' = [pc EXCEPT ![me] = to]

-----------------------------------------------------------------------------
(* Memory *)

Reads(me) == SEQUENTIAL => buffer[me] = <<>>

\* What a process reads in turn: its own last store to it, if still buffered.
StoresToTurn(me) == {k \in 1..Len(buffer[me]) : buffer[me][k][1] = "turn"}

Turn(me) == IF StoresToTurn(me) = {} THEN turn
            ELSE LET last == CHOOSE k \in StoresToTurn(me) : \A l \in StoresToTurn(me) : l <= k
                 IN  buffer[me][last][2]

Store(me, s) == /\ Len(buffer[me]) < STORE_BUFFER
                /\ buffer' = [buffer EXCEPT ![me] = Append(@, s)]
                /\ UNCHANGED <<flag, turn>>

\* The oldest store of the buffer reaches the memory.
Flush(me) == /\ buffer[me] # <<>>
             /\ buffer' = [buffer EXCEPT ![me] = Tail(@)]
             /\ LET s == Head(buffer[me]) IN
                IF s[1] = "turn" THEN turn' = s[2] /\ UNCHANGED flag
                                 ELSE flag' = [flag EXCEPT ![me] = s[2]] /\ UNCHANGED turn
             /\ UNCHANGED pc

-----------------------------------------------------------------------------
(* dekker *)

Enter(me) == Goto(me, "out", "test") /\ Store(me, <<"flag", TRUE>>)

\* Mutation: if (flag[other]) for while (flag[other]).
TestOnce(me) == /\ Reads(me)
                /\ \/ flag[other(me)] /\ Turn(me) = other(me) /\ Goto(me, "test", "lower")
                   \/ flag[other(me)] /\ Turn(me) # other(me) /\ Goto(me, "test", "cs")
                   \/ ~flag[other(me)] /\ Goto(me, "test", "cs")
                /\ UNCHANGED <<flag, turn, buffer>>

Test(me) == /\ Reads(me)
            /\ Goto(me, "test", IF flag[other(me)] THEN "test_turn" ELSE "cs")
            /\ UNCHANGED <<flag, turn, buffer>>

TestTurn(me) == /\ Reads(me)
                /\ Goto(me, "test_turn", IF Turn(me) = other(me) THEN "lower" ELSE "test")
                /\ UNCHANGED <<flag, turn, buffer>>

Lower(me) == Goto(me, "lower", "wait") /\ Store(me, <<"flag", FALSE>>)

Wait(me) == /\ Reads(me)
            /\ Turn(me) # other(me)
            /\ Goto(me, "wait", "raise")
            /\ UNCHANGED <<flag, turn, buffer>>

Raise(me) == Goto(me, "raise", "test") /\ Store(me, <<"flag", TRUE>>)

\* Mutation: the other process is me + 1, also for P1.
GiveTurnNext(me) == Goto(me, "cs", "leave") /\ Store(me, <<"turn", me + 1>>)

\* Mutation: the turn is not handed over.
KeepTurn(me) == Goto(me, "cs", "leave") /\ UNCHANGED <<flag, turn, buffer>>

GiveTurn(me) == Goto(me, "cs", "leave") /\ Store(me, <<"turn", other(me)>>)

Leave(me) == Goto(me, "leave", "out") /\ Store(me, <<"flag", FALSE>>)

-----------------------------------------------------------------------------
Try(me) == \/ Test(me) \/ TestTurn(me) \/ Lower(me) \/ Wait(me) \/ Raise(me)
           \/ GiveTurn(me) \/ Leave(me)

Next == \E me \in Procs : Enter(me) \/ Try(me) \/ Flush(me)

\* A process inside dekker() keeps running; nobody has to call it.
Fairness == \A me \in Procs : WF_vars(Try(me)) /\ WF_vars(Flush(me))

Spec == Init /\ [][Next]_vars /\ Fairness

-----------------------------------------------------------------------------
Stores == ({"flag"} \X BOOLEAN) \cup ({"turn"} \X Procs)

TypeOK ==
  /\ flag \in [Procs -> BOOLEAN]
  /\ turn \in Procs
  /\ buffer \in [Procs -> Seq(Stores)]
  /\ \A p \in Procs : Len(buffer[p]) <= STORE_BUFFER
  /\ pc \in [Procs -> {"out", "test", "test_turn", "lower", "wait", "raise", "cs", "leave"}]

InCS(p) == pc[p] = "cs"

\* The line marked CS is run by one process at a time.
MutualExclusion == ~(InCS(0) /\ InCS(1))

\* Who calls dekker() gets in, however often the other comes back.
StarvationFree == \A p \in Procs : pc[p] = "test" ~> InCS(p)
=============================================================================
