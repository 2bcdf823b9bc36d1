--------------------------- MODULE CounterProofs ---------------------------
(***************************************************************************)
(* The totals of the concurrent counters of Lab01 and Lab02, for any       *)
(* number of threads and additions and any width of the numbers.           *)
(*                                                                         *)
(* The invariant of Lab02's program (Additions) counts the additions that  *)
(* are in shared_variable as the cardinality of a set, to which each store *)
(* adds one element; that no store is lost rests on the semaphore          *)
(* (Exclusion).                                                            *)
(***************************************************************************)
EXTENDS Counter, FiniteSetTheorems, TLAPS

Critical == {"load", "store", "post"}

\* Which labels each program's threads and main can be at.
Places ==
  /\ cells => \A t \in Threads : worker[t] \in {"none", "add", "done"}
  /\ ~cells => counter # "sum" /\ \A t \in Threads : worker[t] # "add"
  /\ counter = "off" => \A t \in Threads : worker[t] = "none"
  /\ counter \in {"sum", "printed"} => \A t \in Threads : worker[t] = "done"
  /\ \A t \in Threads : worker[t] = "none" => iter[t] = 0
  /\ \A t \in Threads : worker[t] \in Critical => iter[t] < M
  /\ ~cells => \A t \in Threads : worker[t] = "done" => iter[t] = M

Exclusion ==
  ~cells => /\ \A t, u \in Threads : worker[t] \in Critical /\ worker[u] \in Critical => t = u
            /\ \A t \in Threads : worker[t] \in Critical => my_sem = 0

\* The additions that shared_variable has: how many of each thread, and which.
stored == [t \in Threads |-> iter[t] + IF worker[t] = "post" THEN 1 ELSE 0]

Adds(f) == {a \in Threads \X (1..M) : a[2] <= f[a[1]]}

Additions ==
  ~cells => /\ shared_variable = (v * Cardinality(Adds(stored))) % LONG
            /\ \A t \in Threads : worker[t] = "store" =>
                                    sum[t] = (shared_variable + v) % LONG

Cell == ToInt(M * v)

Sums == cells => /\ shared_variable = (j * Cell) % LONG
                 /\ \A t \in Threads : worker[t] = "done" => BUF[t] = Cell
                 /\ counter \in {"off", "create"} => j = 0
                 /\ counter = "printed" => j = N

Inv == TypeOK /\ Places /\ Exclusion /\ Additions /\ Sums

-----------------------------------------------------------------------------
(* Arithmetic modulo L *)

\* Division with remainder.
LEMMA DivMod ==
  ASSUME NEW a \in Int, NEW L \in Nat \ {0}
  PROVE  a % L \in 0..(L - 1) /\ \E q \in Int : a = L * q + (a % L)
<1>1. a \div L \in Int /\ a = L * (a \div L) + (a % L) /\ a % L \in 0..(L - 1)
  OBVIOUS
<1> QED BY <1>1

\* The remainder is unique.
LEMMA ModUnique ==
  ASSUME NEW r \in Int, NEW q \in Int, NEW L \in Nat \ {0}, 0 <= r, r < L
  PROVE  (L * q + r) % L = r
OBVIOUS

\* A remainder taken before an addition does not change that of the sum.
LEMMA ModAdd ==
  ASSUME NEW a \in Int, NEW b \in Int, NEW L \in Nat \ {0}
  PROVE  ((a % L) + b) % L = (a + b) % L
<1> DEFINE r == a % L
           s == (r + b) % L
<1>1. PICK p \in Int : r \in 0..(L - 1) /\ a = L * p + r
  BY DivMod
<1>2. PICK q \in Int : s \in 0..(L - 1) /\ r + b = L * q + s
  <2>1. r + b \in Int
    BY <1>1
  <2> QED BY <2>1, DivMod
<1> HIDE DEF r, s
<1>3. a + b = L * (p + q) + s
  BY <1>1, <1>2
<1>4. (L * (p + q) + s) % L = s
  BY <1>2, ModUnique
<1> QED BY <1>3, <1>4 DEF r, s

\* A number that an int can hold is not changed by an int addition.
LEMMA ToIntFits ==
  ASSUME NEW x \in Int, FitsInt(x)
  PROVE  ToInt(x) = x
<1> DEFINE y == x + INT_MAX + 1
           L == 2 * (INT_MAX + 1)
<1>1. y \in Int /\ 0 <= y /\ y < L /\ L \in Nat \ {0} /\ INT_MAX \in Nat
  BY NumbersAssumption DEF FitsInt
<1>2. y % L = y
  <2> HIDE DEF y, L
  <2>1. (L * 0 + y) % L = y
    BY <1>1, ModUnique
  <2>2. L * 0 + y = y
    BY <1>1
  <2> QED BY <2>1, <2>2
<1> QED BY <1>1, <1>2 DEF ToInt

LEMMA ToIntType ==
  ASSUME NEW x \in Int
  PROVE  ToInt(x) \in Int
<1> DEFINE y == x + INT_MAX + 1
           L == 2 * (INT_MAX + 1)
<1>1. y \in Int /\ L \in Nat \ {0} /\ INT_MAX \in Nat
  BY NumbersAssumption
<1>2. y % L \in 0..(L - 1)
  <2> HIDE DEF y, L
  <2> QED BY <1>1, DivMod
<1> QED BY <1>1, <1>2 DEF ToInt

-----------------------------------------------------------------------------
(* The set of the additions *)

LEMMA AddsFinite ==
  ASSUME NEW f
  PROVE  IsFiniteSet(Adds(f)) /\ Cardinality(Adds(f)) \in Nat
<1>1. IsFiniteSet(Threads) /\ IsFiniteSet(1..M)
  BY FS_Interval, NumbersAssumption DEF Threads
<1>2. IsFiniteSet(Threads \X (1..M))
  BY <1>1, FS_Product
<1> QED BY <1>2, FS_Subset, FS_CardinalityType DEF Adds

LEMMA AddsNone == Cardinality(Adds([t \in Threads |-> 0])) = 0
<1>1. Adds([t \in Threads |-> 0]) = {}
  BY NumbersAssumption DEF Adds
<1> QED BY <1>1, FS_EmptySet

LEMMA AddsAll == Cardinality(Adds([t \in Threads |-> M])) = N * M
<1>1. Adds([t \in Threads |-> M]) = Threads \X (1..M)
  BY NumbersAssumption DEF Adds
<1>2. /\ IsFiniteSet(Threads) /\ Cardinality(Threads) = N
      /\ IsFiniteSet(1..M) /\ Cardinality(1..M) = M
  BY FS_Interval, NumbersAssumption DEF Threads
<1> QED BY <1>1, <1>2, FS_Product

\* One more addition of a thread is one more in the set.
LEMMA AddsOneMore ==
  ASSUME NEW f \in [Threads -> Nat], NEW t \in Threads, f[t] < M
  PROVE  Cardinality(Adds([f EXCEPT ![t] = @ + 1])) = Cardinality(Adds(f)) + 1
<1> DEFINE x == <<t, f[t] + 1>>
<1>1. x \in Threads \X (1..M)
  BY NumbersAssumption
<1>2. Adds([f EXCEPT ![t] = @ + 1]) = Adds(f) \cup {x}
  <2>1. ASSUME NEW a \in Threads \X (1..M)
        PROVE  a[2] <= [f EXCEPT ![t] = @ + 1][a[1]] <=> a[2] <= f[a[1]] \/ a = x
    <3>1. PICK u \in Threads, k \in 1..M : a = <<u, k>>
      OBVIOUS
    <3>2. k \in Nat /\ f[u] \in Nat /\ f[t] \in Nat
      BY NumbersAssumption
    <3>3. CASE u = t
      BY <3>1, <3>2, <3>3
    <3>4. CASE u # t
      BY <3>1, <3>2, <3>4
    <3> QED BY <3>3, <3>4
  <2> QED BY <1>1, <2>1 DEF Adds
<1>3. x \notin Adds(f)
  BY DEF Adds
<1> QED BY <1>2, <1>3, AddsFinite, FS_AddElement, Zenon

-----------------------------------------------------------------------------
(* The initial states *)

LEMMA InitInv == Init => Inv
<1> SUFFICES ASSUME Init PROVE Inv
  OBVIOUS
<1>1. LONG \in Nat \ {0} /\ N \in Nat /\ M \in Nat /\ v \in Int
  BY NumbersAssumption DEF Init
<1>2. TypeOK
  BY <1>1 DEF Init, TypeOK, Zero
<1>3. Places /\ Exclusion
  BY <1>1 DEF Init, Places, Exclusion, Critical, Zero
<1>4. 0 % LONG = 0
  BY <1>1, ModUnique
<1>5. Additions
  <2>1. stored = [t \in Threads |-> 0]
    BY <1>1 DEF Init, stored, Zero
  <2>2. Cardinality(Adds(stored)) = 0
    BY <2>1, AddsNone
  <2>3. v * Cardinality(Adds(stored)) = 0
    BY <1>1, <2>2
  <2> QED BY <1>4, <2>3 DEF Init, Additions
<1>6. Sums
  <2>1. Cell \in Int
    BY <1>1, ToIntType DEF Cell
  <2>2. 0 * Cell = 0
    BY <2>1
  <2> QED BY <1>4, <2>2 DEF Init, Sums
<1> QED BY <1>2, <1>3, <1>5, <1>6 DEF Inv

-----------------------------------------------------------------------------
(* Types, places and the semaphore *)

Core == TypeOK /\ Places /\ Exclusion

LEMMA CoreStep == Core /\ [Next]_vars => Core'
<1> SUFFICES ASSUME Core, [Next]_vars PROVE Core'
  OBVIOUS
<1> USE DEF Core, TypeOK, Places, Exclusion, Critical, Goto, MainMoves
<1>0. /\ LONG \in Nat \ {0} /\ N \in Nat /\ M \in Nat /\ v \in Int
      /\ \A x \in Int : x % LONG \in 0..(LONG - 1)
  BY NumbersAssumption, DivMod
<1>1. ASSUME NEW t \in Threads, Wait(t) PROVE Core'
  BY <1>0, <1>1 DEF Wait
<1>2. ASSUME NEW t \in Threads, Load(t) PROVE Core'
  <2>1. (shared_variable + v) % LONG \in 0..(LONG - 1)
    BY <1>0
  <2> QED BY <2>1, <1>2 DEF Load
<1>3. ASSUME NEW t \in Threads, Store(t) PROVE Core'
  BY <1>0, <1>3 DEF Store
<1>4. ASSUME NEW t \in Threads, Post(t) PROVE Core'
  <2>1. ~cells /\ worker[t] = "post" /\ my_sem = 0 /\ iter[t] \in 0..M /\ iter[t] < M
    BY <1>4 DEF Post
  <2>2. TypeOK'
    <3>1. iter[t] + 1 \in 0..M
      BY <1>0, <2>1
    <3>2. my_sem' \in {0, 1}
      BY <1>4, <2>1 DEF Post
    <3> QED BY <1>4, <3>1, <3>2 DEF Post
  <2>3. Places'
    BY <1>0, <1>4, <2>1 DEF Post
  <2>4. Exclusion'
    BY <1>4, <2>1 DEF Post
  <2> QED BY <2>2, <2>3, <2>4
<1>5. ASSUME NEW t \in Threads, Return(t) PROVE Core'
  BY <1>0, <1>5 DEF Return
<1>6. ASSUME NEW t \in Threads, WriteCell(t) PROVE Core'
  BY <1>0, <1>6, ToIntType DEF WriteCell
<1>7. CASE Start
  BY <1>0, <1>7 DEF Start
<1>8. ASSUME NEW t \in Threads, Create(t) PROVE Core'
  BY <1>0, <1>8 DEF Create
<1>9. CASE Join
  BY <1>0, <1>9 DEF Join
<1>10. CASE SumCell
  <2>1. j + 1 \in Threads
    BY <1>0, <1>10 DEF SumCell, Threads
  <2>2. (shared_variable + BUF[j + 1]) % LONG \in 0..(LONG - 1)
    BY <1>0, <2>1
  <2> QED BY <1>0, <1>10, <2>2 DEF SumCell
<1>11. CASE PrintTotal
  BY <1>0, <1>11 DEF PrintTotal
<1>12. CASE UNCHANGED vars
  BY <1>12 DEF vars
<1> QED BY <1>1, <1>2, <1>3, <1>4, <1>5, <1>6, <1>7, <1>8, <1>9, <1>10, <1>11, <1>12
        DEF Next, Adding, Main

-----------------------------------------------------------------------------
(* Lab02's additions and Lab01's sums *)

LEMMA AdditionsStep == Inv /\ [Next]_vars => Additions'
<1> SUFFICES ASSUME Inv, [Next]_vars, ~cells PROVE Additions'
  BY DEF Additions, Next, Adding, Main, Wait, Load, Store, Post, Return, WriteCell, Start,
         Create, Join, SumCell, PrintTotal, vars
<1> USE DEF Inv, Goto, MainMoves
<1>0. /\ LONG \in Nat \ {0} /\ N \in Nat /\ M \in Nat /\ v \in Int
      /\ worker \in [Threads -> {"none", "loop", "load", "store", "post", "add", "done"}]
      /\ iter \in [Threads -> 0..M]
      /\ shared_variable \in Int
  BY NumbersAssumption DEF TypeOK
<1>1. /\ shared_variable = (v * Cardinality(Adds(stored))) % LONG
      /\ \A t \in Threads : worker[t] = "store" => sum[t] = (shared_variable + v) % LONG
  BY DEF Additions
<1>s. ASSUME shared_variable' = shared_variable, stored' = stored, v' = v,
             \A t \in Threads : worker'[t] = "store" => sum'[t] = (shared_variable + v) % LONG
      PROVE  Additions'
  BY <1>1, <1>s DEF Additions
<1>2. ASSUME NEW t \in Threads, Wait(t) \/ Return(t) PROVE Additions'
  <2>1. stored' = stored
    BY <1>0, <1>2 DEF Wait, Return, stored
  <2> QED BY <1>0, <1>1, <1>2, <1>s, <2>1 DEF Wait, Return
<1>3. ASSUME NEW t \in Threads, Load(t) PROVE Additions'
  <2>1. stored' = stored
    BY <1>0, <1>3 DEF Load, stored
  <2>2. sum \in [Threads -> 0..(LONG - 1)]
    BY DEF TypeOK
  <2> QED BY <1>0, <1>1, <1>3, <1>s, <2>1, <2>2 DEF Load
<1>4. ASSUME NEW t \in Threads, Store(t) PROVE Additions'
  <2>1. /\ stored \in [Threads -> Nat] /\ stored[t] < M
        /\ stored' = [stored EXCEPT ![t] = @ + 1]
    <3>1. worker[t] = "store" /\ worker' = [worker EXCEPT ![t] = "post"] /\ iter' = iter
      BY <1>4 DEF Store
    <3>2. iter[t] < M
      BY <3>1 DEF Places, Critical
    <3>3. stored \in [Threads -> Nat] /\ stored[t] = iter[t]
      BY <1>0, <3>1 DEF stored
    <3>4. \A u \in Threads : stored'[u] = IF u = t THEN stored[u] + 1 ELSE stored[u]
      BY <1>0, <3>1 DEF stored
    <3>5. stored' = [u \in Threads |-> stored'[u]]
      BY DEF stored
    <3> QED BY <3>2, <3>3, <3>4, <3>5
  <2>2. Cardinality(Adds(stored')) = Cardinality(Adds(stored)) + 1
    BY <2>1, AddsOneMore
  <2>3. Adds(stored)' = Adds(stored')
    BY DEF Adds
  <2>4. shared_variable' = (shared_variable + v) % LONG
    BY <1>1, <1>4 DEF Store
  <2>5. shared_variable' = (v * (Cardinality(Adds(stored)) + 1)) % LONG
    <3> DEFINE c == Cardinality(Adds(stored))
    <3>1. c \in Nat
      BY AddsFinite
    <3> HIDE DEF c
    <3>2. v * c \in Int /\ v * c + v = v * (c + 1)
      BY <1>0, <3>1
    <3>3. (((v * c) % LONG) + v) % LONG = (v * c + v) % LONG
      BY <1>0, <3>2, ModAdd
    <3> QED BY <1>1, <2>4, <3>2, <3>3 DEF c
  <2>6. \A u \in Threads : worker'[u] # "store"
    BY <1>0, <1>4 DEF Store, Exclusion, Critical
  <2> QED BY <1>4, <2>2, <2>3, <2>5, <2>6 DEF Additions, Store
<1>5. ASSUME NEW t \in Threads, Post(t) PROVE Additions'
  <2>1. stored' = stored
    BY <1>0, <1>5 DEF Post, stored
  <2> QED BY <1>0, <1>1, <1>5, <1>s, <2>1 DEF Post
<1>6. CASE Start
  <2>1. stored = [t \in Threads |-> 0] /\ stored' = stored
    BY <1>0, <1>6 DEF Start, stored, Places
  <2>2. v * Cardinality(Adds(stored)) = 0
    BY <1>0, <2>1, AddsNone
  <2>3. 0 % LONG = 0
    BY <1>0, ModUnique
  <2>4. shared_variable = 0
    BY <1>1, <2>2, <2>3
  <2> QED BY <1>1, <1>6, <1>s, <2>1, <2>4 DEF Start
<1>7. ASSUME NEW t \in Threads, Create(t) PROVE Additions'
  <2>1. stored' = stored
    BY <1>0, <1>7 DEF Create, stored
  <2> QED BY <1>0, <1>1, <1>7, <1>s, <2>1 DEF Create
<1>8. CASE Join \/ PrintTotal \/ UNCHANGED vars
  <2>1. stored' = stored
    BY <1>8 DEF Join, PrintTotal, stored, vars
  <2> QED BY <1>1, <1>8, <1>s, <2>1 DEF Join, PrintTotal, vars
<1>9. ~SumCell /\ \A t \in Threads : ~WriteCell(t)
  BY DEF SumCell, WriteCell, Places
<1> QED BY <1>2, <1>3, <1>4, <1>5, <1>6, <1>7, <1>8, <1>9 DEF Next, Adding, Main

LEMMA SumsStep == Inv /\ [Next]_vars => Sums'
<1> SUFFICES ASSUME Inv, [Next]_vars, cells PROVE Sums'
  BY DEF Sums, Next, Adding, Main, Wait, Load, Store, Post, Return, WriteCell, Start,
         Create, Join, SumCell, PrintTotal, vars
<1> USE DEF Inv, Goto, MainMoves
<1>0. /\ LONG \in Nat \ {0} /\ N \in Nat /\ M \in Nat /\ v \in Int /\ j \in Nat
      /\ worker \in [Threads -> {"none", "loop", "load", "store", "post", "add", "done"}]
      /\ BUF \in [Threads -> Int]
  BY NumbersAssumption DEF TypeOK
<1>1. M * v \in Int /\ Cell \in Int
  BY <1>0, ToIntType DEF Cell
<1>2. Cell' = Cell
  BY DEF Cell, ToInt, Next, Adding, Main, Wait, Load, Store, Post, Return, WriteCell, Start,
         Create, Join, SumCell, PrintTotal, vars
<1>3. \A t \in Threads : ~Wait(t) /\ ~Load(t) /\ ~Store(t) /\ ~Post(t) /\ ~Return(t)
  BY DEF Wait, Load, Store, Post, Return, Places
<1> HIDE DEF Inv
<1>4. Sums /\ Places
  BY DEF Inv
<1>5. ASSUME NEW t \in Threads, WriteCell(t) PROVE Sums'
  BY <1>0, <1>2, <1>4, <1>5 DEF Sums, WriteCell, Cell
<1>6. CASE Start
  <2>1. 0 * Cell = 0 /\ 0 % LONG = 0
    BY <1>0, <1>1, ModUnique
  <2> QED BY <1>2, <1>4, <1>6, <2>1 DEF Sums, Start, Places
<1>7. ASSUME NEW t \in Threads, Create(t) PROVE Sums'
  BY <1>0, <1>2, <1>4, <1>7 DEF Sums, Create
<1>8. CASE SumCell
  <2>1. j + 1 \in Threads /\ BUF[j + 1] = Cell
    BY <1>0, <1>4, <1>8 DEF Sums, Places, SumCell, Threads
  <2>2. shared_variable' = (((j * Cell) % LONG) + Cell) % LONG
    BY <1>4, <1>8, <2>1 DEF Sums, SumCell
  <2>3. j * Cell \in Int /\ j * Cell + Cell = (j + 1) * Cell
    BY <1>0, <1>1
  <2>4. shared_variable' = ((j + 1) * Cell) % LONG
    BY <1>0, <1>1, <2>2, <2>3, ModAdd
  <2> QED BY <1>2, <1>4, <1>8, <2>4 DEF Sums, SumCell
<1>9. CASE Join \/ PrintTotal \/ UNCHANGED vars
  BY <1>2, <1>4, <1>9 DEF Sums, Join, PrintTotal, vars
<1> QED BY <1>3, <1>5, <1>6, <1>7, <1>8, <1>9 DEF Next, Adding, Main

-----------------------------------------------------------------------------
\* Every step keeps the invariant.
LEMMA InvStep == Inv /\ [Next]_vars => Inv'
BY CoreStep, AdditionsStep, SumsStep DEF Inv, Core

\* When the total is printed every thread has made all its additions.
LEMMA InvExact == Inv => ExactTotal
<1> SUFFICES ASSUME Inv, counter = "printed", cells => FitsInt(M * v)
             PROVE  shared_variable = (N * M * v) % LONG
  BY DEF ExactTotal
<1>1. N \in Nat /\ M \in Nat /\ v \in Int
  BY NumbersAssumption DEF Inv, TypeOK
<1>2. \A t \in Threads : worker[t] = "done"
  BY DEF Inv, Places
<1>3. CASE cells
  <2>1. M * v \in Int
    BY <1>1
  <2>2. Cell = M * v
    BY <1>3, <2>1, ToIntFits DEF Cell
  <2>3. shared_variable = (N * (M * v)) % LONG
    BY <1>3, <2>2 DEF Inv, Sums
  <2>4. N * (M * v) = N * M * v
    BY <1>1
  <2> QED BY <2>3, <2>4
<1>4. CASE ~cells
  <2>1. stored = [t \in Threads |-> M]
    BY <1>1, <1>2, <1>4 DEF Inv, Places, stored
  <2>2. shared_variable = (v * (N * M)) % LONG
    BY <1>4, <2>1, AddsAll DEF Inv, Additions
  <2>3. v * (N * M) = N * M * v
    BY <1>1
  <2> QED BY <2>2, <2>3
<1> QED BY <1>3, <1>4

LEMMA InvInductive == Spec => []Inv
BY InvStep, InitInv, PTL DEF Spec

\* Every variable keeps its type, for any number of threads and additions and
\* any width of the numbers.
THEOREM Typing == Spec => []TypeOK
<1>1. Inv => TypeOK
  BY DEF Inv
<1> QED BY <1>1, InvInductive, PTL

(***************************************************************************)
(* The total that main prints is exact, for any number of threads and      *)
(* additions and any width of the numbers: no addition of Lab02's threads  *)
(* is lost, and Lab01's sum is N times a cell that fits in an int.         *)
(***************************************************************************)
THEOREM TotalIsExact == Spec => []ExactTotal
BY InvExact, InvInductive, PTL
=============================================================================
