-------------------------- MODULE SundaramProofs --------------------------
(***************************************************************************)
(* lab2_sundaram.c and lab2_sundaram_atomic.c for every number of threads  *)
(* and every upper bound, as EratosthenesProofs for lab2.c.                *)
(***************************************************************************)
EXTENDS Sundaram, SieveProofs

(***************************************************************************)
(* Every step of Sundaram is one that SieveProofs is about.                *)
(***************************************************************************)

USE DEF barrierVars, guards

\* Every step of the Sundaram version is one of SieveThreads, as far as the barrier
\* is concerned.
LEMMA StepIsShared ==
  ASSUME BInv, [Next]_vars
  PROVE  [SharedNext]_barrierVars
<1>1. CASE UNCHANGED vars
  BY <1>1 DEF vars, admin
<1>2. CASE lab2_init_fails \/ lab2_init_oops \/ lab2_exit \/ Unload
  <2>1. Ends
    BY <1>2 DEF lab2_init_fails, lab2_init_oops, lab2_exit, ExitWith, Unload, Ends
  <2> QED BY <2>1 DEF SharedNext
<1>3. CASE lab2_init \/ kthread_run
  BY <1>3 DEF SharedNext
<1>4. CASE Stopped
  BY <1>4 DEF Stopped, vars, admin
<1>5. ASSUME NEW t \in Threads, sieve_fn(t) PROVE [SharedNext]_barrierVars
  <2>1. CASE sbarrier(t) \/ Test(t) \/ Finish(t)
    BY <2>1 DEF SharedNext
  <2>2. CASE Lock(t) \/ Read(t) \/ Write(t) \/ CrossedOut(t)
    <3>1. Computes(t)
      BY <2>2 DEF Lock, Read, ReadIndex, Write, WriteIndex, CrossedOut, Computes, Computing, At,
                  admin
    <3> QED BY <3>1 DEF SharedNext
  <2>3. CASE CrossOut(t)
    BY <2>3 DEF CrossOut, admin
  <2> QED BY <1>5, <2>1, <2>2, <2>3 DEF sieve_fn, compute
<1> QED BY <1>1, <1>2, <1>3, <1>4, <1>5 DEF Next, Load

\* And one that treats global_index and its lock as SieveThreads says.
LEMMA StepIsIndex ==
  ASSUME BInv, IndexInv, [Next]_vars
  PROVE  [IndexNext]_<<taken, index_lock, global_index, pc>>
<1> USE DEF BInv, Typed, GoTo, At, Holding
<1>1. CASE UNCHANGED vars
  BY <1>1 DEF vars, shared
<1>2. CASE Load \/ lab2_exit \/ Unload \/ Stopped
  <2>1. CASE kthread_run
    <3>1. spawned \in Threads /\ pc[spawned] = "none"
      BY <2>1, ParametersAssumption DEF kthread_run, Unstarted, Threads
    <3>2. TakesNone
      BY <2>1, <3>1 DEF kthread_run, TakesNone, shared
    <3> QED BY <3>2 DEF IndexNext
  <2>2. CASE ~kthread_run
    BY <1>2, <2>2 DEF Load, lab2_init_fails, lab2_init_oops, lab2_init, lab2_exit, ExitWith, Unload,
                      Stopped, vars, shared
  <2> QED BY <2>1, <2>2
<1>3. ASSUME NEW t \in Threads, sieve_fn(t)
      PROVE  [IndexNext]_<<taken, index_lock, global_index, pc>>
  <2>1. CASE Lock(t)
    BY <2>1 DEF IndexNext
  <2>2. CASE Read(t)
    BY <2>2 DEF Read, IndexNext, IndexInv, MIN_NUM
  <2>3. CASE Write(t)
    BY <2>3 DEF Write, IndexNext
  <2>4. CASE CrossOut(t) \/ CrossedOut(t) \/ Test(t) \/ Finish(t) \/ sbarrier(t)
    <3>1. TakesNone
      BY <2>4, Whereabouts
      DEF CrossOut, CrossedOut, Test, Finish, sbarrier, Enter, Arrive, Last, Wait, Leave, Clear,
          Return, shared, TakesNone
    <3> QED BY <3>1 DEF IndexNext
  <2> QED BY <1>3, <2>1, <2>2, <2>3, <2>4 DEF sieve_fn, compute
<1> QED BY <1>1, <1>2, <1>3 DEF Next

(***************************************************************************)
(* The invariant.                                                          *)
(***************************************************************************)

SInv == BInv /\ IndexInv /\ FlagInv /\ DataInv

\* Crossing out writes 0 into a place of numbers and nothing else.
LEMMA NumbersStayThere ==
  ASSUME numbers \in [0 .. upper_bound -> 0 .. upper_bound], NEW t \in Threads, CrossOut(t)
  PROVE  numbers' \in [0 .. upper_bound -> 0 .. upper_bound]
<1> DEFINE i == index(t)
<1>1. 0 \in 0 .. upper_bound
  BY ParametersAssumption
<1>2. numbers' = [numbers EXCEPT ![i] = 0]
  BY DEF CrossOut
<1> HIDE DEF i
<1>3. DOMAIN numbers' = 0 .. upper_bound
  BY <1>2
<1>4. ASSUME NEW k \in 0 .. upper_bound PROVE numbers'[k] \in 0 .. upper_bound
  <2>1. numbers'[k] = 0 \/ numbers'[k] = numbers[k]
    BY <1>2
  <2> QED BY <1>1, <2>1
<1>5. numbers' = [k \in 0 .. upper_bound |-> numbers'[k]]
  BY <1>2, <1>3
<1> QED BY <1>4, <1>5

\* The invariant holds before the module is loaded.
LEMMA SInvInit ==
  ASSUME Init
  PROVE  SInv
<1>1. BInv
  BY BInvInit DEF Init
<1>2. IndexInv /\ FlagInv /\ DataInv
  BY <1>1 DEF Init, InitWith, BInv, Typed, IndexInv, FlagInv, DataInv, Holding, EachIndexTakenOnce,
              MIN_NUM, RUNNING
<1> QED BY <1>1, <1>2 DEF SInv

\* Every step keeps what begin_flag tells of the threads.
LEMMA FlagStep ==
  ASSUME SInv, [Next]_vars
  PROVE  FlagInv'
<1> USE DEF SInv, FlagInv, At
<1>1. CASE UNCHANGED vars
  BY <1>1 DEF vars, admin, guards, shared
<1>2. CASE Load
  BY <1>2 DEF Load, lab2_init_fails, lab2_init_oops, lab2_init, kthread_run, shared, RUNNING
<1>3. CASE lab2_exit
  <2>1. numbers # Freed
    BY <1>3, ParametersAssumption DEF lab2_exit, ExitWith, Freed
  <2> QED BY <1>3, <2>1 DEF lab2_exit, ExitWith, RUNNING
<1>4. CASE Unload \/ Stopped
  BY <1>4 DEF Unload, Stopped, vars, admin, guards, shared
<1>5. ASSUME NEW t \in Threads, sieve_fn(t) PROVE FlagInv'
  <2>1. CASE Last(t)
    BY <2>1 DEF Last, admin, shared, BInv, Typed
  <2>2. CASE Enter(t) \/ Arrive(t) \/ Wait(t) \/ Leave(t) \/ Clear(t) \/ CrossedOut(t) \/ Test(t)
    BY <2>2 DEF Enter, Arrive, Wait, Leave, Clear, CrossedOut, Test, admin, shared
  <2>3. CASE Lock(t) \/ Read(t) \/ Write(t)
    BY <2>3 DEF Lock, Read, ReadIndex, Write, WriteIndex, admin
  <2>4. CASE CrossOut(t)
    <3>1. numbers \in [0 .. upper_bound -> 0 .. upper_bound]
      BY <2>4, ArraysThere DEF CrossOut, Computing
    <3>2. numbers' \in [0 .. upper_bound -> 0 .. upper_bound]
      BY <2>4, <3>1, NumbersStayThere DEF DataInv
    <3>3. numbers' # Freed
      BY <3>2, ParametersAssumption DEF Freed
    <3> QED BY <2>4, <3>2, <3>3 DEF CrossOut, admin
  <2>5. CASE Finish(t)
    <3>1. site[t] = 2 /\ Passed(t) = 2
      BY <2>5 DEF Finish, BInv, Placed, Passed, BeforeArriving
    <3>2. barrier_state >= 2
      BY <3>1 DEF BInv, Typed, Meeting
    <3> QED BY <2>5, <3>2 DEF Finish, admin, shared, RUNNING
  <2> QED BY <1>5, <2>1, <2>2, <2>3, <2>4, <2>5 DEF sieve_fn, compute, sbarrier
<1> QED BY <1>1, <1>2, <1>3, <1>4, <1>5 DEF Next

\* Every step keeps the types of the arrays, and the arrays until they are freed.
LEMMA DataStep ==
  ASSUME SInv, [Next]_vars
  PROVE  DataInv'
<1> USE DEF SInv, DataInv, At
<1>1. CASE UNCHANGED vars
  BY <1>1 DEF vars, admin, guards, shared
<1>2. CASE Load
  <2>1. CASE lab2_init
    <3>1. numbers' \in [0 .. upper_bound -> 0 .. upper_bound] /\ counters' \in [Threads -> Nat]
      BY <2>1 DEF lab2_init
    <3> QED BY <2>1, <3>1 DEF lab2_init
  <2>2. CASE ~lab2_init
    BY <1>2, <2>2 DEF Load, lab2_init_fails, lab2_init_oops, kthread_run, shared
  <2> QED BY <2>1, <2>2
<1>3. CASE lab2_exit \/ Unload \/ Stopped
  BY <1>3 DEF lab2_exit, ExitWith, Unload, Stopped, vars, admin, guards, shared
<1>5. ASSUME NEW t \in Threads, sieve_fn(t) PROVE DataInv'
  <2>1. CASE sbarrier(t) \/ CrossedOut(t) \/ Test(t) \/ Finish(t)
    BY <2>1 DEF sbarrier, Enter, Arrive, Last, Wait, Leave, Clear, CrossedOut, Test, Finish, admin,
                shared
  <2>3. CASE Lock(t) \/ Read(t) \/ Write(t)
    BY <2>3 DEF Lock, Read, ReadIndex, Write, WriteIndex, admin, IndexInv, MIN_NUM
  <2>4. CASE CrossOut(t)
    <3>1. numbers \in [0 .. upper_bound -> 0 .. upper_bound]
      BY <2>4, ArraysThere DEF CrossOut, Computing
    <3>2. numbers' \in [0 .. upper_bound -> 0 .. upper_bound]
      BY <2>4, <3>1, NumbersStayThere
    <3>3. counters' = Freed \/ counters' \in [Threads -> Nat]
      <4>1. CASE counters = Freed
        BY <2>4, <4>1 DEF CrossOut, Freed
      <4>2. CASE counters \in [Threads -> Nat]
        BY <2>4, <4>2 DEF CrossOut
      <4> QED BY <4>1, <4>2
    <3>4. local' \in [Threads -> Nat]
      BY <2>4 DEF CrossOut, IndexInv
    <3> QED BY <2>4, <3>2, <3>3, <3>4 DEF CrossOut, admin, guards
  <2> QED BY <1>5, <2>1, <2>3, <2>4 DEF sieve_fn, compute
<1> QED BY <1>1, <1>2, <1>3, <1>5 DEF Next

\* Every step keeps the invariant.
LEMMA SInvStep ==
  ASSUME SInv, [Next]_vars
  PROVE  SInv'
<1>1. BInv'
  BY StepIsShared, BInvStep DEF SInv
<1>2. IndexInv'
  <2>1. CASE IndexNext
    BY <1>1, <2>1, IndexStep DEF SInv, BInv, Typed
  <2>2. CASE UNCHANGED <<taken, index_lock, global_index, pc>>
    BY <2>2 DEF SInv, IndexInv, Holding, EachIndexTakenOnce
  <2> QED BY <2>1, <2>2, StepIsIndex DEF SInv
<1> QED BY <1>1, <1>2, FlagStep, DataStep DEF SInv

\* The invariant holds in every state of the Sundaram version.
LEMMA Inductive == Spec => []SInv
<1>1. Init => SInv
  BY SInvInit
<1>2. SInv /\ [Next]_vars => SInv'
  BY SInvStep
<1> QED BY <1>1, <1>2, PTL DEF Spec

(***************************************************************************)
(* The theorems.                                                           *)
(***************************************************************************)

\* Every variable keeps its type; in particular the guards of the barrier are
\* never decremented below zero.
THEOREM TypeCorrect == Spec => []TypeOK
<1>1. SInv => TypeOK
  <2> SUFFICES ASSUME SInv PROVE TypeOK
    OBVIOUS
  <2>1. In \in SUBSET Threads /\ Released \in SUBSET Threads
    BY DEF In, Released
  <2>2. Cardinality(In) \in 0 .. num_threads /\ Cardinality(Released) \in 0 .. num_threads
    BY <2>1, Counting
  <2>3. start_guard \in Nat
    BY <2>2, ParametersAssumption DEF SInv, BInv, Typed, Meeting, DataInv
  <2>4. end_guard \in Nat
    BY <2>2, ParametersAssumption DEF SInv, BInv, Typed, Leaving
  <2> QED BY <2>3, <2>4 DEF SInv, BInv, Typed, IndexInv, FlagInv, DataInv, TypeOK, Labels
<1> QED BY <1>1, Inductive, PTL

\* sbarrier, used twice with its two guards, is a barrier: no thread gets out of a
\* meeting before all num_threads threads have come to it.
THEOREM SundaramImplementsBarrier == Spec => ImplementsBarrier
<1>1. Init => Barrier!Init
  BY BarrierInit DEF Init
<1>2. SInv /\ [Next]_vars => [Barrier!Next]_(Barrier!vars)
  BY BarrierStep, StepIsShared DEF SInv
<1> QED BY <1>1, <1>2, Inductive, PTL DEF Spec, ImplementsBarrier, Barrier!Spec

\* A thread the barrier has released finds start_guard at num_threads until it has
\* seen it there: the others cannot begin the next meeting before.
THEOREM BarrierReusable == Spec => []ReleasedMayLeave
<1>1. SInv => ReleasedMayLeave
  BY BInvReleases DEF SInv
<1> QED BY <1>1, Inductive, PTL

\* index_lock makes the threads take distinct numbers.
THEOREM IndexTakenOnce == Spec => []EachIndexTakenOnce
<1>1. SInv => EachIndexTakenOnce
  BY DEF SInv, IndexInv
<1> QED BY <1>1, Inductive, PTL

\* When lab2_exit frees the arrays, threads may still be in the module, but only on
\* their way out of the second meeting.
THEOREM FreedAfterUse == Spec => []NoUseAfterFree
<1>1. SInv => NoUseAfterFree
  <2> SUFFICES ASSUME SInv, module = "exited", numbers = Freed, NEW t \in Threads
               PROVE  pc[t] = "none" \/ Passed(t) = 2 \/ (site[t] = 2 /\ pc[t] \in InBarrier)
    BY DEF NoUseAfterFree
  <2>1. barrier_state >= 2
    BY DEF SInv, FlagInv
  <2>2. Arrived(t) >= 2
    BY <2>1 DEF SInv, BInv, Typed, Meeting
  <2>3. site[t] = 2 /\ pc[t] \notin {"none", "enter", "arrive"}
    BY <2>2 DEF SInv, BInv, Typed, Arrived, BeforeArriving
  <2> QED BY <2>3 DEF Passed, BeforeArriving, InBarrier
<1> QED BY <1>1, Inductive, PTL

(***************************************************************************)
(* The primes.  Nothing but products is crossed out, and for every j that  *)
(* was taken all products with j are crossed out, or will be by the thread *)
(* that took it.                                                           *)
(***************************************************************************)

\* 2k + 1 is (2i + 1)(2j + 1) for k = Product(i, j).
Product(i, j) == i + j + 2 * i * j

\* A thread crosses out the products of the number it has taken with 1, 2, ...
CrossesProducts ==
  \A t \in Threads : /\ pc[t] = "put" => taken[t] >= 1 /\ local[t] = 1
                     /\ pc[t] = "cross" => taken[t] >= 1 /\ local[t] >= 1

OnlyProducts ==
  \A k \in 1 .. upper_bound :
    numbers[k] = k \/ (numbers[k] = 0 /\ \E i, j \in Nat \ {0} : k = Product(i, j))

\* The products of i and j are crossed out, or will be.
Covered(i, j) ==
  Product(i, j) <= upper_bound =>
    \/ numbers[Product(i, j)] = 0
    \/ \E t \in Threads : pc[t] = "cross" /\ taken[t] = j /\ local[t] <= i

AllProducts == \A j \in 1 .. upper_bound : j < global_index => \A i \in 1 .. j : Covered(i, j)

PInv ==
  /\ global_index >= 1
  /\ module = "loading" => global_index = 1
  /\ CrossesProducts
  /\ \A t \in Threads : site[t] = 2 => global_index > upper_bound
  /\ numbers # Freed => OnlyProducts /\ AllProducts

\* Products grow with their factors, and are greater than these.
LEMMA Products ==
  ASSUME NEW i \in Nat \ {0}, NEW j \in Nat \ {0}
  PROVE  /\ Product(i, j) \in Nat /\ Product(i, j) > i /\ Product(i, j) > j
         /\ Product(i, j) = Product(j, i)
         /\ 2 * Product(i, j) + 1 = (2 * i + 1) * (2 * j + 1)
         /\ \A l \in Nat \ {0} : l <= i => Product(l, j) <= Product(i, j)
<1>1. i * j \in Nat /\ i * j = j * i
  OBVIOUS
<1>2. Product(i, j) = i + j + 2 * (i * j) /\ Product(j, i) = j + i + 2 * (j * i)
  BY DEF Product
<1>3. (2 * i + 1) * (2 * j + 1) = 4 * (i * j) + 2 * i + 2 * j + 1
  OBVIOUS
<1>4. ASSUME NEW l \in Nat \ {0}, l <= i PROVE Product(l, j) <= Product(i, j)
  <2>1. l * j <= i * j /\ l * j \in Nat
    BY <1>4
  <2>2. Product(l, j) = l + j + 2 * (l * j)
    BY DEF Product
  <2> QED BY <1>1, <1>2, <1>4, <2>1, <2>2
<1> QED BY <1>1, <1>2, <1>3, <1>4

\* What a thread that computes can rely on.
LEMMA Data ==
  ASSUME SInv, PInv, NEW t \in Threads, pc[t] \in Computing, module \in {"spawning", "live", "exited"}
  PROVE  /\ numbers \in [0 .. upper_bound -> 0 .. upper_bound] /\ numbers # Freed
         /\ OnlyProducts /\ AllProducts
         /\ pc \in [Threads -> Labels]
         /\ taken \in [Threads -> Nat] /\ local \in [Threads -> Nat]
         /\ global_index \in Nat /\ upper_bound \in Nat /\ global_index >= 1
<1>1. numbers \in [0 .. upper_bound -> 0 .. upper_bound]
  BY ArraysThere DEF SInv
<1>2. numbers # Freed
  BY <1>1, ParametersAssumption DEF Freed
<1> QED BY <1>1, <1>2, ParametersAssumption DEF SInv, IndexInv, DataInv, PInv

\* No thread leaves or advances in its crossing out.
Still ==
  \A t \in Threads : pc[t] = "cross" =>
    pc'[t] = "cross" /\ UNCHANGED <<taken[t], local[t]>>

\* A step that crosses nothing out and takes nothing.
LEMMA QuietPInv ==
  ASSUME PInv, Still, UNCHANGED <<numbers, global_index>>,
         module' # "loading" \/ module = "loading",
         CrossesProducts', \A t \in Threads : site'[t] = 2 => global_index > upper_bound
  PROVE  PInv'
<1>1. OnlyProducts => OnlyProducts'
  BY DEF OnlyProducts
<1>2. \A i, j : Covered(i, j) => Covered(i, j)'
  BY DEF Covered, Still
<1>3. AllProducts => AllProducts'
  BY <1>2 DEF AllProducts
<1> QED BY <1>1, <1>3 DEF PInv

\* A thread that neither begins nor goes on crossing out.
LEMMA QuietThread ==
  ASSUME SInv, PInv, NEW t \in Threads, pc[t] \notin {"put", "cross"},
         NEW label \in Labels \ {"put", "cross"}, GoTo(t, label),
         UNCHANGED <<taken, local>>
  PROVE  Still /\ CrossesProducts'
<1>1. pc \in [Threads -> Labels] /\ taken \in [Threads -> Nat] /\ local \in [Threads -> Nat]
  BY DEF SInv, IndexInv, DataInv
<1>2. \A u \in Threads : pc'[u] \in {"put", "cross"} => u # t /\ pc'[u] = pc[u]
  BY <1>1 DEF GoTo
<1>3. \A u \in Threads : pc[u] = "cross" => pc'[u] = "cross"
  BY <1>1 DEF GoTo
<1> QED BY <1>2, <1>3 DEF Still, CrossesProducts, PInv

\* Loading keeps the invariant about products.
LEMMA PInvLoad ==
  ASSUME SInv, PInv, Load
  PROVE  PInv'
<1>1. global_index \in Nat /\ upper_bound \in Nat
  BY ParametersAssumption DEF SInv, IndexInv
<1>2. CASE lab2_init
  <2>1. \A t \in Threads : pc'[t] = "none" /\ site'[t] = 1
    BY <1>2 DEF lab2_init, SInv, BInv, NotLoaded, Placed
  <2>2. global_index' = 1 /\ module' = "spawning"
    BY <1>2 DEF lab2_init, PInv
  <2>3. AllProducts'
    BY <1>1, <2>2 DEF AllProducts
  <2>4. OnlyProducts'
    BY <1>1, <1>2 DEF lab2_init, OnlyProducts
  <2> QED BY <2>1, <2>2, <2>3, <2>4 DEF PInv, CrossesProducts
<1>3. CASE lab2_init_fails \/ lab2_init_oops
  <2>1. Still /\ CrossesProducts'
    BY <1>3 DEF lab2_init_fails, lab2_init_oops, Still, PInv, CrossesProducts, shared
  <2> QED BY <1>1, <1>3, <2>1, QuietPInv DEF lab2_init_fails, lab2_init_oops, PInv, shared
<1>4. CASE kthread_run
  <2>1. spawned \in Threads /\ pc[spawned] = "none"
    BY <1>4, ParametersAssumption DEF kthread_run, SInv, BInv, Typed, Unstarted, Threads
  <2>2. UNCHANGED <<taken, local, numbers, global_index, site>> /\ module' # "loading"
    BY <1>4 DEF kthread_run, shared
  <2>3. Still /\ CrossesProducts'
    <3>1. CASE UNCHANGED pc
      BY <2>2, <3>1 DEF Still, PInv, CrossesProducts
    <3>2. CASE GoTo(spawned, "enter")
      BY <2>1, <2>2, <3>2, QuietThread DEF Labels, InBarrier
    <3> QED BY <1>4, <3>1, <3>2 DEF kthread_run, GoTo
  <2> QED BY <1>1, <2>2, <2>3, QuietPInv DEF PInv
<1> QED BY <1>2, <1>3, <1>4 DEF Load

\* So does unloading.
LEMMA PInvUnload ==
  ASSUME SInv, PInv, lab2_exit \/ Unload \/ UNCHANGED vars
  PROVE  PInv'
<1>2. /\ UNCHANGED <<global_index, taken, local, pc, site>>
      /\ module' # "loading" \/ module' = module
      /\ numbers' = Freed \/ numbers' = numbers
  BY DEF lab2_exit, ExitWith, Unload, vars, shared, admin
<1>3. Still /\ CrossesProducts'
  BY <1>2 DEF Still, CrossesProducts, PInv
<1>4. CASE numbers' = numbers
  BY <1>2, <1>3, <1>4, QuietPInv DEF PInv
<1>5. CASE numbers' = Freed
  BY <1>2, <1>3, <1>5 DEF PInv
<1> QED BY <1>2, <1>4, <1>5

\* A step of a thread that is not crossing out, nor about to.
LEMMA PInvQuietThread ==
  ASSUME SInv, PInv, NEW t \in Threads, sbarrier(t) \/ Lock(t) \/ Test(t) \/ Finish(t)
  PROVE  PInv'
<1>1. global_index \in Nat /\ upper_bound \in Nat /\ site \in [Threads -> {1, 2}]
  BY ParametersAssumption DEF SInv, IndexInv, BInv, Typed
<1>2. UNCHANGED <<global_index, taken, local, numbers, module>>
  BY DEF sbarrier, Enter, Arrive, Last, Wait, Leave, Clear, Lock, Test, Finish, shared, admin
<1>3. /\ pc[t] \notin {"put", "cross"}
      /\ \E label \in Labels \ {"put", "cross"} : GoTo(t, label)
  BY DEF sbarrier, Enter, Arrive, Last, Wait, Leave, Clear, Lock, Test, Finish, At, Return, Labels,
         InBarrier, Computing
<1>4. Still /\ CrossesProducts'
  BY <1>2, <1>3, QuietThread
<1>5. \A u \in Threads : site'[u] = 2 => global_index > upper_bound
  <2>1. CASE Test(t)
    BY <1>1, <2>1 DEF Test, PInv
  <2>2. CASE UNCHANGED site
    BY <2>2 DEF PInv
  <2> QED BY <2>1, <2>2 DEF sbarrier, Enter, Arrive, Last, Wait, Leave, Clear, Lock, Finish
<1> QED BY <1>1, <1>2, <1>4, <1>5, QuietPInv

\* So does a thread that takes the next index.
LEMMA PInvRead ==
  ASSUME SInv, PInv, NEW t \in Threads, Read(t)
  PROVE  PInv'
<1>0. /\ global_index \in Nat /\ global_index >= 1 /\ pc \in [Threads -> Labels]
      /\ taken \in [Threads -> Nat] /\ local \in [Threads -> Nat]
  BY Data DEF Read, At, Computing
<1>1. /\ pc[t] = "fetch" /\ pc' = [pc EXCEPT ![t] = "put"]
      /\ taken' = [taken EXCEPT ![t] = global_index]
      /\ local' = [local EXCEPT ![t] = 1]
      /\ UNCHANGED <<numbers, global_index, site, module>>
  BY DEF Read, At, ReadIndex, GoTo, MIN_NUM, admin
<1>2. Still
  BY <1>0, <1>1 DEF Still
<1>3. CrossesProducts'
  <2>1. ASSUME NEW u \in Threads, u # t
        PROVE  pc'[u] = pc[u] /\ taken'[u] = taken[u] /\ local'[u] = local[u]
    BY <1>0, <1>1, <2>1
  <2>2. pc'[t] = "put" /\ taken'[t] = global_index /\ local'[t] = 1
    BY <1>0, <1>1
  <2> QED BY <1>0, <2>1, <2>2 DEF CrossesProducts, PInv
<1> QED BY <1>0, <1>1, <1>2, <1>3, QuietPInv DEF PInv

\* The products with a number that is taken are covered by the thread that has taken it.
LEMMA PInvWrite ==
  ASSUME SInv, PInv, NEW t \in Threads, Write(t)
  PROVE  PInv'
<1>0. /\ numbers # Freed /\ OnlyProducts /\ AllProducts /\ global_index \in Nat
      /\ upper_bound \in Nat /\ global_index >= 1 /\ pc \in [Threads -> Labels]
      /\ taken \in [Threads -> Nat] /\ local \in [Threads -> Nat]
  BY Data DEF Write, WriteIndex, At, Computing
<1>1. /\ pc[t] = "put" /\ pc' = [pc EXCEPT ![t] = "cross"]
      /\ global_index' = taken[t] + 1
      /\ UNCHANGED <<numbers, taken, local, site, module>> /\ module # "loading"
  BY DEF Write, WriteIndex, At, GoTo, admin
<1>2. taken[t] = global_index /\ local[t] = 1
  BY <1>1 DEF SInv, IndexInv, PInv, CrossesProducts
<1>3. /\ pc'[t] = "cross"
      /\ \A u \in Threads : u # t => pc'[u] = pc[u]
      /\ \A u \in Threads : pc[u] = "cross" => pc'[u] = "cross"
  BY <1>0, <1>1
<1>4. CrossesProducts'
  BY <1>0, <1>1, <1>2, <1>3 DEF CrossesProducts, PInv
<1>5. \A i, j : Covered(i, j) => Covered(i, j)'
  BY <1>1, <1>3 DEF Covered
<1>6. PICK g \in Nat : g = global_index
  BY <1>0
<1>7. AllProducts'
  <2> SUFFICES ASSUME NEW j \in 1 .. upper_bound, j < global_index', NEW i \in 1 .. j
               PROVE  Covered(i, j)'
    BY DEF AllProducts
  <2>1. CASE j < g
    BY <1>0, <1>5, <1>6, <2>1 DEF AllProducts
  <2>2. CASE j = g
    <3>1. local[t] <= i /\ taken[t] = j
      BY <1>0, <1>2, <1>6, <2>2
    <3> QED BY <1>1, <1>3, <3>1 DEF Covered
  <2>3. j < g \/ j = g
    BY <1>0, <1>1, <1>2, <1>6
  <2> QED BY <2>1, <2>2, <2>3
<1>8. OnlyProducts'
  BY <1>0, <1>1 DEF OnlyProducts
<1>9. \A u \in Threads : site'[u] = 2 => global_index' > upper_bound
  BY <1>0, <1>1, <1>2 DEF PInv
<1> QED BY <1>0, <1>1, <1>2, <1>4, <1>7, <1>8, <1>9 DEF PInv

\* So does a thread that crosses out a product.
LEMMA PInvCrossOut ==
  ASSUME SInv, PInv, NEW t \in Threads, CrossOut(t)
  PROVE  PInv'
<1>0. /\ numbers \in [0 .. upper_bound -> 0 .. upper_bound] /\ numbers # Freed
      /\ OnlyProducts /\ AllProducts /\ global_index \in Nat /\ upper_bound \in Nat
      /\ taken \in [Threads -> Nat] /\ local \in [Threads -> Nat]
  BY Data DEF CrossOut, At, Computing
<1>1. PICK a \in Nat \ {0}, b \in Nat \ {0} : a = local[t] /\ b = taken[t]
  <2>1. pc[t] = "cross"
    BY DEF CrossOut, At
  <2>2. local[t] >= 1 /\ taken[t] >= 1
    BY <2>1 DEF PInv, CrossesProducts
  <2> QED BY <1>0, <2>2
<1>2. /\ pc[t] = "cross" /\ module # "loading"
      /\ Product(a, b) <= upper_bound
      /\ numbers' = [numbers EXCEPT ![Product(a, b)] = 0]
      /\ local' = [local EXCEPT ![t] = a + 1]
      /\ UNCHANGED <<taken, pc, site, module, global_index>>
  <2>1. index(t) = Product(a, b)
    BY <1>1 DEF index, Product
  <2>2. /\ pc[t] = "cross" /\ module # "loading" /\ index(t) <= upper_bound
        /\ numbers' = [numbers EXCEPT ![index(t)] = 0]
        /\ local' = [local EXCEPT ![t] = @ + 1]
        /\ UNCHANGED <<taken, pc, site, module, global_index>>
    BY DEF CrossOut, At, admin
  <2>3. local' = [local EXCEPT ![t] = a + 1]
    BY <1>1, <2>2
  <2>4. numbers' = [numbers EXCEPT ![Product(a, b)] = 0] /\ Product(a, b) <= upper_bound
    BY <2>1, <2>2
  <2>5. pc[t] = "cross" /\ module # "loading"
    BY <2>2, Zenon
  <2>6. UNCHANGED <<taken, pc, site, module, global_index>>
    BY <2>2, Zenon
  <2> QED BY <2>3, <2>4, <2>5, <2>6, Zenon
<1>3. Product(a, b) \in 1 .. upper_bound
  <2>1. Product(a, b) <= upper_bound
    BY <1>2, Zenon
  <2>2. Product(a, b) \in Nat /\ Product(a, b) >= 1
    BY Products
  <2> QED BY <1>0, <2>1, <2>2
<1>4. CrossesProducts'
  <2>1. local'[t] = a + 1 /\ \A u \in Threads : u # t => local'[u] = local[u]
    BY <1>0, <1>2
  <2> QED BY <1>1, <1>2, <2>1 DEF CrossesProducts, PInv
<1>5. OnlyProducts'
  <2> SUFFICES ASSUME NEW k \in 1 .. upper_bound
               PROVE  numbers'[k] = k \/ (numbers'[k] = 0 /\ \E i, j \in Nat \ {0} : k = Product(i, j))
    BY <1>2 DEF OnlyProducts
  <2>1. CASE k = Product(a, b)
    BY <1>0, <1>2, <1>3, <2>1
  <2>2. CASE k # Product(a, b)
    <3>1. numbers'[k] = numbers[k]
      BY <1>0, <1>2, <2>2
    <3> QED BY <1>0, <3>1 DEF OnlyProducts
  <2> QED BY <2>1, <2>2
<1>6. ASSUME NEW i \in Nat \ {0}, NEW j \in Nat \ {0}, Covered(i, j) PROVE Covered(i, j)'
  <2> SUFFICES ASSUME Product(i, j) <= upper_bound
               PROVE  \/ numbers'[Product(i, j)] = 0
                      \/ \E u \in Threads : pc[u] = "cross" /\ taken[u] = j /\ local'[u] <= i
    BY <1>2 DEF Covered
  <2>1. Product(i, j) \in 0 .. upper_bound
    BY <1>0, Products
  <2>2. CASE numbers[Product(i, j)] = 0
    BY <1>0, <1>2, <2>1, <2>2
  <2>3. ASSUME NEW u \in Threads, pc[u] = "cross", taken[u] = j, local[u] <= i
        PROVE  \/ numbers'[Product(i, j)] = 0
               \/ \E v \in Threads : pc[v] = "cross" /\ taken[v] = j /\ local'[v] <= i
    <3>1. CASE u # t
      <4>1. local'[u] = local[u]
        BY <1>0, <1>2, <3>1
      <4> QED BY <2>3, <4>1
    <3>2. CASE u = t /\ a = i
      <4>1. Product(a, b) = Product(i, j)
        BY <1>1, <2>3, <3>2
      <4>2. numbers'[Product(a, b)] = 0
        BY <1>0, <1>2, <1>3
      <4> QED BY <4>1, <4>2
    <3>3. CASE u = t /\ a # i
      <4>1. local'[t] = a + 1 /\ a <= i
        BY <1>0, <1>1, <1>2, <2>3, <3>3
      <4>2. local'[t] <= i
        BY <3>3, <4>1
      <4> QED BY <2>3, <3>3, <4>2
    <3> QED BY <3>1, <3>2, <3>3
  <2> QED BY <1>6, <2>2, <2>3 DEF Covered
<1>7. AllProducts'
  <2> SUFFICES ASSUME NEW j \in 1 .. upper_bound, j < global_index, NEW i \in 1 .. j
               PROVE  Covered(i, j)'
    BY <1>2 DEF AllProducts
  <2>1. j \in Nat \ {0} /\ i \in Nat \ {0} /\ Covered(i, j)
    BY <1>0 DEF AllProducts
  <2> QED BY <1>6, <2>1
<1> QED BY <1>2, <1>4, <1>5, <1>7 DEF PInv

\* A thread stops when its products are beyond the upper bound, or those of others.
LEMMA PInvCrossedOut ==
  ASSUME SInv, PInv, NEW t \in Threads, CrossedOut(t)
  PROVE  PInv'
<1>0. /\ numbers # Freed /\ OnlyProducts /\ AllProducts /\ global_index \in Nat
      /\ pc \in [Threads -> Labels] /\ upper_bound \in Nat
      /\ taken \in [Threads -> Nat] /\ local \in [Threads -> Nat]
  BY Data DEF CrossedOut, At, Computing
<1>1. /\ pc' = [pc EXCEPT ![t] = "test"] /\ module # "loading" /\ pc[t] = "cross"
      /\ UNCHANGED <<numbers, local, taken, site, module, global_index>>
  BY DEF CrossedOut, At, GoTo, shared, admin
<1>2. PICK a \in Nat \ {0}, b \in Nat \ {0} : a = local[t] /\ b = taken[t]
  <2>1. local[t] >= 1 /\ taken[t] >= 1
    BY <1>1 DEF PInv, CrossesProducts
  <2> QED BY <1>0, <2>1
<1>3. a > b \/ Product(a, b) > upper_bound
  BY <1>2 DEF CrossedOut, index, Product
<1>4. CrossesProducts'
  <2>1. \A u \in Threads : pc'[u] \in {"put", "cross"} => pc'[u] = pc[u]
    BY <1>0, <1>1
  <2> QED BY <1>1, <2>1 DEF CrossesProducts, PInv
<1>5. ASSUME NEW j \in Nat \ {0}, NEW i \in 1 .. j, Covered(i, j) PROVE Covered(i, j)'
  <2> SUFFICES ASSUME Product(i, j) <= upper_bound
               PROVE  \/ numbers[Product(i, j)] = 0
                      \/ \E u \in Threads : pc'[u] = "cross" /\ taken[u] = j /\ local[u] <= i
    BY <1>1 DEF Covered
  <2>1. i \in Nat \ {0}
    OBVIOUS
  <2>2. ASSUME NEW u \in Threads, pc[u] = "cross", taken[u] = j, local[u] <= i
        PROVE  u # t
    <3> SUFFICES ASSUME u = t PROVE FALSE
      OBVIOUS
    <3>1. b = j /\ a <= i
      BY <1>2, <2>2
    <3>2. Product(a, b) <= Product(i, j)
      BY <2>1, <3>1, Products
    <3>3. Product(a, b) \in Nat /\ Product(i, j) \in Nat
      BY <2>1, Products
    <3>4. a <= b
      BY <3>1
    <3> QED BY <1>0, <1>3, <3>2, <3>3, <3>4
  <2>3. \A u \in Threads : u # t => pc'[u] = pc[u]
    BY <1>0, <1>1
  <2> QED BY <1>5, <2>2, <2>3 DEF Covered
<1>6. AllProducts'
  <2> SUFFICES ASSUME NEW j \in 1 .. upper_bound, j < global_index, NEW i \in 1 .. j
               PROVE  Covered(i, j)'
    BY <1>1 DEF AllProducts
  <2>1. j \in Nat \ {0} /\ Covered(i, j)
    BY <1>0 DEF AllProducts
  <2> QED BY <1>5, <2>1
<1>7. OnlyProducts'
  BY <1>0, <1>1 DEF OnlyProducts
<1> QED BY <1>1, <1>4, <1>6, <1>7 DEF PInv

\* Every step keeps the invariant about products.
LEMMA PInvStep ==
  ASSUME SInv, PInv, [Next]_vars
  PROVE  PInv'
<1>1. CASE Load
  BY <1>1, PInvLoad
<1>2. CASE lab2_exit \/ Unload \/ UNCHANGED vars
  BY <1>2, PInvUnload
<1>3. CASE Stopped
  BY <1>3, PInvUnload DEF Stopped
<1>4. ASSUME NEW t \in Threads, sieve_fn(t) PROVE PInv'
  BY <1>4, PInvQuietThread, PInvRead, PInvWrite, PInvCrossOut, PInvCrossedOut
  DEF sieve_fn, compute
<1> QED BY <1>1, <1>2, <1>3, <1>4 DEF Next

\* Every number is even or odd.
LEMMA EvenOrOdd ==
  ASSUME NEW d \in Nat
  PROVE  \E i \in Nat, r \in {0, 1} : d = 2 * i + r
<1>1. d \div 2 \in Nat /\ d % 2 \in {0, 1}
  OBVIOUS
<1>2. d = 2 * (d \div 2) + (d % 2)
  OBVIOUS
<1> QED BY <1>1, <1>2

\* The odd composites are those of the products.
LEMMA OddComposites ==
  ASSUME NEW k \in Nat \ {0}
  PROVE  ~IsPrime(2 * k + 1) <=> \E i, j \in Nat \ {0} : i <= j /\ k = Product(i, j)
<1> DEFINE n == 2 * k + 1
<1>1. ASSUME NEW i \in Nat \ {0}, NEW j \in Nat \ {0}, k = Product(i, j) PROVE ~IsPrime(n)
  <2>1. n = (2 * j + 1) * (2 * i + 1)
    BY <1>1, Products
  <2>2. Divides(2 * i + 1, n) /\ 2 * i + 1 \in Nat \ {0} /\ n \in Nat
    <3> DEFINE d == 2 * i + 1   e == 2 * j + 1
    <3>1. n = e * d /\ e \in Nat /\ d \in Nat \ {0} /\ n \in Nat
      BY <2>1
    <3> HIDE DEF d, e, n
    <3>2. Divides(d, n)
      BY <3>1 DEF Divides
    <3> QED BY <3>1, <3>2 DEF d
  <2>3. n % (2 * i + 1) = 0
    <3> HIDE DEF n
    <3> QED BY <2>2, ZeroRemainder
  <2>4. i < k
    BY <1>1, Products
  <2>5. 2 * i + 1 \in 2 .. n - 1
    BY <2>4
  <2> QED BY <2>3, <2>5 DEF IsPrime
<1>2. ASSUME ~IsPrime(n) PROVE \E i, j \in Nat \ {0} : i <= j /\ k = Product(i, j)
  <2>1. PICK d \in 2 .. n - 1 : n % d = 0
    <3>1. n >= 2
      OBVIOUS
    <3> HIDE DEF n
    <3> QED BY <1>2, <3>1 DEF IsPrime
  <2>2. Divides(d, n) /\ d \in Nat \ {0}
    <3>1. d \in Nat \ {0} /\ n \in Nat
      OBVIOUS
    <3> HIDE DEF n
    <3> QED BY <2>1, <3>1, ZeroRemainder
  <2>3. PICK m \in Nat : n = m * d
    BY <2>2 DEF Divides
  <2>4. PICK i \in Nat, r \in {0, 1} : d = 2 * i + r
    <3>1. d \in Nat
      OBVIOUS
    <3> QED BY <3>1, EvenOrOdd
  <2>5. PICK j \in Nat, q \in {0, 1} : m = 2 * j + q
    BY EvenOrOdd
  <2>6. r = 1
    <3> SUFFICES ASSUME r = 0 PROVE FALSE
      OBVIOUS
    <3>1. n = 2 * (m * i) /\ m * i \in Nat
      BY <2>3, <2>4
    <3> QED BY <3>1
  <2>7. q = 1
    <3> SUFFICES ASSUME q = 0 PROVE FALSE
      OBVIOUS
    <3>1. n = 2 * (j * d) /\ j * d \in Nat
      BY <2>3, <2>5
    <3> QED BY <3>1
  <2>8. i \in Nat \ {0}
    BY <2>4, <2>6
  <2>9. j \in Nat \ {0}
    <3> SUFFICES ASSUME j = 0 PROVE FALSE
      OBVIOUS
    <3>1. n = d
      BY <2>3, <2>5, <2>7
    <3> QED BY <3>1
  <2>10. k = Product(i, j) /\ k = Product(j, i)
    <3>1. 2 * Product(j, i) + 1 = (2 * j + 1) * (2 * i + 1)
      BY <2>8, <2>9, Products
    <3>2. n = (2 * j + 1) * (2 * i + 1)
      BY <2>3, <2>4, <2>5, <2>6, <2>7
    <3>3. Product(j, i) \in Nat /\ Product(j, i) = Product(i, j)
      BY <2>8, <2>9, Products
    <3> QED BY <3>1, <3>2, <3>3
  <2>11. CASE i <= j
    BY <2>8, <2>9, <2>10, <2>11
  <2>12. CASE j <= i
    BY <2>8, <2>9, <2>10, <2>12
  <2> QED BY <2>11, <2>12
<1> QED BY <1>1, <1>2

\* Once all threads have come to the second barrier, every j has been crossed out from.
LEMMA PrimesWhenMet ==
  ASSUME SInv, PInv, barrier_state >= 2, numbers # Freed, NEW t \in Threads,
         NEW k \in MIN_NUM .. upper_bound
  PROVE  numbers[k] = IF IsPrime(2 * k + 1) THEN k ELSE 0
<1>0. k \in Nat \ {0} /\ k \in 1 .. upper_bound /\ upper_bound \in Nat
  BY ParametersAssumption DEF MIN_NUM
<1>1. ASSUME NEW u \in Threads PROVE pc[u] # "cross" /\ site[u] = 2
  <2>1. Arrived(u) >= 2
    BY DEF SInv, BInv, Meeting, Typed
  <2> QED BY <2>1 DEF Arrived, BeforeArriving, SInv, BInv, Typed, Placed, Computing
<1>2. global_index > upper_bound /\ global_index \in Nat /\ OnlyProducts /\ AllProducts
  BY <1>1 DEF PInv, SInv, IndexInv
<1>3. CASE IsPrime(2 * k + 1)
  <2>1. ASSUME NEW i \in Nat \ {0}, NEW j \in Nat \ {0} PROVE k # Product(i, j)
    <3>1. Product(i, j) = Product(j, i)
      BY Products
    <3>2. i <= j \/ j <= i
      OBVIOUS
    <3> QED BY <1>0, <1>3, <3>1, <3>2, OddComposites
  <2> QED BY <1>0, <1>2, <1>3, <2>1 DEF OnlyProducts
<1>4. CASE ~IsPrime(2 * k + 1)
  <2>1. PICK i \in Nat \ {0}, j \in Nat \ {0} : i <= j /\ k = Product(i, j)
    BY <1>0, <1>4, OddComposites
  <2>2. j < k
    BY <2>1, Products
  <2>3. j \in 1 .. upper_bound /\ j < global_index /\ i \in 1 .. j
    BY <1>0, <1>2, <2>1, <2>2
  <2>4. Covered(i, j)
    BY <1>2, <2>3 DEF AllProducts
  <2>5. numbers[k] = 0
    BY <1>0, <1>1, <2>1, <2>4 DEF Covered
  <2> QED BY <1>4, <2>5
<1> QED BY <1>3, <1>4

\* The sieve of Sundaram leaves the k for which 2k + 1 is prime, whichever threads take
\* which j and cross out at the same time.
THEOREM LeavesOddPrimes == Spec => []OddPrimesLeft
<1>1. Init => PInv
  BY DEF Init, InitWith, PInv, CrossesProducts, MIN_NUM
<1>2. SInv /\ PInv /\ [Next]_vars => PInv'
  BY PInvStep
<1>3. SInv /\ PInv => OddPrimesLeft
  <2> SUFFICES ASSUME SInv, PInv, NEW t \in Threads, Passed(t) = 2 PROVE barrier_state >= 2
    BY PrimesWhenMet DEF OddPrimesLeft
  <2> QED BY DEF SInv, BInv, Meeting, Typed
<1> QED BY <1>1, <1>2, <1>3, Inductive, PTL DEF Spec

(***************************************************************************)
(* What lab2_exit reports.                                                 *)
(***************************************************************************)

RInv == (numbers # Freed => ValidParameters) /\ ReportRight

\* The odd primes are 2k + 1 for the k that are left, and 2 is the only other one.
LEMMA CountsRight ==
  ASSUME upper_bound >= 2,
         \A k \in MIN_NUM .. upper_bound : numbers[k] = IF IsPrime(2 * k + 1) THEN k ELSE 0
  PROVE  /\ prime_nums = Cardinality({n \in 2 .. 2 * upper_bound + 1 : IsPrime(n)})
         /\ 2 * upper_bound + 1 - prime_nums
              = Cardinality({n \in 1 .. 2 * upper_bound + 1 : ~IsPrime(n)})
<1> DEFINE top == 2 * upper_bound + 1
           K == {k \in 1 .. upper_bound : IsPrime(2 * k + 1)}
           f == [k \in K |-> 2 * k + 1]
           O == {2 * k + 1 : k \in K}
           P == {n \in 2 .. top : IsPrime(n)}
           Q == {n \in 1 .. top : ~IsPrime(n)}
<1>1. upper_bound \in Nat /\ top \in Nat /\ top >= 5
  BY ParametersAssumption
<1>2. {k \in MIN_NUM .. upper_bound : numbers[k] # 0} = K
  BY <1>1 DEF MIN_NUM
<1>3. IsFiniteSet(K) /\ Cardinality(K) \in Nat
  <2>1. IsFiniteSet(1 .. upper_bound) /\ K \in SUBSET (1 .. upper_bound)
    BY <1>1, FS_Interval
  <2> HIDE DEF K
  <2> QED BY <2>1, FS_Subset, FS_CardinalityType
<1>4. IsFiniteSet(O) /\ Cardinality(O) = Cardinality(K)
  <2>1. \A a, b \in K : a \in Nat /\ b \in Nat
    BY <1>1
  <2> HIDE DEF K
  <2>2. f \in [K -> O]
    OBVIOUS
  <2>3. \A a, b \in K : f[a] = f[b] => a = b
    BY <2>1
  <2>4. \A o \in O : \E k \in K : f[k] = o
    OBVIOUS
  <2> HIDE DEF f, O
  <2>5. f \in Bijection(K, O)
    BY <2>2, <2>3, <2>4 DEF Bijection, Injection, Surjection, IsInjective
  <2>6. ExistsBijection(K, O)
    BY <2>5 DEF ExistsBijection
  <2> QED BY <1>3, <2>6, FS_Bijection
<1>5. 2 \notin O
  BY <1>1
<1>6. P = O \cup {2}
  <2>1. 2 \in P
    BY <1>1 DEF IsPrime
  <2>2. ASSUME NEW o \in O PROVE o \in P
    <3>1. PICK k \in 1 .. upper_bound : IsPrime(2 * k + 1) /\ o = 2 * k + 1
      OBVIOUS
    <3>2. o \in 2 .. top
      BY <1>1, <3>1
    <3> QED BY <3>1, <3>2
  <2>3. ASSUME NEW n \in P, n # 2 PROVE n \in O
    <3>1. n \in Nat /\ n > 2 /\ n <= top /\ IsPrime(n)
      BY <1>1, <2>3
    <3>2. PICK k \in Nat, r \in {0, 1} : n = 2 * k + r
      BY <3>1, EvenOrOdd
    <3>3. r = 1
      <4> SUFFICES ASSUME r = 0 PROVE FALSE
        OBVIOUS
      <4>1. n % 2 = 0 /\ 2 \in 2 .. n - 1
        BY <3>1, <3>2
      <4> QED BY <3>1, <4>1 DEF IsPrime
    <3>4. k \in 1 .. upper_bound /\ n = 2 * k + 1
      BY <1>1, <3>1, <3>2, <3>3
    <3> QED BY <3>1, <3>4
  <2> HIDE DEF O, P
  <2> QED BY <2>1, <2>2, <2>3
<1>7. Q = (1 .. top) \ P /\ (1 .. top) \cap P = P
  BY <1>1 DEF IsPrime
<1>8. prime_nums = 1 + Cardinality(K)
  BY <1>2 DEF prime_nums
<1>9. IsFiniteSet(1 .. top) /\ Cardinality(1 .. top) = top
  BY <1>1, FS_Interval
<1> HIDE DEF top, K, O, P, Q
<1>10. Cardinality(P) = Cardinality(K) + 1
  <2>1. Cardinality(O \cup {2}) = Cardinality(O) + 1
    BY <1>4, <1>5, FS_AddElement
  <2> QED BY <1>4, <1>6, <2>1
<1>11. Cardinality(Q) = top - Cardinality(P)
  <2>1. Cardinality((1 .. top) \ P) = Cardinality(1 .. top) - Cardinality((1 .. top) \cap P)
    BY <1>9, FS_Difference
  <2> QED BY <1>7, <1>9, <2>1
<1>12. prime_nums = Cardinality(P) /\ top - prime_nums = Cardinality(Q)
  <2>1. prime_nums = Cardinality(P)
    BY <1>3, <1>8, <1>10
  <2> QED BY <1>11, <2>1
<1>13. /\ prime_nums = Cardinality({n \in 2 .. top : IsPrime(n)})
       /\ top - prime_nums = Cardinality({n \in 1 .. top : ~IsPrime(n)})
  BY <1>12, Zenon DEF P, Q
<1>14. 2 * upper_bound + 1 - prime_nums = top - prime_nums
  <2>1. prime_nums \in Nat
    BY <1>3, <1>8
  <2> QED BY <2>1, ParametersAssumption DEF top
<1> QED BY <1>13, <1>14, Zenon DEF top

\* What lab2_exit reports fits the sieve it finds.
LEMMA RInvExit ==
  ASSUME SInv, PInv, RInv, lab2_exit
  PROVE  RInv'
<1>1. numbers # Freed
  <2>1. numbers \in [0 .. upper_bound -> 0 .. upper_bound]
    BY DEF lab2_exit, ExitWith, SInv, FlagInv
  <2> QED BY <2>1, ParametersAssumption DEF Freed
<1>2. CASE begin_flag = RUNNING
  BY <1>2 DEF lab2_exit, ExitWith, RInv, ReportRight, ValidParameters
<1>3. CASE begin_flag # RUNNING
  <2>1. barrier_state >= 2 /\ barrier_state \in Nat
    BY <1>3 DEF lab2_exit, ExitWith, SInv, FlagInv, BInv, Typed
  <2>2. 0 \in Threads /\ upper_bound >= 2
    BY <1>1, ParametersAssumption DEF RInv, ValidParameters, MIN_THREADS, MIN_PRIME, Threads
  <2>3. \A k \in MIN_NUM .. upper_bound : numbers[k] = IF IsPrime(2 * k + 1) THEN k ELSE 0
    BY <1>1, <2>1, <2>2, PrimesWhenMet
  <2>4. /\ numbers' = Freed
        /\ report' = [primes |-> prime_nums, non_primes |-> 2 * upper_bound + 1 - prime_nums,
                      unnecessary |-> count_sum - best_count]
    BY <1>3, <2>1 DEF lab2_exit, ExitWith
  <2>5. ReportRight'
    BY <2>2, <2>3, <2>4, CountsRight DEF ReportRight
  <2> QED BY <2>4, <2>5 DEF RInv
<1> QED BY <1>2, <1>3

\* Every step keeps the invariant about the reports.
LEMMA RInvStep ==
  ASSUME SInv, PInv, RInv, [Next]_vars
  PROVE  RInv'
<1>1. ASSUME numbers # Freed, UNCHANGED report PROVE RInv'
  BY <1>1 DEF RInv, ReportRight, ValidParameters
<1>2. ASSUME UNCHANGED <<numbers, report>> PROVE RInv'
  BY <1>2 DEF RInv, ReportRight, ValidParameters
<1>3. CASE UNCHANGED vars \/ Stopped \/ Unload
  BY <1>2, <1>3 DEF vars, shared, admin, Stopped, Unload
<1>4. CASE lab2_init
  BY <1>4 DEF lab2_init, RInv, ReportRight, ValidParameters
<1>5. CASE Load /\ ~lab2_init
  BY <1>2, <1>5 DEF Load, lab2_init_fails, lab2_init_oops, kthread_run, shared
<1>6. CASE lab2_exit
  BY <1>6, RInvExit
<1>7. ASSUME NEW t \in Threads, sieve_fn(t) PROVE RInv'
  <2>1. CASE CrossOut(t)
    <3>1. numbers # Freed
      BY <2>1, Data DEF CrossOut, At, Computing
    <3> QED BY <1>1, <2>1, <3>1 DEF CrossOut, admin
  <2>2. CASE sbarrier(t) \/ Finish(t) \/ Test(t) \/ CrossedOut(t)
    BY <1>2, <2>2 DEF sbarrier, Enter, Arrive, Last, Wait, Leave, Clear, Finish, Test, CrossedOut,
                      shared, admin
  <2>3. CASE Lock(t) \/ Read(t) \/ Write(t)
    BY <1>2, <2>3 DEF Lock, Read, ReadIndex, Write, WriteIndex, admin
  <2> QED BY <1>7, <2>1, <2>2, <2>3 DEF sieve_fn, compute
<1> QED BY <1>3, <1>4, <1>5, <1>6, <1>7 DEF Next

\* lab2_exit of the Sundaram version reports how many primes there are up to
\* 2 * upper_bound + 1, though its numbers stand for the odd ones only, and how many others.
THEOREM ReportsRight == Spec => []ReportRight
<1>1. Init => PInv /\ RInv
  BY DEF Init, InitWith, PInv, CrossesProducts, MIN_NUM, RInv, ReportRight
<1>2. SInv /\ PInv /\ RInv /\ [Next]_vars => (PInv /\ RInv)'
  BY PInvStep, RInvStep
<1>3. RInv => ReportRight
  BY DEF RInv
<1> QED BY <1>1, <1>2, <1>3, Inductive, PTL DEF Spec

(***************************************************************************)
(* That all threads end, as far as it does not take fairness.              *)
(***************************************************************************)

\* When every thread runs and not all have ended, there is one that does not wait:
\* neither for a guard of the barrier nor for index_lock.
THEOREM NobodyStuck == Spec => []SomeoneGoesOn
<1>1. Init => LastKnows /\ LockIsHeld
  BY LastKnowsInit DEF Init
<1>2. SInv /\ LastKnows /\ LockIsHeld /\ [Next]_vars => (LastKnows /\ LockIsHeld)'
  <2> SUFFICES ASSUME SInv, LastKnows, LockIsHeld, [Next]_vars PROVE LastKnows' /\ LockIsHeld'
    OBVIOUS
  <2>1. LastKnows'
    BY StepIsShared, LastKnowsStep DEF SInv
  <2>2. CASE IndexNext
    BY <2>1, <2>2, LockIsHeldStep DEF SInv
  <2>3. CASE UNCHANGED <<taken, index_lock, global_index, pc>>
    BY <2>1, <2>3 DEF LockIsHeld, Holding
  <2> QED BY <2>2, <2>3, StepIsIndex DEF SInv
<1>3. SInv /\ LastKnows /\ LockIsHeld => SomeoneGoesOn
  BY OneGoesOn DEF SInv
<1> QED BY <1>1, <1>2, <1>3, Inductive, PTL DEF Spec

\* What is left of the loop that crosses out.
Turns(t) ==
  IF pc[t] = "cross" /\ local[t] <= taken[t] THEN taken[t] + 1 - local[t] ELSE 0

Rank(t) == RankWith(t, Turns(t))

\* A thread's step leaves it less to do, and one of another, or of loading and
\* unloading, leaves it no more.
RanksFall ==
  \A t \in Threads :
    /\ sieve_fn(t) => Less(Rank(t)', Rank(t))
    /\ Rank(t)' = Rank(t) \/ Less(Rank(t)', Rank(t))

\* What is left of the loop is a natural number.
LEMMA TurnsTyped ==
  ASSUME SInv, NEW t \in Threads
  PROVE  Turns(t) \in Nat
  BY ParametersAssumption DEF SInv, IndexInv, DataInv, Turns

\* A thread's own step.
LEMMA OwnStep ==
  ASSUME SInv, PInv, NEW t \in Threads, sieve_fn(t)
  PROVE  Less(Rank(t)', Rank(t))
<1>0. BInv /\ IndexInv
  BY DEF SInv
<1>1. PICK m, n : m = Turns(t) /\ n = Turns(t)'
  OBVIOUS
<1>2. Rank(t) = RankWith(t, m) /\ Rank(t)' = RankWith(t, n)'
  BY <1>1, Zenon DEF Rank, RankWith
<1> SUFFICES Less(RankWith(t, n)', RankWith(t, m))
  BY <1>2
<1>3. CASE sbarrier(t) \/ Finish(t)
  <2>1. global_index' = global_index
    BY <1>3 DEF sbarrier, Enter, Arrive, Last, Wait, Leave, Clear, Finish, shared
  <2> QED BY <1>0, <1>3, <2>1, BarrierFalls, RankFalls
<1>4. CASE Lock(t) \/ Test(t)
  BY <1>0, <1>4, ComputeFalls, RankFalls
<1>5. CASE Read(t)
  <2>1. At(t, "fetch") /\ \E first_local \in Nat : ReadIndex(t, first_local)
    BY <1>0, <1>5 DEF Read, IndexInv, MIN_NUM
  <2> QED BY <1>0, <2>1, ComputeFalls, RankFalls
<1>6. CASE Write(t)
  <2>1. \E next \in {"cross", "test"} : WriteIndex(t, next)
    BY <1>6 DEF Write
  <2> QED BY <1>0, <2>1, ComputeFalls, RankFalls
<1>7. CASE CrossedOut(t)
  <2>1. At(t, "cross") /\ GoTo(t, "test") /\ UNCHANGED <<global_index, site>>
    BY <1>7 DEF CrossedOut, shared
  <2> QED BY <1>0, <2>1, ComputeFalls, RankFalls
<1>8. CASE CrossOut(t)
  <2>1. /\ pc[t] = "cross" /\ pc'[t] = "cross" /\ site' = site /\ global_index' = global_index
        /\ local[t] <= taken[t] /\ local'[t] = local[t] + 1 /\ taken' = taken
    BY <1>0, <1>8 DEF CrossOut, At, SInv, DataInv
  <2>2. Part(t)' = Part(t) /\ Unsearched' = Unsearched
    BY <2>1 DEF Part, Unsearched
  <2> HIDE DEF Unsearched
  <2>3. Place(t)' = Place(t)
    BY <2>1, <2>2 DEF Place
  <2>4. n < m
    <3>1. taken[t] >= 1 /\ taken[t] \in Nat /\ local[t] \in Nat /\ upper_bound \in Nat
      BY <1>0, <2>1, ParametersAssumption DEF PInv, CrossesProducts, IndexInv, SInv, DataInv
    <3> QED BY <1>1, <2>1, <3>1 DEF Turns
  <2> QED BY <2>2, <2>3, <2>4, RankFalls
<1> QED BY <1>3, <1>4, <1>5, <1>6, <1>7, <1>8 DEF sieve_fn, compute

\* A step that leaves a thread where it is, and moves the search on by one at most.
LEMMA OthersStep ==
  ASSUME SInv, NEW t \in Threads, UNCHANGED <<pc[t], site[t], taken[t], local[t]>>,
         global_index' \in {global_index, global_index + 1}
  PROVE  Rank(t)' = Rank(t) \/ Less(Rank(t)', Rank(t))
<1>1. PICK m : m = Turns(t)
  OBVIOUS
<1>2. m \in Nat
  BY <1>1, TurnsTyped
<1>3. Turns(t)' = m
  BY <1>1 DEF Turns
<1>4. Rank(t) = RankWith(t, m) /\ Rank(t)' = RankWith(t, m)'
  BY <1>1, <1>3, Zenon DEF Rank, RankWith
<1>5. RankWith(t, m)' = RankWith(t, m) \/ Less(RankWith(t, m)', RankWith(t, m))
  BY <1>2, OthersFall DEF SInv
<1> QED BY <1>4, <1>5

\* Where a step of another thread leaves this one.
LEMMA Aside ==
  ASSUME SInv, NEW t \in Threads, NEW u \in Threads, u # t, sieve_fn(u)
  PROVE  /\ UNCHANGED <<pc[t], site[t], taken[t], local[t]>>
         /\ global_index' \in {global_index, global_index + 1}
<1> USE DEF SInv, BInv, Typed, IndexInv, DataInv, GoTo, At
<1>1. CASE sbarrier(u) \/ Finish(u) \/ Test(u) \/ CrossedOut(u)
  BY <1>1 DEF sbarrier, Enter, Arrive, Last, Wait, Leave, Clear, Finish, Test, CrossedOut, shared
<1>2. CASE Lock(u) \/ Read(u)
  BY <1>2 DEF Lock, Read, ReadIndex
<1>3. CASE Write(u)
  BY <1>3 DEF Write, WriteIndex
<1>4. CASE CrossOut(u)
  BY <1>4 DEF CrossOut
<1> QED BY <1>1, <1>2, <1>3, <1>4 DEF sieve_fn, compute

\* Every thread gets nearer to its end with each of its steps, in an order without
\* infinite descent, whatever the others do meanwhile: with NobodyStuck, all end when
\* those that do not wait are scheduled.
THEOREM StepsRunOut == Spec => [](\A t \in Threads : Rank(t) \in Ranks) /\ [][RanksFall]_vars
<1>1. SInv => \A t \in Threads : Rank(t) \in Ranks
  <2> SUFFICES ASSUME SInv, NEW t \in Threads PROVE Rank(t) \in Ranks
    OBVIOUS
  <2>1. PICK m : m = Turns(t)
    OBVIOUS
  <2>2. m \in Nat
    BY <2>1, TurnsTyped
  <2>3. RankWith(t, m) \in Ranks
    BY <2>2, RankTyped DEF SInv
  <2> QED BY <2>1, <2>3 DEF Rank
<1>2. SInv /\ PInv /\ [Next]_vars => [RanksFall]_vars
  <2> SUFFICES ASSUME SInv, PInv, Next, NEW t \in Threads
               PROVE  /\ sieve_fn(t) => Less(Rank(t)', Rank(t))
                      /\ Rank(t)' = Rank(t) \/ Less(Rank(t)', Rank(t))
    BY DEF RanksFall
  <2>1. CASE sieve_fn(t)
    BY <2>1, OwnStep
  <2>2. CASE ~sieve_fn(t)
    <3>1. ASSUME NEW u \in Threads, sieve_fn(u)
          PROVE  Rank(t)' = Rank(t) \/ Less(Rank(t)', Rank(t))
      BY <2>2, <3>1, Aside, OthersStep
    <3>2. CASE kthread_run /\ t = spawned
      <4>1. /\ pc[t] = "none" /\ pc'[t] \in {"none", "enter"} /\ site'[t] = site[t] /\ site[t] = 1
            /\ UNCHANGED <<taken, local, global_index>>
        <5>1. pc[t] = "none"
          BY <3>2, ParametersAssumption DEF kthread_run, SInv, BInv, Typed, Unstarted, Threads
        <5>2. site[t] = 1
          BY <5>1 DEF SInv, BInv, Placed
        <5> QED BY <3>2, <5>1, <5>2 DEF kthread_run, SInv, BInv, Typed, shared
      <4>2. CASE pc'[t] = "none"
        BY <2>2, <4>1, <4>2, OthersStep
      <4>3. CASE pc'[t] = "enter"
        <5>1. Part(t)' < Part(t)
          BY <4>1, <4>3 DEF Part, InBarrier, Computing
        <5>2. PICK m, n : m = Turns(t) /\ n = Turns(t)'
          OBVIOUS
        <5>3. Rank(t) = RankWith(t, m) /\ Rank(t)' = RankWith(t, n)'
          BY <5>2, Zenon DEF Rank, RankWith
        <5> QED BY <2>2, <5>1, <5>3, RankFalls DEF Onward
      <4> QED BY <4>1, <4>2, <4>3
    <3>3. CASE (Load /\ ~(kthread_run /\ t = spawned)) \/ lab2_exit \/ Unload \/ Stopped
      <4>1. /\ UNCHANGED <<pc[t], site[t], taken[t], local[t]>>
            /\ global_index' \in {global_index, global_index + 1}
        <5>1. CASE kthread_run /\ t # spawned
          BY <5>1 DEF kthread_run, SInv, BInv, Typed, shared
        <5>2. CASE lab2_init_fails \/ lab2_init_oops \/ lab2_init
          BY <5>2 DEF lab2_init_fails, lab2_init_oops, lab2_init, shared
        <5>3. CASE lab2_exit \/ Unload \/ Stopped
          BY <5>3 DEF lab2_exit, ExitWith, Unload, Stopped, vars, shared
        <5> QED BY <3>3, <5>1, <5>2, <5>3 DEF Load
      <4> QED BY <2>2, <4>1, OthersStep
    <3> QED BY <2>2, <3>1, <3>2, <3>3 DEF Next, Load
  <2> QED BY <2>1, <2>2
<1>3. Init => PInv
  BY DEF Init, InitWith, PInv, CrossesProducts, MIN_NUM
<1>4. SInv /\ PInv /\ [Next]_vars => PInv'
  BY PInvStep
<1> QED BY <1>1, <1>2, <1>3, <1>4, Inductive, PTL DEF Spec
=============================================================================
