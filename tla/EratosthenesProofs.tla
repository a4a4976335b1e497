------------------------ MODULE EratosthenesProofs ------------------------
(***************************************************************************)
(* lab2.c for every number of threads and every upper bound: types, the    *)
(* barrier, the index, what unloading frees, and that the primes are left, *)
(* however the threads race on numbers.                                    *)
(***************************************************************************)
EXTENDS Eratosthenes, SieveProofs

(***************************************************************************)
(* Every step of Eratosthenes is one that SieveProofs is about.            *)
(***************************************************************************)

USE DEF barrierVars, guards

\* Every step of lab2.c is one of SieveThreads, as far as the barrier is concerned.
LEMMA StepIsShared ==
  ASSUME BInv, [Next]_vars
  PROVE  [SharedNext]_barrierVars
<1>1. CASE UNCHANGED vars
  BY <1>1 DEF vars, admin
<1>2. CASE lab2_init_fails \/ lab2_init_oops \/ lab2_exit \/ Unload
  <2>1. Ends
    BY <1>2 DEF lab2_init_fails, lab2_init_oops, lab2_exit, ExitWith, Unload, Ends
  <2> QED BY <2>1 DEF SharedNext
<1>3. CASE lab2_init \/ kthread_run
  BY <1>3 DEF SharedNext
<1>4. CASE Stopped
  BY <1>4 DEF Stopped, vars, admin
<1>5. ASSUME NEW t \in Threads, sieve_fn(t) PROVE [SharedNext]_barrierVars
  <2>1. CASE sbarrier(t) \/ Test(t) \/ Finish(t)
    BY <2>1 DEF SharedNext
  <2>2. CASE Lock(t) \/ Read(t) \/ Write(t) \/ CrossedOut(t)
    <3>1. Computes(t)
      BY <2>2 DEF Lock, Read, ReadIndex, Write, WriteIndex, CrossedOut, Computes, Computing, At,
                  admin
    <3> QED BY <3>1 DEF SharedNext
  <2>3. CASE SkipCrossed(t) \/ CrossOut(t)
    BY <2>3 DEF SkipCrossed, CrossOut, admin
  <2> QED BY <1>5, <2>1, <2>2, <2>3 DEF sieve_fn, compute
<1> QED BY <1>1, <1>2, <1>3, <1>4, <1>5 DEF Next, Load

\* And one that treats global_index and its lock as SieveThreads says.
LEMMA StepIsIndex ==
  ASSUME BInv, IndexInv, [Next]_vars
  PROVE  [IndexNext]_<<taken, index_lock, global_index, pc>>
<1> USE DEF BInv, Typed, GoTo, At, Holding
<1>1. CASE UNCHANGED vars
  BY <1>1 DEF vars, shared
<1>2. CASE Load \/ lab2_exit \/ Unload \/ Stopped
  <2>1. CASE kthread_run
    <3>1. spawned \in Threads /\ pc[spawned] = "none"
      BY <2>1, ParametersAssumption DEF kthread_run, Unstarted, Threads
    <3>2. TakesNone
      BY <2>1, <3>1 DEF kthread_run, TakesNone, shared
    <3> QED BY <3>2 DEF IndexNext
  <2>2. CASE ~kthread_run
    BY <1>2, <2>2 DEF Load, lab2_init_fails, lab2_init_oops, lab2_init, lab2_exit, ExitWith, Unload,
                      Stopped, vars, shared
  <2> QED BY <2>1, <2>2
<1>3. ASSUME NEW t \in Threads, sieve_fn(t)
      PROVE  [IndexNext]_<<taken, index_lock, global_index, pc>>
  <2>1. CASE Lock(t)
    BY <2>1 DEF IndexNext
  <2>2. CASE Read(t)
    BY <2>2 DEF Read, IndexNext, IndexInv, MIN_PRIME
  <2>3. CASE Write(t)
    BY <2>3 DEF Write, IndexNext
  <2>4. CASE SkipCrossed(t)
    <3>1. TakesNone
      BY <2>4 DEF SkipCrossed, TakesNone
    <3> QED BY <3>1 DEF IndexNext
  <2>5. CASE CrossOut(t) \/ CrossedOut(t) \/ Test(t) \/ Finish(t) \/ sbarrier(t)
    <3>1. TakesNone
      BY <2>5, Whereabouts
      DEF CrossOut, CrossedOut, Test, Finish, sbarrier, Enter, Arrive, Last, Wait, Leave, Clear,
          Return, shared, TakesNone
    <3> QED BY <3>1 DEF IndexNext
  <2> QED BY <1>3, <2>1, <2>2, <2>3, <2>4, <2>5 DEF sieve_fn, compute
<1> QED BY <1>1, <1>2, <1>3 DEF Next

(***************************************************************************)
(* The invariant.                                                          *)
(***************************************************************************)

EInv == BInv /\ IndexInv /\ FlagInv /\ DataInv

\* Crossing out writes 0 into a place of numbers and nothing else.
LEMMA NumbersStayThere ==
  ASSUME numbers \in [0 .. upper_bound -> 0 .. upper_bound], local \in [Threads -> Nat],
         NEW t \in Threads, CrossOut(t)
  PROVE  numbers' \in [0 .. upper_bound -> 0 .. upper_bound]
<1>1. 0 \in 0 .. upper_bound
  BY ParametersAssumption
<1> QED BY <1>1, SMTT(20) DEF CrossOut

\* The invariant holds before the module is loaded.
LEMMA EInvInit ==
  ASSUME Init
  PROVE  EInv
<1>1. BInv
  BY BInvInit DEF Init
<1>2. IndexInv /\ FlagInv /\ DataInv
  BY <1>1 DEF Init, InitWith, BInv, Typed, IndexInv, FlagInv, DataInv, Holding, EachIndexTakenOnce,
              MIN_PRIME, RUNNING
<1> QED BY <1>1, <1>2 DEF EInv

\* Every step keeps what begin_flag tells of the threads.
LEMMA FlagStep ==
  ASSUME EInv, [Next]_vars
  PROVE  FlagInv'
<1> USE DEF EInv, FlagInv, At
<1>1. CASE UNCHANGED vars
  BY <1>1 DEF vars, admin, guards, shared
<1>2. CASE Load
  BY <1>2 DEF Load, lab2_init_fails, lab2_init_oops, lab2_init, kthread_run, shared, RUNNING
<1>3. CASE lab2_exit
  <2>1. numbers # Freed
    BY <1>3, ParametersAssumption DEF lab2_exit, ExitWith, Freed
  <2> QED BY <1>3, <2>1 DEF lab2_exit, ExitWith, RUNNING
<1>4. CASE Unload \/ Stopped
  BY <1>4 DEF Unload, Stopped, vars, admin, guards, shared
<1>5. ASSUME NEW t \in Threads, sieve_fn(t) PROVE FlagInv'
  <2>1. CASE Last(t)
    BY <2>1 DEF Last, admin, shared, BInv, Typed
  <2>2. CASE Enter(t) \/ Arrive(t) \/ Wait(t) \/ Leave(t) \/ Clear(t) \/ CrossedOut(t) \/ Test(t)
    BY <2>2 DEF Enter, Arrive, Wait, Leave, Clear, CrossedOut, Test, admin, shared
  <2>3. CASE Lock(t) \/ SkipCrossed(t) \/ Read(t) \/ Write(t)
    BY <2>3 DEF Lock, SkipCrossed, Read, ReadIndex, Write, WriteIndex, admin
  <2>4. CASE CrossOut(t)
    <3>1. numbers \in [0 .. upper_bound -> 0 .. upper_bound]
      BY <2>4, ArraysThere DEF CrossOut, Computing
    <3>2. numbers' \in [0 .. upper_bound -> 0 .. upper_bound]
      BY <2>4, <3>1, NumbersStayThere DEF DataInv
    <3>3. numbers' # Freed
      BY <3>2, ParametersAssumption DEF Freed
    <3> QED BY <2>4, <3>2, <3>3 DEF CrossOut, admin
  <2>5. CASE Finish(t)
    <3>1. site[t] = 2 /\ Passed(t) = 2
      BY <2>5 DEF Finish, BInv, Placed, Passed, BeforeArriving
    <3>2. barrier_state >= 2
      BY <3>1 DEF BInv, Typed, Meeting
    <3> QED BY <2>5, <3>2 DEF Finish, admin, shared, RUNNING
  <2> QED BY <1>5, <2>1, <2>2, <2>3, <2>4, <2>5 DEF sieve_fn, compute, sbarrier
<1> QED BY <1>1, <1>2, <1>3, <1>4, <1>5 DEF Next

\* Every step keeps the types of the arrays, and the arrays until they are freed.
LEMMA DataStep ==
  ASSUME EInv, [Next]_vars
  PROVE  DataInv'
<1> USE DEF EInv, DataInv, At
<1>1. CASE UNCHANGED vars
  BY <1>1 DEF vars, admin, guards, shared
<1>2. CASE Load
  <2>1. CASE lab2_init
    <3>1. numbers' \in [0 .. upper_bound -> 0 .. upper_bound] /\ counters' \in [Threads -> Nat]
      BY <2>1 DEF lab2_init
    <3> QED BY <2>1, <3>1 DEF lab2_init
  <2>2. CASE ~lab2_init
    BY <1>2, <2>2 DEF Load, lab2_init_fails, lab2_init_oops, kthread_run, shared
  <2> QED BY <2>1, <2>2
<1>3. CASE lab2_exit \/ Unload \/ Stopped
  BY <1>3 DEF lab2_exit, ExitWith, Unload, Stopped, vars, admin, guards, shared
<1>5. ASSUME NEW t \in Threads, sieve_fn(t) PROVE DataInv'
  <2>1. CASE sbarrier(t) \/ CrossedOut(t) \/ Test(t) \/ Finish(t)
    BY <2>1 DEF sbarrier, Enter, Arrive, Last, Wait, Leave, Clear, CrossedOut, Test, Finish, admin,
                shared
  <2>3. CASE Lock(t) \/ SkipCrossed(t) \/ Read(t) \/ Write(t)
    BY <2>3 DEF Lock, SkipCrossed, Read, ReadIndex, Write, WriteIndex, admin, IndexInv, MIN_PRIME
  <2>4. CASE CrossOut(t)
    <3>1. numbers \in [0 .. upper_bound -> 0 .. upper_bound]
      BY <2>4, ArraysThere DEF CrossOut, Computing
    <3>2. numbers' \in [0 .. upper_bound -> 0 .. upper_bound]
      BY <2>4, <3>1, NumbersStayThere
    <3>3. counters' = Freed \/ counters' \in [Threads -> Nat]
      <4>1. CASE counters = Freed
        BY <2>4, <4>1 DEF CrossOut, Freed
      <4>2. CASE counters \in [Threads -> Nat]
        BY <2>4, <4>2 DEF CrossOut
      <4> QED BY <4>1, <4>2
    <3>4. local' \in [Threads -> Nat]
      BY <2>4 DEF CrossOut, IndexInv
    <3> QED BY <2>4, <3>2, <3>3, <3>4 DEF CrossOut, admin, guards
  <2> QED BY <1>5, <2>1, <2>3, <2>4 DEF sieve_fn, compute
<1> QED BY <1>1, <1>2, <1>3, <1>5 DEF Next

\* Every step keeps the invariant.
LEMMA EInvStep ==
  ASSUME EInv, [Next]_vars
  PROVE  EInv'
<1>1. BInv'
  BY StepIsShared, BInvStep DEF EInv
<1>2. IndexInv'
  <2>1. CASE IndexNext
    BY <1>1, <2>1, IndexStep DEF EInv, BInv, Typed
  <2>2. CASE UNCHANGED <<taken, index_lock, global_index, pc>>
    BY <2>2 DEF EInv, IndexInv, Holding, EachIndexTakenOnce
  <2> QED BY <2>1, <2>2, StepIsIndex DEF EInv
<1> QED BY <1>1, <1>2, FlagStep, DataStep DEF EInv

\* The invariant holds in every state of lab2.c.
LEMMA Inductive == Spec => []EInv
<1>1. Init => EInv
  BY EInvInit
<1>2. EInv /\ [Next]_vars => EInv'
  BY EInvStep
<1> QED BY <1>1, <1>2, PTL DEF Spec

(***************************************************************************)
(* The theorems.                                                           *)
(***************************************************************************)

\* Every variable keeps its type; in particular the guards of the barrier are
\* never decremented below zero.
THEOREM TypeCorrect == Spec => []TypeOK
<1>1. EInv => TypeOK
  <2> SUFFICES ASSUME EInv PROVE TypeOK
    OBVIOUS
  <2>1. In \in SUBSET Threads /\ Released \in SUBSET Threads
    BY DEF In, Released
  <2>2. Cardinality(In) \in 0 .. num_threads /\ Cardinality(Released) \in 0 .. num_threads
    BY <2>1, Counting
  <2>3. start_guard \in Nat
    BY <2>2, ParametersAssumption DEF EInv, BInv, Typed, Meeting, DataInv
  <2>4. end_guard \in Nat
    BY <2>2, ParametersAssumption DEF EInv, BInv, Typed, Leaving
  <2> QED BY <2>3, <2>4 DEF EInv, BInv, Typed, IndexInv, FlagInv, DataInv, TypeOK, Labels
<1> QED BY <1>1, Inductive, PTL

\* sbarrier, used twice with its two guards, is a barrier: no thread gets out of a
\* meeting before all num_threads threads have come to it.
THEOREM EratosthenesImplementsBarrier == Spec => ImplementsBarrier
<1>1. Init => Barrier!Init
  BY BarrierInit DEF Init
<1>2. EInv /\ [Next]_vars => [Barrier!Next]_(Barrier!vars)
  BY BarrierStep, StepIsShared DEF EInv
<1> QED BY <1>1, <1>2, Inductive, PTL DEF Spec, ImplementsBarrier, Barrier!Spec

\* A thread the barrier has released finds start_guard at num_threads until it has
\* seen it there: the others cannot begin the next meeting before.
THEOREM BarrierReusable == Spec => []ReleasedMayLeave
<1>1. EInv => ReleasedMayLeave
  BY BInvReleases DEF EInv
<1> QED BY <1>1, Inductive, PTL

\* index_lock makes the threads take distinct numbers.
THEOREM IndexTakenOnce == Spec => []EachIndexTakenOnce
<1>1. EInv => EachIndexTakenOnce
  BY DEF EInv, IndexInv
<1> QED BY <1>1, Inductive, PTL

\* When lab2_exit frees the arrays, threads may still be in the module, but only on
\* their way out of the second meeting.
THEOREM FreedAfterUse == Spec => []NoUseAfterFree
<1>1. EInv => NoUseAfterFree
  <2> SUFFICES ASSUME EInv, module = "exited", numbers = Freed, NEW t \in Threads
               PROVE  pc[t] = "none" \/ Passed(t) = 2 \/ (site[t] = 2 /\ pc[t] \in InBarrier)
    BY DEF NoUseAfterFree
  <2>1. barrier_state >= 2
    BY DEF EInv, FlagInv
  <2>2. Arrived(t) >= 2
    BY <2>1 DEF EInv, BInv, Typed, Meeting
  <2>3. site[t] = 2 /\ pc[t] \notin {"none", "enter", "arrive"}
    BY <2>2 DEF EInv, BInv, Typed, Arrived, BeforeArriving
  <2> QED BY <2>3 DEF Passed, BeforeArriving, InBarrier
<1> QED BY <1>1, Inductive, PTL

-----------------------------------------------------------------------------
(***************************************************************************)
(* Divisors.                                                               *)
(***************************************************************************)

\* A divisor of a divisor divides.
LEMMA DivisorOfDivisor ==
  ASSUME NEW a \in Nat, NEW b \in Nat, NEW c \in Nat, Divides(a, b), Divides(b, c)
  PROVE  Divides(a, c)
<1>1. PICK k \in Nat : b = k * a
  BY DEF Divides
<1>2. PICK j \in Nat : c = j * b
  BY DEF Divides
<1>3. c = (j * k) * a /\ j * k \in Nat
  BY <1>1, <1>2
<1> QED BY <1>3 DEF Divides

\* The next multiple of q is q further on.
LEMMA NextMultiple ==
  ASSUME NEW q \in Nat \ {0}, NEW m \in Nat, NEW n \in Nat, Divides(q, m), Divides(q, n)
  PROVE  Divides(q, m + q) /\ (m < n => m + q <= n)
<1>1. PICK k \in Nat : m = k * q
  BY DEF Divides
<1>2. PICK j \in Nat : n = j * q
  BY DEF Divides
<1>3. m + q = (k + 1) * q /\ k + 1 \in Nat
  BY <1>1
<1>4. ASSUME m < n PROVE k + 1 <= j
  BY <1>1, <1>2, <1>4
<1>5. ASSUME k + 1 <= j PROVE (k + 1) * q <= j * q
  BY <1>5
<1> QED BY <1>2, <1>3, <1>4, <1>5 DEF Divides

(***************************************************************************)
(* The inductive invariant.                                                *)
(***************************************************************************)

\* A thread crosses out the multiples of the number it has taken, from twice that on.
CrossesMultiples ==
  \A t \in Threads :
    /\ pc[t] = "put" => taken[t] >= 2 /\ local[t] = 2 * taken[t]
    /\ pc[t] = "cross" => /\ taken[t] >= 2 /\ taken[t] < local[t]
                          /\ Divides(taken[t], local[t])

\* Every multiple of q is crossed out, or will be by a thread that has taken q.
Covered(q) ==
  \A m \in q + 1 .. upper_bound :
    Divides(q, m) => \/ numbers[m] = 0
                     \/ \E t \in Threads : pc[t] = "cross" /\ taken[t] = q /\ local[t] <= m

HasCovered(n, S) == \E q \in S : Divides(q, n) /\ Covered(q)

\* The search has not passed by a number without one of its divisors being covered.
SearchedInv == \A d \in 2 .. upper_bound : d < global_index => HasCovered(d, 2 .. d)

\* No number is crossed out without one of its proper divisors being covered.
CrossedInv ==
  \A i \in 2 .. upper_bound : numbers[i] = i \/ (numbers[i] = 0 /\ HasCovered(i, 2 .. i - 1))

PInv ==
  /\ global_index >= 2
  /\ module = "loading" => global_index = 2
  /\ CrossesMultiples
  /\ \A t \in Threads : site[t] = 2 => global_index > upper_bound
  /\ numbers # Freed => SearchedInv /\ CrossedInv

\* The invariant about primes holds before the module is loaded.
LEMMA PInvInit ==
  ASSUME Init
  PROVE  PInv
  BY DEF Init, InitWith, PInv, CrossesMultiples, MIN_PRIME

(***************************************************************************)
(* What is covered remains covered.                                        *)
(***************************************************************************)

\* No thread leaves or advances in its crossing out.
Still ==
  \A t \in Threads : pc[t] = "cross" =>
    pc'[t] = "cross" /\ UNCHANGED <<taken[t], local[t]>>

\* What is covered stays so while the threads' places and numbers stay.
LEMMA CoveredStill ==
  ASSUME NEW q \in Nat, Covered(q), Still, numbers' = numbers
  PROVE  Covered(q)'
  BY DEF Covered, Still

\* Crossing out one multiple leaves the number it is a multiple of covered.
LEMMA CoveredCrossOut ==
  ASSUME EInv, PInv, NEW t \in Threads, CrossOut(t), NEW q \in Nat, q >= 2, Covered(q)
  PROVE  Covered(q)'
<1>1. /\ numbers \in [0 .. upper_bound -> 0 .. upper_bound]
      /\ local \in [Threads -> Nat] /\ taken \in [Threads -> Nat]
  BY ArraysThere DEF EInv, DataInv, IndexInv, CrossOut, At, Computing
<1>2. SUFFICES ASSUME NEW m \in q + 1 .. upper_bound, Divides(q, m)
               PROVE  \/ numbers'[m] = 0
                      \/ \E u \in Threads : pc[u] = "cross" /\ taken[u] = q /\ local'[u] <= m
  BY DEF Covered, CrossOut
<1>3. m \in 0 .. upper_bound /\ m \in Nat /\ upper_bound \in Nat
  BY ParametersAssumption
<1>4. CASE numbers[m] = 0
  BY <1>1, <1>3, <1>4 DEF CrossOut
<1>5. ASSUME NEW u \in Threads, pc[u] = "cross", taken[u] = q, local[u] <= m
      PROVE  \/ numbers'[m] = 0
             \/ \E v \in Threads : pc[v] = "cross" /\ taken[v] = q /\ local'[v] <= m
  <2>1. CASE u # t
    BY <1>1, <1>5, <2>1 DEF CrossOut
  <2>2. CASE u = t /\ local[u] = m
    BY <1>1, <1>3, <2>2 DEF CrossOut
  <2>3. CASE u = t /\ local[u] < m
    <3>1. Divides(q, local[u])
      BY <1>5 DEF PInv, CrossesMultiples
    <3>2. local[u] + q <= m
      BY <1>1, <1>2, <1>3, <2>3, <3>1, NextMultiple
    <3>3. local'[u] = local[u] + q
      BY <1>1, <1>5, <2>3 DEF CrossOut
    <3> QED BY <1>5, <3>2, <3>3
  <2> QED BY <1>1, <1>3, <1>5, <2>1, <2>2, <2>3
<1> QED BY <1>2, <1>4, <1>5 DEF Covered

\* A thread that is done with a number has crossed out all its multiples.
LEMMA CoveredCrossedOut ==
  ASSUME EInv, NEW t \in Threads, CrossedOut(t), NEW q \in Nat, Covered(q)
  PROVE  Covered(q)'
<1>1. /\ local \in [Threads -> Nat] /\ upper_bound \in Nat
      /\ numbers' = numbers /\ UNCHANGED <<taken, local>>
  BY ParametersAssumption DEF EInv, DataInv, CrossedOut, shared
<1>2. \A u \in Threads : pc[u] = "cross" /\ local[u] <= upper_bound => pc'[u] = "cross"
  <2>1. pc' = [pc EXCEPT ![t] = "test"] /\ pc \in [Threads -> Labels]
    BY DEF CrossedOut, GoTo, EInv, IndexInv
  <2>2. ~(local[t] <= upper_bound)
    BY <1>1 DEF CrossedOut
  <2> QED BY <2>1, <2>2
<1>3. SUFFICES ASSUME NEW m \in q + 1 .. upper_bound, Divides(q, m)
               PROVE  \/ numbers[m] = 0
                      \/ \E u \in Threads : pc'[u] = "cross" /\ taken[u] = q /\ local[u] <= m
  BY <1>1 DEF Covered
<1>4. \A u \in Threads : local[u] <= m => local[u] <= upper_bound
  BY <1>1
<1> QED BY <1>2, <1>3, <1>4 DEF Covered

(***************************************************************************)
(* Every step preserves the invariant.                                     *)
(***************************************************************************)

\* What is left to show of a step that covers no less than before.
LEMMA CoveringSteps ==
  ASSUME NEW n \in Nat, NEW m \in Nat, HasCovered(n, 2 .. m),
         \A q \in Nat : q >= 2 /\ Covered(q) => Covered(q)'
  PROVE  HasCovered(n, 2 .. m)'
  BY DEF HasCovered

\* The search may move on past a number that has a covered divisor.
LEMMA SearchedStep ==
  ASSUME SearchedInv, NEW n \in Nat, n = global_index, global_index' \in {n, n + 1},
         \A q \in Nat : q >= 2 /\ Covered(q) => Covered(q)',
         global_index' = n + 1 /\ n >= 2 /\ n <= upper_bound => HasCovered(n, 2 .. n)'
  PROVE  SearchedInv'
<1>1. SUFFICES ASSUME NEW d \in 2 .. upper_bound, d < global_index'
               PROVE  HasCovered(d, 2 .. d)'
  BY DEF SearchedInv
<1>2. d \in Nat /\ d >= 2 /\ d <= upper_bound
  BY ParametersAssumption
<1>3. CASE d < n
  BY <1>2, <1>3, CoveringSteps DEF SearchedInv
<1>4. CASE ~(d < n)
  <2>1. d = n /\ global_index' = n + 1
    BY <1>1, <1>2, <1>4
  <2> QED BY <1>2, <2>1
<1> QED BY <1>3, <1>4

\* Nothing newly crossed out, and what was covered still is: CrossedInv stays.
LEMMA CrossedStep ==
  ASSUME CrossedInv, numbers' = numbers, \A q \in Nat : q >= 2 /\ Covered(q) => Covered(q)'
  PROVE  CrossedInv'
<1>1. ASSUME NEW i \in 2 .. upper_bound, HasCovered(i, 2 .. i - 1) PROVE HasCovered(i, 2 .. i - 1)'
  <2>1. i \in Nat /\ i - 1 \in Nat
    BY ParametersAssumption
  <2> QED BY <1>1, <2>1, CoveringSteps
<1> QED BY <1>1 DEF CrossedInv

\* A step that crosses nothing out and moves no search.
LEMMA QuietPInv ==
  ASSUME PInv, global_index \in Nat, Still, UNCHANGED <<numbers, global_index>>,
         module' # "loading" \/ module = "loading",
         CrossesMultiples', \A t \in Threads : site'[t] = 2 => global_index > upper_bound
  PROVE  PInv'
<1>1. \A q \in Nat : q >= 2 /\ Covered(q) => Covered(q)'
  BY CoveredStill
<1>2. SearchedInv => SearchedInv'
  BY <1>1, SearchedStep
<1>3. CrossedInv => CrossedInv'
  BY <1>1, CrossedStep
<1> QED BY <1>2, <1>3 DEF PInv

\* A thread that neither begins nor goes on crossing out.
LEMMA QuietThread ==
  ASSUME EInv, PInv, NEW t \in Threads, pc[t] \notin {"put", "cross"},
         NEW label \in Labels \ {"put", "cross"}, GoTo(t, label),
         UNCHANGED <<taken, local>>
  PROVE  Still /\ CrossesMultiples'
<1>1. pc \in [Threads -> Labels] /\ taken \in [Threads -> Nat] /\ local \in [Threads -> Nat]
  BY DEF EInv, IndexInv, DataInv
<1>2. \A u \in Threads : pc'[u] \in {"put", "cross"} => u # t /\ pc'[u] = pc[u]
  BY <1>1 DEF GoTo
<1>3. \A u \in Threads : pc[u] = "cross" => pc'[u] = "cross"
  BY <1>1 DEF GoTo
<1> QED BY <1>2, <1>3 DEF Still, CrossesMultiples, PInv

\* Loading keeps the invariant about primes.
LEMMA PInvLoad ==
  ASSUME EInv, PInv, Load
  PROVE  PInv'
<1>1. global_index \in Nat /\ upper_bound \in Nat
  BY ParametersAssumption DEF EInv, IndexInv
<1>2. CASE lab2_init
  <2>1. \A t \in Threads : pc'[t] = "none" /\ site'[t] = 1
    BY <1>2 DEF lab2_init, EInv, BInv, NotLoaded, Placed
  <2>2. global_index' = 2 /\ module' = "spawning"
    BY <1>2 DEF lab2_init, PInv
  <2>3. SearchedInv'
    BY <1>1, <2>2 DEF SearchedInv
  <2>4. CrossedInv'
    BY <1>1, <1>2 DEF lab2_init, CrossedInv
  <2> QED BY <2>1, <2>2, <2>3, <2>4 DEF PInv, CrossesMultiples
<1>3. CASE lab2_init_fails \/ lab2_init_oops
  <2>1. Still /\ CrossesMultiples'
    BY <1>3 DEF lab2_init_fails, lab2_init_oops, Still, PInv, CrossesMultiples, shared
  <2> QED BY <1>1, <1>3, <2>1, QuietPInv DEF lab2_init_fails, lab2_init_oops, PInv, shared
<1>4. CASE kthread_run
  <2>1. spawned \in Threads /\ pc[spawned] = "none"
    BY <1>4, ParametersAssumption DEF kthread_run, EInv, BInv, Typed, Unstarted, Threads
  <2>2. UNCHANGED <<taken, local, numbers, global_index, site>> /\ module' # "loading"
    BY <1>4 DEF kthread_run, shared
  <2>3. Still /\ CrossesMultiples'
    <3>1. CASE UNCHANGED pc
      BY <2>2, <3>1 DEF Still, PInv, CrossesMultiples
    <3>2. CASE GoTo(spawned, "enter")
      BY <2>1, <2>2, <3>2, QuietThread DEF Labels, InBarrier
    <3> QED BY <1>4, <3>1, <3>2 DEF kthread_run, GoTo
  <2> QED BY <1>1, <2>2, <2>3, QuietPInv DEF PInv
<1> QED BY <1>2, <1>3, <1>4 DEF Load

\* So does unloading.
LEMMA PInvUnload ==
  ASSUME EInv, PInv, lab2_exit \/ Unload \/ UNCHANGED vars
  PROVE  PInv'
<1>1. global_index \in Nat
  BY DEF EInv, IndexInv
<1>2. /\ UNCHANGED <<global_index, taken, local, pc, site>>
      /\ module' # "loading" \/ module' = module
      /\ numbers' = Freed \/ numbers' = numbers
  BY DEF lab2_exit, ExitWith, Unload, vars, shared, admin
<1>3. Still /\ CrossesMultiples'
  BY <1>2 DEF Still, CrossesMultiples, PInv
<1>4. CASE numbers' = numbers
  BY <1>1, <1>2, <1>3, <1>4, QuietPInv DEF PInv
<1>5. CASE numbers' = Freed
  BY <1>2, <1>3, <1>5 DEF PInv
<1> QED BY <1>2, <1>4, <1>5

\* A step of a thread that is not crossing out, nor about to.
LEMMA PInvQuietThread ==
  ASSUME EInv, PInv, NEW t \in Threads, sbarrier(t) \/ Lock(t) \/ Test(t) \/ Finish(t)
  PROVE  PInv'
<1>1. global_index \in Nat /\ upper_bound \in Nat /\ site \in [Threads -> {1, 2}]
  BY ParametersAssumption DEF EInv, IndexInv, BInv, Typed
<1>2. UNCHANGED <<global_index, taken, local, numbers, module>>
  BY DEF sbarrier, Enter, Arrive, Last, Wait, Leave, Clear, Lock, Test, Finish, shared, admin
<1>3. /\ pc[t] \notin {"put", "cross"}
      /\ \E label \in Labels \ {"put", "cross"} : GoTo(t, label)
  BY DEF sbarrier, Enter, Arrive, Last, Wait, Leave, Clear, Lock, Test, Finish, At, Return, Labels,
         InBarrier, Computing
<1>4. Still /\ CrossesMultiples'
  BY <1>2, <1>3, QuietThread
<1>5. \A u \in Threads : site'[u] = 2 => global_index > upper_bound
  <2>1. CASE Test(t)
    BY <1>1, <2>1 DEF Test, PInv
  <2>2. CASE UNCHANGED site
    BY <2>2 DEF PInv
  <2> QED BY <2>1, <2>2 DEF sbarrier, Enter, Arrive, Last, Wait, Leave, Clear, Lock, Finish
<1> QED BY <1>1, <1>2, <1>4, <1>5, QuietPInv

\* What a thread that computes can rely on.
LEMMA Data ==
  ASSUME EInv, PInv, NEW t \in Threads, pc[t] \in Computing, module \in {"spawning", "live", "exited"}
  PROVE  /\ numbers \in [0 .. upper_bound -> 0 .. upper_bound] /\ numbers # Freed
         /\ SearchedInv /\ CrossedInv
         /\ pc \in [Threads -> Labels]
         /\ taken \in [Threads -> Nat] /\ local \in [Threads -> Nat]
         /\ global_index \in Nat /\ upper_bound \in Nat /\ global_index >= 2
<1>1. numbers \in [0 .. upper_bound -> 0 .. upper_bound]
  BY ArraysThere DEF EInv
<1>2. numbers # Freed
  BY <1>1, ParametersAssumption DEF Freed
<1> QED BY <1>1, <1>2, ParametersAssumption DEF EInv, IndexInv, DataInv, PInv

\* A number the search passes by because it is crossed out has a divisor that is covered.
LEMMA PInvSkipCrossed ==
  ASSUME EInv, PInv, NEW t \in Threads, SkipCrossed(t)
  PROVE  PInv'
<1>0. /\ numbers # Freed /\ SearchedInv /\ CrossedInv /\ global_index \in Nat
      /\ upper_bound \in Nat /\ global_index >= 2
  BY Data DEF SkipCrossed, At, Computing
<1>1. /\ UNCHANGED <<numbers, taken, local, pc, site, module>>
      /\ global_index <= upper_bound /\ numbers[global_index] = 0
      /\ global_index' = global_index + 1 /\ module # "loading"
  BY DEF SkipCrossed, At, admin
<1>2. Still /\ CrossesMultiples'
  BY <1>1 DEF Still, CrossesMultiples, PInv
<1>3. \A q \in Nat : q >= 2 /\ Covered(q) => Covered(q)'
  BY <1>1, <1>2, CoveredStill
<1>4. PICK n \in Nat : n = global_index
  BY <1>0
<1>5. HasCovered(n, 2 .. n)'
  <2>1. n \in 2 .. upper_bound /\ numbers[n] # n
    BY <1>0, <1>1, <1>4
  <2>2. HasCovered(n, 2 .. n - 1)
    BY <1>0, <2>1 DEF CrossedInv
  <2>3. HasCovered(n, 2 .. n)
    BY <2>2 DEF HasCovered
  <2> QED BY <1>3, <2>3, CoveringSteps
<1>6. SearchedInv'
  BY <1>0, <1>1, <1>3, <1>4, <1>5, SearchedStep
<1>7. CrossedInv'
  BY <1>0, <1>1, <1>3, CrossedStep
<1> QED BY <1>0, <1>1, <1>2, <1>6, <1>7 DEF PInv

\* So does a thread that looks for the next number to cross out from.
LEMMA PInvRead ==
  ASSUME EInv, PInv, NEW t \in Threads, Read(t)
  PROVE  PInv'
<1>0. /\ global_index \in Nat /\ global_index >= 2 /\ pc \in [Threads -> Labels]
      /\ taken \in [Threads -> Nat] /\ local \in [Threads -> Nat]
  BY Data DEF Read, At, Computing
<1>1. /\ pc[t] = "fetch" /\ pc' = [pc EXCEPT ![t] = "put"]
      /\ taken' = [taken EXCEPT ![t] = global_index]
      /\ local' = [local EXCEPT ![t] = 2 * global_index]
      /\ UNCHANGED <<numbers, global_index, site, module>>
  BY DEF Read, At, ReadIndex, GoTo, MIN_PRIME, admin
<1>2. Still
  BY <1>0, <1>1 DEF Still
<1>3. CrossesMultiples'
  <2>1. ASSUME NEW u \in Threads, u # t
        PROVE  pc'[u] = pc[u] /\ taken'[u] = taken[u] /\ local'[u] = local[u]
    BY <1>0, <1>1, <2>1
  <2>2. pc'[t] = "put" /\ taken'[t] = global_index /\ local'[t] = 2 * global_index
    BY <1>0, <1>1
  <2> QED BY <1>0, <2>1, <2>2 DEF CrossesMultiples, PInv
<1> QED BY <1>0, <1>1, <1>2, <1>3, QuietPInv DEF PInv

\* A number that is taken is covered by the thread that has taken it.
LEMMA PInvWrite ==
  ASSUME EInv, PInv, NEW t \in Threads, Write(t)
  PROVE  PInv'
<1>0. /\ numbers # Freed /\ SearchedInv /\ CrossedInv /\ global_index \in Nat
      /\ upper_bound \in Nat /\ global_index >= 2 /\ pc \in [Threads -> Labels]
      /\ taken \in [Threads -> Nat] /\ local \in [Threads -> Nat]
  BY Data DEF Write, WriteIndex, At, Computing
<1>1. /\ pc[t] = "put"
      /\ pc' = [pc EXCEPT ![t] = IF taken[t] <= upper_bound THEN "cross" ELSE "test"]
      /\ global_index' = taken[t] + 1
      /\ UNCHANGED <<numbers, taken, local, site, module>> /\ module # "loading"
  BY DEF Write, WriteIndex, At, GoTo, admin
<1>2. PICK n \in Nat : n = global_index
  BY <1>0
<1>3. taken[t] = n /\ n >= 2 /\ local[t] = 2 * n /\ global_index' = n + 1
  BY <1>0, <1>1, <1>2 DEF EInv, IndexInv, PInv, CrossesMultiples
<1>4. Still
  BY <1>0, <1>1 DEF Still
<1>5. Divides(n, n) /\ Divides(n, 2 * n)
  BY DEF Divides
<1>6. CrossesMultiples'
  <2>1. ASSUME NEW u \in Threads, u # t PROVE pc'[u] = pc[u]
    BY <1>0, <1>1, <2>1
  <2>2. pc'[t] # "put" /\ taken[t] < local[t]
    BY <1>0, <1>1, <1>3
  <2> QED BY <1>1, <1>3, <1>5, <2>1, <2>2 DEF CrossesMultiples, PInv
<1>7. \A q \in Nat : q >= 2 /\ Covered(q) => Covered(q)'
  BY <1>1, <1>4, CoveredStill
<1>8. ASSUME n <= upper_bound PROVE HasCovered(n, 2 .. n)'
  <2>1. pc'[t] = "cross"
    BY <1>0, <1>1, <1>3, <1>8
  <2>2. ASSUME NEW m \in n + 1 .. upper_bound, Divides(n, m) PROVE local[t] <= m
    BY <1>0, <1>3, <1>5, <2>2, NextMultiple
  <2>3. Covered(n)'
    BY <1>1, <1>3, <2>1, <2>2 DEF Covered
  <2>4. n \in 2 .. n
    BY <1>3
  <2> QED BY <1>5, <2>3, <2>4 DEF HasCovered
<1>9. SearchedInv'
  BY <1>0, <1>2, <1>3, <1>7, <1>8, SearchedStep
<1>10. CrossedInv'
  BY <1>0, <1>1, <1>7, CrossedStep
<1>11. \A u \in Threads : site'[u] = 2 => global_index' > upper_bound
  BY <1>0, <1>1, <1>2, <1>3 DEF PInv
<1> QED BY <1>0, <1>1, <1>3, <1>6, <1>9, <1>10, <1>11 DEF PInv

\* So does a thread that crosses out a multiple.
LEMMA PInvCrossOut ==
  ASSUME EInv, PInv, NEW t \in Threads, CrossOut(t)
  PROVE  PInv'
<1>0. /\ numbers \in [0 .. upper_bound -> 0 .. upper_bound] /\ numbers # Freed
      /\ SearchedInv /\ CrossedInv /\ global_index \in Nat /\ upper_bound \in Nat
      /\ taken \in [Threads -> Nat] /\ local \in [Threads -> Nat]
  BY Data DEF CrossOut, At, Computing
<1>1. /\ pc[t] = "cross" /\ local[t] <= upper_bound /\ module # "loading"
      /\ numbers' = [numbers EXCEPT ![local[t]] = 0]
      /\ local' = [local EXCEPT ![t] = @ + taken[t]]
      /\ UNCHANGED <<taken, pc, site, module, global_index>>
  BY DEF CrossOut, At, admin
<1>2. \A q \in Nat : q >= 2 /\ Covered(q) => Covered(q)'
  BY CoveredCrossOut
<1>3. PICK q \in Nat : q = taken[t] /\ q >= 2 /\ q < local[t] /\ Divides(q, local[t])
  BY <1>0, <1>1 DEF PInv, CrossesMultiples
<1>4. CrossesMultiples'
  <2>1. local'[t] = local[t] + q /\ \A u \in Threads : u # t => local'[u] = local[u]
    BY <1>0, <1>1, <1>3
  <2>2. Divides(q, local'[t]) /\ q < local'[t]
    BY <1>0, <1>3, <2>1, NextMultiple
  <2> QED BY <1>1, <1>3, <2>1, <2>2 DEF CrossesMultiples, PInv
<1>5. PICK n \in Nat : n = global_index
  BY <1>0
<1>6. SearchedInv'
  BY <1>0, <1>1, <1>2, <1>5, SearchedStep
<1>7. CrossedInv'
  <2>1. ASSUME NEW i \in 2 .. upper_bound
        PROVE  numbers'[i] = i \/ (numbers'[i] = 0 /\ HasCovered(i, 2 .. i - 1)')
    <3>1. CASE i = local[t]
      <4>1. numbers'[i] = 0
        BY <1>0, <1>1, <3>1
      <4>2. q \in 2 .. upper_bound /\ q < global_index
        <5>1. taken[t] < global_index
          BY <1>1 DEF EInv, IndexInv
        <5> QED BY <1>0, <1>1, <1>3, <5>1
      <4>3. PICK r \in 2 .. q : Divides(r, q) /\ Covered(r)
        BY <1>0, <4>2 DEF SearchedInv, HasCovered
      <4>4. r \in 2 .. i - 1 /\ r \in Nat /\ r >= 2 /\ i \in Nat
        BY <1>0, <1>3, <3>1
      <4>5. Divides(r, i)
        BY <1>3, <3>1, <4>3, <4>4, DivisorOfDivisor
      <4>6. Covered(r)'
        BY <1>2, <4>3, <4>4
      <4> QED BY <4>1, <4>4, <4>5, <4>6 DEF HasCovered
    <3>2. CASE i # local[t] /\ HasCovered(i, 2 .. i - 1)
      <4>1. i \in Nat /\ i - 1 \in Nat /\ numbers'[i] = numbers[i]
        BY <1>0, <1>1, <3>2
      <4>2. HasCovered(i, 2 .. i - 1)'
        BY <1>2, <3>2, <4>1, CoveringSteps
      <4> QED BY <1>0, <4>1, <4>2 DEF CrossedInv
    <3>3. CASE i # local[t] /\ numbers[i] = i
      BY <1>0, <1>1, <3>3
    <3> QED BY <1>0, <3>1, <3>2, <3>3 DEF CrossedInv
  <2> QED BY <1>1, <2>1 DEF CrossedInv
<1> QED BY <1>1, <1>4, <1>6, <1>7 DEF PInv

\* So does a thread that is done with a number.
LEMMA PInvCrossedOut ==
  ASSUME EInv, PInv, NEW t \in Threads, CrossedOut(t)
  PROVE  PInv'
<1>0. /\ numbers # Freed /\ SearchedInv /\ CrossedInv /\ global_index \in Nat
      /\ pc \in [Threads -> Labels]
  BY Data DEF CrossedOut, At, Computing
<1>1. /\ pc' = [pc EXCEPT ![t] = "test"] /\ module # "loading"
      /\ UNCHANGED <<numbers, local, taken, site, module, global_index>>
  BY DEF CrossedOut, At, GoTo, shared, admin
<1>2. \A q \in Nat : q >= 2 /\ Covered(q) => Covered(q)'
  BY CoveredCrossedOut
<1>3. CrossesMultiples'
  <2>1. \A u \in Threads : pc'[u] \in {"put", "cross"} => pc'[u] = pc[u]
    BY <1>0, <1>1
  <2> QED BY <1>1, <2>1 DEF CrossesMultiples, PInv
<1>4. PICK n \in Nat : n = global_index
  BY <1>0
<1>5. SearchedInv'
  BY <1>0, <1>1, <1>2, <1>4, SearchedStep
<1>6. CrossedInv'
  BY <1>0, <1>1, <1>2, CrossedStep
<1> QED BY <1>1, <1>3, <1>5, <1>6 DEF PInv

\* Every step keeps the invariant about primes.
LEMMA PInvStep ==
  ASSUME EInv, PInv, [Next]_vars
  PROVE  PInv'
<1>1. CASE Load
  BY <1>1, PInvLoad
<1>2. CASE lab2_exit \/ Unload \/ UNCHANGED vars
  BY <1>2, PInvUnload
<1>3. CASE Stopped
  BY <1>3, PInvUnload DEF Stopped
<1>4. ASSUME NEW t \in Threads, sieve_fn(t) PROVE PInv'
  BY <1>4, PInvQuietThread, PInvSkipCrossed, PInvRead, PInvWrite, PInvCrossOut, PInvCrossedOut
  DEF sieve_fn, compute
<1> QED BY <1>1, <1>2, <1>3, <1>4 DEF Next

(***************************************************************************)
(* The theorem.                                                            *)
(***************************************************************************)

\* Once all threads have come to the second barrier, everything taken has been crossed out
\* from, so every composite is covered through one of its divisors, and nothing else is.
LEMMA PrimesWhenMet ==
  ASSUME EInv, PInv, barrier_state >= 2, numbers # Freed, NEW t \in Threads,
         NEW i \in 2 .. upper_bound
  PROVE  numbers[i] = IF IsPrime(i) THEN i ELSE 0
<1>0. i \in Nat /\ i >= 2 /\ i <= upper_bound /\ upper_bound \in Nat
  BY ParametersAssumption
<1>1. \A u \in Threads : pc[u] # "cross"
  <2>1. ASSUME NEW u \in Threads PROVE Arrived(u) >= 2
    BY DEF EInv, BInv, Meeting, Typed
  <2> QED BY <2>1 DEF Arrived, BeforeArriving, EInv, BInv, Placed, Computing
<1>2. site[t] = 2
  <2>1. Arrived(t) >= 2
    BY DEF EInv, BInv, Meeting, Typed
  <2> QED BY <2>1 DEF Arrived, EInv, BInv, Typed
<1>3. global_index > upper_bound /\ global_index \in Nat
  BY <1>2 DEF PInv, EInv, IndexInv
<1>4. SearchedInv /\ CrossedInv
  BY DEF PInv
<1>5. CASE IsPrime(i)
  <2>1. ASSUME NEW q \in 2 .. i - 1, Divides(q, i) PROVE FALSE
    <3>1. q \in Nat \ {0} /\ i % q # 0
      BY <1>5, <2>1 DEF IsPrime
    <3> QED BY <1>0, <2>1, <3>1, ZeroRemainder
  <2> QED BY <1>4, <1>5, <2>1 DEF CrossedInv, HasCovered
<1>6. CASE ~IsPrime(i)
  <2>1. PICK d \in 2 .. i - 1 : i % d = 0
    BY <1>0, <1>6 DEF IsPrime
  <2>2. d \in Nat \ {0} /\ d \in 2 .. upper_bound /\ d < global_index /\ d < i
    BY <1>0, <1>3
  <2>3. Divides(d, i)
    BY <1>0, <2>1, <2>2, ZeroRemainder
  <2>4. PICK q \in 2 .. d : Divides(q, d) /\ Covered(q)
    BY <1>4, <2>2 DEF SearchedInv, HasCovered
  <2>5. q \in Nat /\ i \in q + 1 .. upper_bound
    BY <1>0, <2>2
  <2>6. Divides(q, i)
    BY <1>0, <2>2, <2>3, <2>4, <2>5, DivisorOfDivisor
  <2>7. numbers[i] = 0
    BY <1>1, <2>4, <2>5, <2>6 DEF Covered
  <2> QED BY <1>6, <2>7
<1> QED BY <1>5, <1>6

\* However the threads race on numbers, the primes are left: a composite that one
\* thread takes before another has crossed it out does no harm, and none is forgotten.
THEOREM LeavesPrimes == Spec => []PrimesLeft
<1>1. Init => PInv
  BY PInvInit
<1>2. EInv /\ PInv /\ [Next]_vars => PInv'
  BY PInvStep
<1>3. EInv /\ PInv => PrimesLeft
  <2> SUFFICES ASSUME EInv, PInv, NEW t \in Threads, Passed(t) = 2 PROVE barrier_state >= 2
    BY PrimesWhenMet DEF PrimesLeft
  <2> QED BY DEF EInv, BInv, Meeting, Typed
<1> QED BY <1>1, <1>2, <1>3, Inductive, PTL DEF Spec

(***************************************************************************)
(* What lab2_exit reports.                                                 *)
(***************************************************************************)

Crossed == {i \in 2 .. upper_bound : numbers[i] = 0}

\* Each number crossed out has been counted at least once.
RInv ==
  /\ numbers = Freed <=> counters = Freed
  /\ numbers # Freed => ValidParameters /\ Cardinality(Crossed) <= count_sum
  /\ ReportRight

\* The counters of threads that are there, and their sum.
LEMMA CountersThere ==
  ASSUME EInv, RInv, numbers # Freed
  PROVE  /\ counters \in [Threads -> Nat] /\ count_sum \in Nat
         /\ IsFiniteSet(Threads)
         /\ numbers \in [0 .. upper_bound -> 0 .. upper_bound]
<1>1. /\ counters \in [Threads -> Nat]
      /\ numbers \in [0 .. upper_bound -> 0 .. upper_bound]
  BY DEF EInv, DataInv, RInv
<1>2. IsFiniteSet(Threads)
  BY Counting
<1> QED BY <1>1, <1>2, SumCounts, CountSumIs

\* With the primes left, what is left over is counted right.
LEMMA CountsRight ==
  ASSUME EInv, RInv, numbers # Freed,
         \A i \in 2 .. upper_bound : numbers[i] = IF IsPrime(i) THEN i ELSE 0
  PROVE  /\ prime_nums = Cardinality({i \in 2 .. upper_bound : IsPrime(i)})
         /\ non_prime_nums = Cardinality({i \in 2 .. upper_bound : ~IsPrime(i)})
         /\ count_sum - non_prime_nums >= 0
<1> DEFINE P == {i \in 2 .. upper_bound : IsPrime(i)}
           Q == {i \in 2 .. upper_bound : ~IsPrime(i)}
<1>1. upper_bound \in Nat /\ upper_bound >= 2
  BY ParametersAssumption DEF RInv, ValidParameters, MIN_PRIME
<1>2. {i \in 2 .. upper_bound : numbers[i] # 0} = P /\ Crossed = Q
  BY <1>1 DEF Crossed
<1>3. IsFiniteSet(2 .. upper_bound) /\ Cardinality(2 .. upper_bound) = upper_bound - 1
  BY <1>1, FS_Interval
<1>4. Q = (2 .. upper_bound) \ P /\ (2 .. upper_bound) \cap P = P /\ P \in SUBSET (2 .. upper_bound)
  OBVIOUS
<1>5. prime_nums = Cardinality(P)
  BY <1>2 DEF prime_nums, MIN_PRIME
<1> HIDE DEF P, Q
<1>6. IsFiniteSet(P) /\ Cardinality(P) \in Nat /\ Cardinality(Q) = (upper_bound - 1) - Cardinality(P)
  <2>1. IsFiniteSet(P)
    BY <1>3, <1>4, FS_Subset
  <2>2. Cardinality(P) \in Nat
    BY <2>1, FS_CardinalityType
  <2>3. Cardinality((2 .. upper_bound) \ P)
          = Cardinality(2 .. upper_bound) - Cardinality((2 .. upper_bound) \cap P)
    BY <1>3, FS_Difference
  <2> QED BY <1>3, <1>4, <2>1, <2>2, <2>3
<1>7. non_prime_nums = Cardinality(Q)
  BY <1>1, <1>5, <1>6 DEF non_prime_nums
<1>8. Cardinality(Q) <= count_sum /\ count_sum \in Nat
  BY <1>2, CountersThere DEF RInv
<1>9. count_sum - non_prime_nums >= 0
  BY <1>1, <1>6, <1>7, <1>8
<1> QED BY <1>5, <1>7, <1>9 DEF P, Q

\* What lab2_exit reports fits the sieve it finds.
LEMMA RInvExit ==
  ASSUME EInv, PInv, RInv, lab2_exit
  PROVE  RInv'
<1>1. numbers # Freed /\ numbers \in [0 .. upper_bound -> 0 .. upper_bound]
  <2>1. numbers \in [0 .. upper_bound -> 0 .. upper_bound]
    BY DEF lab2_exit, ExitWith, EInv, FlagInv
  <2> QED BY <2>1, ParametersAssumption DEF Freed
<1>2. CASE begin_flag = RUNNING
  BY <1>2, CountSumIs DEF lab2_exit, ExitWith, RInv, Crossed, ReportRight
<1>3. CASE begin_flag # RUNNING
  <2>1. barrier_state >= 2 /\ barrier_state \in Nat
    BY <1>3 DEF lab2_exit, ExitWith, EInv, FlagInv, BInv, Typed
  <2>2. 0 \in Threads
    BY <1>1, ParametersAssumption DEF RInv, ValidParameters, MIN_THREADS, Threads
  <2>3. \A i \in 2 .. upper_bound : numbers[i] = IF IsPrime(i) THEN i ELSE 0
    BY <1>1, <2>1, <2>2, PrimesWhenMet
  <2>4. /\ numbers' = Freed /\ counters' = Freed
        /\ report' = [primes |-> prime_nums, non_primes |-> non_prime_nums,
                      unnecessary |-> count_sum - non_prime_nums]
    BY <1>3, <2>1 DEF lab2_exit, ExitWith
  <2>5. ReportRight'
    BY <1>1, <2>3, <2>4, CountsRight DEF ReportRight
  <2> QED BY <2>4, <2>5 DEF RInv
<1> QED BY <1>2, <1>3

\* A number newly crossed out has been counted by the thread that did it.
LEMMA RInvCrossOut ==
  ASSUME EInv, PInv, RInv, NEW t \in Threads, CrossOut(t)
  PROVE  RInv'
<1>1. /\ numbers \in [0 .. upper_bound -> 0 .. upper_bound] /\ numbers # Freed
      /\ local \in [Threads -> Nat] /\ upper_bound \in Nat
  BY Data DEF CrossOut, At, Computing
<1>2. /\ numbers' = [numbers EXCEPT ![local[t]] = 0]
      /\ counters' = [counters EXCEPT ![t] = @ + 1] /\ report' = report
  BY DEF CrossOut, admin
<1>3. counters \in [Threads -> Nat] /\ count_sum \in Nat /\ IsFiniteSet(Threads)
  BY <1>1, CountersThere
<1>4. count_sum' = count_sum + 1
  BY <1>2, <1>3, SumCounts, CountSumIs
<1>5. numbers' # Freed /\ counters' # Freed
  <2>1. 0 \in DOMAIN numbers' /\ t \in DOMAIN counters'
    BY <1>1, <1>2, <1>3
  <2> QED BY <2>1 DEF Freed
<1>6. Cardinality(Crossed') <= Cardinality(Crossed) + 1 /\ Cardinality(Crossed) \in Nat
      /\ Cardinality(Crossed') \in Nat
  <2>1. IsFiniteSet(2 .. upper_bound)
    BY <1>1, FS_Interval
  <2>2. IsFiniteSet(Crossed) /\ IsFiniteSet(Crossed')
    <3>1. Crossed \in SUBSET (2 .. upper_bound) /\ Crossed' \in SUBSET (2 .. upper_bound)
      BY DEF Crossed
    <3> QED BY <2>1, <3>1, FS_Subset
  <2>3. Crossed' \in SUBSET (Crossed \cup {local[t]})
    BY <1>1, <1>2 DEF Crossed
  <2>4. /\ IsFiniteSet(Crossed \cup {local[t]}) /\ Cardinality(Crossed) \in Nat
        /\ Cardinality(Crossed \cup {local[t]}) \in {Cardinality(Crossed), Cardinality(Crossed) + 1}
    BY <2>2, FS_AddElement, FS_CardinalityType
  <2>5. Cardinality(Crossed') <= Cardinality(Crossed \cup {local[t]}) /\ Cardinality(Crossed') \in Nat
    BY <2>2, <2>3, <2>4, FS_Subset, FS_CardinalityType
  <2> QED BY <2>4, <2>5
<1>7. ValidParameters /\ Cardinality(Crossed) <= count_sum
  BY <1>1 DEF RInv
<1>8. Cardinality(Crossed') <= count_sum'
  BY <1>3, <1>4, <1>6, <1>7
<1>9. ReportRight'
  BY <1>2 DEF RInv, ReportRight
<1> QED BY <1>5, <1>7, <1>8, <1>9 DEF RInv, ValidParameters

\* All numbers are there when the arrays are.
LEMMA RInvLoad ==
  ASSUME EInv, RInv, lab2_init
  PROVE  RInv'
<1>1. upper_bound \in Nat /\ num_threads \in Nat /\ ValidParameters
  BY ParametersAssumption DEF lab2_init
<1>2. /\ numbers' = [i \in 0 .. upper_bound |-> i] /\ counters' = [t \in Threads |-> 0]
      /\ report' = report
  BY DEF lab2_init
<1>3. numbers' # Freed /\ counters' # Freed
  <2>1. 0 \in DOMAIN numbers' /\ 0 \in DOMAIN counters'
    BY <1>1, <1>2 DEF ValidParameters, MIN_THREADS, Threads
  <2> QED BY <2>1 DEF Freed
<1>4. Crossed' = {}
  BY <1>2 DEF Crossed
<1>5. Cardinality(Crossed') = 0
  BY <1>4, FS_EmptySet
<1>6. count_sum' \in Nat
  <2>1. counters' \in [Threads -> Nat] /\ IsFiniteSet(Threads)
    BY <1>2, Counting
  <2> QED BY <2>1, SumCounts, CountSumIs
<1>7. ReportRight'
  BY <1>2 DEF RInv, ReportRight
<1> QED BY <1>1, <1>3, <1>5, <1>6, <1>7 DEF RInv, ValidParameters

\* Every step keeps the invariant about the reports.
LEMMA RInvStep ==
  ASSUME EInv, PInv, RInv, [Next]_vars
  PROVE  RInv'
<1>1. ASSUME UNCHANGED <<numbers, counters, report>> PROVE RInv'
  BY <1>1, CountSumIs DEF RInv, Crossed, ReportRight
<1>2. CASE UNCHANGED vars \/ Stopped
  BY <1>1, <1>2 DEF vars, shared, admin, Stopped
<1>3. CASE Load
  BY <1>1, <1>3, RInvLoad DEF Load, lab2_init_fails, lab2_init_oops, kthread_run, shared
<1>4. CASE lab2_exit
  BY <1>4, RInvExit
<1>5. CASE Unload
  BY <1>1, <1>5 DEF Unload, shared
<1>6. ASSUME NEW t \in Threads, sieve_fn(t) PROVE RInv'
  <2>1. CASE CrossOut(t)
    BY <2>1, RInvCrossOut
  <2>2. CASE sbarrier(t) \/ Finish(t) \/ Test(t) \/ CrossedOut(t)
    BY <1>1, <2>2 DEF sbarrier, Enter, Arrive, Last, Wait, Leave, Clear, Finish, Test, CrossedOut,
                      shared, admin
  <2>3. CASE Lock(t) \/ SkipCrossed(t) \/ Read(t) \/ Write(t)
    BY <1>1, <2>3 DEF Lock, SkipCrossed, Read, ReadIndex, Write, WriteIndex, admin
  <2> QED BY <1>6, <2>1, <2>2, <2>3 DEF sieve_fn, compute
<1> QED BY <1>2, <1>3, <1>4, <1>5, <1>6 DEF Next

\* lab2_exit reports the number of primes and of composites, and never fewer than none
\* as unnecessary cross outs: each thread counts its own, without a lock.
THEOREM ReportsRight == Spec => []ReportRight
<1>1. Init => PInv /\ RInv
  BY PInvInit DEF Init, InitWith, RInv, ReportRight
<1>2. EInv /\ PInv /\ RInv /\ [Next]_vars => (PInv /\ RInv)'
  BY PInvStep, RInvStep
<1>3. RInv => ReportRight
  BY DEF RInv
<1> QED BY <1>1, <1>2, <1>3, Inductive, PTL DEF Spec

(***************************************************************************)
(* That all threads end, as far as it does not take fairness.              *)
(***************************************************************************)

\* When every thread runs and not all have ended, there is one that does not wait:
\* neither for a guard of the barrier nor for index_lock.
THEOREM NobodyStuck == Spec => []SomeoneGoesOn
<1>1. Init => LastKnows /\ LockIsHeld
  BY LastKnowsInit DEF Init
<1>2. EInv /\ LastKnows /\ LockIsHeld /\ [Next]_vars => (LastKnows /\ LockIsHeld)'
  <2> SUFFICES ASSUME EInv, LastKnows, LockIsHeld, [Next]_vars PROVE LastKnows' /\ LockIsHeld'
    OBVIOUS
  <2>1. LastKnows'
    BY StepIsShared, LastKnowsStep DEF EInv
  <2>2. CASE IndexNext
    BY <2>1, <2>2, LockIsHeldStep DEF EInv
  <2>3. CASE UNCHANGED <<taken, index_lock, global_index, pc>>
    BY <2>1, <2>3 DEF LockIsHeld, Holding
  <2> QED BY <2>2, <2>3, StepIsIndex DEF EInv
<1>3. EInv /\ LastKnows /\ LockIsHeld => SomeoneGoesOn
  BY OneGoesOn DEF EInv
<1> QED BY <1>1, <1>2, <1>3, Inductive, PTL DEF Spec

\* What is left of the loop that crosses out.
Turns(t) ==
  IF pc[t] = "cross" /\ local[t] <= upper_bound THEN upper_bound + 1 - local[t] ELSE 0

Rank(t) == RankWith(t, Turns(t))

\* A thread's step leaves it less to do, and one of another, or of loading and
\* unloading, leaves it no more.
RanksFall ==
  \A t \in Threads :
    /\ sieve_fn(t) => Less(Rank(t)', Rank(t))
    /\ Rank(t)' = Rank(t) \/ Less(Rank(t)', Rank(t))

\* What is left of the loop is a natural number.
LEMMA TurnsTyped ==
  ASSUME EInv, NEW t \in Threads
  PROVE  Turns(t) \in Nat
  BY ParametersAssumption DEF EInv, IndexInv, DataInv, Turns

\* A thread's own step.
LEMMA OwnStep ==
  ASSUME EInv, PInv, NEW t \in Threads, sieve_fn(t)
  PROVE  Less(Rank(t)', Rank(t))
<1>0. BInv /\ IndexInv
  BY DEF EInv
<1>1. PICK m, n : m = Turns(t) /\ n = Turns(t)'
  OBVIOUS
<1>2. Rank(t) = RankWith(t, m) /\ Rank(t)' = RankWith(t, n)'
  BY <1>1, Zenon DEF Rank, RankWith
<1> SUFFICES Less(RankWith(t, n)', RankWith(t, m))
  BY <1>2
<1>3. CASE sbarrier(t) \/ Finish(t)
  <2>1. global_index' = global_index
    BY <1>3 DEF sbarrier, Enter, Arrive, Last, Wait, Leave, Clear, Finish, shared
  <2> QED BY <1>0, <1>3, <2>1, BarrierFalls, RankFalls
<1>4. CASE Lock(t) \/ Test(t)
  BY <1>0, <1>4, ComputeFalls, RankFalls
<1>5. CASE Read(t)
  <2>1. At(t, "fetch") /\ \E first_local \in Nat : ReadIndex(t, first_local)
    BY <1>0, <1>5 DEF Read, IndexInv, MIN_PRIME
  <2> QED BY <1>0, <2>1, ComputeFalls, RankFalls
<1>6. CASE Write(t)
  <2>1. \E next \in {"cross", "test"} : WriteIndex(t, next)
    BY <1>6 DEF Write
  <2> QED BY <1>0, <2>1, ComputeFalls, RankFalls
<1>7. CASE CrossedOut(t)
  <2>1. At(t, "cross") /\ GoTo(t, "test") /\ UNCHANGED <<global_index, site>>
    BY <1>7 DEF CrossedOut, shared
  <2> QED BY <1>0, <2>1, ComputeFalls, RankFalls
<1>8. CASE CrossOut(t)
  <2>1. /\ pc[t] = "cross" /\ pc'[t] = "cross" /\ site' = site /\ global_index' = global_index
        /\ local[t] <= upper_bound /\ local'[t] = local[t] + taken[t] /\ taken' = taken
    BY <1>0, <1>8 DEF CrossOut, At, EInv, DataInv
  <2>2. Part(t)' = Part(t) /\ Unsearched' = Unsearched
    BY <2>1 DEF Part, Unsearched
  <2> HIDE DEF Unsearched
  <2>3. Place(t)' = Place(t)
    BY <2>1, <2>2 DEF Place
  <2>4. n < m
    <3>1. taken[t] >= 1 /\ taken[t] \in Nat /\ local[t] \in Nat /\ upper_bound \in Nat
      BY <1>0, <2>1, ParametersAssumption DEF PInv, CrossesMultiples, IndexInv, EInv, DataInv
    <3> QED BY <1>1, <2>1, <3>1 DEF Turns
  <2> QED BY <2>2, <2>3, <2>4, RankFalls
<1>9. CASE SkipCrossed(t)
  <2>1. pc[t] = "fetch" /\ pc'[t] = "fetch" /\ global_index <= upper_bound
        /\ global_index' = global_index + 1
    BY <1>9 DEF SkipCrossed, At
  <2>2. Part(t)' = Part(t)
    BY <2>1 DEF Part, InBarrier, Computing
  <2>3. Unsearched' < Unsearched
    BY <1>0, <2>1, ParametersAssumption DEF Unsearched, IndexInv
  <2>4. Onward(t)
    BY <2>2, <2>3 DEF Onward
  <2> QED BY <2>4, RankFalls
<1> QED BY <1>3, <1>4, <1>5, <1>6, <1>7, <1>8, <1>9 DEF sieve_fn, compute

\* A step that leaves a thread where it is, and moves the search on by one at most.
LEMMA OthersStep ==
  ASSUME EInv, NEW t \in Threads, UNCHANGED <<pc[t], site[t], taken[t], local[t]>>,
         global_index' \in {global_index, global_index + 1}
  PROVE  Rank(t)' = Rank(t) \/ Less(Rank(t)', Rank(t))
<1>1. PICK m : m = Turns(t)
  OBVIOUS
<1>2. m \in Nat
  BY <1>1, TurnsTyped
<1>3. Turns(t)' = m
  BY <1>1 DEF Turns
<1>4. Rank(t) = RankWith(t, m) /\ Rank(t)' = RankWith(t, m)'
  BY <1>1, <1>3, Zenon DEF Rank, RankWith
<1>5. RankWith(t, m)' = RankWith(t, m) \/ Less(RankWith(t, m)', RankWith(t, m))
  BY <1>2, OthersFall DEF EInv
<1> QED BY <1>4, <1>5

\* Where a step of another thread leaves this one.
LEMMA Aside ==
  ASSUME EInv, NEW t \in Threads, NEW u \in Threads, u # t, sieve_fn(u)
  PROVE  /\ UNCHANGED <<pc[t], site[t], taken[t], local[t]>>
         /\ global_index' \in {global_index, global_index + 1}
<1> USE DEF EInv, BInv, Typed, IndexInv, DataInv, GoTo, At
<1>1. CASE sbarrier(u) \/ Finish(u) \/ Test(u) \/ CrossedOut(u)
  BY <1>1 DEF sbarrier, Enter, Arrive, Last, Wait, Leave, Clear, Finish, Test, CrossedOut, shared
<1>2. CASE Lock(u) \/ Read(u)
  BY <1>2 DEF Lock, Read, ReadIndex
<1>3. CASE Write(u)
  BY <1>3 DEF Write, WriteIndex
<1>4. CASE CrossOut(u) \/ SkipCrossed(u)
  BY <1>4 DEF CrossOut, SkipCrossed
<1> QED BY <1>1, <1>2, <1>3, <1>4 DEF sieve_fn, compute

\* Every thread gets nearer to its end with each of its steps, in an order without
\* infinite descent, whatever the others do meanwhile: with NobodyStuck, all end when
\* those that do not wait are scheduled.
THEOREM StepsRunOut == Spec => [](\A t \in Threads : Rank(t) \in Ranks) /\ [][RanksFall]_vars
<1>1. EInv => \A t \in Threads : Rank(t) \in Ranks
  <2> SUFFICES ASSUME EInv, NEW t \in Threads PROVE Rank(t) \in Ranks
    OBVIOUS
  <2>1. PICK m : m = Turns(t)
    OBVIOUS
  <2>2. m \in Nat
    BY <2>1, TurnsTyped
  <2>3. RankWith(t, m) \in Ranks
    BY <2>2, RankTyped DEF EInv
  <2> QED BY <2>1, <2>3 DEF Rank
<1>2. EInv /\ PInv /\ [Next]_vars => [RanksFall]_vars
  <2> SUFFICES ASSUME EInv, PInv, Next, NEW t \in Threads
               PROVE  /\ sieve_fn(t) => Less(Rank(t)', Rank(t))
                      /\ Rank(t)' = Rank(t) \/ Less(Rank(t)', Rank(t))
    BY DEF RanksFall
  <2>1. CASE sieve_fn(t)
    BY <2>1, OwnStep
  <2>2. CASE ~sieve_fn(t)
    <3>1. ASSUME NEW u \in Threads, sieve_fn(u)
          PROVE  Rank(t)' = Rank(t) \/ Less(Rank(t)', Rank(t))
      BY <2>2, <3>1, Aside, OthersStep
    <3>2. CASE kthread_run /\ t = spawned
      <4>1. /\ pc[t] = "none" /\ pc'[t] \in {"none", "enter"} /\ site'[t] = site[t] /\ site[t] = 1
            /\ UNCHANGED <<taken, local, global_index>>
        <5>1. pc[t] = "none"
          BY <3>2, ParametersAssumption DEF kthread_run, EInv, BInv, Typed, Unstarted, Threads
        <5>2. site[t] = 1
          BY <5>1 DEF EInv, BInv, Placed
        <5> QED BY <3>2, <5>1, <5>2 DEF kthread_run, EInv, BInv, Typed, shared
      <4>2. CASE pc'[t] = "none"
        BY <2>2, <4>1, <4>2, OthersStep
      <4>3. CASE pc'[t] = "enter"
        <5>1. Part(t)' < Part(t)
          BY <4>1, <4>3 DEF Part, InBarrier, Computing
        <5>2. PICK m, n : m = Turns(t) /\ n = Turns(t)'
          OBVIOUS
        <5>3. Rank(t) = RankWith(t, m) /\ Rank(t)' = RankWith(t, n)'
          BY <5>2, Zenon DEF Rank, RankWith
        <5> QED BY <2>2, <5>1, <5>3, RankFalls DEF Onward
      <4> QED BY <4>1, <4>2, <4>3
    <3>3. CASE (Load /\ ~(kthread_run /\ t = spawned)) \/ lab2_exit \/ Unload \/ Stopped
      <4>1. /\ UNCHANGED <<pc[t], site[t], taken[t], local[t]>>
            /\ global_index' \in {global_index, global_index + 1}
        <5>1. CASE kthread_run /\ t # spawned
          BY <5>1 DEF kthread_run, EInv, BInv, Typed, shared
        <5>2. CASE lab2_init_fails \/ lab2_init_oops \/ lab2_init
          BY <5>2 DEF lab2_init_fails, lab2_init_oops, lab2_init, shared
        <5>3. CASE lab2_exit \/ Unload \/ Stopped
          BY <5>3 DEF lab2_exit, ExitWith, Unload, Stopped, vars, shared
        <5> QED BY <3>3, <5>1, <5>2, <5>3 DEF Load
      <4> QED BY <2>2, <4>1, OthersStep
    <3> QED BY <2>2, <3>1, <3>2, <3>3 DEF Next, Load
  <2> QED BY <2>1, <2>2
<1>3. Init => PInv
  BY PInvInit
<1>4. EInv /\ PInv /\ [Next]_vars => PInv'
  BY PInvStep
<1> QED BY <1>1, <1>2, <1>3, <1>4, Inductive, PTL DEF Spec
=============================================================================
