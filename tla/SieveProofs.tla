---------------------------- MODULE SieveProofs ----------------------------
(***************************************************************************)
(* The barrier of lab2 for every number of threads, whatever the threads   *)
(* compute between its two uses: sbarrier implements PhaseBarrier and can  *)
(* be used again at once.  EratosthenesProofs and SundaramProofs apply     *)
(* this to the two algorithms.                                             *)
(***************************************************************************)
EXTENDS SieveThreads, FiniteSetTheorems, WellFoundedInduction, TLAPS

Labels == {"none", "flag", "end"} \cup InBarrier \cup Computing

(***************************************************************************)
(* The steps of the two modules, as far as the barrier can tell.           *)
(***************************************************************************)

\* A step within compute that stays in it.
Computes(t) ==
  /\ pc[t] \in Computing
  /\ \E label \in Computing : GoTo(t, label)
  /\ UNCHANGED <<guards, site, spawned, module>>

\* Loading that fails, lab2_exit, unloading.
Ends ==
  /\ \/ module = "loading" /\ module' \in {"failed", "oops"}
     \/ module \in {"live", "exited"} /\ module' \in {"exited", "unloaded"}
  /\ UNCHANGED <<guards, pc, site, spawned>>

SharedNext ==
  \/ lab2_init \/ kthread_run \/ Ends
  \/ \E t \in Threads : sbarrier(t) \/ Computes(t) \/ Test(t) \/ Finish(t)

barrierVars == <<guards, pc, site, spawned, module>>

(***************************************************************************)
(* The inductive invariant.                                                *)
(***************************************************************************)

\* The threads that have begun the next meeting, and those the current one has
\* released but that have not counted themselves out.
In       == {t \in Threads : Arrived(t) = barrier_state + 1}
Released == {t \in Threads : pc[t] \in {"wait", "leave"} /\ site[t] = barrier_state}

Typed ==
  /\ module \in ModuleStates /\ spawned \in 0 .. num_threads
  /\ barrier_state \in Nat /\ start_guard \in Int /\ end_guard \in Int
  /\ pc \in [Threads -> Labels] /\ site \in [Threads -> {1, 2}]

Unstarted ==
  /\ module = "loading" => spawned = 0
  /\ module = "spawning" => spawned < num_threads
  /\ module \in {"loading", "spawning"} => \A t \in Threads : t >= spawned => pc[t] = "none"

NotLoaded ==
  module \in {"loading", "failed", "oops"} => \A t \in Threads : pc[t] = "none"

Placed ==
  \A t \in Threads :
    /\ pc[t] \in {"none"} \cup Computing => site[t] = 1
    /\ pc[t] \in {"flag", "end"} => site[t] = 2

\* Nobody is more than one meeting ahead, and start_guard counts who is to come.
Meeting ==
  /\ \A t \in Threads : Arrived(t) \in {barrier_state, barrier_state + 1}
  /\ \A t \in Threads : Passed(t) <= barrier_state
  /\ module \notin {"loading", "failed", "oops"} => start_guard = num_threads - Cardinality(In)
  /\ \A t \in Threads : pc[t] = "last" => In = Threads
  /\ \A t, u \in Threads : pc[t] = "last" /\ pc[u] = "last" => t = u

Clearing == \E t \in Threads : pc[t] = "clear"

\* end_guard counts who has left the current meeting, and while it does nobody
\* begins the next.
Leaving ==
  /\ end_guard = IF Released # {} THEN num_threads - Cardinality(Released)
                 ELSE IF Clearing THEN num_threads ELSE 0
  /\ Clearing => Released = {}
  /\ \A t, u \in Threads : pc[t] = "clear" /\ pc[u] = "clear" => t = u
  /\ \A t \in Threads : pc[t] = "arrive" \/ t \in In => Released = {} /\ ~Clearing

BInv == Typed /\ Unstarted /\ NotLoaded /\ Placed /\ Meeting /\ Leaving

(***************************************************************************)
(* Counting threads.                                                       *)
(***************************************************************************)

\* Sets of threads can be counted, and only the whole has num_threads of them.
LEMMA Counting ==
  ASSUME NEW S \in SUBSET Threads
  PROVE  /\ IsFiniteSet(S)
         /\ Cardinality(S) \in 0 .. num_threads
         /\ Cardinality(S) = num_threads => S = Threads
         /\ Cardinality(S) = 0 <=> S = {}
         /\ Cardinality(Threads) = num_threads
<1>1. IsFiniteSet(Threads) /\ Cardinality(Threads) = num_threads
  BY FS_Interval, ParametersAssumption DEF Threads
<1>2. IsFiniteSet(S) /\ Cardinality(S) <= num_threads /\ (Cardinality(S) = num_threads => S = Threads)
  BY <1>1, FS_Subset
<1>3. Cardinality(S) \in Nat
  BY <1>2, FS_CardinalityType
<1>4. Cardinality(S) = 0 <=> S = {}
  BY <1>2, FS_EmptySet
<1> QED BY <1>1, <1>2, <1>3, <1>4, ParametersAssumption

\* One thread more, and one less.
LEMMA CountingOn ==
  ASSUME NEW S \in SUBSET Threads, NEW t \in Threads
  PROVE  /\ t \notin S => Cardinality(S \cup {t}) = Cardinality(S) + 1
         /\ t \in S => Cardinality(S \ {t}) = Cardinality(S) - 1
  BY Counting, FS_AddElement, FS_RemoveElement

\* Where there is a thread, num_threads is not zero.
LEMMA SomeThread ==
  ASSUME NEW t \in Threads
  PROVE  num_threads > 0
  BY ParametersAssumption, SMT DEF Threads

(***************************************************************************)
(* Every step preserves the invariant.                                     *)
(***************************************************************************)

USE DEF barrierVars, guards

\* Every step keeps the types of what the barrier uses.
LEMMA TypedStep ==
  ASSUME BInv, SharedNext
  PROVE  Typed'
<1> USE ParametersAssumption DEF BInv, Typed, Labels, InBarrier, Computing, ModuleStates, GoTo, At
<1>1. CASE lab2_init
  BY <1>1 DEF lab2_init
<1>2. CASE kthread_run
  BY <1>2 DEF kthread_run, Unstarted, Threads
<1>3. CASE Ends
  BY <1>3 DEF Ends
<1>4. ASSUME NEW t \in Threads, sbarrier(t) PROVE Typed'
  BY <1>4 DEF sbarrier, Enter, Arrive, Last, Wait, Leave, Clear, Return, admin
<1>5. ASSUME NEW t \in Threads, Computes(t) PROVE Typed'
  BY <1>5 DEF Computes
<1>6. ASSUME NEW t \in Threads, Test(t) PROVE Typed'
  BY <1>6 DEF Test, admin
<1>7. ASSUME NEW t \in Threads, Finish(t) PROVE Typed'
  BY <1>7 DEF Finish, admin
<1> QED BY <1>1, <1>2, <1>3, <1>4, <1>5, <1>6, <1>7 DEF SharedNext

\* Every step keeps which threads have started, and which meeting is their next.
LEMMA PlacedStep ==
  ASSUME BInv, SharedNext
  PROVE  Unstarted' /\ NotLoaded' /\ Placed'
<1> USE ParametersAssumption
    DEF BInv, Typed, Unstarted, NotLoaded, Placed, Labels, InBarrier, Computing, GoTo, At
<1>1. CASE lab2_init
  BY <1>1, TypedStep DEF lab2_init, ValidParameters, MIN_THREADS, Threads
<1>2. CASE kthread_run
  BY <1>2 DEF kthread_run, Threads
<1>3. CASE Ends
  BY <1>3 DEF Ends
<1>4. ASSUME NEW t \in Threads, sbarrier(t) PROVE Unstarted' /\ NotLoaded' /\ Placed'
  BY <1>4 DEF sbarrier, Enter, Arrive, Last, Wait, Leave, Clear, Return, admin
<1>5. ASSUME NEW t \in Threads, Computes(t) PROVE Unstarted' /\ NotLoaded' /\ Placed'
  BY <1>5 DEF Computes
<1>6. ASSUME NEW t \in Threads, Test(t) PROVE Unstarted' /\ NotLoaded' /\ Placed'
  BY <1>6 DEF Test, admin
<1>7. ASSUME NEW t \in Threads, Finish(t) PROVE Unstarted' /\ NotLoaded' /\ Placed'
  BY <1>7 DEF Finish, admin, Meeting, Passed, Arrived
<1> QED BY <1>1, <1>2, <1>3, <1>4, <1>5, <1>6, <1>7 DEF SharedNext

\* A step the meeting does not notice.
Quiet ==
  /\ \A t \in Threads : Arrived(t)' = Arrived(t) /\ Passed(t)' = Passed(t)
  /\ \A t \in Threads : pc'[t] = "last" => pc[t] = "last"
  /\ barrier_state' = barrier_state

QuietStep(t) == Enter(t) \/ Leave(t) \/ Clear(t) \/ Computes(t) \/ Test(t) \/ Finish(t)

\* These steps leave the meeting and its counter alone.
LEMMA QuietSteps ==
  ASSUME BInv, kthread_run \/ Ends \/ \E t \in Threads : QuietStep(t)
  PROVE  Quiet /\ start_guard' = start_guard
<1> USE DEF BInv, Typed, Placed, Quiet, Arrived, Passed, BeforeArriving
<1>1. CASE kthread_run
  <2>1. spawned \in Threads /\ pc[spawned] = "none" /\ site[spawned] = 1
    BY <1>1, ParametersAssumption DEF kthread_run, Unstarted, Threads
  <2> QED BY <1>1, <2>1 DEF kthread_run
<1>2. CASE Ends
  BY <1>2 DEF Ends
<1>3. ASSUME NEW t \in Threads, QuietStep(t) PROVE Quiet /\ start_guard' = start_guard
  BY <1>3 DEF QuietStep, Enter, Leave, Clear, Computes, Test, Finish, At, GoTo, Return, Computing
<1> QED BY <1>1, <1>2, <1>3

\* Every step keeps the count of the threads that wait.
LEMMA MeetingStep ==
  ASSUME BInv, SharedNext
  PROVE  Meeting'
<1>0. BInv /\ Typed' /\ \A t \in Threads : num_threads > 0
  BY TypedStep, SomeThread
<1>1. CASE lab2_init
  <2>1. \A t \in Threads : pc[t] = "none" /\ site[t] = 1
    BY <1>0, <1>1 DEF BInv, Unstarted, Placed, lab2_init, Threads
  <2>2. \A t \in Threads : Arrived(t)' = Arrived(t) /\ Passed(t)' = Passed(t)
    BY <1>1 DEF lab2_init, Arrived, Passed
  <2>3. In' = {}
    BY <2>1, <1>1, <1>0 DEF In, Arrived, lab2_init, BeforeArriving, BInv, Typed
  <2>4. Cardinality(In') = 0
    BY <2>3, Counting
  <2> QED BY <1>0, <1>1, <2>1, <2>2, <2>4, ParametersAssumption DEF lab2_init, BInv, Meeting
<1>2. CASE kthread_run \/ Ends \/ \E t \in Threads : QuietStep(t)
  <2>1. Quiet /\ start_guard' = start_guard
    BY <1>0, <1>2, QuietSteps
  <2>2. In' = In
    BY <2>1 DEF Quiet, In
  <2>3. module' \notin {"loading", "failed", "oops"} => module \notin {"loading", "failed", "oops"}
    BY <1>2 DEF kthread_run, Ends, QuietStep, Enter, Leave, Clear, Computes, Test, Finish, admin
  <2> QED BY <1>0, <2>1, <2>2, <2>3 DEF BInv, Meeting, Quiet
<1>3. ASSUME NEW t \in Threads, Arrive(t) PROVE Meeting'
  <2> USE DEF Arrived, Passed, BeforeArriving
  <2>1. pc[t] = "arrive" /\ barrier_state' = barrier_state /\ site' = site /\ module' = module
        /\ start_guard' = start_guard - 1 /\ module \notin {"loading", "failed", "oops"}
        /\ pc' = [pc EXCEPT ![t] = IF start_guard = 1 THEN "last" ELSE "wait"]
    BY <1>3 DEF Arrive, At, GoTo, admin
  <2>2. Arrived(t) = barrier_state /\ site[t] = barrier_state + 1
    BY <1>0, <2>1 DEF BInv, Typed, Meeting
  <2>3. \A u \in Threads : u # t => Arrived(u)' = Arrived(u) /\ Passed(u)' = Passed(u)
    BY <1>0, <2>1 DEF BInv, Typed
  <2>4. Arrived(t)' = barrier_state + 1 /\ Passed(t)' = Passed(t)
    BY <1>0, <2>1, <2>2 DEF BInv, Typed
  <2>5. In' = In \cup {t} /\ t \notin In /\ In \in SUBSET Threads
    BY <1>0, <2>1, <2>2, <2>3, <2>4 DEF In, BInv, Typed
  <2>6. Cardinality(In') = Cardinality(In) + 1 /\ Cardinality(In) \in Nat
    BY <2>5, Counting, CountingOn
  <2>7. start_guard = 1 => In' = Threads
    <3>1. start_guard = 1 => Cardinality(In') = num_threads
      BY <1>0, <2>1, <2>6, ParametersAssumption DEF BInv, Meeting
    <3> QED BY <2>5, <3>1, Counting
  <2>8. \A u \in Threads : pc[u] # "last"
    BY <1>0, <2>5 DEF BInv, Meeting
  <2>9. \A u \in Threads : pc'[u] = "last" => u = t /\ start_guard = 1
    BY <1>0, <2>1, <2>8 DEF BInv, Typed
  <2>10. start_guard' = num_threads - Cardinality(In')
    BY <1>0, <2>1, <2>6, ParametersAssumption DEF BInv, Meeting
  <2>11. \A u \in Threads : Arrived(u)' \in {barrier_state, barrier_state + 1} /\ Passed(u)' <= barrier_state
    BY <1>0, <2>2, <2>3, <2>4 DEF BInv, Meeting
  <2> QED BY <2>1, <2>7, <2>9, <2>10, <2>11 DEF Meeting
<1>4. ASSUME NEW t \in Threads, Last(t) PROVE Meeting'
  <2> USE DEF Arrived, Passed, BeforeArriving
  <2>1. pc[t] = "last" /\ barrier_state' = barrier_state + 1 /\ site' = site
        /\ start_guard' = num_threads /\ pc' = [pc EXCEPT ![t] = "leave"]
    BY <1>4 DEF Last, At, GoTo
  <2>2. \A u \in Threads : Arrived(u) = barrier_state + 1
    BY <1>0, <2>1 DEF BInv, Meeting, In
  <2>3. \A u \in Threads : Arrived(u)' = Arrived(u)
    BY <1>0, <2>1 DEF BInv, Typed
  <2>4. \A u \in Threads : Passed(u)' <= barrier_state + 1
    BY <1>0, <2>1, <2>2 DEF BInv, Typed, Meeting
  <2>5. In' = {}
    BY <1>0, <2>1, <2>2, <2>3 DEF In, BInv, Typed
  <2>6. Cardinality(In') = 0
    BY <2>5, Counting
  <2>7. \A u \in Threads : pc'[u] # "last"
    BY <1>0, <2>1 DEF BInv, Typed, Meeting
  <2> QED BY <1>0, <2>1, <2>2, <2>3, <2>4, <2>6, <2>7, ParametersAssumption DEF Meeting, BInv, Typed
<1>5. ASSUME NEW t \in Threads, Wait(t) PROVE Meeting'
  <2> USE DEF Arrived, Passed, BeforeArriving
  <2>1. pc[t] = "wait" /\ start_guard = num_threads /\ UNCHANGED <<guards, site, module>>
        /\ pc' = [pc EXCEPT ![t] = "leave"] /\ module \notin {"loading", "failed", "oops"}
    BY <1>5 DEF Wait, At, GoTo, admin
  <2>2. Cardinality(In) = 0 /\ In \in SUBSET Threads
    BY <1>0, <2>1, Counting, ParametersAssumption DEF BInv, Meeting, In
  <2>3. In = {}
    BY <2>2, Counting
  <2>4. \A u \in Threads : Arrived(u)' = Arrived(u)
    BY <1>0, <2>1 DEF BInv, Typed
  <2>5. site[t] = barrier_state
    BY <1>0, <2>1, <2>3 DEF BInv, Meeting, In
  <2>6. \A u \in Threads : Passed(u)' <= barrier_state
    BY <1>0, <2>1, <2>5 DEF BInv, Typed, Meeting
  <2>7. In' = In
    BY <2>1, <2>4 DEF In
  <2>8. \A u \in Threads : pc'[u] = "last" => pc[u] = "last"
    BY <1>0, <2>1 DEF BInv, Typed
  <2> QED BY <1>0, <2>1, <2>4, <2>6, <2>7, <2>8 DEF Meeting, BInv
<1> QED BY <1>1, <1>2, <1>3, <1>4, <1>5 DEF SharedNext, sbarrier, QuietStep

\* Where a thread can be when it has begun the next meeting, or is leaving this one.
LEMMA Whereabouts ==
  ASSUME BInv, NEW t \in Threads
  PROVE  /\ t \in In => pc[t] \in {"last", "wait"} /\ site[t] = barrier_state + 1
         /\ pc[t] = "leave" => site[t] = barrier_state
         /\ pc[t] = "last" => t \in In
  BY DEF BInv, Typed, Placed, Meeting, In, Arrived, Passed, BeforeArriving, Labels, InBarrier,
         Computing

\* Every step keeps the count of the threads that leave.
LEMMA LeavingStep ==
  ASSUME BInv, SharedNext
  PROVE  Leaving'
<1>0. BInv /\ Typed' /\ \A t \in Threads : num_threads > 0
  BY TypedStep, SomeThread
<1>1. CASE lab2_init
  <2>1. \A t \in Threads : pc[t] = "none" /\ pc'[t] = "none" /\ site[t] = 1
    BY <1>0, <1>1 DEF BInv, Unstarted, Placed, lab2_init, Threads
  <2>2. In' = {} /\ Released' = {} /\ ~Clearing' /\ end_guard' = 0
    BY <2>1, <1>0, <1>1 DEF In, Released, Clearing, Arrived, lab2_init, BeforeArriving, BInv, Typed,
                           Meeting
  <2> QED BY <2>1, <2>2 DEF Leaving, Clearing
<1>2. CASE kthread_run \/ Ends \/ \E t \in Threads : Computes(t) \/ Test(t) \/ Finish(t) \/ Wait(t)
  <2>1. In' = In
    <3>1. CASE kthread_run \/ Ends \/ \E t \in Threads : Computes(t) \/ Test(t) \/ Finish(t)
      BY <1>0, <3>1, QuietSteps DEF Quiet, In, QuietStep
    <3>2. ASSUME NEW t \in Threads, Wait(t) PROVE In' = In
      BY <1>0, <3>2 DEF In, Wait, At, GoTo, Arrived, BeforeArriving, BInv, Typed
    <3> QED BY <1>2, <3>1, <3>2
  <2> DEFINE Same == /\ end_guard' = end_guard /\ barrier_state' = barrier_state
                     /\ \A t \in Threads :
                          /\ pc'[t] = "clear" <=> pc[t] = "clear"
                          /\ pc'[t] = "arrive" <=> pc[t] = "arrive"
                          /\ pc'[t] \in {"wait", "leave"} <=> pc[t] \in {"wait", "leave"}
                          /\ pc'[t] \in {"wait", "leave"} => site'[t] = site[t]
  <2>2. Same
    <3>1. CASE kthread_run
      <4>1. spawned \in Threads /\ pc[spawned] = "none"
        BY <1>0, <3>1, ParametersAssumption DEF kthread_run, BInv, Typed, Unstarted, Threads
      <4> QED BY <1>0, <3>1, <4>1 DEF kthread_run, BInv, Typed
    <3>2. CASE Ends
      BY <3>2 DEF Ends
    <3>3. ASSUME NEW t \in Threads, Computes(t) \/ Test(t) \/ Finish(t) \/ Wait(t)
          PROVE  Same
      BY <1>0, <3>3 DEF Computes, Test, Finish, Wait, At, GoTo, Computing, BInv, Typed
    <3> QED BY <1>2, <3>1, <3>2, <3>3
  <2>3. Released' = Released /\ Clearing' = Clearing
    BY <2>2 DEF Released, Clearing
  <2> QED BY <1>0, <2>1, <2>2, <2>3 DEF BInv, Leaving
<1>3. ASSUME NEW t \in Threads, Enter(t) PROVE Leaving'
  <2>1. pc[t] = "enter" /\ end_guard = 0 /\ UNCHANGED <<guards, site>> /\ pc' = [pc EXCEPT ![t] = "arrive"]
    BY <1>3 DEF Enter, At, GoTo
  <2>2. Released' = Released /\ Clearing' = Clearing /\ t \notin Released /\ Released \in SUBSET Threads
    BY <1>0, <2>1 DEF Released, Clearing, BInv, Typed
  <2>3. In' = In
    BY <1>0, <1>3, QuietSteps DEF Quiet, In, QuietStep
  <2>4. Released = {}
    <3>1. Released # {} => Cardinality(Released) = num_threads
      BY <1>0, <2>1, <2>2, Counting, ParametersAssumption DEF BInv, Leaving
    <3> QED BY <2>2, <3>1, Counting
  <2>5. ~Clearing
    BY <1>0, <2>1, <2>4 DEF BInv, Leaving
  <2> QED BY <1>0, <2>1, <2>2, <2>3, <2>4, <2>5 DEF BInv, Typed, Leaving, Clearing
<1>4. ASSUME NEW t \in Threads, Arrive(t) PROVE Leaving'
  <2>1. pc[t] = "arrive" /\ UNCHANGED <<barrier_state, end_guard, site>>
        /\ pc' = [pc EXCEPT ![t] = IF start_guard = 1 THEN "last" ELSE "wait"]
    BY <1>4 DEF Arrive, At, GoTo
  <2>2. Released = {} /\ ~Clearing /\ end_guard = 0
    BY <1>0, <2>1 DEF BInv, Leaving
  <2>3. site[t] = barrier_state + 1
    BY <1>0, <2>1 DEF BInv, Typed, Meeting, Arrived, Passed, BeforeArriving
  <2>4. Released' = {} /\ ~Clearing'
    BY <1>0, <2>1, <2>2, <2>3 DEF Released, Clearing, BInv, Typed
  <2> QED BY <2>1, <2>2, <2>4 DEF Leaving, Clearing
<1>5. ASSUME NEW t \in Threads, Last(t) PROVE Leaving'
  <2>1. pc[t] = "last" /\ barrier_state' = barrier_state + 1 /\ UNCHANGED <<end_guard, site>>
        /\ pc' = [pc EXCEPT ![t] = "leave"]
    BY <1>5 DEF Last, At, GoTo
  <2>2. In = Threads /\ end_guard = 0
    BY <1>0, <2>1 DEF BInv, Meeting, Leaving
  <2>3. \A u \in Threads : site[u] = barrier_state + 1 /\ (u # t => pc[u] = "wait")
    BY <1>0, <2>1, <2>2, Whereabouts DEF BInv, Meeting
  <2>4. Released' = Threads /\ \A u \in Threads : pc'[u] \in {"wait", "leave"}
    BY <1>0, <2>1, <2>3 DEF Released, BInv, Typed
  <2>5. In' = {}
    BY <1>0, <2>1, <2>3, <2>4 DEF In, Arrived, BeforeArriving, BInv, Typed
  <2>6. Cardinality(Released') = num_threads /\ Released' # {}
    BY <2>4, Counting
  <2> QED BY <2>1, <2>2, <2>4, <2>5, <2>6, ParametersAssumption DEF Leaving, Clearing
<1>6. ASSUME NEW t \in Threads, Leave(t) PROVE Leaving'
  <2>1. pc[t] = "leave" /\ UNCHANGED <<barrier_state, site>> /\ end_guard' = end_guard + 1
        /\ pc' = [pc EXCEPT ![t] = IF end_guard + 1 = num_threads THEN "clear" ELSE Return(t)]
        /\ Return(t) \in {"lock", "flag"}
    BY <1>6 DEF Leave, At, GoTo, Return
  <2>2. t \in Released /\ Released \in SUBSET Threads
    BY <1>0, <2>1, Whereabouts DEF Released
  <2>3. end_guard = num_threads - Cardinality(Released) /\ ~Clearing
        /\ \A u \in Threads : pc[u] # "arrive" /\ u \notin In
    BY <1>0, <2>2 DEF BInv, Leaving
  <2>4. Released' = Released \ {t}
    BY <1>0, <2>1 DEF Released, BInv, Typed
  <2>5. Cardinality(Released') = Cardinality(Released) - 1 /\ Cardinality(Released) \in Nat
    BY <2>2, <2>4, Counting, CountingOn
  <2>6. Cardinality(Released') = 0 <=> Released' = {}
    BY <2>2, <2>4, Counting
  <2>7. end_guard' = num_threads - Cardinality(Released')
    BY <2>1, <2>3, <2>5, ParametersAssumption
  <2>8. Released' = {} <=> end_guard + 1 = num_threads
    BY <2>1, <2>5, <2>6, <2>7, ParametersAssumption
  <2>9. \A u \in Threads : pc'[u] = "clear" <=> u = t /\ end_guard + 1 = num_threads
    BY <1>0, <2>1, <2>3 DEF Clearing, BInv, Typed
  <2>10. In' = In
    BY <1>0, <1>6, QuietSteps DEF Quiet, In, QuietStep
  <2>11. \A u \in Threads : pc'[u] # "arrive"
    BY <1>0, <2>1, <2>3 DEF BInv, Typed
  <2> QED BY <2>1, <2>3, <2>7, <2>8, <2>9, <2>10, <2>11 DEF Leaving, Clearing
<1>7. ASSUME NEW t \in Threads, Clear(t) PROVE Leaving'
  <2>1. pc[t] = "clear" /\ UNCHANGED <<barrier_state, site>> /\ end_guard' = 0
        /\ pc' = [pc EXCEPT ![t] = Return(t)] /\ Return(t) \in {"lock", "flag"}
    BY <1>7 DEF Clear, At, GoTo, Return
  <2>2. Released = {} /\ \A u \in Threads : u # t => pc[u] # "clear"
    BY <1>0, <2>1 DEF BInv, Leaving, Clearing
  <2>3. Released' = {} /\ ~Clearing'
    BY <1>0, <2>1, <2>2 DEF Released, Clearing, BInv, Typed
  <2> QED BY <2>1, <2>3 DEF Leaving, Clearing
<1> QED BY <1>1, <1>2, <1>3, <1>4, <1>5, <1>6, <1>7 DEF SharedNext, sbarrier

\* The barrier's invariant holds before the module is loaded.
LEMMA BInvInit ==
  ASSUME NEW first_index, InitWith(first_index)
  PROVE  BInv
<1> USE DEF InitWith
<1>1. \A t \in Threads : pc[t] = "none" /\ site[t] = 1 /\ Arrived(t) = 0 /\ Passed(t) = 0
  BY DEF Arrived, Passed, BeforeArriving
<1>2. In = {} /\ Released = {} /\ ~Clearing
  BY <1>1 DEF In, Released, Clearing
<1>3. Typed /\ Unstarted /\ NotLoaded /\ Placed
  BY <1>1, ParametersAssumption DEF Typed, Unstarted, NotLoaded, Placed, ModuleStates, Labels, Computing
<1>4. Meeting
  BY <1>1 DEF Meeting
<1>5. Leaving
  BY <1>1, <1>2 DEF Leaving
<1> QED BY <1>3, <1>4, <1>5 DEF BInv

\* Every step keeps the barrier's invariant.
LEMMA BInvStep ==
  ASSUME BInv, [SharedNext]_barrierVars
  PROVE  BInv'
<1>1. CASE SharedNext
  BY <1>1, TypedStep, PlacedStep, MeetingStep, LeavingStep DEF BInv
<1>2. CASE UNCHANGED barrierVars
  BY <1>2 DEF BInv, Typed, Unstarted, NotLoaded, Placed, Meeting, Leaving, In, Released, Clearing, Arrived,
              Passed
<1> QED BY <1>1, <1>2

(***************************************************************************)
(* What the invariant gives.                                               *)
(***************************************************************************)

\* By the invariant a released thread finds start_guard at num_threads again.
LEMMA BInvReleases ==
  ASSUME BInv
  PROVE  ReleasedMayLeave
<1> SUFFICES ASSUME NEW t \in Threads, pc[t] = "wait", site[t] <= barrier_state
             PROVE  start_guard = num_threads
  BY DEF ReleasedMayLeave
<1>1. site[t] = barrier_state
  BY DEF BInv, Typed, Meeting, Arrived, BeforeArriving
<1>2. t \in Released
  BY <1>1 DEF Released
<1>3. In = {}
  BY <1>2 DEF BInv, Leaving, In
<1>4. Cardinality(In) = 0
  BY <1>3, Counting
<1>5. module \notin {"loading", "failed", "oops"}
  BY DEF BInv, Meeting, NotLoaded
<1> QED BY <1>4, <1>5, ParametersAssumption DEF BInv, Meeting

\* The barrier starts as the abstract one does.
LEMMA BarrierInit ==
  ASSUME NEW first_index, InitWith(first_index)
  PROVE  Barrier!Init
  BY DEF InitWith, Barrier!Init, Arrived, Passed, BeforeArriving

\* Every step is one of the abstract barrier or changes nothing of it.
LEMMA BarrierStep ==
  ASSUME BInv, [SharedNext]_barrierVars
  PROVE  [Barrier!Next]_(Barrier!vars)
<1> DEFINE arrived == [t \in Threads |-> Arrived(t)]
           passed  == [t \in Threads |-> Passed(t)]
<1>1. CASE UNCHANGED barrierVars
  BY <1>1 DEF Barrier!vars, Arrived, Passed
<1>2. CASE lab2_init
  BY <1>2 DEF lab2_init, Barrier!vars, Arrived, Passed
<1>3. CASE kthread_run \/ Ends \/ \E t \in Threads : QuietStep(t)
  <2>1. Quiet
    BY <1>3, QuietSteps
  <2> QED BY <2>1 DEF Quiet, Barrier!vars
<1>4. ASSUME NEW t \in Threads, Arrive(t) PROVE Barrier!Arrive(t)
  <2> USE DEF Arrived, Passed, BeforeArriving, BInv, Typed
  <2>1. pc[t] = "arrive" /\ site' = site /\ pc' = [pc EXCEPT ![t] = IF start_guard = 1 THEN "last" ELSE "wait"]
    BY <1>4 DEF Arrive, At, GoTo
  <2>2. Arrived(t)' = Arrived(t) + 1 /\ Passed(t)' = Passed(t) /\ Arrived(t) = Passed(t)
    BY <2>1
  <2>3. \A u \in Threads : u # t => Arrived(u)' = Arrived(u) /\ Passed(u)' = Passed(u)
    BY <2>1
  <2> HIDE DEF Arrived, Passed
  <2>4. arrived' = [arrived EXCEPT ![t] = @ + 1] /\ passed' = passed
    BY <2>2, <2>3
  <2> QED BY <2>2, <2>4 DEF Barrier!Arrive
<1>5. ASSUME NEW t \in Threads, Last(t) \/ Wait(t) PROVE Barrier!Pass(t)
  <2> USE DEF Arrived, Passed, BeforeArriving
  <2>1. pc[t] \in {"last", "wait"} /\ site' = site /\ pc' = [pc EXCEPT ![t] = "leave"]
    BY <1>5 DEF Last, Wait, At, GoTo
  <2>2. Arrived(t)' = Arrived(t) /\ Passed(t)' = Arrived(t) /\ Passed(t) < Arrived(t)
    BY <2>1 DEF BInv, Typed
  <2>3. \A u \in Threads : u # t => Arrived(u)' = Arrived(u) /\ Passed(u)' = Passed(u)
    BY <2>1 DEF BInv, Typed
  <2>4. \A u \in Threads : Arrived(t) <= Arrived(u)
    <3>1. CASE Last(t)
      <4>1. In = Threads
        BY <3>1 DEF Last, At, BInv, Meeting
      <4> QED BY <4>1 DEF In, BInv, Typed
    <3>2. CASE Wait(t)
      <4>1. Cardinality(In) = 0
        BY <3>2, Counting, ParametersAssumption DEF Wait, At, BInv, Meeting, In
      <4>2. In = {}
        BY <4>1, Counting DEF In
      <4> HIDE DEF Arrived
      <4>3. \A u \in Threads : Arrived(u) = barrier_state
        BY <4>2 DEF In, BInv, Meeting
      <4> QED BY <4>3 DEF BInv, Typed
    <3> QED BY <1>5, <3>1, <3>2
  <2> HIDE DEF Arrived, Passed
  <2>5. passed' = [passed EXCEPT ![t] = arrived[t]] /\ arrived' = arrived
    BY <2>2, <2>3
  <2> QED BY <2>2, <2>4, <2>5 DEF Barrier!Pass
<1> QED BY <1>1, <1>2, <1>3, <1>4, <1>5 DEF SharedNext, sbarrier, QuietStep, Barrier!Next

(***************************************************************************)
(* The shared index: its steps, and what index_lock is for.                *)
(***************************************************************************)

Holding(t) == pc[t] \in {"fetch", "put"}

\* A step that takes no index: at most the thread that searches moves it on.
TakesNone ==
  /\ UNCHANGED <<taken, index_lock>>
  /\ \A t \in Threads : Holding(t)' <=> Holding(t)
  /\ \A t \in Threads : pc'[t] = "put" <=> pc[t] = "put"
  /\ \/ global_index' = global_index
     \/ global_index' = global_index + 1 /\ \E t \in Threads : pc[t] = "fetch"

IndexNext ==
  \/ TakesNone
  \/ \E t \in Threads :
       \/ Lock(t)
       \/ At(t, "fetch") /\ \E first_local \in Nat : ReadIndex(t, first_local)
       \/ \E next \in {"cross", "test"} : WriteIndex(t, next)

IndexInv ==
  /\ pc \in [Threads -> Labels]
  /\ taken \in [Threads -> Nat]
  /\ global_index \in Nat \ {0}
  /\ index_lock \in Threads \cup {Nobody}
  /\ \A t \in Threads : Holding(t) => index_lock = t
  /\ \A t \in Threads : IF pc[t] = "put" THEN taken[t] = global_index ELSE taken[t] < global_index
  /\ EachIndexTakenOnce

\* Every step keeps who holds the lock, and numbers taken below global_index.
LEMMA IndexStep ==
  ASSUME IndexInv, IndexNext, pc' \in [Threads -> Labels]
  PROVE  IndexInv'
<1>0. Nobody \notin Threads
  BY DEF Nobody, Threads
<1> USE DEF IndexInv, EachIndexTakenOnce, GoTo, At
<1>1. CASE TakesNone
  <2>1. \A t, u \in Threads : pc[t] = "put" => pc[u] # "fetch"
    BY DEF Holding
  <2>2. \A t \in Threads : IF pc'[t] = "put" THEN taken'[t] = global_index' ELSE taken'[t] < global_index'
    BY <1>1, <2>1 DEF TakesNone
  <2> QED BY <1>1, <2>2 DEF TakesNone
<1>2. ASSUME NEW t \in Threads, Lock(t) PROVE IndexInv'
  <2>1. \A u \in Threads : ~Holding(u)
    BY <1>0, <1>2 DEF Lock
  <2> QED BY <1>2, <2>1 DEF Lock, Holding
<1>3. ASSUME NEW t \in Threads, At(t, "fetch"), NEW first_local \in Nat, ReadIndex(t, first_local)
      PROVE  IndexInv'
  <2>1. \A u \in Threads : u # t => ~Holding(u) /\ taken[u] < global_index
    BY <1>3 DEF Holding
  <2> QED BY <1>3, <2>1 DEF ReadIndex, Holding
<1>4. ASSUME NEW t \in Threads, NEW next \in {"cross", "test"}, WriteIndex(t, next)
      PROVE  IndexInv'
  <2>1. \A u \in Threads : u # t => ~Holding(u) /\ taken[u] < global_index
    BY <1>4 DEF Holding, WriteIndex
  <2>2. taken[t] = global_index
    BY <1>4 DEF WriteIndex
  <2> QED BY <1>4, <2>1, <2>2 DEF WriteIndex, Holding
<1> QED BY <1>1, <1>2, <1>3, <1>4 DEF IndexNext

(***************************************************************************)
(* Nobody waits for ever, so far as the barrier and the lock go.           *)
(***************************************************************************)

\* What a thread spins on: the guards of Enter and Wait, and index_lock.
Waits(t) ==
  \/ pc[t] = "enter" /\ end_guard # 0
  \/ pc[t] = "wait" /\ start_guard # num_threads
  \/ pc[t] = "lock" /\ index_lock # Nobody

AllRun == \A t \in Threads : pc[t] # "none"

\* When every thread runs, all have ended or one of them can go on.
SomeoneGoesOn ==
  AllRun => \/ \A t \in Threads : pc[t] = "end"
            \/ \E t \in Threads : pc[t] # "end" /\ ~Waits(t)

\* When all have begun a meeting one of them knows that it is the last, and who has
\* the lock is on its way to release it.
LastKnows == Threads # {} /\ In = Threads => \E t \in Threads : pc[t] = "last"

LockIsHeld == \A t \in Threads : index_lock = t => Holding(t)

\* Before loading nobody has begun a meeting.
LEMMA LastKnowsInit ==
  ASSUME NEW first_index, InitWith(first_index)
  PROVE  LastKnows /\ LockIsHeld
<1>1. \A t \in Threads : t \notin In
  BY DEF InitWith, In, Arrived, BeforeArriving
<1>2. \A t \in Threads : index_lock # t
  BY DEF InitWith, Nobody, Threads
<1> QED BY <1>1, <1>2 DEF LastKnows, LockIsHeld

\* Every step keeps that the last one knows.
LEMMA LastKnowsStep ==
  ASSUME BInv, LastKnows, [SharedNext]_barrierVars
  PROVE  LastKnows'
<1> SUFFICES ASSUME Threads # {}, In' = Threads
             PROVE  \E t \in Threads : pc'[t] = "last"
  BY DEF LastKnows, Threads
<1>0. Typed' /\ num_threads > 0 /\ num_threads \in Nat
  <2>1. BInv'
    BY BInvStep
  <2> QED BY <2>1, SomeThread, ParametersAssumption DEF BInv
<1>1. CASE UNCHANGED barrierVars
  <2>1. In' = In
    BY <1>1 DEF In, Arrived
  <2> QED BY <1>1, <2>1 DEF LastKnows
<1>2. CASE lab2_init
  <2>1. \A t \in Threads : pc[t] = "none" /\ site[t] = 1
    BY <1>2 DEF BInv, Unstarted, Placed, lab2_init, Threads
  <2>2. In' = {}
    BY <1>0, <1>2, <2>1 DEF In, Arrived, lab2_init, BeforeArriving, BInv, Typed
  <2> QED BY <2>2
<1>3. CASE kthread_run \/ Ends \/ \E t \in Threads : QuietStep(t)
  <2>1. In' = In
    BY <1>3, QuietSteps DEF Quiet, In
  <2>2. PICK t \in Threads : pc[t] = "last"
    BY <2>1 DEF LastKnows
  <2>3. pc'[t] = "last"
    <3>1. CASE kthread_run
      <4>1. pc[spawned] = "none"
        BY <3>1, ParametersAssumption DEF kthread_run, BInv, Typed, Unstarted, Threads
      <4> QED BY <2>2, <3>1, <4>1 DEF kthread_run, BInv, Typed
    <3>2. CASE Ends
      BY <2>2, <3>2 DEF Ends
    <3>3. ASSUME NEW u \in Threads, QuietStep(u) PROVE pc'[t] = "last"
      BY <2>2, <3>3 DEF QuietStep, Enter, Leave, Clear, Computes, Test, Finish, At, GoTo, Computing,
                        BInv, Typed
    <3> QED BY <1>3, <3>1, <3>2, <3>3
  <2> QED BY <2>3
<1>4. ASSUME NEW t \in Threads, Arrive(t) PROVE \E u \in Threads : pc'[u] = "last"
  <2>1. module \notin {"loading", "failed", "oops"} /\ module' = module
        /\ start_guard' = start_guard - 1
        /\ pc' = [pc EXCEPT ![t] = IF start_guard = 1 THEN "last" ELSE "wait"]
    BY <1>4 DEF Arrive, At, GoTo, admin
  <2>2. Meeting'
    BY <1>4, MeetingStep DEF SharedNext, sbarrier
  <2>3. Cardinality(In') = num_threads
    BY Counting
  <2>4. start_guard' = 0
    BY <1>0, <2>1, <2>2, <2>3 DEF Meeting
  <2>5. start_guard = 1
    BY <2>1, <2>4 DEF BInv, Typed
  <2> QED BY <2>1, <2>5 DEF BInv, Typed
<1>5. ASSUME NEW t \in Threads, Last(t) PROVE FALSE
  <2>1. pc[t] = "last" /\ barrier_state' = barrier_state + 1 /\ pc' = [pc EXCEPT ![t] = "leave"]
        /\ site' = site
    BY <1>5 DEF Last, At, GoTo
  <2>2. Arrived(t) = barrier_state + 1 /\ Arrived(t) = site[t]
    BY <2>1 DEF BInv, Meeting, In, Arrived, BeforeArriving
  <2>3. Arrived(t)' = site[t]
    BY <2>1 DEF Arrived, BeforeArriving, BInv, Typed
  <2>4. t \notin In'
    BY <2>1, <2>2, <2>3 DEF In, BInv, Typed
  <2> QED BY <2>4
<1>6. ASSUME NEW t \in Threads, Wait(t) PROVE FALSE
  <2>1. pc[t] = "wait" /\ start_guard = num_threads /\ UNCHANGED <<guards, site>>
        /\ pc' = [pc EXCEPT ![t] = "leave"] /\ module \notin {"loading", "failed", "oops"}
    BY <1>6 DEF Wait, At, GoTo
  <2>2. In \in SUBSET Threads
    BY DEF In
  <2>3. In = {}
    BY <1>0, <2>1, <2>2, Counting DEF BInv, Meeting
  <2>4. Arrived(t)' = Arrived(t)
    BY <2>1 DEF Arrived, BeforeArriving, BInv, Typed
  <2>5. t \notin In'
    BY <2>1, <2>3, <2>4 DEF In
  <2> QED BY <2>5
<1> QED BY <1>1, <1>2, <1>3, <1>4, <1>5, <1>6 DEF SharedNext, sbarrier, QuietStep

\* Every step keeps that the lock is held by who is on its way to release it.
LEMMA LockIsHeldStep ==
  ASSUME IndexInv, LockIsHeld, IndexNext
  PROVE  LockIsHeld'
<1> USE DEF IndexInv, LockIsHeld, Holding, GoTo
<1>1. CASE TakesNone
  BY <1>1 DEF TakesNone
<1>2. ASSUME NEW t \in Threads, Lock(t) PROVE LockIsHeld'
  BY <1>2 DEF Lock
<1>3. ASSUME NEW t \in Threads, At(t, "fetch"), NEW first_local \in Nat, ReadIndex(t, first_local)
      PROVE  LockIsHeld'
  BY <1>3 DEF ReadIndex, At
<1>4. ASSUME NEW t \in Threads, NEW next \in {"cross", "test"}, WriteIndex(t, next)
      PROVE  LockIsHeld'
  BY <1>4 DEF WriteIndex, Nobody, Threads
<1> QED BY <1>1, <1>2, <1>3, <1>4 DEF IndexNext

\* With these no circle of waiting closes: who waits to enter waits for one that
\* leaves, who waits in the meeting for one that has yet to come, and who waits for
\* the lock for one that computes.
LEMMA OneGoesOn ==
  ASSUME BInv, IndexInv, LastKnows, LockIsHeld
  PROVE  SomeoneGoesOn
<1> SUFFICES ASSUME AllRun, NEW t \in Threads, pc[t] # "end",
                    \A u \in Threads : pc[u] = "end" \/ Waits(u)
             PROVE  FALSE
  BY DEF SomeoneGoesOn
<1>0. /\ BInv /\ Typed /\ num_threads \in Nat /\ num_threads > 0
      /\ \A u \in Threads : pc[u] \in Labels /\ site[u] \in {1, 2}
  BY SomeThread, ParametersAssumption DEF BInv, Typed
<1>1. module \notin {"loading", "failed", "oops"}
  BY DEF AllRun, BInv, NotLoaded
<1>2. \A u \in Threads : pc[u] \in {"end", "enter", "wait", "lock"}
  BY DEF Waits
<1>3. \A u \in Threads : pc[u] # "lock"
  <2>1. ASSUME NEW u \in Threads, pc[u] = "lock" PROVE FALSE
    <3>1. index_lock \in Threads
      BY <2>1 DEF Waits, IndexInv
    <3>2. Holding(index_lock)
      BY <3>1 DEF LockIsHeld
    <3> QED BY <1>2, <3>1, <3>2 DEF Holding
  <2> QED BY <2>1
<1>4. Released = {}
  <2>1. ASSUME NEW u \in Threads, u \in Released PROVE FALSE
    <3>1. pc[u] = "wait" /\ site[u] = barrier_state
      BY <1>2, <2>1 DEF Released
    <3>2. start_guard = num_threads
      BY <1>0, <3>1, BInvReleases DEF ReleasedMayLeave, Typed
    <3> QED BY <3>1, <3>2 DEF Waits
  <2> QED BY <2>1 DEF Released
<1>5. end_guard = 0
  BY <1>2, <1>4 DEF BInv, Leaving, Clearing
<1>6. \A u \in Threads : pc[u] \in {"end", "wait"}
  BY <1>2, <1>3, <1>5 DEF Waits
<1>7. pc[t] = "wait" /\ start_guard # num_threads
  BY <1>6 DEF Waits
<1>8. t \in In
  BY <1>0, <1>4, <1>7 DEF Released, In, Arrived, BeforeArriving, Typed, BInv, Meeting
<1>9. site[t] = barrier_state + 1
  BY <1>7, <1>8 DEF In, Arrived, BeforeArriving
<1>10. \A u \in Threads : u \in In
  <2>1. ASSUME NEW u \in Threads PROVE u \in In
    <3>1. CASE pc[u] = "wait"
      BY <1>0, <1>4, <3>1 DEF Released, In, Arrived, BeforeArriving, Typed, BInv, Meeting
    <3>2. CASE pc[u] = "end"
      <4>1. site[u] = 2 /\ Passed(u) = 2
        BY <1>0, <3>2 DEF BInv, Placed, Passed, BeforeArriving
      <4>2. barrier_state >= 2
        BY <1>0, <4>1 DEF BInv, Meeting
      <4> QED BY <1>0, <1>9, <4>2 DEF Typed
    <3> QED BY <1>6, <3>1, <3>2
  <2> QED BY <2>1
<1>11. In = Threads
  BY <1>10 DEF In
<1>12. PICK u \in Threads : pc[u] = "last"
  BY <1>11 DEF LastKnows
<1> QED BY <1>6, <1>12

(***************************************************************************)
(* No thread goes on for ever.                                             *)
(***************************************************************************)

\* What is left for a thread to do: the parts of sieve_fn, the numbers nobody has
\* passed yet, the places in the part, and a loop.  Where numbers are left, a thread
\* past the loop may come round again; it has passed one when it does.
Part(t) ==
  CASE pc[t] = "none" -> 4
    [] pc[t] \in InBarrier -> IF site[t] = 1 THEN 3 ELSE 1
    [] pc[t] \in Computing -> 2
    [] pc[t] \in {"flag", "end"} -> 0

Unsearched == IF global_index <= upper_bound THEN upper_bound + 1 - global_index ELSE 0

Place(t) ==
  CASE pc[t] = "enter" -> 4
    [] pc[t] = "arrive" -> 3
    [] pc[t] \in {"last", "wait"} -> 2
    [] pc[t] \in {"leave", "flag"} -> 1
    [] pc[t] \in {"none", "clear", "end"} -> 0
    [] pc[t] = "lock"  -> IF Unsearched > 0 THEN 2 ELSE 4
    [] pc[t] = "fetch" -> IF Unsearched > 0 THEN 1 ELSE 3
    [] pc[t] = "put"   -> IF Unsearched > 0 THEN 0 ELSE 2
    [] pc[t] = "cross" -> IF Unsearched > 0 THEN 4 ELSE 1
    [] pc[t] = "test"  -> IF Unsearched > 0 THEN 3 ELSE 0

RankWith(t, turns) == <<Part(t), Unsearched, Place(t), turns>>

Ranks == Nat \X Nat \X Nat \X Nat

\* The lexicographic order on Ranks, which has no infinite descent.
Less(a, b) ==
  \/ a[1] < b[1]
  \/ a[1] = b[1] /\ a[2] < b[2]
  \/ a[1] = b[1] /\ a[2] = b[2] /\ a[3] < b[3]
  \/ a[1] = b[1] /\ a[2] = b[2] /\ a[3] = b[3] /\ a[4] < b[4]

\* A step by which t comes nearer to its end, loops apart.
Onward(t) ==
  \/ Part(t)' < Part(t)
  \/ Part(t)' = Part(t) /\ Unsearched' < Unsearched
  \/ Part(t)' = Part(t) /\ Unsearched' = Unsearched /\ Place(t)' < Place(t)

\* The three first parts of a rank are natural numbers.
LEMMA RankTyped ==
  ASSUME BInv, IndexInv, NEW t \in Threads, NEW turns \in Nat
  PROVE  /\ RankWith(t, turns) \in Ranks
         /\ Part(t) \in Nat /\ Unsearched \in Nat /\ Place(t) \in Nat
<1>1. pc[t] \in Labels
  BY DEF BInv, Typed
<1>2. Part(t) \in Nat
  BY <1>1 DEF Part, Labels, InBarrier, Computing
<1>3. Unsearched \in Nat
  BY ParametersAssumption DEF Unsearched, IndexInv
<1>4. Place(t) \in Nat
  BY <1>1, <1>3 DEF Place, Labels, InBarrier, Computing
<1> QED BY <1>2, <1>3, <1>4 DEF RankWith, Ranks

\* When numbers are passed every thread that stays in its part has less to do, and
\* otherwise whoever goes on to a later place.
LEMMA RankFalls ==
  ASSUME NEW t \in Threads, NEW m, NEW n
  PROVE  /\ Onward(t) => Less(RankWith(t, n)', RankWith(t, m))
         /\ Part(t)' = Part(t) /\ Unsearched' = Unsearched /\ Place(t)' = Place(t) /\ n < m =>
              Less(RankWith(t, n)', RankWith(t, m))
<1>1. /\ RankWith(t, m) = <<Part(t), Unsearched, Place(t), m>>
      /\ RankWith(t, n)' = <<Part(t)', Unsearched', Place(t)', n>>
  BY DEF RankWith
<1> HIDE DEF Part, Unsearched, Place, RankWith
<1> QED BY <1>1 DEF Less, Onward

\* The steps of the barrier, and a thread's last.
LEMMA BarrierFalls ==
  ASSUME BInv, IndexInv, NEW t \in Threads, sbarrier(t) \/ Finish(t), global_index' = global_index
  PROVE  Onward(t)
<1>1. Unsearched' = Unsearched
  BY DEF Unsearched
<1>2. pc[t] \in Labels /\ site[t] \in {1, 2} /\ site' = site /\ pc \in [Threads -> Labels]
      /\ site \in [Threads -> {1, 2}]
  BY DEF BInv, Typed, sbarrier, Enter, Arrive, Last, Wait, Leave, Clear, Finish
<1> HIDE DEF Unsearched
<1>3. CASE Enter(t) \/ Arrive(t) \/ Last(t) \/ Wait(t)
  <2>1. \/ pc[t] = "enter" /\ pc'[t] = "arrive"
        \/ pc[t] = "arrive" /\ pc'[t] \in {"last", "wait"}
        \/ pc[t] \in {"last", "wait"} /\ pc'[t] = "leave"
    BY <1>2, <1>3 DEF Enter, Arrive, Last, Wait, At, GoTo
  <2> QED BY <1>1, <1>2, <2>1 DEF Onward, Part, Place, InBarrier, Computing
<1>4. CASE Leave(t) \/ Clear(t)
  <2>1. /\ pc[t] \in {"leave", "clear"}
        /\ \/ pc[t] = "leave" /\ pc'[t] = "clear"
           \/ site[t] = 1 /\ pc'[t] = "lock"
           \/ site[t] = 2 /\ pc'[t] = "flag"
    BY <1>2, <1>4 DEF Leave, Clear, At, GoTo, Return
  <2> QED BY <1>1, <1>2, <2>1 DEF Onward, Part, Place, InBarrier, Computing
<1>5. CASE Finish(t)
  <2>1. pc[t] = "flag" /\ pc'[t] = "end"
    BY <1>2, <1>5 DEF Finish, At, GoTo
  <2> QED BY <1>1, <2>1 DEF Onward, Part, Place, InBarrier, Computing
<1> QED BY <1>3, <1>4, <1>5 DEF sbarrier

\* The steps of compute that both algorithms have, and the test that ends crossing out.
LEMMA ComputeFalls ==
  ASSUME BInv, IndexInv, NEW t \in Threads,
         \/ Lock(t) \/ Test(t)
         \/ At(t, "fetch") /\ \E first_local \in Nat : ReadIndex(t, first_local)
         \/ \E next \in {"cross", "test"} : WriteIndex(t, next)
         \/ At(t, "cross") /\ GoTo(t, "test") /\ UNCHANGED <<global_index, site>>
  PROVE  Onward(t)
<1>1. /\ pc[t] \in Labels /\ pc \in [Threads -> Labels] /\ site \in [Threads -> {1, 2}]
      /\ global_index \in Nat /\ upper_bound \in Nat
  BY ParametersAssumption DEF BInv, Typed, IndexInv
<1>2. CASE \/ Lock(t)
           \/ At(t, "fetch") /\ \E first_local \in Nat : ReadIndex(t, first_local)
           \/ At(t, "cross") /\ GoTo(t, "test") /\ UNCHANGED <<global_index, site>>
  <2>1. /\ \/ pc[t] = "lock" /\ pc'[t] = "fetch"
           \/ pc[t] = "fetch" /\ pc'[t] = "put"
           \/ pc[t] = "cross" /\ pc'[t] = "test"
        /\ global_index' = global_index
    BY <1>1, <1>2 DEF Lock, ReadIndex, At, GoTo
  <2>2. Unsearched' = Unsearched
    BY <2>1 DEF Unsearched
  <2>3. Part(t)' = 2 /\ Part(t) = 2
    BY <2>1 DEF Part, InBarrier, Computing
  <2> HIDE DEF Unsearched
  <2>4. Place(t)' < Place(t)
    BY <2>1, <2>2 DEF Place
  <2> QED BY <2>2, <2>3, <2>4 DEF Onward
<1>3. CASE \E next \in {"cross", "test"} : WriteIndex(t, next)
  <2>1. pc[t] = "put" /\ pc'[t] \in {"cross", "test"} /\ global_index' = global_index + 1
    BY <1>1, <1>3 DEF WriteIndex, At, GoTo, IndexInv
  <2>2. Part(t)' = 2 /\ Part(t) = 2
    BY <2>1 DEF Part, InBarrier, Computing
  <2>3. CASE global_index <= upper_bound
    BY <1>1, <2>1, <2>2, <2>3 DEF Onward, Unsearched
  <2>4. CASE ~(global_index <= upper_bound)
    <3>1. Unsearched' = 0 /\ Unsearched = 0
      BY <1>1, <2>1, <2>4 DEF Unsearched
    <3> HIDE DEF Unsearched
    <3>2. Place(t)' < Place(t)
      BY <2>1, <3>1 DEF Place
    <3> QED BY <2>2, <3>1, <3>2 DEF Onward
  <2> QED BY <2>3, <2>4
<1>4. CASE Test(t)
  <2>1. pc[t] = "test" /\ global_index' = global_index
        /\ IF global_index <= upper_bound THEN pc'[t] = "lock" ELSE pc'[t] = "enter" /\ site'[t] = 2
    BY <1>1, <1>4 DEF Test, At, GoTo, shared
  <2>2. Unsearched' = Unsearched
    BY <2>1 DEF Unsearched
  <2>3. Part(t) = 2
    BY <2>1 DEF Part, InBarrier, Computing
  <2>4. CASE global_index <= upper_bound
    <3>1. Unsearched > 0
      BY <1>1, <2>4 DEF Unsearched
    <3>2. Part(t)' = 2
      BY <2>1, <2>4 DEF Part, InBarrier, Computing
    <3> HIDE DEF Unsearched
    <3>3. Place(t)' < Place(t)
      BY <2>1, <2>2, <2>4, <3>1 DEF Place
    <3> QED BY <2>2, <2>3, <3>2, <3>3 DEF Onward
  <2>5. CASE ~(global_index <= upper_bound)
    <3>1. Part(t)' = 1
      BY <2>1, <2>5 DEF Part, InBarrier, Computing
    <3> QED BY <2>3, <3>1 DEF Onward
  <2> QED BY <2>4, <2>5
<1> QED BY <1>2, <1>3, <1>4

\* What a thread has left to do does not grow by what others do.
LEMMA OthersFall ==
  ASSUME BInv, IndexInv, NEW u \in Threads, NEW m \in Nat,
         pc'[u] = pc[u], site'[u] = site[u], global_index' \in {global_index, global_index + 1}
  PROVE  RankWith(u, m)' = RankWith(u, m) \/ Less(RankWith(u, m)', RankWith(u, m))
<1>1. global_index \in Nat /\ upper_bound \in Nat
  BY ParametersAssumption DEF IndexInv
<1>2. Part(u)' = Part(u)
  BY DEF Part
<1>3. CASE Unsearched' = Unsearched
  <2>1. Place(u)' = Place(u)
    BY <1>3 DEF Place
  <2> QED BY <1>2, <1>3, <2>1 DEF RankWith
<1>4. CASE Unsearched' # Unsearched
  <2>1. global_index' = global_index + 1
    BY <1>4 DEF Unsearched
  <2>2. global_index <= upper_bound
    BY <1>1, <1>4, <2>1 DEF Unsearched
  <2>3. Unsearched' < Unsearched
    BY <1>1, <2>1, <2>2 DEF Unsearched
  <2> QED BY <1>2, <2>3 DEF Less, RankWith
<1> QED BY <1>3, <1>4

(***************************************************************************)
(* begin_flag and the arrays.                                              *)
(***************************************************************************)

\* begin_flag is cleared only when all have begun the second meeting, and
\* lab2_exit frees numbers only when it is clear.
FlagInv ==
  /\ begin_flag \in {0, RUNNING}
  /\ module \in {"spawning", "live", "exited"} /\ begin_flag # RUNNING => barrier_state >= 2
  /\ module \in {"spawning", "live"} => numbers \in [0 .. upper_bound -> 0 .. upper_bound]
  /\ module = "exited" /\ numbers = Freed => begin_flag # RUNNING

DataInv ==
  /\ local \in [Threads -> Nat]
  /\ numbers = Freed \/ numbers \in [0 .. upper_bound -> 0 .. upper_bound]
  /\ counters = Freed \/ counters \in [Threads -> Nat]
  /\ module \in {"loading", "failed", "oops"} => start_guard = 0

\* The arrays are there for a thread that computes.
LEMMA ArraysThere ==
  ASSUME BInv, FlagInv, DataInv, NEW t \in Threads, pc[t] \in Computing,
         module \in {"spawning", "live", "exited"}
  PROVE  numbers \in [0 .. upper_bound -> 0 .. upper_bound]
<1>1. site[t] = 1
  BY DEF BInv, Placed
<1>2. barrier_state < 2
  BY <1>1 DEF BInv, Typed, Meeting, Arrived
<1>3. begin_flag = RUNNING
  BY <1>2 DEF FlagInv, BInv, Typed
<1> QED BY <1>3 DEF FlagInv, DataInv

(***************************************************************************)
(* Divisors.                                                               *)
(***************************************************************************)

Divides(q, n) == \E k \in Nat : n = k * q

\* A remainder of zero is a divisor.
LEMMA ZeroRemainder ==
  ASSUME NEW n \in Nat, NEW d \in Nat \ {0}
  PROVE  n % d = 0 <=> Divides(d, n)
<1>1. ASSUME n % d = 0 PROVE Divides(d, n)
  <2>1. n = (n \div d) * d
    BY <1>1
  <2>2. n \div d \in Nat
    OBVIOUS
  <2> QED BY <2>1, <2>2 DEF Divides
<1>2. ASSUME NEW k \in Nat, n = k * d PROVE n % d = 0
  BY <1>2
<1> QED BY <1>1, <1>2 DEF Divides

(***************************************************************************)
(* The sum of the counters.                                                *)
(***************************************************************************)

\* Every set of natural numbers has a least element.
LEMMA LeastNumber ==
  ASSUME NEW S \in SUBSET Nat, S # {}
  PROVE  \E m \in S : \A x \in S : m <= x
<1> DEFINE R == OpToRel(<, Nat)
<1>1. PICK m \in S : \A x \in S : ~(<<x, m>> \in R)
  <2> HIDE DEF R
  <2>1. IsWellFoundedOn(R, Nat)
    BY NatLessThanWellFounded DEF R
  <2> QED BY <2>1, WFMin
<1>2. ASSUME NEW x \in S, ~(m <= x) PROVE FALSE
  <2>1. x \in Nat /\ m \in Nat /\ x < m
    BY <1>2
  <2>2. <<x, m>> \in R
    BY <2>1 DEF OpToRel
  <2> HIDE DEF R
  <2> QED BY <1>1, <2>2
<1> QED BY <1>2

\* The element a sum over s takes first, and the sums over all subsets of S.
First(s) == CHOOSE x \in s : TRUE

SumOf(f, s, g) == IF s = {} THEN 0 ELSE f[First(s)] + g[s \ {First(s)}]

Sums(f, S, g) == g = [s \in SUBSET S |-> SumOf(f, s, g)]

\* Taking the first element away makes a set smaller.
LEMMA WithoutFirst ==
  ASSUME NEW S, IsFiniteSet(S), NEW s \in SUBSET S, s # {}
  PROVE  /\ First(s) \in s /\ First(s) \in S /\ s \ {First(s)} \in SUBSET S
         /\ Cardinality(s) \in Nat \ {0}
         /\ Cardinality(s \ {First(s)}) = Cardinality(s) - 1
<1>1. First(s) \in s
  BY DEF First
<1>2. IsFiniteSet(s)
  BY FS_Subset
<1>3. Cardinality(s) \in Nat \ {0}
  BY <1>2, FS_CardinalityType, FS_EmptySet
<1>4. Cardinality(s \ {First(s)}) = Cardinality(s) - 1
  BY <1>1, <1>2, FS_RemoveElement
<1> QED BY <1>1, <1>3, <1>4

\* With the sums over the subsets of n - 1 elements there are those over the subsets
\* of n, so there are sums over all subsets.
LEMMA SumsExist ==
  ASSUME NEW S, IsFiniteSet(S), NEW f
  PROVE  \E g : Sums(f, S, g)
<1> DEFINE Upto(n) == {s \in SUBSET S : Cardinality(s) <= n}
           Has(n, g) == g = [s \in Upto(n) |-> SumOf(f, s, g)]
           B == {n \in Nat : ~\E g : Has(n, g)}
<1>0. \A s \in SUBSET S : Cardinality(s) \in Nat /\ Cardinality(s) <= Cardinality(S)
  BY FS_Subset, FS_CardinalityType
<1>1. B = {}
  <2>1. SUFFICES ASSUME B # {} PROVE FALSE
    OBVIOUS
  <2>2. B \in SUBSET Nat
    OBVIOUS
  <2>3. PICK m \in B : \A x \in B : m <= x
    <3> HIDE DEF B
    <3> QED BY <2>1, <2>2, LeastNumber
  <2>4. m \in Nat /\ ~\E g : Has(m, g)
    OBVIOUS
  <2> HIDE DEF Has
  <2>5. CASE m = 0
    <3> DEFINE g == [s \in Upto(0) |-> 0]
    <3>1. ASSUME NEW s \in Upto(0), s # {} PROVE FALSE
      <4>1. s \in SUBSET S /\ Cardinality(s) <= 0
        OBVIOUS
      <4>2. Cardinality(s) \in Nat \ {0}
        BY <3>1, <4>1, WithoutFirst
      <4> QED BY <4>1, <4>2
    <3>2. Has(0, g)
      BY <3>1 DEF Has, SumOf
    <3> QED BY <2>4, <2>5, <3>2
  <2>6. CASE m # 0
    <3>1. m - 1 \in Nat /\ ~(m <= m - 1)
      BY <2>4, <2>6
    <3>2. PICK g : Has(m - 1, g)
      BY <2>3, <3>1
    <3> DEFINE h == [s \in Upto(m) |-> SumOf(f, s, g)]
    <3>3. ASSUME NEW s \in Upto(m) PROVE h[s] = SumOf(f, s, h)
      <4>1. CASE s = {}
        BY <4>1 DEF SumOf
      <4>2. CASE s # {}
        <5> DEFINE r == s \ {First(s)}
        <5>1. r \in SUBSET S /\ Cardinality(r) = Cardinality(s) - 1 /\ Cardinality(s) \in Nat
          BY <4>2, WithoutFirst
        <5>2. r \in Upto(m - 1) /\ r \in Upto(m)
          BY <2>4, <5>1
        <5>3. h[r] = SumOf(f, r, g)
          BY <5>2
        <5>4. g[r] = SumOf(f, r, g)
          BY <3>2, <5>2 DEF Has
        <5>5. h[s] = f[First(s)] + g[r]
          BY <4>2 DEF SumOf
        <5> QED BY <4>2, <5>3, <5>4, <5>5 DEF SumOf
      <4> QED BY <4>1, <4>2
    <3>4. Has(m, h)
      BY <3>3 DEF Has
    <3> QED BY <2>4, <3>4
  <2> QED BY <2>5, <2>6
<1>2. PICK g : Has(Cardinality(S), g)
  <2>1. Cardinality(S) \in Nat
    BY FS_CardinalityType
  <2> QED BY <1>1, <2>1
<1>3. Upto(Cardinality(S)) = SUBSET S
  BY <1>0
<1> HIDE DEF Upto
<1> QED BY <1>2, <1>3 DEF Sums

Total(f) == FoldFunction(+, 0, f)

\* The total is such a sum, over all of S.
LEMMA SumIs ==
  ASSUME NEW S, IsFiniteSet(S), NEW f \in [S -> Nat]
  PROVE  \E g : /\ g \in [SUBSET S -> Nat]
                /\ \A s \in SUBSET S : g[s] = SumOf(f, s, g)
                /\ Total(f) = g[S]
<1> DEFINE g == CHOOSE h : Sums(f, S, h)
<1>1. Sums(f, S, g)
  BY SumsExist
<1>2. Total(f) = g[S]
  <2>1. Total(f) = (CHOOSE h : Sums(f, DOMAIN f, h))[DOMAIN f]
    BY Zenon DEF FoldFunction, FoldFunctionOnSet, MapThenFoldSet, Total, Sums, SumOf, First
  <2>2. DOMAIN f = S
    OBVIOUS
  <2> QED BY <2>1, <2>2
<1> HIDE DEF g
<1>3. \A s \in SUBSET S : g[s] = SumOf(f, s, g)
  <2> DEFINE h == [s \in SUBSET S |-> SumOf(f, s, g)]
  <2>1. g = h
    BY <1>1 DEF Sums
  <2>2. \A s \in SUBSET S : h[s] = SumOf(f, s, g)
    OBVIOUS
  <2> HIDE DEF h
  <2> QED BY <2>1, <2>2
<1>4. ASSUME NEW s \in SUBSET S, s # {}, g[s \ {First(s)}] \in Nat PROVE g[s] \in Nat
  <2>1. First(s) \in S
    BY <1>4, WithoutFirst
  <2>2. f[First(s)] \in Nat
    BY <2>1
  <2>3. g[s] = f[First(s)] + g[s \ {First(s)}]
    BY <1>3, <1>4 DEF SumOf
  <2> QED BY <1>4, <2>2, <2>3
<1>5. \A s \in SUBSET S : g[s] \in Nat
  <2> DEFINE B == {Cardinality(s) : s \in {r \in SUBSET S : g[r] \notin Nat}}
  <2>1. B \in SUBSET Nat
    BY FS_Subset, FS_CardinalityType
  <2>2. SUFFICES ASSUME B # {} PROVE FALSE
    OBVIOUS
  <2>3. PICK m \in B : \A x \in B : m <= x
    <3> HIDE DEF B
    <3> QED BY <2>1, <2>2, LeastNumber
  <2>4. PICK s \in SUBSET S : m = Cardinality(s) /\ g[s] \notin Nat
    BY <2>3
  <2>5. s # {}
    <3>1. g[{}] = 0
      BY <1>3 DEF SumOf
    <3> QED BY <2>4, <3>1
  <2> DEFINE r == s \ {First(s)}
  <2>6. r \in SUBSET S /\ Cardinality(r) = m - 1 /\ m \in Nat
    BY <2>4, <2>5, WithoutFirst
  <2>7. g[r] \notin Nat
    BY <1>4, <2>4, <2>5
  <2>8. m - 1 \in B
    BY <2>6, <2>7
  <2> HIDE DEF B
  <2> QED BY <2>3, <2>6, <2>8
<1>6. g \in [SUBSET S -> Nat]
  <2>1. g = [s \in SUBSET S |-> g[s]]
    BY <1>1 DEF Sums
  <2> QED BY <1>5, <2>1
<1> QED BY <1>2, <1>3, <1>6

\* The sum is a number, and a counter that goes up by one takes it up by one.
LEMMA SumCounts ==
  ASSUME NEW S, IsFiniteSet(S), NEW f \in [S -> Nat]
  PROVE  /\ Total(f) \in Nat
         /\ \A t \in S : Total([f EXCEPT ![t] = @ + 1]) = Total(f) + 1
<1>1. PICK g : /\ g \in [SUBSET S -> Nat]
               /\ \A s \in SUBSET S : g[s] = SumOf(f, s, g)
               /\ Total(f) = g[S]
  BY SumIs
<1>2. ASSUME NEW t \in S
      PROVE  Total([f EXCEPT ![t] = @ + 1]) = Total(f) + 1
  <2> DEFINE e == [f EXCEPT ![t] = @ + 1]
  <2>1. e \in [S -> Nat] /\ \A x \in S : e[x] = IF x = t THEN f[x] + 1 ELSE f[x]
    OBVIOUS
  <2> HIDE DEF e
  <2>2. PICK h : /\ h \in [SUBSET S -> Nat]
                 /\ \A s \in SUBSET S : h[s] = SumOf(e, s, h)
                 /\ Total(e) = h[S]
    BY <2>1, SumIs
  <2> DEFINE Right(s) == h[s] = IF t \in s THEN g[s] + 1 ELSE g[s]
  <2>3. ASSUME NEW s \in SUBSET S, s # {}, Right(s \ {First(s)}) PROVE Right(s)
    <3> DEFINE r == s \ {First(s)}
    <3>1. First(s) \in s /\ First(s) \in S /\ r \in SUBSET S
      BY <2>3, WithoutFirst
    <3>2. g[s] = f[First(s)] + g[r] /\ h[s] = e[First(s)] + h[r]
      BY <1>1, <2>2, <2>3 DEF SumOf
    <3>3. g[r] \in Nat /\ f[First(s)] \in Nat
      BY <1>1, <3>1
    <3>4. t \in r <=> t \in s /\ t # First(s)
      OBVIOUS
    <3>5. h[r] = IF t \in r THEN g[r] + 1 ELSE g[r]
      BY <2>3
    <3>6. e[First(s)] = IF First(s) = t THEN f[First(s)] + 1 ELSE f[First(s)]
      BY <2>1, <3>1
    <3> HIDE DEF r
    <3> QED BY <3>1, <3>2, <3>3, <3>4, <3>5, <3>6
  <2>4. \A s \in SUBSET S : Right(s)
    <3> DEFINE B == {Cardinality(s) : s \in {r \in SUBSET S : ~Right(r)}}
    <3>1. B \in SUBSET Nat
      BY FS_Subset, FS_CardinalityType
    <3>2. SUFFICES ASSUME B # {} PROVE FALSE
      OBVIOUS
    <3>3. PICK m \in B : \A x \in B : m <= x
      <4> HIDE DEF B
      <4> QED BY <3>1, <3>2, LeastNumber
    <3>4. PICK s \in SUBSET S : m = Cardinality(s) /\ ~Right(s)
      BY <3>3
    <3>5. s # {}
      <4>1. g[{}] = 0 /\ h[{}] = 0
        BY <1>1, <2>2 DEF SumOf
      <4> QED BY <3>4, <4>1
    <3> DEFINE r == s \ {First(s)}
    <3>6. r \in SUBSET S /\ Cardinality(r) = m - 1 /\ m \in Nat
      BY <3>4, <3>5, WithoutFirst
    <3>7. ~Right(r)
      BY <2>3, <3>4, <3>5
    <3>8. m - 1 \in B
      BY <3>6, <3>7
    <3> HIDE DEF B
    <3> QED BY <3>3, <3>6, <3>8
  <2>5. Right(S) /\ t \in S
    BY <2>4
  <2> QED BY <1>1, <2>2, <2>5 DEF e
<1> QED BY <1>1, <1>2

\* What lab2_exit sums up, in both states of a step.
LEMMA CountSumIs == count_sum = Total(counters) /\ count_sum' = Total(counters')
<1>1. count_sum = Total(counters)
  BY DEF count_sum, Total
<1>2. count_sum' = Total(counters')
  BY Zenon DEF FoldFunction, FoldFunctionOnSet, MapThenFoldSet, count_sum, Total
<1> QED BY <1>1, <1>2
=============================================================================
